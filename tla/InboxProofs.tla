--------------------------- MODULE InboxProofs ---------------------------
(***************************************************************************)
(* Inbox for every set of demands and messages, every capacity of the two  *)
(* channels, any number of lost connections and restarts: no message is    *)
(* handled twice, and a demand that is done is set back only by a handler  *)
(* that was already at work.                                               *)
(***************************************************************************)
EXTENDS Inbox, SequenceTheorems, TLAPS

IsMail(i) == i \in DOMAIN wire /\ wire[i].kind = "mail"

\* A message is in one place between the server and the end of its handling, and only once.
OnTheWire ==
    /\ \A i, j \in DOMAIN wire : IsMail(i) /\ wire[i] = wire[j] => i = j
    /\ \A i \in DOMAIN wire : IsMail(i) =>
          /\ wire[i].msg \in seen /\ wire[i].msg # cur /\ handled[wire[i].msg] = 0
          /\ wire[i] = Reply("mail", wire[i].msg)
          /\ \A j \in DOMAIN ch : ch[j] # wire[i].msg

InTheChannel ==
    /\ \A i, j \in DOMAIN ch : ch[i] = ch[j] => i = j
    /\ \A i \in DOMAIN ch : ch[i] \in seen /\ ch[i] # cur /\ handled[ch[i]] = 0

AtTheHandler ==
    /\ pc \in {"lookup", "write", "click"} => cur # None
    /\ cur # None => cur \in seen /\ handled[cur] = 0

Unseen ==
    /\ asked \cap seen = {}
    /\ \A m \in Msgs : m \notin seen => handled[m] = 0

\* Past its look-up the handler knows why the demand it is about may be done.
KnownDone ==
    pc \in {"write", "click"} /\ act \in Actions =>
        (state[act] = "COMPLETED" => act \in since \/ Token[cur] = act)

Once == OnTheWire /\ InTheChannel /\ AtTheHandler /\ Unseen /\ HandledOnce

IInv == TypeOK /\ Once /\ KnownDone

-----------------------------------------------------------------------------
\* What the sequences of a well-typed state allow.
LEMMA Pipes ==
    ASSUME TypeOK
    PROVE  /\ \A r \in Responses :
                 /\ Append(wire, r) \in Seq(Responses)
                 /\ \A n \in 0..Len(wire) : Append(SubSeq(wire, 1, n), r) \in Seq(Responses)
           /\ wire # <<>> => Head(wire) \in Responses /\ Tail(wire) \in Seq(Responses)
           /\ \A m \in Msgs : Append(ch, m) \in Seq(Msgs) /\ Len(Append(ch, m)) = Len(ch) + 1
           /\ ch # <<>> => Head(ch) \in Msgs /\ Tail(ch) \in Seq(Msgs) /\ Len(Tail(ch)) = Len(ch) - 1
           /\ Len(ch) \in Nat
<1>1. wire \in Seq(Responses) /\ ch \in Seq(Msgs)
  BY DEF TypeOK
<1>2. \A n \in 0..Len(wire) : SubSeq(wire, 1, n) \in Seq(Responses)
  BY <1>1, SubSeqProperties
<1>3. \A r \in Responses :
         /\ Append(wire, r) \in Seq(Responses)
         /\ \A n \in 0..Len(wire) : Append(SubSeq(wire, 1, n), r) \in Seq(Responses)
  BY <1>1, <1>2, AppendProperties
<1>4. wire # <<>> => Head(wire) \in Responses /\ Tail(wire) \in Seq(Responses)
  BY <1>1, HeadTailProperties
<1>5. \A m \in Msgs : Append(ch, m) \in Seq(Msgs) /\ Len(Append(ch, m)) = Len(ch) + 1
  BY <1>1, AppendProperties
<1>6. ch # <<>> => Head(ch) \in Msgs /\ Tail(ch) \in Seq(Msgs) /\ Len(Tail(ch)) = Len(ch) - 1
  BY <1>1, HeadTailProperties
<1>7. Len(ch) \in Nat
  BY <1>1, LenProperties
<1>. QED  BY <1>3, <1>4, <1>5, <1>6, <1>7

LEMMA InitType == Init => TypeOK
<1>. SUFFICES ASSUME Init PROVE TypeOK
  OBVIOUS
<1>1. wire \in Seq(Responses) /\ ch \in Seq(Msgs) /\ Len(ch) <= ChCap
  BY InboxAssumption, EmptySeq DEF Init
<1>2. updates \in 0..Cap
  BY InboxAssumption DEF Init
<1>3. /\ mails \in [Actions -> Nat] /\ handled \in [Msgs -> Nat]
      /\ todo \in Nat /\ drops \in Nat /\ stops \in Nat
  BY DEF Init, Others!Init
<1>4. replied \subseteq Actions
  BY DEF Init, Others!Init
<1>5. state \in [Actions -> States]
  BY DEF Init, Others!Init, States
<1>. QED  BY <1>1, <1>2, <1>3, <1>4, <1>5 DEF Init, TypeOK, Steps

\* The server, the connection and the client's reader.
LEMMA WireType ==
    ASSUME TypeOK,
           \/ \E m \in Msgs : Arrive(m) \/ Serve(m)
           \/ ServeDone \/ Drop \/ Reader
    PROVE  TypeOK'
<1>. USE InboxAssumption DEF rows, server, client, task, env
<1>1. ASSUME NEW m \in Msgs, Arrive(m)
      PROVE  TypeOK'
  <2>1. wire' \in Seq(Responses)
    BY <1>1, Pipes DEF Arrive, Reply, Responses, TypeOK
  <2>. QED  BY <1>1, <2>1 DEF Arrive, TypeOK
<1>2. ASSUME NEW m \in Msgs, Serve(m)
      PROVE  TypeOK'
  <2>1. wire' \in Seq(Responses)
    BY <1>2, Pipes DEF Serve, Reply, Responses
  <2>. QED  BY <1>2, <2>1 DEF Serve, TypeOK
<1>3. CASE ServeDone
  <2>1. wire' \in Seq(Responses)
    BY <1>3, Pipes DEF ServeDone, Reply, Responses
  <2>. QED  BY <1>3, <2>1 DEF ServeDone, TypeOK
<1>4. CASE Drop
  <2>1. wire' \in Seq(Responses)
    BY <1>4, Pipes DEF Drop, Reply, Responses
  <2>2. drops' \in Nat
    BY <1>4 DEF Drop, TypeOK
  <2>. QED  BY <1>4, <2>1, <2>2 DEF Drop, TypeOK
<1>5. CASE Reader
  <2>1. wire' \in Seq(Responses)
    BY <1>5, Pipes DEF Reader, ReadNotice, ReadMail, ReadDone, ReadEof, Next1
  <2>2. CASE ReadNotice
    <3>1. updates' \in 0..Cap
      BY <2>2, SMTT(30) DEF ReadNotice, TypeOK
    <3>. QED  BY <2>1, <2>2, <3>1 DEF ReadNotice, TypeOK
  <2>3. CASE ReadMail
    <3>1. Head(wire).msg \in Msgs
      BY <2>3, Pipes DEF ReadMail, Next1, Responses
    <3>2. ch' \in Seq(Msgs) /\ Len(ch') <= ChCap
      BY <2>3, <3>1, Pipes DEF ReadMail
    <3>. QED  BY <2>1, <2>3, <3>2 DEF ReadMail, TypeOK
  <2>4. CASE ReadDone
    BY <2>1, <2>4 DEF ReadDone, TypeOK
  <2>5. CASE ReadEof
    BY <2>1, <2>5 DEF ReadEof, TypeOK
  <2>. QED  BY <1>5, <2>2, <2>3, <2>4, <2>5 DEF Reader
<1>. QED  BY <1>1, <1>2, <1>3, <1>4, <1>5

\* The listener, between its messages.
LEMMA ListenerType ==
    ASSUME TypeOK,
           \/ Connect \/ SecretMissing \/ Search \/ SearchFails \/ SetAside \/ TakeMail
           \/ DrainReturns \/ Wake \/ IdleTimeout \/ IdleEnds \/ Reconnect
    PROVE  TypeOK'
<1>. USE InboxAssumption DEF rows, server, client, task, env, Goto, Steps
<1>0. <<>> \in Seq(Responses) /\ <<>> \in Seq(Msgs) /\ Len(<<>>) <= ChCap
  BY EmptySeq
<1>1. CASE Connect
  <2>1. updates' \in 0..Cap
    BY <1>1 DEF Connect, FreshClient
  <2>. QED  BY <1>0, <1>1, <2>1 DEF Connect, FreshClient, TypeOK
<1>2. CASE SecretMissing
  BY <1>2 DEF SecretMissing, TypeOK
<1>3. CASE Search
  BY <1>0, <1>3 DEF Search, TypeOK
<1>4. CASE SearchFails
  BY <1>4 DEF SearchFails, TypeOK
<1>5. CASE SetAside
  <2>1. ch' \in Seq(Msgs) /\ Len(ch') <= ChCap
    BY <1>5, Pipes DEF SetAside, Take, TypeOK
  <2>2. handled' \in [Msgs -> Nat]
    BY <1>5 DEF SetAside, TypeOK
  <2>. QED  BY <1>5, <2>1, <2>2 DEF SetAside, TypeOK
<1>6. CASE TakeMail
  <2>1. ch' \in Seq(Msgs) /\ Len(ch') <= ChCap /\ Head(ch) \in Msgs
    BY <1>6, Pipes DEF TakeMail, Take, TypeOK
  <2>. QED  BY <1>6, <2>1 DEF TakeMail, TypeOK
<1>7. CASE DrainReturns
  BY <1>7 DEF DrainReturns, TypeOK
<1>8. CASE Wake
  <2>1. updates' \in 0..Cap
    BY <1>8 DEF Wake, TypeOK
  <2>2. owes' \in BOOLEAN /\ answered' \in BOOLEAN
    BY <1>8 DEF Wake, TypeOK
  <2>. QED  BY <1>8, <2>1, <2>2 DEF Wake, TypeOK
<1>9. CASE IdleTimeout
  BY <1>9 DEF IdleTimeout, TypeOK
<1>10. CASE IdleEnds
  BY <1>10 DEF IdleEnds, TypeOK
<1>11. CASE Reconnect
  BY <1>11 DEF Reconnect, TypeOK
<1>. QED  BY <1>1, <1>2, <1>3, <1>4, <1>5, <1>6, <1>7, <1>8, <1>9, <1>10, <1>11

LEMMA StateType ==
    ASSUME TypeOK, NEW a, NEW s \in {"SUBMITTED", "AWAITING_CONFIRMATION", "AWAITING_MANUAL",
                                     "COMPLETED"},
           UpdateActionState(a, s)
    PROVE  /\ state' \in [Actions -> States]
           /\ a \in Actions \cup {None} => replied' \subseteq Actions
           /\ a \in Actions => state'[a] = s
           /\ \A b \in Actions \ {a} : state'[b] = state[b]
  BY InboxAssumption DEF TypeOK, UpdateActionState, States

\* The end of a message.
LEMMA HandledType ==
    ASSUME TypeOK, Handled
    PROVE  handled' \in [Msgs -> Nat] /\ todo' = 0 /\ pc' = "fetch" /\ cur' = None /\ act' = None
<1>1. handled' \in [Msgs -> Nat]
  <2>1. CASE cur \in Msgs
    BY <2>1 DEF Handled, TypeOK
  <2>2. CASE cur \notin Msgs
    BY <2>2 DEF Handled, TypeOK
  <2>. QED  BY <2>1, <2>2
<1>. QED  BY <1>1 DEF Handled, NoTask, Goto

LEMMA HandlerType ==
    ASSUME TypeOK, HandleIMAP
    PROVE  TypeOK'
<1>. USE InboxAssumption DEF rows, server, client, task, env, Goto, Steps
<1>1. CASE Lookup
  <2>1. act' \in Actions \cup {None}
    BY <1>1 DEF Lookup, GetActionByTracking, LatestAwaitingByBroker
  <2>. QED  BY <1>1, <2>1 DEF Lookup, TypeOK
<1>2. CASE Write
  <2>1. state' \in [Actions -> States] /\ replied' \subseteq Actions
    <3>1. CASE UNCHANGED <<state, replied>>
      BY <3>1 DEF TypeOK
    <3>2. PICK st \in {"AWAITING_CONFIRMATION", "SUBMITTED"} :
             UNCHANGED <<state, replied>> \/ UpdateActionState(act, st)
      BY <1>2 DEF Write
    <3>3. act \in Actions \cup {None}
      BY DEF TypeOK
    <3>. QED  BY <3>1, <3>2, <3>3, StateType
  <2>2. handled' \in [Msgs -> Nat] /\ todo' \in Nat /\ pc' \in Steps
        /\ cur' \in Msgs \cup {None} /\ act' \in Actions \cup {None}
    <3>1. CASE Handled
      BY <3>1, HandledType
    <3>2. CASE Goto("click") /\ UNCHANGED <<cur, act, todo, handled>>
      BY <3>2 DEF TypeOK
    <3>. QED  BY <1>2, <3>1, <3>2 DEF Write
  <2>. QED  BY <1>2, <2>1, <2>2 DEF Write, TypeOK
<1>3. CASE Click
  <2>1. PICK page \in Pages : Says(page)
    BY <1>3 DEF Click
  <2>2. /\ state' \in [Actions -> States] /\ replied' \subseteq Actions
        /\ since' \subseteq Actions
    <3>1. CASE page = "challenge"
      BY <2>1, <3>1, StateType DEF Says, TypeOK
    <3>2. CASE page = "confirmed"
      BY <2>1, <3>2, StateType, SMTT(30) DEF Says, TypeOK
    <3>3. CASE page = "other"
      BY <2>1, <3>3 DEF Says, TypeOK
    <3>. QED  BY <3>1, <3>2, <3>3 DEF Pages
  <2>3. handled' \in [Msgs -> Nat] /\ todo' \in Nat /\ pc' \in Steps
        /\ cur' \in Msgs \cup {None} /\ act' \in Actions \cup {None}
    <3>1. CASE Handled
      BY <3>1, HandledType
    <3>2. CASE todo > 1 /\ todo' = todo - 1 /\ UNCHANGED <<pc, cur, act, handled>>
      <4>1. todo' \in Nat
        BY <3>2 DEF TypeOK
      <4>. QED  BY <3>2, <4>1 DEF TypeOK
    <3>. QED  BY <1>3, <3>1, <3>2 DEF Click, AfterLink
  <2>. QED  BY <1>3, <2>2, <2>3 DEF Click, TypeOK
<1>. QED  BY <1>1, <1>2, <1>3 DEF HandleIMAP

\* Stops, restarts, and the other writers.
LEMMA OthersType ==
    ASSUME TypeOK,
           Cancel \/ Return \/ Restart \/ Elsewhere \/ \E a \in Actions : CompleteAction(a)
    PROVE  TypeOK'
<1>. USE InboxAssumption DEF rows, server, client, task, env, Goto, Steps
<1>1. CASE Cancel
  <2>1. stops' \in Nat
    BY <1>1 DEF Cancel, TypeOK
  <2>. QED  BY <1>1, <2>1 DEF Cancel, TypeOK
<1>2. CASE Return
  <2>1. <<>> \in Seq(Responses) /\ <<>> \in Seq(Msgs) /\ Len(<<>>) <= ChCap /\ 0 \in 0..Cap
    BY EmptySeq
  <2>. QED  BY <1>2, <2>1 DEF Return, NoTask, FreshClient, TypeOK
<1>3. CASE Restart
  BY <1>3 DEF Restart, TypeOK
<1>4. CASE Elsewhere
  <2>1. /\ state' \in [Actions -> States]
        /\ mails' \in [Actions -> Nat] /\ replied' \subseteq Actions
    <3>1. PICK a \in Actions :
            Others!Ask(a) \/ Others!Mail(a) \/ Others!ShowSent(a) \/ Others!Fail(a)
      BY <1>4 DEF Elsewhere
    <3>2. CASE Others!Ask(a)
      BY <3>2 DEF Others!Ask, Others!Set, TypeOK, States
    <3>3. CASE Others!Mail(a)
      BY <3>3 DEF Others!Mail, TypeOK
    <3>4. CASE Others!ShowSent(a)
      BY <3>4 DEF Others!ShowSent, Others!Set, TypeOK, States
    <3>5. CASE Others!Fail(a)
      BY <3>5 DEF Others!Fail, Others!Set, TypeOK, States
    <3>. QED  BY <3>1, <3>2, <3>3, <3>4, <3>5
  <2>. QED  BY <1>4, <2>1 DEF Elsewhere, TypeOK
<1>5. ASSUME NEW a \in Actions, CompleteAction(a)
      PROVE  TypeOK'
  <2>1. state' \in [Actions -> States]
    BY <1>5 DEF CompleteAction, Others!Complete, Others!Set, TypeOK, States
  <2>. QED  BY <1>5, <2>1 DEF CompleteAction, Others!Complete, TypeOK
<1>. QED  BY <1>1, <1>2, <1>3, <1>4, <1>5

LEMMA TypeStep ==
    ASSUME TypeOK, [Next]_vars
    PROVE  TypeOK'
<1>1. CASE Next
  BY <1>1, WireType, ListenerType, HandlerType, OthersType DEF Next, Goroutine
<1>2. CASE UNCHANGED vars
  BY <1>2 DEF vars, rows, server, client, task, env, TypeOK
<1>. QED  BY <1>1, <1>2

-----------------------------------------------------------------------------
(***************************************************************************)
(* One place for each message.                                             *)
(***************************************************************************)
\* New mail, and the end of a command, put no message on the wire.
LEMMA NoticeStep ==
    ASSUME TypeOK, Once, NEW r \in Responses, r.kind # "mail",
           wire' = wire \/ wire' = Append(wire, r),
           asked' \subseteq asked,
           UNCHANGED <<seen, ch, pc, cur, handled>>
    PROVE  Once'
<1>1. /\ wire \in Seq(Responses)
      /\ \A i \in DOMAIN wire' : wire'[i].kind = "mail" => i \in DOMAIN wire /\ wire'[i] = wire[i]
  <2>1. wire \in Seq(Responses)
    BY DEF TypeOK
  <2>2. CASE wire' = wire
    BY <2>1, <2>2
  <2>3. CASE wire' = Append(wire, r)
    BY <2>1, <2>3, AppendProperties
  <2>. QED  BY <2>1, <2>2, <2>3
<1>2. OnTheWire'
  BY <1>1 DEF Once, OnTheWire, IsMail
<1>. QED  BY <1>2 DEF Once, InTheChannel, AtTheHandler, Unseen, HandledOnce

LEMMA ServeStep ==
    ASSUME TypeOK, Once, NEW m \in Msgs, Serve(m)
    PROVE  Once'
<1>. USE DEF Reply
<1>1. m \notin seen /\ seen' = seen \cup {m} /\ handled[m] = 0
  BY DEF Serve, Once, Unseen
<1>2. m # cur /\ \A j \in DOMAIN ch : ch[j] # m
  BY <1>1, InboxAssumption DEF Once, AtTheHandler, InTheChannel
<1>3. \A i \in DOMAIN wire : IsMail(i) => wire[i].msg # m
  BY <1>1 DEF Once, OnTheWire
<1>4. /\ DOMAIN wire \subseteq DOMAIN wire'
      /\ \A i \in DOMAIN wire' : \/ i \in DOMAIN wire /\ wire'[i] = wire[i]
                                 \/ i = Len(wire) + 1 /\ wire'[i] = [kind |-> "mail", msg |-> m]
  <2>1. wire \in Seq(Responses) /\ [kind |-> "mail", msg |-> m] \in Responses
    BY DEF TypeOK, Responses
  <2>. QED  BY <2>1, AppendProperties DEF Serve
<1>5. OnTheWire'
  BY <1>1, <1>2, <1>3, <1>4 DEF Once, OnTheWire, IsMail, Serve, client, task
<1>6. InTheChannel' /\ AtTheHandler'
  BY <1>1 DEF Once, InTheChannel, AtTheHandler, Serve, client, task
<1>7. Unseen' /\ HandledOnce'
  BY <1>1 DEF Once, Unseen, HandledOnce, Serve
<1>. QED  BY <1>5, <1>6, <1>7 DEF Once

LEMMA DropStep ==
    ASSUME TypeOK, Once, Drop
    PROVE  Once'
<1>1. PICK n \in 0..Len(wire) : wire' = Append(SubSeq(wire, 1, n), Reply("eof", None))
  BY DEF Drop
<1>2. /\ DOMAIN wire' = 1..(n + 1)
      /\ \A i \in 1..n : i \in DOMAIN wire /\ wire'[i] = wire[i]
      /\ wire'[n + 1].kind = "eof"
  <2>1. wire \in Seq(Responses) /\ Reply("eof", None) \in Responses
    BY DEF TypeOK, Responses, Reply
  <2>2. /\ SubSeq(wire, 1, n) \in Seq(Responses) /\ Len(SubSeq(wire, 1, n)) = n
        /\ \A i \in 1..n : SubSeq(wire, 1, n)[i] = wire[i]
    BY <2>1, SubSeqProperties
  <2>3. wire'[n + 1] = Reply("eof", None) /\ DOMAIN wire' = 1..(n + 1)
        /\ \A i \in 1..n : wire'[i] = SubSeq(wire, 1, n)[i]
    BY <1>1, <2>1, <2>2, AppendProperties
  <2>. QED  BY <2>1, <2>2, <2>3, LenProperties DEF Reply
<1>3. \A i \in DOMAIN wire' : wire'[i].kind = "mail" => i \in DOMAIN wire /\ wire'[i] = wire[i]
  BY <1>2
<1>4. OnTheWire'
  BY <1>3, SMTT(30) DEF Once, OnTheWire, IsMail, Drop, client, task
<1>. QED  BY <1>4 DEF Once, InTheChannel, AtTheHandler, Unseen, HandledOnce, Drop, client, task

\* The head of a sequence is gone, the rest moved up.
LEMMA TailMoves ==
    ASSUME NEW S, NEW q \in Seq(S), q # <<>>
    PROVE  /\ 1 \in DOMAIN q /\ Head(q) = q[1]
           /\ \A i \in DOMAIN Tail(q) : i \in Nat /\ i >= 1 /\ i + 1 \in DOMAIN q /\ Tail(q)[i] = q[i + 1]
  BY HeadTailProperties, LenProperties

LEMMA MailHasMessage ==
    ASSUME NEW r \in Responses, r.kind = "mail"
    PROVE  r.msg \in Msgs
<1>1. CASE r \in [kind : {"mail"}, msg : Msgs]
  BY <1>1
<1>2. CASE r \in [kind : {"exists", "done", "eof"}, msg : {None}]
  BY <1>2
<1>. QED  BY <1>1, <1>2 DEF Responses

LEMMA ReaderStep ==
    ASSUME TypeOK, Once, Reader
    PROVE  Once'
<1>. USE DEF server, task, env
<1>1. /\ wire \in Seq(Responses) /\ wire # <<>> /\ wire' = Tail(wire) /\ ch \in Seq(Msgs)
      /\ UNCHANGED <<seen, asked, pc, cur, handled>>
  BY DEF Reader, ReadNotice, ReadMail, ReadDone, ReadEof, Next1, TypeOK
<1>2. /\ 1 \in DOMAIN wire /\ Head(wire) = wire[1]
      /\ \A i \in DOMAIN wire' : i \in Nat /\ i >= 1 /\ i + 1 \in DOMAIN wire /\ wire'[i] = wire[i + 1]
  BY <1>1, TailMoves
<1>3. /\ \A i, j \in DOMAIN wire' : wire'[i].kind = "mail" /\ wire'[i] = wire'[j] => i = j
      /\ \A i \in DOMAIN wire' : wire'[i].kind = "mail" =>
            /\ wire'[i].msg \in seen /\ wire'[i].msg # cur /\ handled[wire'[i].msg] = 0
            /\ wire'[i] = Reply("mail", wire'[i].msg)
            /\ wire'[i] # wire[1]
            /\ \A j \in DOMAIN ch : ch[j] # wire'[i].msg
  <2>1. \A i, j \in DOMAIN wire' : wire'[i].kind = "mail" /\ wire'[i] = wire'[j] => i + 1 = j + 1
    BY <1>2 DEF Once, OnTheWire, IsMail
  <2>2. \A i \in DOMAIN wire' : wire'[i].kind = "mail" /\ wire'[i] = wire[1] => i + 1 = 1
    BY <1>2 DEF Once, OnTheWire, IsMail
  <2>3. \A i \in DOMAIN wire' : wire'[i].kind = "mail" =>
            /\ wire'[i].msg \in seen /\ wire'[i].msg # cur /\ handled[wire'[i].msg] = 0
            /\ wire'[i] = Reply("mail", wire'[i].msg)
            /\ \A j \in DOMAIN ch : ch[j] # wire'[i].msg
    BY <1>2 DEF Once, OnTheWire, IsMail
  <2>. QED  BY <1>2, <2>1, <2>2, <2>3
<1>4. CASE ReadMail
  <2>1. wire[1].kind = "mail" /\ ch' = Append(ch, wire[1].msg) /\ wire[1].msg \in Msgs
    <3>1. wire[1].kind = "mail" /\ ch' = Append(ch, wire[1].msg)
      BY <1>2, <1>4 DEF ReadMail, Next1
    <3>2. wire[1] \in Responses
      BY <1>1, <1>2
    <3>. QED  BY <3>1, <3>2, MailHasMessage
  <2>2. /\ wire[1].msg \in seen /\ wire[1].msg # cur /\ handled[wire[1].msg] = 0
        /\ wire[1] = Reply("mail", wire[1].msg)
        /\ \A j \in DOMAIN ch : ch[j] # wire[1].msg
    BY <1>2, <2>1 DEF Once, OnTheWire, IsMail
  <2>3. \A i \in DOMAIN ch' : \/ i \in DOMAIN ch /\ ch'[i] = ch[i]
                              \/ i = Len(ch) + 1 /\ ch'[i] = wire[1].msg
    BY <1>1, <2>1, AppendProperties
  <2>4. OnTheWire'
    <3>1. \A i \in DOMAIN wire' : wire'[i].kind = "mail" =>
             \A j \in DOMAIN ch' : ch'[j] # wire'[i].msg
      BY <1>3, <2>2, <2>3 DEF Reply
    <3>. QED  BY <1>1, <1>3, <3>1 DEF OnTheWire, IsMail
  <2>5. InTheChannel'
    BY <1>1, <2>2, <2>3 DEF Once, InTheChannel
  <2>. QED  BY <1>1, <2>4, <2>5 DEF Once, AtTheHandler, Unseen, HandledOnce
<1>5. CASE ~ReadMail
  <2>1. ch' = ch
    BY <1>5 DEF Reader, ReadNotice, ReadDone, ReadEof
  <2>2. OnTheWire'
    BY <1>1, <1>3, <2>1 DEF OnTheWire, IsMail
  <2>. QED  BY <1>1, <2>1, <2>2 DEF Once, InTheChannel, AtTheHandler, Unseen, HandledOnce
<1>. QED  BY <1>4, <1>5

\* A message leaves the channel: it is set aside, or it is the handler's.
LEMMA TakeStep ==
    ASSUME TypeOK, Once, SetAside \/ TakeMail
    PROVE  Once'
<1>. USE DEF server, task, env
<1>1. /\ ch \in Seq(Msgs) /\ ch # <<>> /\ ch' = Tail(ch) /\ pc = "fetch"
      /\ UNCHANGED <<wire, seen, asked>>
  BY DEF SetAside, TakeMail, Take, TypeOK
<1>2. /\ 1 \in DOMAIN ch /\ Head(ch) = ch[1] /\ ch[1] \in Msgs
      /\ \A i \in DOMAIN ch' : i \in Nat /\ i >= 1 /\ i + 1 \in DOMAIN ch /\ ch'[i] = ch[i + 1]
  BY <1>1, TailMoves
<1>3. ch[1] \in seen /\ ch[1] # cur /\ handled[ch[1]] = 0
  BY <1>2 DEF Once, InTheChannel
<1>4. \A i \in DOMAIN ch' : ch'[i] # ch[1] /\ ch'[i] \in seen /\ ch'[i] # cur /\ handled[ch'[i]] = 0
  <2>1. \A i \in DOMAIN ch' : ch[i + 1] = ch[1] => i + 1 = 1
    BY <1>2 DEF Once, InTheChannel
  <2>. QED  BY <1>2, <2>1 DEF Once, InTheChannel
<1>5. \A i, j \in DOMAIN ch' : ch'[i] = ch'[j] => i = j
  <2>1. \A i, j \in DOMAIN ch' : ch'[i] = ch'[j] => i + 1 = j + 1
    BY <1>2 DEF Once, InTheChannel
  <2>. QED  BY <1>2, <2>1
<1>6. \A i \in DOMAIN wire : IsMail(i) =>
         wire[i].msg # ch[1] /\ \A j \in DOMAIN ch' : ch'[j] # wire[i].msg
  BY <1>2 DEF Once, OnTheWire
<1>7. CASE SetAside
  <2>1. handled' = [handled EXCEPT ![ch[1]] = @ + 1] /\ UNCHANGED <<pc, cur>>
    BY <1>2, <1>7 DEF SetAside
  <2>2. handled \in [Msgs -> Nat]
    BY DEF TypeOK
  <2>3. handled'[ch[1]] = 1 /\ \A m \in Msgs \ {ch[1]} : handled'[m] = handled[m]
    BY <1>2, <1>3, <2>1, <2>2
  <2>4. \A m \in Msgs : handled'[m] <= 1
    BY <2>3 DEF Once, HandledOnce
  <2>5. OnTheWire'
    <3>1. \A i \in DOMAIN wire : IsMail(i) => wire[i].msg \in Msgs
      BY DEF Once, OnTheWire, TypeOK
    <3>. QED  BY <1>1, <1>6, <2>1, <2>3, <3>1 DEF Once, OnTheWire, IsMail
  <2>6. InTheChannel'
    <3>1. \A i \in DOMAIN ch' : ch'[i] \in Msgs
      BY <1>4 DEF TypeOK
    <3>. QED  BY <1>1, <1>4, <1>5, <2>1, <2>3, <3>1 DEF InTheChannel
  <2>7. AtTheHandler'
    <3>1. cur # None => cur \in Msgs \ {ch[1]}
      BY <1>3 DEF TypeOK
    <3>. QED  BY <1>1, <2>1, <2>3, <3>1 DEF Once, AtTheHandler
  <2>8. Unseen'
    BY <1>1, <1>3, <2>3 DEF Once, Unseen
  <2>. QED  BY <2>4, <2>5, <2>6, <2>7, <2>8 DEF Once, HandledOnce
<1>8. CASE TakeMail
  <2>1. cur' = ch[1] /\ handled' = handled
    BY <1>2, <1>8 DEF TakeMail
  <2>2. OnTheWire'
    BY <1>1, <1>6, <2>1 DEF Once, OnTheWire, IsMail
  <2>3. InTheChannel'
    BY <1>1, <1>4, <1>5, <2>1 DEF InTheChannel
  <2>4. AtTheHandler'
    BY <1>1, <1>2, <1>3, <2>1, InboxAssumption DEF AtTheHandler
  <2>. QED  BY <1>1, <2>1, <2>2, <2>3, <2>4 DEF Once, Unseen, HandledOnce
<1>. QED  BY <1>7, <1>8

\* The end of a message.
LEMMA HandledStep ==
    ASSUME TypeOK, Once, cur # None, Handled, UNCHANGED <<wire, seen, asked, ch>>
    PROVE  Once'
<1>1. /\ handled \in [Msgs -> Nat] /\ cur \in Msgs /\ cur \in seen /\ handled[cur] = 0
      /\ handled' = [handled EXCEPT ![cur] = @ + 1] /\ cur' = None /\ pc' = "fetch"
  BY DEF TypeOK, Once, AtTheHandler, Handled, NoTask, Goto
<1>2. handled'[cur] = 1 /\ \A m \in Msgs \ {cur} : handled'[m] = handled[m]
  BY <1>1
<1>3. OnTheWire'
  <2>1. \A i \in DOMAIN wire : IsMail(i) => wire[i].msg \in Msgs \ {cur} /\ wire[i].msg # None
    BY InboxAssumption DEF Once, OnTheWire, TypeOK
  <2>. QED  BY <1>1, <1>2, <2>1 DEF Once, OnTheWire, IsMail
<1>4. InTheChannel'
  <2>1. \A i \in DOMAIN ch : ch[i] \in Msgs \ {cur} /\ ch[i] # None
    BY InboxAssumption DEF Once, InTheChannel, TypeOK
  <2>. QED  BY <1>1, <1>2, <2>1 DEF Once, InTheChannel
<1>5. AtTheHandler' /\ Unseen'
  BY <1>1, <1>2 DEF Once, AtTheHandler, Unseen
<1>6. HandledOnce'
  BY <1>2 DEF Once, HandledOnce
<1>. QED  BY <1>3, <1>4, <1>5, <1>6 DEF Once

LEMMA HandlerStep ==
    ASSUME TypeOK, Once, HandleIMAP
    PROVE  Once'
<1>. USE DEF server, client
<1>1. /\ cur # None /\ pc \in {"lookup", "write", "click"}
      /\ UNCHANGED <<wire, seen, asked, ch>>
  BY DEF HandleIMAP, Lookup, Write, Click, Once, AtTheHandler
<1>2. CASE Handled
  BY <1>1, <1>2, HandledStep
<1>3. CASE UNCHANGED <<cur, handled>>
  BY <1>1, <1>3 DEF Once, OnTheWire, IsMail, InTheChannel, AtTheHandler, Unseen, HandledOnce
<1>4. Handled \/ UNCHANGED <<cur, handled>>
  BY DEF HandleIMAP, Lookup, Write, Click, AfterLink
<1>. QED  BY <1>2, <1>3, <1>4

\* A new connection, and the end of the goroutine, start with nothing on the way.
LEMMA EmptyStep ==
    ASSUME TypeOK, Once, wire' = <<>> /\ ch' = <<>>, asked' = {}, UNCHANGED <<seen, handled>>,
           \/ pc' = "drain" /\ UNCHANGED cur
           \/ pc' = "off" /\ cur' = None
    PROVE  Once'
<1>1. DOMAIN wire' = {} /\ DOMAIN ch' = {}
  OBVIOUS
<1>. QED  BY <1>1 DEF Once, OnTheWire, IsMail, InTheChannel, AtTheHandler, Unseen, HandledOnce

\* The other steps of the listener.
LEMMA ListenerStep ==
    ASSUME TypeOK, Once,
           \/ SecretMissing \/ SearchFails \/ DrainReturns \/ Wake \/ IdleTimeout \/ IdleEnds
           \/ Reconnect \/ Restart
    PROVE  Once'
<1>1. /\ UNCHANGED <<wire, ch, seen, asked, cur, handled>>
      /\ pc' \notin {"lookup", "write", "click"}
  BY DEF SecretMissing, SearchFails, DrainReturns, Wake, IdleTimeout, IdleEnds, Reconnect,
         Restart, Goto, server, client, task
<1>. QED  BY <1>1 DEF Once, OnTheWire, IsMail, InTheChannel, AtTheHandler, Unseen, HandledOnce

LEMMA SearchStep ==
    ASSUME TypeOK, Once, Search
    PROVE  Once'
<1>1. /\ ch' = <<>> /\ asked' = arrived \ seen /\ pc' = "fetch"
      /\ UNCHANGED <<wire, seen, cur, handled>>
  BY DEF Search, Goto, task
<1>2. DOMAIN ch' = {}
  BY <1>1
<1>. QED  BY <1>1, <1>2 DEF Once, OnTheWire, IsMail, InTheChannel, AtTheHandler, Unseen, HandledOnce

LEMMA OnceStep ==
    ASSUME TypeOK, Once, [Next]_vars
    PROVE  Once'
<1>1. ASSUME NEW m \in Msgs, Arrive(m)
      PROVE  Once'
  <2>1. Reply("exists", None) \in Responses /\ Reply("exists", None).kind # "mail"
    BY DEF Reply, Responses
  <2>2. /\ wire' = wire \/ wire' = Append(wire, Reply("exists", None))
        /\ UNCHANGED <<asked, seen, ch, pc, cur, handled>>
    BY <1>1 DEF Arrive, client, task
  <2>. QED  BY <2>1, <2>2, NoticeStep
<1>2. CASE ServeDone
  <2>1. Reply("done", None) \in Responses /\ Reply("done", None).kind # "mail"
    BY DEF Reply, Responses
  <2>2. /\ wire' = Append(wire, Reply("done", None))
        /\ UNCHANGED <<asked, seen, ch, pc, cur, handled>>
    BY <1>2 DEF ServeDone, client, task
  <2>. QED  BY <2>1, <2>2, NoticeStep
<1>3. CASE Connect
  <2>1. /\ wire' = <<>> /\ ch' = <<>> /\ asked' = {} /\ pc' = "drain"
        /\ UNCHANGED <<seen, handled, cur>>
    BY <1>3 DEF Connect, FreshClient, Goto, task
  <2>. QED  BY <2>1, EmptyStep
<1>4. CASE Return
  <2>1. /\ wire' = <<>> /\ ch' = <<>> /\ asked' = {} /\ pc' = "off" /\ cur' = None
        /\ UNCHANGED <<seen, handled>>
    BY <1>4 DEF Return, FreshClient, Goto, NoTask
  <2>. QED  BY <2>1, EmptyStep
<1>5. CASE Cancel \/ Elsewhere \/ (\E a \in Actions : CompleteAction(a)) \/ UNCHANGED vars
  <2>1. UNCHANGED <<wire, ch, seen, asked, pc, cur, handled>>
    BY <1>5 DEF Cancel, Elsewhere, CompleteAction, vars, server, client, task
  <2>. QED  BY <2>1 DEF Once, OnTheWire, IsMail, InTheChannel, AtTheHandler, Unseen, HandledOnce
<1>. QED  BY <1>1, <1>2, <1>3, <1>4, <1>5, ServeStep, DropStep, ReaderStep, TakeStep,
            HandlerStep, ListenerStep, SearchStep DEF Next, Goroutine

-----------------------------------------------------------------------------
(***************************************************************************)
(* What the handler knows.                                                 *)
(***************************************************************************)
LEMMA KnownStep ==
    ASSUME TypeOK, Once, KnownDone, [Next]_vars
    PROVE  KnownDone'
<1>1. CASE Lookup
  <2>1. act' \in Actions => state[act'] # "COMPLETED" \/ Token[cur] = act'
    BY <1>1, InboxAssumption DEF Lookup, GetActionByTracking, LatestAwaitingByBroker, Awaiting
  <2>. QED  BY <1>1, <2>1 DEF Lookup, KnownDone, rows
<1>2. CASE Write
  <2>1. CASE Handled
    BY <2>1 DEF Handled, Goto, KnownDone
  <2>2. CASE UNCHANGED <<cur, act, todo, handled>>
    <3>1. CASE UNCHANGED <<state, replied>>
      BY <1>2, <2>2, <3>1 DEF Write, KnownDone
    <3>2. CASE ~UNCHANGED <<state, replied>>
      <4>1. act \in Actions => state'[act] # "COMPLETED"
        BY <1>2, <3>2, StateType DEF Write
      <4>. QED  BY <2>2, <4>1 DEF KnownDone
    <3>. QED  BY <3>1, <3>2
  <2>. QED  BY <1>2, <2>1, <2>2 DEF Write
<1>3. CASE Click
  <2>1. CASE Handled
    BY <2>1 DEF Handled, Goto, KnownDone
  <2>2. CASE UNCHANGED <<pc, cur, act, handled>>
    <3>1. PICK page \in Pages : Says(page)
      BY <1>3 DEF Click
    <3>2. CASE page = "challenge"
      <4>1. act \in Actions => state'[act] # "COMPLETED"
        BY <3>1, <3>2, StateType DEF Says
      <4>. QED  BY <2>2, <4>1 DEF KnownDone
    <3>3. CASE page = "confirmed"
      <4>1. act \in Actions => act \in since'
        BY <3>1, <3>3, InboxAssumption DEF Says
      <4>. QED  BY <2>2, <4>1 DEF KnownDone
    <3>4. CASE page = "other"
      BY <1>3, <2>2, <3>1, <3>4 DEF Says, KnownDone, Click
    <3>. QED  BY <3>2, <3>3, <3>4 DEF Pages
  <2>. QED  BY <1>3, <2>1, <2>2 DEF Click, AfterLink
<1>4. CASE Elsewhere
  <2>1. UNCHANGED <<pc, cur, act, since>>
    BY <1>4 DEF Elsewhere, task
  <2>2. \A a \in Actions : state'[a] = "COMPLETED" => state[a] = "COMPLETED"
    <3>1. PICK a \in Actions :
            Others!Ask(a) \/ Others!Mail(a) \/ Others!ShowSent(a) \/ Others!Fail(a)
      BY <1>4 DEF Elsewhere
    <3>. QED  BY <3>1 DEF Others!Ask, Others!Mail, Others!ShowSent, Others!Fail, Others!Set, TypeOK
  <2>. QED  BY <2>1, <2>2 DEF KnownDone
<1>5. ASSUME NEW a \in Actions, CompleteAction(a)
      PROVE  KnownDone'
  <2>1. UNCHANGED <<pc, cur, act>> /\ since' = since \cup {a}
    BY <1>5 DEF CompleteAction
  <2>2. \A b \in Actions \ {a} : state'[b] = state[b]
    BY <1>5 DEF CompleteAction, Others!Complete, Others!Set, TypeOK
  <2>. QED  BY <2>1, <2>2 DEF KnownDone
<1>6. CASE \/ Connect \/ SecretMissing \/ Search \/ SearchFails \/ SetAside \/ TakeMail
           \/ DrainReturns \/ Wake \/ IdleTimeout \/ IdleEnds \/ Reconnect \/ Return \/ Restart
  <2>1. pc' \notin {"write", "click"}
    BY <1>6 DEF Connect, SecretMissing, Search, SearchFails, SetAside, Take, TakeMail,
                DrainReturns, Wake, IdleTimeout, IdleEnds, Reconnect, Return, Restart, Goto
  <2>. QED  BY <2>1 DEF KnownDone
<1>7. CASE \/ \E m \in Msgs : Arrive(m) \/ Serve(m)
           \/ ServeDone \/ Drop \/ Reader \/ Cancel \/ UNCHANGED vars
  <2>1. UNCHANGED <<state, pc, cur, act, since>>
    BY <1>7 DEF Arrive, Serve, ServeDone, Drop, Reader, ReadNotice, ReadMail, ReadDone, ReadEof,
                Cancel, vars, rows, task
  <2>. QED  BY <2>1 DEF KnownDone
<1>. QED  BY <1>1, <1>2, <1>3, <1>4, <1>5, <1>6, <1>7 DEF Next, Goroutine, HandleIMAP

-----------------------------------------------------------------------------
(***************************************************************************)
(* Nothing is overlooked on a connection that holds.                       *)
(***************************************************************************)
Fetching == {"fetch", "lookup", "write", "click"}

Kind(i) == wire[i].kind

\* Only the handler has a message in its hands.
Free == pc \notin {"lookup", "write", "click"} => cur = None

\* What holds as long as no connection was lost and the daemon was not stopped.
Steady ==
    /\ ~cancelled /\ ~gone /\ \A i \in DOMAIN wire : Kind(i) # "eof"
    /\ pc \in {"backoff", "off"} => seen = {}

\* Messages are asked for, sent and passed on within one FETCH: it is completed behind the last
\* of them, and no completion of another command is taken for its own.
Orderly ==
    /\ asked # {} => owes /\ pc \in Fetching
    /\ ch # <<>> => pc \in Fetching
    /\ owes \/ answered \/ pc \in {"drain", "idle"} => \A i \in DOMAIN wire : Kind(i) # "done"
    /\ owes => ~answered /\ pc \notin {"drain", "idle"}
    /\ \A i \in DOMAIN wire : Kind(i) = "mail" => ~answered /\ pc \in Fetching
    /\ \A i, j \in DOMAIN wire : Kind(j) = "done" /\ Kind(i) \in {"mail", "done"} => i <= j

Kept == \A m \in seen : handled[m] > 0 \/ InFlight(m)

Watched == Free /\ (drops + stops = 0 => Steady /\ Orderly /\ Kept)

LEMMA Grows ==
    ASSUME NEW S, NEW q \in Seq(S), NEW r \in S
    PROVE  /\ \A i \in DOMAIN q : /\ i \in DOMAIN Append(q, r) /\ Append(q, r)[i] = q[i]
                                  /\ i \in Nat /\ i < Len(q) + 1
           /\ \A i \in DOMAIN Append(q, r) : \/ i \in DOMAIN q /\ Append(q, r)[i] = q[i]
                                             \/ i = Len(q) + 1 /\ Append(q, r)[i] = r
           /\ Len(q) + 1 \in DOMAIN Append(q, r) /\ Append(q, r)[Len(q) + 1] = r
           /\ Len(q) \in Nat /\ Append(q, r) # <<>>
  BY AppendProperties, LenProperties

LEMMA Shrinks ==
    ASSUME NEW S, NEW q \in Seq(S), q # <<>>
    PROVE  \A j \in DOMAIN q : j = 1 \/ (j - 1 \in DOMAIN Tail(q) /\ Tail(q)[j - 1] = q[j])
<1>1. Len(Tail(q)) = Len(q) - 1 /\ \A i \in 1..Len(Tail(q)) : Tail(q)[i] = q[i + 1]
  BY HeadTailProperties
<1>2. Len(q) \in Nat /\ DOMAIN q = 1..Len(q) /\ DOMAIN Tail(q) = 1..Len(Tail(q))
  BY HeadTailProperties, LenProperties
<1>. SUFFICES ASSUME NEW j \in 2..Len(q)
              PROVE  j - 1 \in 1..(Len(q) - 1) /\ Tail(q)[j - 1] = q[j]
  BY <1>1, <1>2
<1>3. j - 1 \in 1..(Len(q) - 1) /\ (j - 1) + 1 = j
  BY <1>2
<1>. QED  BY <1>1, <1>3

LEMMA FreeStep ==
    ASSUME TypeOK, Free, [Next]_vars
    PROVE  Free'
<1>1. CASE SetAside \/ DrainReturns \/ SecretMissing \/ SearchFails \/ Search \/ Connect
           \/ Wake \/ IdleTimeout \/ IdleEnds \/ Reconnect \/ Restart
  <2>1. cur' = cur /\ pc \notin {"lookup", "write", "click"}
    BY <1>1 DEF SetAside, Take, DrainReturns, SecretMissing, SearchFails, Search, Connect, Wake,
                IdleTimeout, IdleEnds, Reconnect, Restart, task
  <2>. QED  BY <2>1 DEF Free
<1>2. CASE TakeMail \/ Lookup \/ Return
  BY <1>2 DEF TakeMail, Lookup, Return, Goto, NoTask, Free
<1>3. CASE Write \/ Click
  <2>1. CASE Handled
    BY <2>1 DEF Handled, NoTask, Free
  <2>2. CASE UNCHANGED <<cur, act, handled>> /\ pc' \in {"write", "click"}
    BY <2>2 DEF Free
  <2>3. Handled \/ (UNCHANGED <<cur, act, handled>> /\ pc' \in {"write", "click"})
    BY <1>3 DEF Write, Click, AfterLink, Goto
  <2>. QED  BY <2>1, <2>2, <2>3
<1>4. CASE \/ \E m \in Msgs : Arrive(m) \/ Serve(m)
           \/ ServeDone \/ Drop \/ Reader \/ Cancel \/ Elsewhere
           \/ (\E a \in Actions : CompleteAction(a)) \/ UNCHANGED vars
  <2>1. UNCHANGED <<pc, cur>>
    BY <1>4 DEF Arrive, Serve, ServeDone, Drop, Reader, ReadNotice, ReadMail, ReadDone, ReadEof,
                Cancel, Elsewhere, CompleteAction, vars, task
  <2>. QED  BY <2>1 DEF Free
<1>. QED  BY <1>1, <1>2, <1>3, <1>4 DEF Next, Goroutine, HandleIMAP

\* Steps that leave the connection and the messages alone.
LEMMA QuietStep ==
    ASSUME Steady, Orderly, Kept,
           UNCHANGED <<wire, seen, asked, owes, ch, answered, gone, cancelled, pc, cur, handled>>
    PROVE  Steady' /\ Orderly' /\ Kept'
  BY DEF Steady, Orderly, Kept, Kind, InFlight

\* A response that is not a message joins the wire: a notice, or the completion owed.
LEMMA NoteWatched ==
    ASSUME TypeOK, Steady, Orderly, Kept, NEW r \in Responses, wire' = Append(wire, r),
           UNCHANGED <<seen, asked, ch, answered, gone, cancelled, pc, cur, handled>>,
           \/ r.kind = "exists" /\ UNCHANGED owes
           \/ r.kind = "done" /\ owes /\ asked = {} /\ ~owes'
    PROVE  Steady' /\ Orderly' /\ Kept'
<1>1. wire \in Seq(Responses)
  BY DEF TypeOK
<1>2. /\ \A i \in DOMAIN wire : /\ i \in DOMAIN wire' /\ wire'[i] = wire[i]
                                /\ i \in Nat /\ i < Len(wire) + 1
      /\ \A i \in DOMAIN wire' : \/ i \in DOMAIN wire /\ wire'[i] = wire[i]
                                 \/ i = Len(wire) + 1 /\ wire'[i] = r
      /\ Len(wire) \in Nat
  BY <1>1, Grows
<1>3. Steady'
  BY <1>2 DEF Steady, Kind
<1>4. Kept'
  BY <1>2 DEF Kept, InFlight
<1>5. \A i \in DOMAIN wire' : wire'[i].kind = "mail" => ~answered' /\ pc' \in Fetching
  BY <1>2 DEF Orderly, Kind
<1>6. \A i, j \in DOMAIN wire' :
         wire'[j].kind = "done" /\ wire'[i].kind \in {"mail", "done"} => i <= j
  <2>. SUFFICES ASSUME NEW i \in DOMAIN wire', NEW j \in DOMAIN wire',
                       wire'[j].kind = "done", wire'[i].kind \in {"mail", "done"}
                PROVE  i <= j
    OBVIOUS
  <2>1. CASE j \in DOMAIN wire /\ wire'[j] = wire[j]
    <3>1. i \in DOMAIN wire /\ wire'[i] = wire[i]
      BY <1>2, <2>1 DEF Orderly, Kind
    <3>. QED  BY <2>1, <3>1 DEF Orderly, Kind
  <2>2. CASE j = Len(wire) + 1
    BY <1>2, <2>2
  <2>. QED  BY <1>2, <2>1, <2>2
<1>7. owes' \/ answered' \/ pc' \in {"drain", "idle"} =>
         \A i \in DOMAIN wire' : wire'[i].kind # "done"
  BY <1>2 DEF Orderly, Kind
<1>8. /\ asked' # {} => owes' /\ pc' \in Fetching
      /\ ch' # <<>> => pc' \in Fetching
      /\ owes' => ~answered' /\ pc' \notin {"drain", "idle"}
  BY DEF Orderly
<1>. QED  BY <1>3, <1>4, <1>5, <1>6, <1>7, <1>8 DEF Orderly, Kind

LEMMA ServeWatched ==
    ASSUME TypeOK, Steady, Orderly, Kept, NEW m \in Msgs, Serve(m)
    PROVE  Steady' /\ Orderly' /\ Kept'
<1>. DEFINE r == Reply("mail", m)
<1>1. wire \in Seq(Responses) /\ r \in Responses /\ r.kind = "mail" /\ wire' = Append(wire, r)
  BY DEF TypeOK, Responses, Reply, Serve
<1>2. /\ \A i \in DOMAIN wire : /\ i \in DOMAIN wire' /\ wire'[i] = wire[i]
                                /\ i \in Nat /\ i < Len(wire) + 1
      /\ \A i \in DOMAIN wire' : \/ i \in DOMAIN wire /\ wire'[i] = wire[i]
                                 \/ i = Len(wire) + 1 /\ wire'[i] = r
      /\ Len(wire) + 1 \in DOMAIN wire' /\ wire'[Len(wire) + 1] = r
  BY <1>1, Grows
<1>3. /\ UNCHANGED <<owes, ch, answered, gone, cancelled, pc, cur, handled>>
      /\ m \in asked /\ asked' = asked \ {m} /\ seen' = seen \cup {m}
      /\ pc \notin {"backoff", "off"}
  BY DEF Serve, client, task, env, Open, Connected
<1>4. owes /\ ~answered /\ pc \in Fetching /\ \A i \in DOMAIN wire : Kind(i) # "done"
  BY <1>3 DEF Orderly
<1>5. \A i \in DOMAIN wire' : wire'[i].kind # "done"
  BY <1>1, <1>2, <1>4 DEF Kind
<1>6. Orderly'
  BY <1>3, <1>4, <1>5 DEF Orderly, Kind
<1>7. Steady'
  BY <1>1, <1>2, <1>3 DEF Steady, Kind
<1>8. Kept'
  <2>1. InFlight(m)'
    BY <1>2 DEF InFlight
  <2>2. \A n \in seen : InFlight(n) => InFlight(n)'
    BY <1>2, <1>3 DEF InFlight
  <2>. QED  BY <1>3, <2>1, <2>2 DEF Kept
<1>. QED  BY <1>6, <1>7, <1>8

\* The reader takes a response off the wire and hands it on.
LEMMA ReaderWatched ==
    ASSUME TypeOK, Steady, Orderly, Kept, Reader
    PROVE  Steady' /\ Orderly' /\ Kept'
<1>1. /\ wire # <<>> /\ wire' = Tail(wire) /\ wire \in Seq(Responses) /\ ch \in Seq(Msgs)
      /\ UNCHANGED <<seen, asked, owes, cancelled, pc, cur, handled>>
  BY DEF Reader, ReadNotice, ReadMail, ReadDone, ReadEof, Next1, server, task, env, TypeOK
<1>2. /\ 1 \in DOMAIN wire /\ Head(wire) = wire[1]
      /\ \A i \in DOMAIN wire' : /\ i \in Nat /\ i >= 1 /\ i + 1 \in DOMAIN wire
                                 /\ wire'[i] = wire[i + 1]
  BY <1>1, TailMoves
<1>3. \A j \in DOMAIN wire : j = 1 \/ (j - 1 \in DOMAIN wire' /\ wire'[j - 1] = wire[j])
  BY <1>1, Shrinks
<1>4. UNCHANGED gone /\ ~ReadEof
  BY <1>2 DEF Reader, ReadNotice, ReadMail, ReadDone, ReadEof, Next1, Steady, Kind
<1>5. Steady'
  BY <1>1, <1>2, <1>4 DEF Steady, Kind
<1>6. \A i, j \in DOMAIN wire' :
         wire'[j].kind = "done" /\ wire'[i].kind \in {"mail", "done"} => i <= j
  <2>. SUFFICES ASSUME NEW i \in DOMAIN wire', NEW j \in DOMAIN wire',
                       wire'[j].kind = "done", wire'[i].kind \in {"mail", "done"}
                PROVE  i <= j
    OBVIOUS
  <2>1. i + 1 <= j + 1
    BY <1>2 DEF Orderly, Kind
  <2>. QED  BY <1>2, <2>1
<1>7. owes \/ answered \/ pc \in {"drain", "idle"} => \A i \in DOMAIN wire' : wire'[i].kind # "done"
  BY <1>2 DEF Orderly, Kind
<1>8. \A i \in DOMAIN wire' : wire'[i].kind = "mail" => ~answered /\ pc \in Fetching
  BY <1>2 DEF Orderly, Kind
<1>9. CASE ReadNotice
  <2>1. UNCHANGED <<ch, answered>> /\ wire[1].kind = "exists"
    BY <1>2, <1>9 DEF ReadNotice, Next1
  <2>2. Orderly'
    BY <1>1, <1>6, <1>7, <1>8, <2>1 DEF Orderly, Kind
  <2>3. Kept'
    <3>1. \A m \in seen : InFlight(m) => InFlight(m)'
      <4>1. ASSUME NEW m \in seen, NEW i \in DOMAIN wire, wire[i] = Reply("mail", m)
            PROVE  \E j \in DOMAIN wire' : wire'[j] = Reply("mail", m)
        BY <1>3, <2>1, <4>1 DEF Reply
      <4>. QED  BY <1>1, <2>1, <4>1 DEF InFlight
    <3>. QED  BY <1>1, <3>1 DEF Kept
  <2>. QED  BY <1>5, <2>2, <2>3
<1>10. CASE ReadMail
  <2>1. /\ UNCHANGED answered /\ wire[1].kind = "mail" /\ ch' = Append(ch, wire[1].msg)
        /\ wire[1].msg \in Msgs
    <3>1. UNCHANGED answered /\ wire[1].kind = "mail" /\ ch' = Append(ch, wire[1].msg)
      BY <1>2, <1>10 DEF ReadMail, Next1
    <3>2. wire[1] \in Responses
      BY <1>1, <1>2
    <3>. QED  BY <3>1, <3>2, MailHasMessage
  <2>2. pc \in Fetching
    BY <1>2, <2>1 DEF Orderly, Kind
  <2>3. /\ \A i \in DOMAIN ch : i \in DOMAIN ch' /\ ch'[i] = ch[i]
        /\ Len(ch) + 1 \in DOMAIN ch' /\ ch'[Len(ch) + 1] = wire[1].msg
    BY <1>1, <2>1, Grows
  <2>4. Orderly'
    BY <1>1, <1>6, <1>7, <1>8, <2>1, <2>2 DEF Orderly, Kind
  <2>5. Kept'
    <3>1. ASSUME NEW m \in seen, InFlight(m)
          PROVE  InFlight(m)'
      <4>1. CASE cur = m \/ \E i \in DOMAIN ch : ch[i] = m
        BY <1>1, <2>3, <4>1 DEF InFlight
      <4>2. ASSUME NEW i \in DOMAIN wire, wire[i] = Reply("mail", m)
            PROVE  InFlight(m)'
        <5>1. CASE i = 1
          BY <2>3, <4>2, <5>1 DEF InFlight, Reply
        <5>2. CASE i # 1
          BY <1>3, <4>2, <5>2 DEF InFlight
        <5>. QED  BY <5>1, <5>2
      <4>. QED  BY <3>1, <4>1, <4>2 DEF InFlight
    <3>. QED  BY <1>1, <3>1 DEF Kept
  <2>. QED  BY <1>5, <2>4, <2>5
<1>11. CASE ReadDone
  <2>1. UNCHANGED ch /\ wire[1].kind = "done" /\ answered'
    BY <1>2, <1>11 DEF ReadDone, Next1
  <2>2. ~owes /\ pc \notin {"drain", "idle"}
    BY <1>2, <2>1 DEF Orderly, Kind
  <2>3. \A i \in DOMAIN wire' : wire'[i].kind \notin {"mail", "done"}
    <3>1. \A i \in DOMAIN wire' : wire'[i].kind \in {"mail", "done"} => i + 1 <= 1
      BY <1>2, <2>1 DEF Orderly, Kind
    <3>. QED  BY <1>2, <3>1
  <2>4. Orderly'
    BY <1>1, <2>1, <2>2, <2>3 DEF Orderly, Kind
  <2>5. Kept'
    <3>1. \A m \in seen : InFlight(m) => InFlight(m)'
      <4>1. ASSUME NEW m \in seen, NEW i \in DOMAIN wire, wire[i] = Reply("mail", m)
            PROVE  \E j \in DOMAIN wire' : wire'[j] = Reply("mail", m)
        BY <1>3, <2>1, <4>1 DEF Reply
      <4>. QED  BY <1>1, <2>1, <4>1 DEF InFlight
    <3>. QED  BY <1>1, <3>1 DEF Kept
  <2>. QED  BY <1>5, <2>4, <2>5
<1>. QED  BY <1>4, <1>9, <1>10, <1>11 DEF Reader

\* A message leaves the channel: it is set aside, or it is in the handler's hands.
LEMMA TakeWatched ==
    ASSUME TypeOK, Free, Steady, Orderly, Kept, SetAside \/ TakeMail
    PROVE  Steady' /\ Orderly' /\ Kept'
<1>. USE DEF server, env
<1>1. /\ ch \in Seq(Msgs) /\ ch # <<>> /\ ch' = Tail(ch) /\ pc = "fetch" /\ pc' \in Fetching
      /\ pc' \notin {"drain", "idle", "backoff", "off"}
      /\ UNCHANGED <<wire, seen, asked, owes, answered, gone, cancelled>>
  BY DEF SetAside, TakeMail, Take, TypeOK, Goto, Fetching
<1>2. 1 \in DOMAIN ch /\ Head(ch) = ch[1] /\ ch[1] \in Msgs
  BY <1>1, TailMoves
<1>3. \A j \in DOMAIN ch : j = 1 \/ (j - 1 \in DOMAIN ch' /\ ch'[j - 1] = ch[j])
  BY <1>1, Shrinks
<1>4. Steady'
  BY <1>1 DEF Steady, Kind
<1>5. Orderly'
  BY <1>1 DEF Orderly, Kind, Fetching
<1>6. cur = None
  BY <1>1 DEF Free
<1>7. \A m \in seen : InFlight(m) => m = ch[1] \/ InFlight(m)'
  <2>1. ASSUME NEW m \in seen, NEW j \in DOMAIN ch, ch[j] = m, m # ch[1]
        PROVE  \E i \in DOMAIN ch' : ch'[i] = m
    BY <1>3, <2>1
  <2>2. \A m \in seen : m # cur
    BY <1>6, InboxAssumption DEF TypeOK
  <2>. QED  BY <1>1, <2>1, <2>2 DEF InFlight
<1>8. CASE TakeMail
  <2>1. cur' = ch[1] /\ handled' = handled
    BY <1>2, <1>8 DEF TakeMail
  <2>. QED  BY <1>1, <1>4, <1>5, <1>7, <2>1 DEF Kept, InFlight
<1>9. CASE SetAside
  <2>1. handled' = [handled EXCEPT ![ch[1]] = @ + 1] /\ handled \in [Msgs -> Nat]
    BY <1>2, <1>9 DEF SetAside, TypeOK
  <2>2. \A m \in Msgs : handled[m] > 0 \/ m = ch[1] => handled'[m] > 0
    BY <1>2, <2>1
  <2>. QED  BY <1>1, <1>4, <1>5, <1>7, <2>2 DEF Kept, TypeOK
<1>. QED  BY <1>8, <1>9

LEMMA HandlerWatched ==
    ASSUME TypeOK, Steady, Orderly, Kept, HandleIMAP
    PROVE  Steady' /\ Orderly' /\ Kept'
<1>. USE DEF server, client, env
<1>1. /\ UNCHANGED <<wire, seen, asked, owes, ch, answered, gone, cancelled>>
      /\ pc \in Fetching /\ pc' \in Fetching
      /\ pc' \notin {"drain", "idle", "backoff", "off"}
  BY DEF HandleIMAP, Lookup, Write, Click, AfterLink, Handled, Goto, Fetching
<1>2. Steady' /\ Orderly'
  BY <1>1 DEF Steady, Orderly, Kind
<1>3. CASE UNCHANGED <<cur, handled>>
  BY <1>1, <1>2, <1>3 DEF Kept, InFlight
<1>4. CASE Handled
  <2>1. handled' = [handled EXCEPT ![cur] = @ + 1] /\ handled \in [Msgs -> Nat]
    BY <1>4 DEF Handled, TypeOK
  <2>2. \A m \in Msgs : handled[m] > 0 \/ m = cur => handled'[m] > 0
    BY <2>1
  <2>3. \A m \in seen : InFlight(m) => m = cur \/ InFlight(m)'
    BY <1>1 DEF InFlight
  <2>. QED  BY <1>1, <1>2, <2>2, <2>3 DEF Kept, TypeOK
<1>5. Handled \/ UNCHANGED <<cur, handled>>
  BY DEF HandleIMAP, Lookup, Write, Click, AfterLink
<1>. QED  BY <1>3, <1>4, <1>5

\* A connection is made while nothing was flagged yet, a FETCH begins with nothing on its way
\* and ends with nothing left, and IDLE ends with its own completion.
LEMMA CommandWatched ==
    ASSUME TypeOK, Steady, Orderly, Kept,
           \/ Connect \/ SecretMissing \/ Search \/ SearchFails \/ DrainReturns \/ Wake
           \/ IdleTimeout \/ IdleEnds \/ Reconnect
    PROVE  Steady' /\ Orderly' /\ Kept'
<1>. USE DEF server, client, task, env, Goto, Fetching
<1>1. CASE Connect
  <2>1. /\ wire' = <<>> /\ ch' = <<>> /\ asked' = {} /\ ~owes' /\ ~answered' /\ ~gone'
        /\ pc' = "drain" /\ UNCHANGED <<seen, cancelled>> /\ seen = {}
    BY <1>1 DEF Connect, FreshClient, Steady
  <2>2. DOMAIN wire' = {}
    BY <2>1
  <2>. QED  BY <2>1, <2>2 DEF Steady, Orderly, Kept
<1>2. CASE SecretMissing
  BY <1>2 DEF SecretMissing, Steady, Orderly, Kept, InFlight, Kind
<1>3. CASE Search
  <2>1. /\ owes' /\ ~answered' /\ ch' = <<>> /\ pc = "drain" /\ pc' = "fetch"
        /\ UNCHANGED <<wire, seen, gone, cancelled, cur, handled>> /\ ch = <<>>
    BY <1>3 DEF Search, Orderly
  <2>2. \A i \in DOMAIN wire : Kind(i) # "done"
    BY <2>1 DEF Orderly
  <2>3. Steady' /\ Orderly'
    BY <2>1, <2>2 DEF Steady, Orderly, Kind
  <2>4. Kept'
    BY <2>1 DEF Kept, InFlight
  <2>. QED  BY <2>3, <2>4
<1>4. CASE DrainReturns
  <2>1. /\ UNCHANGED <<wire, seen, asked, owes, ch, answered, gone, cancelled, cur, handled>>
        /\ pc' = "idle" /\ ch = <<>> /\ answered
    BY <1>4 DEF DrainReturns
  <2>2. ~owes /\ asked = {} /\ \A i \in DOMAIN wire : Kind(i) \notin {"mail", "done"}
    BY <2>1 DEF Orderly
  <2>3. Steady' /\ Orderly'
    BY <2>1, <2>2 DEF Steady, Orderly, Kind
  <2>4. Kept'
    BY <2>1 DEF Kept, InFlight
  <2>. QED  BY <2>3, <2>4
<1>5. CASE Wake
  <2>1. /\ UNCHANGED <<wire, seen, asked, ch, gone, cancelled, cur, handled>>
        /\ pc \in {"idle", "ending"} /\ pc' = "leaving" /\ ~gone
        /\ \/ pc = "idle" /\ owes' /\ ~answered'
           \/ pc = "ending" /\ UNCHANGED <<owes, answered>>
    BY <1>5 DEF Wake, Steady
  <2>2. asked = {} /\ ch = <<>> /\ \A i \in DOMAIN wire : Kind(i) # "mail"
    BY <2>1 DEF Orderly
  <2>3. Steady' /\ Orderly'
    BY <2>1, <2>2 DEF Steady, Orderly, Kind
  <2>4. Kept'
    BY <2>1 DEF Kept, InFlight
  <2>. QED  BY <2>3, <2>4
<1>6. CASE IdleTimeout
  <2>1. /\ UNCHANGED <<wire, seen, asked, ch, gone, cancelled, cur, handled>>
        /\ pc = "idle" /\ pc' = "ending" /\ owes' /\ ~answered'
    BY <1>6 DEF IdleTimeout
  <2>2. /\ asked = {} /\ ch = <<>>
        /\ \A i \in DOMAIN wire : Kind(i) \notin {"mail", "done"}
    BY <2>1 DEF Orderly
  <2>3. Steady' /\ Orderly'
    BY <2>1, <2>2 DEF Steady, Orderly, Kind
  <2>4. Kept'
    BY <2>1 DEF Kept, InFlight
  <2>. QED  BY <2>3, <2>4
<1>7. CASE IdleEnds
  <2>1. /\ UNCHANGED <<wire, seen, asked, owes, ch, answered, gone, cancelled, cur, handled>>
        /\ pc \in {"leaving", "ending"} /\ pc' = "drain" /\ answered
    BY <1>7 DEF IdleEnds
  <2>2. /\ ~owes /\ asked = {} /\ ch = <<>>
        /\ \A i \in DOMAIN wire : Kind(i) \notin {"mail", "done"}
    BY <2>1 DEF Orderly
  <2>3. Steady' /\ Orderly'
    BY <2>1, <2>2 DEF Steady, Orderly, Kind
  <2>4. Kept'
    BY <2>1 DEF Kept, InFlight
  <2>. QED  BY <2>3, <2>4
<1>8. ~SearchFails /\ ~Reconnect
  BY DEF SearchFails, Reconnect, Steady
<1>. QED  BY <1>1, <1>2, <1>3, <1>4, <1>5, <1>6, <1>7, <1>8

\* Only a lost connection and a stop count against the daemon.
LEMMA Trouble ==
    ASSUME TypeOK, [Next]_vars, drops' + stops' = 0
    PROVE  drops + stops = 0 /\ ~Drop /\ ~Cancel
<1>. USE DEF rows, server, client, task, env
<1>1. drops \in Nat /\ stops \in Nat
  BY DEF TypeOK
<1>2. ~Drop
  <2>. SUFFICES ASSUME Drop PROVE FALSE
    OBVIOUS
  <2>1. drops' = drops + 1 /\ stops' = stops
    BY DEF Drop
  <2>. QED  BY <1>1, <2>1
<1>3. ~Cancel
  <2>. SUFFICES ASSUME Cancel PROVE FALSE
    OBVIOUS
  <2>1. drops' = drops /\ stops' = stops + 1
    BY DEF Cancel
  <2>. QED  BY <1>1, <2>1
<1>4. UNCHANGED <<drops, stops>>
  <2>1. CASE \/ \E m \in Msgs : Arrive(m) \/ Serve(m)
             \/ ServeDone \/ Reader
             \/ Elsewhere \/ (\E a \in Actions : CompleteAction(a)) \/ UNCHANGED vars
    BY <2>1 DEF Arrive, Serve, ServeDone, Reader, ReadNotice, ReadMail, ReadDone, ReadEof,
                Elsewhere, CompleteAction, vars
  <2>2. CASE \/ Connect \/ SecretMissing \/ Search \/ SearchFails \/ SetAside \/ TakeMail
             \/ DrainReturns \/ Wake \/ IdleTimeout \/ IdleEnds \/ Reconnect
             \/ Return \/ Restart \/ HandleIMAP
    BY <2>2 DEF Connect, SecretMissing, Search, SearchFails, SetAside, TakeMail, DrainReturns,
                Wake, IdleTimeout, IdleEnds, Reconnect, Return, Restart, HandleIMAP, Lookup,
                Write, Click
  <2>. QED  BY <1>2, <1>3, <2>1, <2>2 DEF Next, Goroutine
<1>. QED  BY <1>2, <1>3, <1>4

LEMMA WatchedStep ==
    ASSUME TypeOK, Watched, [Next]_vars
    PROVE  Watched'
<1>. USE DEF rows, server, client, task, env
<1>1. Free'
  BY FreeStep DEF Watched
<1>2. ASSUME drops' + stops' = 0
      PROVE  Steady' /\ Orderly' /\ Kept'
  <2>1. ~Drop /\ ~Cancel /\ Free /\ Steady /\ Orderly /\ Kept
    BY <1>2, Trouble DEF Watched
  <2>2. ASSUME NEW m \in Msgs, Arrive(m)
        PROVE  Steady' /\ Orderly' /\ Kept'
    <3>1. UNCHANGED <<seen, asked, owes, ch, answered, gone, cancelled, pc, cur, handled>>
      BY <2>2 DEF Arrive
    <3>2. CASE wire' = wire
      BY <2>1, <3>1, <3>2, QuietStep
    <3>3. CASE wire' = Append(wire, Reply("exists", None))
      <4>1. Reply("exists", None) \in Responses /\ Reply("exists", None).kind = "exists"
        BY DEF Reply, Responses
      <4>. QED  BY <2>1, <3>1, <3>3, <4>1, NoteWatched
    <3>. QED  BY <2>2, <3>2, <3>3 DEF Arrive
  <2>3. CASE ServeDone
    <3>1. Reply("done", None) \in Responses /\ Reply("done", None).kind = "done"
      BY DEF Reply, Responses
    <3>2. /\ wire' = Append(wire, Reply("done", None)) /\ owes /\ asked = {} /\ ~owes'
          /\ UNCHANGED <<seen, asked, ch, answered, gone, cancelled, pc, cur, handled>>
      BY <2>3 DEF ServeDone
    <3>. QED  BY <2>1, <3>1, <3>2, NoteWatched
  <2>4. CASE Elsewhere \/ (\E a \in Actions : CompleteAction(a)) \/ UNCHANGED vars
    <3>1. UNCHANGED <<wire, seen, asked, owes, ch, answered, gone, cancelled, pc, cur, handled>>
      BY <2>4 DEF Elsewhere, CompleteAction, vars
    <3>. QED  BY <2>1, <3>1, QuietStep
  <2>5. ~Return /\ ~Restart
    BY <2>1 DEF Return, Restart, Steady
  <2>. QED
    BY <2>1, <2>2, <2>3, <2>4, <2>5, ServeWatched, ReaderWatched, TakeWatched, HandlerWatched,
       CommandWatched DEF Next, Goroutine
<1>. QED  BY <1>1, <1>2 DEF Watched

LEMMA InitWatched == Init => Watched
<1>. SUFFICES ASSUME Init PROVE Watched
  OBVIOUS
<1>1. DOMAIN wire = {}
  BY DEF Init
<1>. QED  BY <1>1 DEF Init, Watched, Free, Steady, Orderly, Kept

-----------------------------------------------------------------------------
LEMMA InitIInv == Init => IInv
<1>. SUFFICES ASSUME Init PROVE IInv
  OBVIOUS
<1>1. DOMAIN wire = {} /\ DOMAIN ch = {}
  BY DEF Init
<1>2. Once
  BY <1>1 DEF Init, Once, OnTheWire, IsMail, InTheChannel, AtTheHandler, Unseen, HandledOnce
<1>. QED  BY <1>2, InitType DEF Init, IInv, KnownDone

LEMMA NextIInv == IInv /\ [Next]_vars => IInv'
  BY TypeStep, OnceStep, KnownStep DEF IInv

\* The inductive invariant behind the theorems below.
THEOREM Invariance == Spec => []IInv
<1>. QED  BY InitIInv, NextIInv, PTL DEF Spec

\* Types: channels within their capacities, flags only on mail that has come.
THEOREM TypeCorrect == Spec => []TypeOK
<1>1. IInv => TypeOK
  BY DEF IInv
<1>. QED  BY <1>1, Invariance, PTL

\* No message is handled twice, across lost connections and restarts.
THEOREM MailHandledOnce == Spec => []HandledOnce
<1>1. IInv => HandledOnce
  BY DEF IInv, Once
<1>. QED  BY <1>1, Invariance, PTL

\* A broker's mail sets a finished demand back only in a handler that had looked it up before,
\* after an earlier link of the same mail, or because it carries the demand's token.
THEOREM FinishedStays == Spec => ReopenedOnlyInFlight
<1>1. ASSUME IInv, [Next]_vars
      PROVE  [\A a \in Actions : (Write \/ Click) /\ state[a] = "COMPLETED" /\ state'[a] # "COMPLETED"
                 => a \in since \/ Token[cur] = a]_vars
  <2>. SUFFICES ASSUME NEW a \in Actions, Write \/ Click,
                       state[a] = "COMPLETED", state'[a] # "COMPLETED"
                PROVE  a \in since \/ Token[cur] = a
    OBVIOUS
  <2>1. a = act
    <3>1. CASE Write
      BY <1>1, <3>1, StateType DEF Write, IInv
    <3>2. CASE Click
      <4>1. PICK page \in Pages : Says(page)
        BY <3>2 DEF Click
      <4>. QED  BY <1>1, <4>1, StateType DEF Says, Pages, IInv
    <3>. QED  BY <3>1, <3>2
  <2>. QED  BY <1>1, <2>1 DEF IInv, KnownDone, Write, Click
<1>. QED  BY <1>1, Invariance, PTL DEF Spec, ReopenedOnlyInFlight

\* As long as the connection holds and the daemon is not stopped, every message that has the
\* \Seen flag was handled or is on its way: between two FETCHes nothing is left in the channel
\* that the next one replaces, and the completion of IDLE is never taken for that of a FETCH
\* (listener.go Run, drainUnseen).
THEOREM FlaggedIsHandled == Spec => []NothingOverlooked
<1>1. IInv => TypeOK
  BY DEF IInv
<1>2. Watched => NothingOverlooked
  BY DEF Watched, Kept, NothingOverlooked
<1>3. TypeOK /\ Watched /\ [Next]_vars => Watched'
  BY WatchedStep
<1>. QED  BY <1>1, <1>2, <1>3, Invariance, InitWatched, PTL DEF Spec

-----------------------------------------------------------------------------
\* The demand a message was found to be about has a row.
Found == act # None => state[act] # "ABSENT"

LEMMA RowsStay ==
    ASSUME TypeOK, [Next]_vars, NEW a \in Actions, state[a] # "ABSENT"
    PROVE  state'[a] # "ABSENT"
<1>1. CASE Elsewhere
  <2>1. PICK b \in Actions : \/ Others!Ask(b) \/ Others!Mail(b) \/ Others!ShowSent(b) \/ Others!Fail(b)
    BY <1>1 DEF Elsewhere
  <2>. QED
    BY <2>1 DEF Others!Ask, Others!Mail, Others!ShowSent, Others!Fail, Others!Set, TypeOK
<1>2. CASE \E b \in Actions : CompleteAction(b)
  BY <1>2 DEF CompleteAction, Others!Complete, Others!Set, TypeOK
<1>3. CASE Write
  BY <1>3 DEF Write, UpdateActionState, TypeOK
<1>4. CASE Click
  <2>1. PICK page \in Pages : Says(page)
    BY <1>4 DEF Click
  <2>. QED  BY <2>1 DEF Says, Pages, UpdateActionState, TypeOK
<1>5. CASE \/ \E m \in Msgs : Arrive(m) \/ Serve(m)
           \/ ServeDone \/ Drop \/ Reader \/ IdleTimeout \/ SecretMissing
           \/ Cancel \/ Return \/ Restart \/ UNCHANGED vars
  BY <1>5 DEF Arrive, Serve, ServeDone, Drop, Reader, ReadNotice, ReadMail, ReadDone, ReadEof,
              IdleTimeout, SecretMissing, Cancel, Return, Restart, vars, rows
<1>6. CASE \/ Connect \/ Search \/ SearchFails \/ SetAside \/ TakeMail \/ DrainReturns
           \/ Wake \/ IdleEnds \/ Reconnect \/ Lookup
  BY <1>6 DEF Connect, Search, SearchFails, SetAside, TakeMail, DrainReturns, Wake, IdleEnds,
              Reconnect, Lookup, rows
<1>. QED  BY <1>1, <1>2, <1>3, <1>4, <1>5, <1>6 DEF Next, Goroutine, HandleIMAP

LEMMA FoundStep ==
    ASSUME TypeOK, Found, [Next]_vars
    PROVE  Found'
<1>1. CASE Lookup
  <2>1. /\ act' \in GetActionByTracking(cur) \cup LatestAwaitingByBroker(From[cur]) \cup {None}
        /\ state' = state
    BY <1>1 DEF Lookup, rows
  <2>2. \A a \in GetActionByTracking(cur) \cup LatestAwaitingByBroker(From[cur]) : state[a] # "ABSENT"
    BY DEF GetActionByTracking, LatestAwaitingByBroker, Awaiting
  <2>. QED  BY <2>1, <2>2 DEF Found
<1>2. CASE act' \in {act, None}
  BY <1>2, RowsStay DEF Found, TypeOK
<1>3. Lookup \/ act' \in {act, None}
  <2>1. CASE \/ \E m \in Msgs : Arrive(m) \/ Serve(m)
             \/ ServeDone \/ Drop \/ Reader \/ IdleTimeout \/ SecretMissing
             \/ Cancel \/ Return \/ Restart \/ UNCHANGED vars
    BY <2>1 DEF Arrive, Serve, ServeDone, Drop, Reader, ReadNotice, ReadMail, ReadDone, ReadEof,
                IdleTimeout, SecretMissing, Cancel, Return, NoTask, Restart, vars, task
  <2>2. CASE \/ Connect \/ Search \/ SearchFails \/ SetAside \/ TakeMail \/ DrainReturns
             \/ Wake \/ IdleEnds \/ Reconnect
    BY <2>2 DEF Connect, Search, SearchFails, SetAside, TakeMail, DrainReturns, Wake, IdleEnds,
                Reconnect, task
  <2>3. CASE Write \/ Click
    BY <2>3 DEF Write, Click, AfterLink, Handled, NoTask
  <2>4. CASE Elsewhere \/ \E a \in Actions : CompleteAction(a)
    BY <2>4 DEF Elsewhere, CompleteAction, task
  <2>. QED  BY <2>1, <2>2, <2>3, <2>4 DEF Next, Goroutine, HandleIMAP
<1>. QED  BY <1>1, <1>2, <1>3

\* What a step does to the rows is a step of Demand, or nothing.
LEMMA RowStep ==
    ASSUME TypeOK, Found, [Next]_vars
    PROVE  [Others!Next]_<<state, mails, replied>>
<1>1. CASE Elsewhere
  BY <1>1 DEF Elsewhere, Others!Next
<1>2. CASE \E a \in Actions : CompleteAction(a)
  BY <1>2 DEF CompleteAction, Others!Next
<1>3. ASSUME NEW s \in {"SUBMITTED", "AWAITING_CONFIRMATION", "AWAITING_MANUAL", "COMPLETED"},
             UpdateActionState(act, s), mails' = mails
      PROVE  [Others!Next]_<<state, mails, replied>>
  <2>1. CASE act = None
    BY <1>3, <2>1 DEF UpdateActionState
  <2>2. CASE act # None
    <3>1. act \in Actions /\ state[act] # "ABSENT" /\ None \notin {act}
      BY <2>2 DEF TypeOK, Found
    <3>2. Others!Answer(act)
      BY <1>3, <2>2, <3>1 DEF UpdateActionState, Others!Answer, Others!Set
    <3>. QED  BY <3>1, <3>2 DEF Others!Next
  <2>. QED  BY <2>1, <2>2
<1>4. CASE Write
  <2>1. CASE UNCHANGED <<state, mails, replied>>
    BY <2>1
  <2>2. CASE UpdateActionState(act, IF cur \in Linked THEN "AWAITING_CONFIRMATION" ELSE "SUBMITTED")
             /\ mails' = mails
    BY <1>3, <2>2
  <2>. QED  BY <1>4, <2>1, <2>2 DEF Write
<1>5. CASE Click
  <2>1. PICK page \in Pages : Says(page)
    BY <1>5 DEF Click
  <2>2. mails' = mails
    BY <1>5 DEF Click
  <2>. QED  BY <1>3, <2>1, <2>2 DEF Says, Pages
<1>6. CASE \/ \E m \in Msgs : Arrive(m) \/ Serve(m)
           \/ ServeDone \/ Drop \/ Reader \/ IdleTimeout \/ SecretMissing
           \/ Cancel \/ Return \/ Restart \/ UNCHANGED vars
  BY <1>6 DEF Arrive, Serve, ServeDone, Drop, Reader, ReadNotice, ReadMail, ReadDone, ReadEof,
              IdleTimeout, SecretMissing, Cancel, Return, Restart, vars, rows
<1>7. CASE \/ Connect \/ Search \/ SearchFails \/ SetAside \/ TakeMail \/ DrainReturns
           \/ Wake \/ IdleEnds \/ Reconnect \/ Lookup
  BY <1>7 DEF Connect, Search, SearchFails, SetAside, TakeMail, DrainReturns, Wake, IdleEnds,
              Reconnect, Lookup, rows
<1>. QED  BY <1>1, <1>2, <1>4, <1>5, <1>6, <1>7 DEF Next, Goroutine, HandleIMAP

\* The inbox keeps to what the vault promises of a demand: it writes on no row that is not there, it
\* mails nothing, and what it shows it shows of a demand that a message was taken to be about
\* (mail.go HandleIMAP).
THEOREM InboxKeepsPromise == Spec => Others!Spec
<1>1. Init => Others!Init /\ Found
  BY DEF Init, Found
<1>2. IInv => TypeOK
  BY DEF IInv
<1>3. TypeOK /\ Found /\ [Next]_vars => Found' /\ [Others!Next]_<<state, mails, replied>>
  BY FoundStep, RowStep
<1>. QED  BY <1>1, <1>2, <1>3, Invariance, PTL DEF Spec, Others!Spec
=============================================================================
