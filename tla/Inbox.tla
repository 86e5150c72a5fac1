------------------------------- MODULE Inbox -------------------------------
(***************************************************************************)
(* The daemon's inbox: one goroutine (runIMAP and the listener's Run) that *)
(* fetches unseen mail, looks each message's demand up, writes what the    *)
(* message says about it and opens the confirmation links in it.  Beside   *)
(* it run the reader goroutine of the IMAP client, which hands every       *)
(* response of the server to whoever waits for it, the mail server, and    *)
(* everybody else who writes the same rows (Demand).                       *)
(***************************************************************************)
EXTENDS Integers, Sequences, FiniteSets

CONSTANTS
    Actions,     \* erasure_actions rows, numbered in the order of created_at
    Smtp,        \* those whose strategy is SMTP_DEMAND
    Of,          \* Of[a]: the broker of action a
    Msgs,        \* messages, numbered in the order they come
    From,        \* From[m]: the broker whose domain message m names, or None
    Token,       \* Token[m]: the action whose tracking token m carries, or None
    Linked,      \* the messages with an http(s) URL
    Links,       \* Links[m]: how many of them look like a confirmation
    Noise,       \* messages that cannot be parsed, or have neither URL nor reply header
    None,        \* no action, no message, no broker
    AutoFetch,   \* imap.auto_fetch
    Cap,         \* capacity of the updates channel (8 in the code)
    ChCap,       \* capacity of the messages channel (8 in the code)
    MaxMails,    \* bound: mails to the broker, per action
    MaxDrops,    \* bound: lost connections
    MaxStops     \* bound: how often the daemon stops

ASSUME Order == Actions \subseteq Nat /\ Msgs \subseteq Nat

ASSUME InboxAssumption ==
    /\ Smtp \subseteq Actions /\ Linked \subseteq Msgs /\ Noise \subseteq Msgs
    /\ None \notin Actions \cup Msgs
    /\ Token \in [Msgs -> Actions \cup {None}]
    /\ Links \in [Msgs -> Nat] /\ \A m \in Msgs \ Linked : Links[m] = 0
    /\ DOMAIN Of = Actions /\ DOMAIN From = Msgs
    /\ AutoFetch \in BOOLEAN
    /\ Cap \in Nat \ {0} /\ ChCap \in Nat \ {0}
    /\ MaxMails \in Nat /\ MaxDrops \in Nat /\ MaxStops \in Nat

States == {"ABSENT", "QUEUED", "SUBMITTED", "AWAITING_CONFIRMATION", "AWAITING_MANUAL",
           "COMPLETED", "FAILED"}

Responses == [kind : {"mail"}, msg : Msgs] \cup [kind : {"exists", "done", "eof"}, msg : {None}]

Steps == {"backoff", "drain", "fetch", "lookup", "write", "click",
          "idle", "ending", "leaving", "off"}

VARIABLES
    state,      \* state[a]: the action's state
    mails,      \* history: demands mailed
    replied,    \* history: actions a message was taken to be about
    arrived,    \* what is in the mailbox
    seen,       \* what has the \Seen flag
    asked,      \* messages the server still has to send for the running FETCH
    owes,       \* the server still has to complete a command
    wire,       \* responses between the server and the client's reader
    updates,    \* how many notices wait in the updates channel
    ch,         \* the channel of fetched messages
    answered,   \* the running command is completed (and ch closed)
    gone,       \* the reader found the connection closed
    pc,         \* where the goroutine is
    cur,        \* the message being handled
    act,        \* the action it was found to be about
    todo,       \* confirmation links still to open
    since,      \* history: actions completed since the look-up
    handled,    \* history: how often a message was handled or set aside
    cancelled,  \* the daemon's context
    drops, stops

rows   == <<state, mails, replied>>
server == <<arrived, seen, asked, owes>>
client == <<updates, ch, answered, gone>>
task   == <<cur, act, todo, since>>
env    == <<cancelled, drops, stops>>
vars   == <<rows, server, wire, client, pc, task, handled, env>>

-----------------------------------------------------------------------------
(***************************************************************************)
(* The server, and the connection.                                         *)
(***************************************************************************)
Connected == pc \notin {"backoff", "off"} /\ ~gone

Open == Connected /\ \A i \in DOMAIN wire : wire[i].kind # "eof"

Reply(kind, m) == [kind |-> kind, msg |-> m]

\* New mail; a connected client is told.
Arrive(m) ==
    /\ m \notin arrived /\ \A n \in Msgs : n < m => n \in arrived
    /\ arrived' = arrived \cup {m}
    /\ wire' = IF Open THEN Append(wire, Reply("exists", None)) ELSE wire
    /\ UNCHANGED <<rows, seen, asked, owes, client, pc, task, handled, env>>

\* Mutant: the bodies are fetched with PEEK.
ServePeek(m) ==
    /\ Open /\ m \in asked /\ \A n \in asked : m <= n
    /\ asked' = asked \ {m}
    /\ wire' = Append(wire, Reply("mail", m))
    /\ UNCHANGED <<rows, arrived, seen, owes, client, pc, task, handled, env>>

\* BODY[] without PEEK: sending the body sets \Seen.
Serve(m) ==
    /\ Open /\ m \in asked /\ \A n \in asked : m <= n
    /\ asked' = asked \ {m} /\ seen' = seen \cup {m}
    /\ wire' = Append(wire, Reply("mail", m))
    /\ UNCHANGED <<rows, arrived, owes, client, pc, task, handled, env>>

ServeDone ==
    /\ Open /\ owes /\ asked = {}
    /\ owes' = FALSE
    /\ wire' = Append(wire, Reply("done", None))
    /\ UNCHANGED <<rows, arrived, seen, asked, client, pc, task, handled, env>>

\* What was on its way is cut off somewhere.
Drop ==
    /\ Open /\ drops < MaxDrops
    /\ \E n \in 0..Len(wire) : wire' = Append(SubSeq(wire, 1, n), Reply("eof", None))
    /\ asked' = {} /\ owes' = FALSE
    /\ drops' = drops + 1
    /\ UNCHANGED <<rows, arrived, seen, client, pc, task, handled, cancelled, stops>>

(***************************************************************************)
(* The client's reader: it blocks, and everything behind it, while the     *)
(* channel a response is for is full.                                      *)
(***************************************************************************)
Next1(kind) == wire # <<>> /\ Head(wire).kind = kind /\ wire' = Tail(wire)

ReadNotice ==
    /\ Next1("exists") /\ updates < Cap
    /\ updates' = updates + 1
    /\ UNCHANGED <<rows, server, ch, answered, gone, pc, task, handled, env>>

ReadMail ==
    /\ Next1("mail") /\ Len(ch) < ChCap
    /\ ch' = Append(ch, Head(wire).msg)
    /\ UNCHANGED <<rows, server, updates, answered, gone, pc, task, handled, env>>

ReadDone ==
    /\ Next1("done")
    /\ answered' = TRUE
    /\ UNCHANGED <<rows, server, updates, ch, gone, pc, task, handled, env>>

ReadEof ==
    /\ Next1("eof")
    /\ answered' = TRUE /\ gone' = TRUE
    /\ UNCHANGED <<rows, server, updates, ch, pc, task, handled, env>>

Reader == ReadNotice \/ ReadMail \/ ReadDone \/ ReadEof

(***************************************************************************)
(* runIMAP and Run.                                                        *)
(***************************************************************************)
Goto(step) == pc' = step

NoTask == cur' = None /\ act' = None /\ todo' = 0

FreshClient == wire' = <<>> /\ updates' = 0 /\ ch' = <<>> /\ answered' = FALSE /\ gone' = FALSE

\* Dial, login and select; a failed attempt leaves the goroutine in the backoff.
Connect ==
    /\ pc = "backoff" /\ ~cancelled
    /\ FreshClient /\ asked' = {} /\ owes' = FALSE
    /\ Goto("drain")
    /\ UNCHANGED <<rows, arrived, seen, task, handled, env>>

\* The vault answers with an error, or has no password: the inbox is off until a restart.
SecretMissing ==
    /\ pc = "backoff"
    /\ Goto("off")
    /\ UNCHANGED <<rows, server, wire, client, task, handled, env>>

\* drainUnseen: SEARCH UNSEEN and FETCH, as one request, with a new channel for the messages.
Search ==
    /\ pc = "drain" /\ ~cancelled /\ ~gone
    /\ asked' = arrived \ seen /\ owes' = TRUE /\ answered' = FALSE /\ ch' = <<>>
    /\ Goto("fetch")
    /\ UNCHANGED <<rows, arrived, seen, wire, updates, gone, task, handled, env>>

\* The error is logged, no more; IDLE will fail too.
SearchFails ==
    /\ pc = "drain" /\ ~cancelled /\ gone
    /\ Goto("idle")
    /\ UNCHANGED <<rows, server, wire, client, task, handled, env>>

Take ==
    /\ pc = "fetch" /\ ch # <<>> /\ ~cancelled
    /\ ch' = Tail(ch)

\* Mutant: a message that cannot be parsed ends the drain.
SetAsideAndReturn ==
    /\ Take /\ Head(ch) \in Noise
    /\ handled' = [handled EXCEPT ![Head(ch)] = @ + 1]
    /\ Goto("idle")
    /\ UNCHANGED <<rows, server, wire, updates, answered, gone, task, env>>

SetAside ==
    /\ Take /\ Head(ch) \in Noise
    /\ handled' = [handled EXCEPT ![Head(ch)] = @ + 1]
    /\ UNCHANGED <<rows, server, wire, updates, answered, gone, pc, task, env>>

TakeMail ==
    /\ Take /\ Head(ch) \notin Noise
    /\ cur' = Head(ch) /\ todo' = Links[Head(ch)]
    /\ Goto("lookup")
    /\ UNCHANGED <<rows, server, wire, updates, answered, gone, act, since, handled, env>>

DrainReturns ==
    /\ pc = "fetch" /\ ch = <<>> /\ answered
    /\ Goto("idle")
    /\ UNCHANGED <<rows, server, wire, client, task, handled, env>>

\* A notice ends IDLE; the goroutine then waits for IDLE's completion and nothing else.
Wake ==
    /\ pc \in {"idle", "ending"} /\ updates > 0
    /\ updates' = updates - 1
    /\ IF pc = "idle" /\ ~gone THEN owes' = TRUE /\ answered' = FALSE
                               ELSE UNCHANGED <<owes, answered>>
    /\ Goto("leaving")
    /\ UNCHANGED <<rows, arrived, seen, asked, wire, ch, gone, task, handled, env>>

\* Ten minutes are over; notices are still taken while IDLE ends.
IdleTimeout ==
    /\ pc = "idle" /\ ~gone
    /\ owes' = TRUE /\ answered' = FALSE
    /\ Goto("ending")
    /\ UNCHANGED <<rows, arrived, seen, asked, wire, updates, ch, gone, task, handled, env>>

IdleEnds ==
    /\ \/ pc = "leaving" /\ answered
       \/ pc = "ending" /\ answered /\ ~gone
    /\ Goto("drain")
    /\ UNCHANGED <<rows, server, wire, client, task, handled, env>>

\* Mutant: runIMAP returns with the listener's error.
GiveUp ==
    /\ gone /\ (pc = "idle" \/ (pc = "ending" /\ answered))
    /\ Goto("disconnected")
    /\ UNCHANGED <<rows, server, wire, client, task, handled, env>>

\* Run returns an error, and runIMAP waits and connects again.
Reconnect ==
    /\ gone /\ (pc = "idle" \/ (pc = "ending" /\ answered))
    /\ Goto("backoff")
    /\ UNCHANGED <<rows, server, wire, client, task, handled, env>>

(***************************************************************************)
(* HandleIMAP.                                                             *)
(***************************************************************************)
Awaiting == {"SUBMITTED", "AWAITING_CONFIRMATION", "QUEUED"}

\* Mutant: the look-up does not ask for the state.
LatestByBroker(b) ==
    {a \in Actions : /\ state[a] # "ABSENT" /\ Of[a] = b
                     /\ \A c \in Actions : state[c] # "ABSENT" /\ Of[c] = b => c <= a}

LatestAwaitingByBroker(b) ==
    {a \in Actions : /\ state[a] \in Awaiting /\ Of[a] = b
                     /\ \A c \in Actions : state[c] \in Awaiting /\ Of[c] = b => c <= a}

GetActionByTracking(m) == {a \in Actions : a = Token[m] /\ state[a] # "ABSENT"}

\* By the token, else the latest of the broker; a look-up that fails finds nothing.
Lookup ==
    /\ pc = "lookup" /\ ~cancelled
    /\ LET named  == GetActionByTracking(cur)
           latest == IF From[cur] = None THEN {} ELSE LatestAwaitingByBroker(From[cur])
       IN act' \in named \cup latest \cup {None}
    /\ since' = {}
    /\ Goto("write")
    /\ UNCHANGED <<rows, server, wire, client, cur, todo, handled, env>>

Handled ==
    /\ handled' = [handled EXCEPT ![cur] = @ + 1]
    /\ Goto("fetch") /\ NoTask

UpdateActionState(a, s) ==
    /\ state' = IF a = None THEN state ELSE [state EXCEPT ![a] = s]
    /\ replied' = replied \cup ({a} \ {None})

\* An error of the UPDATE is dropped.
Write ==
    /\ pc = "write" /\ ~cancelled
    /\ \/ UpdateActionState(act, IF cur \in Linked THEN "AWAITING_CONFIRMATION" ELSE "SUBMITTED")
       \/ UNCHANGED <<state, replied>>
    /\ IF AutoFetch /\ todo > 0
       THEN Goto("click") /\ UNCHANGED <<cur, act, todo, handled>>
       ELSE Handled
    /\ UNCHANGED <<mails, since, server, wire, client, env>>

\* The next link, or the end of the message.
AfterLink ==
    IF todo > 1 THEN todo' = todo - 1 /\ UNCHANGED <<pc, cur, act, handled>> ELSE Handled

\* What a link leads to: a challenge or an error page, a page that confirms, anything else (or
\* a request or an UPDATE that fails).
Pages == {"challenge", "confirmed", "other"}

Says(page) ==
    CASE page = "challenge" -> UpdateActionState(act, "AWAITING_MANUAL") /\ UNCHANGED since
      [] page = "confirmed" -> UpdateActionState(act, "COMPLETED") /\ since' = since \cup ({act} \ {None})
      [] page = "other"     -> UNCHANGED <<state, replied, since>>

\* One link is opened.
Click ==
    /\ pc = "click" /\ ~cancelled
    /\ \E page \in Pages : Says(page)
    /\ AfterLink
    /\ UNCHANGED <<mails, server, wire, client, env>>

HandleIMAP == Lookup \/ Write \/ Click

(***************************************************************************)
(* The daemon stops and is started again.                                  *)
(***************************************************************************)
Cancel ==
    /\ ~cancelled /\ stops < MaxStops
    /\ cancelled' = TRUE /\ stops' = stops + 1
    /\ UNCHANGED <<rows, server, wire, client, pc, task, handled, drops>>

\* Every statement and request fails from now on; what was fetched is left behind.
Return ==
    /\ cancelled /\ pc # "off"
    /\ Goto("off") /\ NoTask /\ since' = {}
    /\ asked' = {} /\ owes' = FALSE /\ FreshClient
    /\ UNCHANGED <<rows, arrived, seen, handled, env>>

Restart ==
    /\ cancelled /\ pc = "off"
    /\ cancelled' = FALSE
    /\ Goto("backoff")
    /\ UNCHANGED <<rows, server, wire, client, task, handled, drops, stops>>

(***************************************************************************)
(* Everybody else who writes the rows keeps to Demand, as the inbox does.  *)
(***************************************************************************)
Others == INSTANCE Demand

Elsewhere ==
    /\ \E a \in Actions :
          \/ Others!Ask(a) /\ \A b \in Actions : b < a => state[b] # "ABSENT"
          \/ Others!Mail(a) /\ mails[a] < MaxMails
          \/ Others!ShowSent(a)
          \/ Others!Fail(a)
    /\ UNCHANGED <<server, wire, client, pc, task, handled, env>>

CompleteAction(a) ==
    /\ Others!Complete(a)
    /\ since' = since \cup {a}
    /\ UNCHANGED <<server, wire, client, pc, cur, act, todo, handled, env>>

Init ==
    /\ Others!Init
    /\ arrived = {} /\ seen = {} /\ asked = {} /\ owes = FALSE
    /\ wire = <<>> /\ updates = 0 /\ ch = <<>> /\ answered = FALSE /\ gone = FALSE
    /\ pc = "backoff" /\ cur = None /\ act = None /\ todo = 0 /\ since = {}
    /\ handled = [m \in Msgs |-> 0]
    /\ cancelled = FALSE /\ drops = 0 /\ stops = 0

Goroutine ==
    \/ Connect \/ Search \/ SearchFails \/ SetAside \/ TakeMail \/ DrainReturns
    \/ Wake \/ IdleEnds \/ Reconnect \/ HandleIMAP

Next ==
    \/ \E m \in Msgs : Arrive(m) \/ Serve(m)
    \/ ServeDone \/ Drop \/ Reader
    \/ Goroutine \/ IdleTimeout \/ SecretMissing
    \/ Cancel \/ Return \/ Restart
    \/ Elsewhere \/ \E a \in Actions : CompleteAction(a)

(***************************************************************************)
(* Goroutines that can run do run, IDLE ends after ten minutes at the      *)
(* latest, and the server answers what it was asked.                       *)
(***************************************************************************)
Fairness ==
    /\ WF_vars(Goroutine) /\ WF_vars(IdleTimeout) /\ WF_vars(Reader)
    /\ WF_vars(ServeDone) /\ WF_vars(\E m \in Msgs : Serve(m))

Spec == Init /\ [][Next]_vars /\ Fairness

-----------------------------------------------------------------------------
TypeOK ==
    /\ state \in [Actions -> States]
    /\ mails \in [Actions -> Nat] /\ replied \subseteq Actions
    /\ arrived \subseteq Msgs /\ seen \subseteq arrived /\ asked \subseteq arrived
    /\ wire \in Seq(Responses)
    /\ updates \in 0..Cap /\ ch \in Seq(Msgs) /\ Len(ch) <= ChCap
    /\ owes \in BOOLEAN /\ answered \in BOOLEAN /\ gone \in BOOLEAN
    /\ pc \in Steps
    /\ cur \in Msgs \cup {None} /\ act \in Actions \cup {None}
    /\ todo \in Nat /\ since \subseteq Actions
    /\ handled \in [Msgs -> Nat]
    /\ cancelled \in BOOLEAN /\ drops \in Nat /\ stops \in Nat

\* No message is handled twice, whatever connections are lost and however often the daemon is
\* restarted: the server flags a message before the client has it (listener.go drainUnseen).
HandledOnce == \A m \in Msgs : handled[m] <= 1

InFlight(m) ==
    \/ \E i \in DOMAIN wire : wire[i] = Reply("mail", m)
    \/ \E i \in DOMAIN ch : ch[i] = m
    \/ cur = m

\* A message that is flagged was handled, or is on its way to the handler, as long as no
\* connection was lost and the daemon was not stopped: nothing else makes the listener
\* overlook a flagged message (listener.go Run, drainUnseen).
NothingOverlooked ==
    drops + stops = 0 => \A m \in seen : handled[m] > 0 \/ InFlight(m)

\* A broker's mail sets a demand that is done back only if it became done after the handler had
\* looked it up, or by an earlier link of the same mail, or if the mail carries the demand's
\* tracking token (mail.go HandleIMAP, repository.go LatestAwaitingByBroker).
ReopenedOnlyInFlight ==
    [][\A a \in Actions : (Write \/ Click) /\ state[a] = "COMPLETED" /\ state'[a] # "COMPLETED"
          => a \in since \/ Token[cur] = a]_vars

\* The reader has a notice no channel has room for, and the goroutine waits for a response
\* behind it.
Jammed ==
    /\ wire # <<>> /\ Head(wire).kind = "exists" /\ updates = Cap
    /\ ~answered
    /\ pc = "leaving" \/ (pc = "fetch" /\ ch = <<>>)

\* Under a daemon that stays up every message is handled in the end, across lost connections,
\* unless it was cut off with one, the inbox is switched off by a failing look-up of the
\* password, or more notices than the updates channel holds jam the client (run.go runIMAP,
\* listener.go Run).
MailIsRead ==
    \A m \in Msgs : m \in arrived ~>
        handled[m] > 0 \/ (m \in seen /\ drops + stops > 0) \/ Jammed \/ pc = "off" \/ cancelled

(***************************************************************************)
(* What the screens say.                                                   *)
(***************************************************************************)
\* "Next: [3] Send to deliver the queued mail." (interactive.go doScrub): a queued demand
\* leaves the queue by being delivered, by failing or by being completed.
QueuedUntilDelivered ==
    [][\A a \in Actions : state[a] = "QUEUED" =>
          state'[a] \in {"QUEUED", "COMPLETED", "FAILED"} \/ mails[a] > 0]_vars
=============================================================================
