---------------------------- MODULE DaemonProofs ----------------------------
(***************************************************************************)
(* Daemon for every number of runs, clients and commands: a command is     *)
(* carried out at most once, and what is reported as done was done.        *)
(***************************************************************************)
EXTENDS Daemon, FiniteSetTheorems, TLAPS

Phases == {"none", "sent", "running", "done", "ok", "error", "reset"}

Conns == [to : Runs \cup {None}, cmd : {"none", "ping", "call"}, phase : Phases]

Stages == {"idle", "ping", "pinging", "call", "calling", "local", "over"}

Types ==
    /\ port \in Runs \cup {None}
    /\ doing \in [Clients -> Stages]
    /\ class \in [Clients -> {"none", "either", "playbook", "remote", "stop"}]
    /\ tok \in [Clients -> Runs \cup {None, Blank}]
    /\ token \in Runs \cup {None, Blank}
    /\ conn \in [Clients -> Conns]
    /\ result \in [Clients -> {"none", "ok", "error"}]
    /\ ran \in [Clients -> SUBSET (Runs \cup {Here})]

\* Before the call nothing was carried out, and then it is so by one side only.
OneSide(c) ==
    /\ doing[c] \notin {"calling", "over"} => ran[c] = {} /\ conn[c].cmd # "call"
    /\ conn[c].cmd # "call" => ran[c] \in {{}, {Here}}
    /\ conn[c].cmd = "call" => ran[c] \in {{}, {tok[c]}}
    /\ doing[c] = "calling" => conn[c].cmd = "call"

\* How far the handler of a call is tells whether the command was carried out.
AsFar(c) ==
    /\ conn[c].cmd = "none" => conn[c].phase = "none"
    /\ conn[c].phase \in {"running", "done"} => conn[c].cmd = "call" /\ conn[c].to = tok[c]
    /\ conn[c].cmd = "call" /\ conn[c].phase \in {"sent", "running", "error"} => ran[c] = {}
    /\ conn[c].cmd = "call" /\ conn[c].phase \in {"done", "ok"} => ran[c] # {}

\* A result is final, and "ok" was earned.
Earned(c) ==
    /\ result[c] # "none" => doing[c] = "over"
    /\ result[c] = "ok" /\ class[c] # "playbook" => ran[c] # {}

Good(c) == OneSide(c) /\ AsFar(c) /\ Earned(c)

IInv == Types /\ \A c \in Clients : Good(c)

-----------------------------------------------------------------------------
LEMMA InitInv == DInit => IInv
BY DEF DInit, IInv, Types, Good, OneSide, AsFar, Earned, Conns, Phases, Stages, NoConn

\* What a client's side and its connection look like unchanged stays good.
LEMMA Untouched ==
    ASSUME NEW c, Good(c),
           doing'[c] = doing[c], class'[c] = class[c], tok'[c] = tok[c], result'[c] = result[c],
           ran'[c] = ran[c], conn'[c] = conn[c]
    PROVE  Good(c)'
BY DEF Good, OneSide, AsFar, Earned

\* A step of the handler changes one phase.
LEMMA PhaseOnly ==
    ASSUME Types, NEW c \in Clients, NEW p \in Phases, Phase(c, p)
    PROVE  /\ conn' \in [Clients -> Conns]
           /\ conn'[c].to = conn[c].to /\ conn'[c].cmd = conn[c].cmd /\ conn'[c].phase = p
           /\ \A k \in Clients \ {c} : conn'[k] = conn[k]
<1>1. conn \in [Clients -> Conns] /\ conn' = [conn EXCEPT ![c].phase = p]
  BY DEF Types, Phase
<1>2. conn[c] \in Conns
  BY <1>1
<1>3. [conn[c] EXCEPT !.phase = p] \in Conns
  BY <1>2 DEF Conns
<1>4. conn'[c] = [conn[c] EXCEPT !.phase = p]
  BY <1>1
<1>5. conn'[c].to = conn[c].to /\ conn'[c].cmd = conn[c].cmd /\ conn'[c].phase = p
  BY <1>2, <1>4 DEF Conns
<1>. QED  BY <1>1, <1>3, <1>4, <1>5

\* When a run stops listening or ends, connections to it are at most reset.
Resets ==
    /\ conn' \in [Clients -> Conns]
    /\ \A c \in Clients :
          \/ conn'[c] = conn[c]
          \/ /\ conn[c].phase # "none" /\ conn'[c].phase = "reset"
             /\ conn'[c].to = conn[c].to /\ conn'[c].cmd = conn[c].cmd

LEMMA ResetsOnly ==
    ASSUME Types, NEW r \in Runs, conn' = Unheard(r) \/ conn' = Unanswered(r)
    PROVE  Resets
<1>1. \A c \in Clients :
        LET k == [conn[c] EXCEPT !.phase = "reset"]
        IN  k \in Conns /\ k.to = conn[c].to /\ k.cmd = conn[c].cmd /\ k.phase = "reset"
  BY DEF Types, Conns, Phases
<1>2. \A c \in Clients : conn[c] \in Conns
  BY DEF Types
<1>. QED  BY <1>1, <1>2 DEF Unheard, Unanswered, Resets

LEMMA RunStep == ASSUME IInv, NEW r \in Runs, Run(r) PROVE IInv'
<1>1. UNCHANGED <<client, ran>>
  BY DEF Run, Start, TruncateToken, WriteToken, Listen, Mail, Interrupt, CloseListener, ServeFails,
     Leave, Exit, Crash
<1>2. port' \in Runs \cup {None} /\ token' \in Runs \cup {None, Blank}
  BY DEF IInv, Types, Run, Start, TruncateToken, WriteToken, Listen, Mail, Interrupt, CloseListener,
     ServeFails, Leave, Exit, Crash
<1>3. Resets
  <2>1. conn' = conn \/ conn' = Unheard(r) \/ conn' = Unanswered(r)
    BY DEF Run, Start, TruncateToken, WriteToken, Listen, Mail, Interrupt, CloseListener, ServeFails,
       Leave, Exit, Crash
  <2>2. conn' = conn => Resets
    BY DEF IInv, Types, Resets
  <2>. QED  BY <2>1, <2>2, ResetsOnly DEF IInv
<1>4. Types'
  BY <1>1, <1>2, <1>3 DEF IInv, Types, Resets, client
<1>5. ASSUME NEW c \in Clients PROVE Good(c)'
  <2>1. CASE conn'[c] = conn[c]
    BY <1>1, <2>1, Untouched DEF IInv, client
  <2>2. CASE /\ conn[c].phase # "none" /\ conn'[c].phase = "reset"
             /\ conn'[c].to = conn[c].to /\ conn'[c].cmd = conn[c].cmd
    BY <1>1, <2>2 DEF IInv, client, Good, OneSide, AsFar, Earned
  <2>. QED  BY <1>3, <2>1, <2>2 DEF Resets
<1>. QED  BY <1>4, <1>5 DEF IInv

-----------------------------------------------------------------------------
LEMMA HandlerStep ==
    ASSUME IInv, NEW c \in Clients, Handle(c) \/ Dispatch(c) \/ WriteReply(c)
    PROVE  IInv'
<1>1. /\ UNCHANGED <<doing, class, tok, result, token, port>>
      /\ ran' \in [Clients -> SUBSET (Runs \cup {Here})]
      /\ \A k \in Clients \ {c} : ran'[k] = ran[k]
  BY DEF Handle, Dispatch, WriteReply, server, client, IInv, Types, Alive
<1>2. PICK p \in {"error", "ok", "running", "done"} : Phase(c, p)
  BY DEF Handle, Dispatch, WriteReply
<1>3. /\ conn' \in [Clients -> Conns]
      /\ conn'[c].to = conn[c].to /\ conn'[c].cmd = conn[c].cmd /\ conn'[c].phase = p
      /\ \A k \in Clients \ {c} : conn'[k] = conn[k]
  BY <1>2, PhaseOnly DEF IInv, Phases
<1>4. Types'
  BY <1>1, <1>3 DEF IInv, Types
<1>5. ASSUME NEW k \in Clients \ {c} PROVE Good(k)'
  BY <1>1, <1>3, Untouched DEF IInv
<1>6. conn[c] \in Conns /\ Good(c)
  BY DEF IInv, Types
<1>7. Good(c)'
  <2>1. CASE Handle(c)
    <3>1. conn'[c].phase = IF tok[c] # conn[c].to THEN "error"
                           ELSE IF conn[c].cmd = "ping" THEN "ok" ELSE "running"
      <4>1. DEFINE q == IF tok[c] # conn[c].to THEN "error"
                        ELSE IF conn[c].cmd = "ping" THEN "ok" ELSE "running"
      <4>2. q \in Phases /\ Phase(c, q)
        BY <2>1 DEF Handle, Phases
      <4>3. conn'[c].phase = q
        BY <4>2, PhaseOnly DEF IInv
      <4>. QED  BY <4>3
    <3>2. conn[c].phase = "sent" /\ ran' = ran
      BY <2>1 DEF Handle, Accepted
    <3>3. conn[c].cmd \in {"ping", "call"}
      BY <1>6, <3>2 DEF Conns, Good, AsFar
    <3>. QED  BY <1>1, <1>3, <1>6, <3>1, <3>2, <3>3 DEF Good, OneSide, AsFar, Earned
  <2>2. CASE Dispatch(c)
    <3>1. /\ conn[c].phase = "running" /\ conn[c].cmd = "call" /\ conn[c].to = tok[c] /\ ran[c] = {}
      BY <1>6, <2>2 DEF Dispatch, Good, AsFar
    <3>2. CASE Phase(c, "done") /\ ran' = [ran EXCEPT ![c] = @ \cup {conn[c].to}]
      <4>1. conn'[c].phase = "done"
        BY <3>2, PhaseOnly DEF IInv, Phases
      <4>2. ran'[c] = {tok[c]}
        BY <3>1, <3>2 DEF IInv, Types
      <4>. QED  BY <1>1, <1>3, <1>6, <3>1, <4>1, <4>2 DEF Good, OneSide, AsFar, Earned
    <3>3. CASE Phase(c, "error") /\ ran' = ran
      <4>1. conn'[c].phase = "error"
        BY <3>3, PhaseOnly DEF IInv, Phases
      <4>. QED  BY <1>1, <1>3, <1>6, <3>1, <3>3, <4>1 DEF Good, OneSide, AsFar, Earned
    <3>. QED  BY <2>2, <3>2, <3>3 DEF Dispatch
  <2>3. CASE WriteReply(c)
    <3>1. conn[c].phase = "done" /\ ran' = ran /\ Phase(c, "ok")
      BY <2>3 DEF WriteReply
    <3>2. conn'[c].phase = "ok"
      BY <3>1, PhaseOnly DEF IInv, Phases
    <3>. QED  BY <1>1, <1>3, <1>6, <3>1, <3>2 DEF Good, OneSide, AsFar, Earned
  <2>. QED  BY <2>1, <2>2, <2>3
<1>. QED  BY <1>4, <1>5, <1>7 DEF IInv

-----------------------------------------------------------------------------
\* A client changes its own side only.
Aside(c) ==
    /\ UNCHANGED <<port, token>> /\ Types'
    /\ \A k \in Clients \ {c} :
          /\ doing'[k] = doing[k] /\ class'[k] = class[k] /\ tok'[k] = tok[k]
          /\ result'[k] = result[k] /\ ran'[k] = ran[k] /\ conn'[k] = conn[k]

LEMMA Calls ==
    ASSUME Types, NEW cmd \in {"ping", "call"}, port # None
    PROVE  [to |-> port, cmd |-> cmd, phase |-> "sent"] \in Conns /\ NoConn \in Conns
BY DEF Types, Conns, Phases, NoConn

LEMMA ClientAside ==
    ASSUME IInv, NEW c \in Clients, Client(c)
    PROVE  Aside(c)
<1>. USE DEF IInv, Types, Aside, server, Stages
<1>1. CASE \E k \in Commands : Refuse(c, k)
  BY <1>1 DEF Refuse, Tell, Step
<1>2. CASE \E k \in Commands : LoadToken(c, k)
  <2>1. PICK k \in Commands : LoadToken(c, k)
    BY <1>2
  <2>2. Class(k) \in {"none", "either", "playbook", "remote", "stop"}
    BY DEF Class
  <2>3. class' = [class EXCEPT ![c] = Class(k)] /\ UNCHANGED <<port, token, conn, ran>>
    BY <2>1 DEF LoadToken
  <2>4. /\ tok' \in [Clients -> Runs \cup {None, Blank}]
        /\ \A j \in Clients \ {c} : tok'[j] = tok[j]
    BY <2>1 DEF LoadToken
  <2>5. /\ doing' \in [Clients -> Stages] /\ result' \in [Clients -> {"none", "ok", "error"}]
        /\ \A j \in Clients \ {c} : doing'[j] = doing[j] /\ result'[j] = result[j]
    BY <2>1 DEF LoadToken, Alone, Tell, Step
  <2>. QED  BY <2>2, <2>3, <2>4, <2>5
<1>3. CASE Ping(c) \/ Call(c)
  <2>1. conn' \in [Clients -> Conns] /\ \A k \in Clients \ {c} : conn'[k] = conn[k]
    BY <1>3, Calls DEF Ping, Call, Dial
  <2>. QED  BY <1>3, <2>1 DEF Ping, Call, Alone, Tell, Step, CallFails
<1>4. CASE PingFails(c)
  <2>1. NoConn \in Conns
    BY DEF Conns, Phases, NoConn
  <2>. QED  BY <1>4, <2>1 DEF PingFails, Alone, Tell, Step
<1>5. CASE Ponged(c) \/ Replied(c) \/ CallTimesOut(c)
  BY <1>5 DEF Ponged, Replied, CallTimesOut, CallFails, Tell, Step
<1>6. CASE Local(c)
  BY <1>6 DEF Local, Tell, Step
<1>. QED  BY <1>1, <1>2, <1>3, <1>4, <1>5, <1>6 DEF Client, Connection

\* Whoever the step leaves to do it here has not done it yet.
LEMMA ClientGood ==
    ASSUME IInv, NEW c \in Clients, Client(c), Aside(c)
    PROVE  Good(c)'
<1>. USE DEF IInv, Types, Good, OneSide, AsFar, Earned
<1>1. Good(c) /\ conn[c] \in Conns
  OBVIOUS
<1>2. CASE \E k \in Commands : Refuse(c, k)
  <2>1. /\ doing[c] = "idle" /\ doing'[c] = "over" /\ result'[c] = "error" /\ class' = class
        /\ tok' = tok /\ conn' = conn /\ ran' = ran
    BY <1>2 DEF Refuse, Tell, Step
  <2>. QED  BY <1>1, <2>1
<1>3. CASE \E k \in Commands : LoadToken(c, k)
  <2>1. /\ doing[c] = "idle" /\ conn' = conn /\ ran' = ran
        /\ doing'[c] \in {"ping", "local", "over"}
        /\ result'[c] = IF doing'[c] = "over" THEN "error" ELSE result[c]
    BY <1>3 DEF LoadToken, Alone, Tell, Step
  <2>2. ran[c] = {} /\ conn[c].cmd # "call" /\ result[c] = "none" /\ conn[c].phase \notin {"running", "done"}
    BY <1>1, <2>1
  <2>. QED  BY <1>1, <2>1, <2>2
<1>4. CASE Ping(c)
  <2>1. /\ doing[c] = "ping" /\ class' = class /\ tok' = tok /\ ran' = ran
        /\ \/ doing'[c] = "pinging" /\ result' = result
              /\ conn'[c] = [to |-> port, cmd |-> "ping", phase |-> "sent"]
           \/ doing'[c] \in {"local", "over"} /\ conn' = conn
              /\ result'[c] = IF doing'[c] = "over" THEN "error" ELSE result[c]
    BY <1>4 DEF Ping, Dial, Alone, Tell, Step
  <2>. QED  BY <1>1, <2>1
<1>5. CASE Ponged(c)
  <2>1. /\ doing[c] = "pinging" /\ doing'[c] = "call"
        /\ class' = class /\ tok' = tok /\ ran' = ran /\ conn' = conn /\ result' = result
    BY <1>5 DEF Ponged, Step
  <2>. QED  BY <1>1, <2>1
<1>6. CASE PingFails(c)
  <2>1. /\ doing[c] = "pinging" /\ class' = class /\ tok' = tok /\ ran' = ran
        /\ conn'[c] = NoConn /\ doing'[c] \in {"local", "over"}
        /\ result'[c] = IF doing'[c] = "over" THEN "error" ELSE result[c]
    BY <1>6 DEF PingFails, Alone, Tell, Step
  <2>. QED  BY <1>1, <2>1 DEF NoConn
<1>7. CASE Call(c)
  <2>1. /\ doing[c] = "call" /\ class' = class /\ tok' = tok /\ ran' = ran
        /\ \/ doing'[c] = "calling" /\ result' = result
              /\ conn'[c] = [to |-> port, cmd |-> "call", phase |-> "sent"]
           \/ doing'[c] = "over" /\ conn' = conn
              /\ result'[c] = IF class[c] = "playbook" THEN "ok" ELSE "error"
    BY <1>7 DEF Call, Dial, CallFails, Tell, Step
  <2>. QED  BY <1>1, <2>1
<1>8. CASE Replied(c) \/ CallTimesOut(c)
  <2>1. /\ doing[c] = "calling" /\ doing'[c] = "over"
        /\ class' = class /\ tok' = tok /\ ran' = ran /\ conn' = conn
        /\ result'[c] = "ok" => conn[c].phase = "ok" \/ class[c] = "playbook"
    BY <1>8 DEF Replied, CallTimesOut, CallFails, Answer, Tell, Step
  <2>. QED  BY <1>1, <2>1
<1>9. CASE Local(c)
  <2>1. /\ doing[c] = "local" /\ doing'[c] = "over" /\ class' = class /\ tok' = tok /\ conn' = conn
        /\ \/ ran'[c] = ran[c] \cup {Here}
           \/ ran'[c] = ran[c] /\ (result'[c] = "ok" => class[c] = "playbook")
    BY <1>9 DEF Local, Tell, Step
  <2>2. ran[c] = {} /\ conn[c].cmd # "call"
    BY <1>1, <2>1
  <2>. QED  BY <1>1, <2>1, <2>2
<1>. QED  BY <1>2, <1>3, <1>4, <1>5, <1>6, <1>7, <1>8, <1>9 DEF Client, Connection

LEMMA NextInv == IInv /\ [DNext]_dvars => IInv'
<1>. SUFFICES ASSUME IInv, [DNext]_dvars PROVE IInv'
  OBVIOUS
<1>1. CASE UNCHANGED dvars
  BY <1>1 DEF dvars, server, client, IInv, Types, Good, OneSide, AsFar, Earned
<1>2. ASSUME NEW r \in Runs, Run(r) PROVE IInv'
  BY <1>2, RunStep
<1>3. ASSUME NEW c \in Clients, Handle(c) \/ Dispatch(c) \/ WriteReply(c) PROVE IInv'
  BY <1>3, HandlerStep
<1>4. ASSUME NEW c \in Clients, Client(c) PROVE IInv'
  <2>1. Aside(c)
    BY <1>4, ClientAside
  <2>2. Good(c)'
    BY <1>4, <2>1, ClientGood
  <2>3. ASSUME NEW k \in Clients \ {c} PROVE Good(k)'
    BY <2>1, Untouched DEF IInv, Aside
  <2>. QED  BY <2>1, <2>2, <2>3 DEF IInv, Aside
<1>. QED  BY <1>1, <1>2, <1>3, <1>4 DEF DNext

\* A command is carried out at most once, by the client or by the daemon whose token it read, and
\* what is reported as done was done, however runs come and go (cli.go callOrLocal, doOrLocal;
\* protocol.go Call; server.go dispatch).
THEOREM CarriedOutOnce == DSpec => []DoneOnce
<1>1. IInv => DoneOnce
  <2>. SUFFICES ASSUME IInv, NEW c \in Clients
                PROVE  /\ Cardinality(ran[c]) <= 1 /\ ran[c] \subseteq {tok[c], Here}
                       /\ result[c] = "ok" /\ class[c] # "playbook" => ran[c] # {}
    BY DEF DoneOnce
  <2>1. ran[c] \in {{}, {Here}, {tok[c]}} /\ Earned(c)
    BY DEF IInv, Good, OneSide
  <2>2. Cardinality({}) = 0 /\ Cardinality({Here}) = 1 /\ Cardinality({tok[c]}) = 1
    BY FS_EmptySet, FS_Singleton
  <2>3. Cardinality(ran[c]) <= 1
    BY <2>1, <2>2
  <2>. QED  BY <2>1, <2>3 DEF Earned
<1>. QED  BY <1>1, InitInv, NextInv, PTL DEF DSpec
=============================================================================
