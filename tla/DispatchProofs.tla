--------------------------- MODULE DispatchProofs ---------------------------
(***************************************************************************)
(* Dispatch for every number of demands, workers and sessions, every       *)
(* capacity of the channel and any number of restarts: the rows account    *)
(* for every outcome of a mail, and the daemon and the sessions together   *)
(* keep the promise of Demand.                                             *)
(***************************************************************************)
EXTENDS Dispatch, FiniteSetTheorems, SequenceTheorems, TLAPS

\* A sender that is past its list holds a demand that exists.
HoldsDemand ==
    \A s \in Senders : pc(s) \in {"load", "dial", "sent", "failed"} =>
        cur(s) \in Smtp /\ State(cur(s)) # "ABSENT"

\* So does everything that waits to be taken.
ListsDemands ==
    /\ \A a \in backlog : State(a) # "ABSENT"
    /\ \A s \in Sessions : \A a \in todo[s] : State(a) # "ABSENT"
    /\ \A i \in 1..Len(jobs) : State(jobs[i]) # "ABSENT"

\* A sender about to record a success has mailed; a demand nobody asked for was never mailed.
MailedFirst ==
    /\ \A s \in Senders : pc(s) = "sent" => mails[cur(s)] > 0
    /\ \A a \in Actions : State(a) = "ABSENT" => mails[a] = 0

IInv ==
    /\ TypeOK
    /\ HoldsDemand /\ ListsDemands /\ MailedFirst
    /\ SentMeansMailed /\ NoAttemptForgotten /\ RequeuedOnlyByLoss

-----------------------------------------------------------------------------
LEMMA SendersFinite ==
    /\ IsFiniteSet(Senders)
    /\ \A S : \A a : IsFiniteSet(S) => IsFiniteSet(Unwritten(S, a))
<1>1. IsFiniteSet(Senders)
  BY FS_Union, DispatchAssumption DEF Senders
<1>2. ASSUME NEW S, NEW a, IsFiniteSet(S)
      PROVE  IsFiniteSet(Unwritten(S, a))
  <2>1. Unwritten(S, a) \in SUBSET S
    BY DEF Unwritten
  <2>. QED  BY <1>2, <2>1, FS_Subset
<1>. QED  BY <1>1, <1>2

\* What moving one sender does to at.
LEMMA Moved ==
    ASSUME TypeOK, NEW s \in Senders, NEW step \in Steps, NEW a \in Smtp \cup {None},
           MoveTo(s, step, a)
    PROVE  /\ at' \in [Senders -> [step : Steps, act : Smtp \cup {None}]]
           /\ at'[s] = [step |-> step, act |-> a]
           /\ \A r \in Senders \ {s} : at'[r] = at[r]
  BY DEF TypeOK, MoveTo

\* What an UPDATE does to the table.
LEMMA Updated ==
    ASSUME TypeOK, NEW a \in Actions, NEW st \in States, NEW n \in Nat,
           UpdateActionState(a, st, n)
    PROVE  /\ row' \in [Actions -> [state : States \cup {"ABSENT"}, attempts : Nat]]
           /\ row'[a] = [state |-> st, attempts |-> row[a].attempts + n]
           /\ \A b \in Actions \ {a} : row'[b] = row[b]
  BY DEF TypeOK, UpdateActionState

LEMMA VanishType ==
    ASSUME TypeOK, NEW S \in SUBSET Senders, Vanish(S)
    PROVE  /\ at' \in [Senders -> [step : Steps, act : Smtp \cup {None}]]
           /\ lost' \in [Actions -> Nat]
           /\ \A s \in S : at'[s].step \in {"idle", "exited"}
           /\ \A s \in Senders \ S : at'[s] = at[s]
           /\ UNCHANGED <<mails, tries, replied>>
<1>1. IsFiniteSet(S)
  BY SendersFinite, FS_Subset
<1>2. \A a \in Actions : Cardinality(Unwritten(S, a)) \in Nat
  BY <1>1, SendersFinite, FS_CardinalityType
<1>. QED  BY <1>2 DEF Vanish, TypeOK, Steps

-----------------------------------------------------------------------------
LEMMA InitType == Init => TypeOK
<1>. SUFFICES ASSUME Init PROVE TypeOK
  OBVIOUS
<1>1. jobs \in Seq(Smtp) /\ Len(jobs) <= Cap
  BY DispatchAssumption, EmptySeq DEF Init
<1>2. at \in [Senders -> [step : Steps, act : Smtp \cup {None}]]
  BY DEF Init, Steps
<1>3. row \in [Actions -> [state : States \cup {"ABSENT"}, attempts : Nat]]
  BY DEF Init
<1>. QED  BY <1>1, <1>2, <1>3 DEF Init, TypeOK

LEMMA ChannelType ==
    ASSUME TypeOK
    PROVE  /\ \A a \in Smtp : Append(jobs, a) \in Seq(Smtp) /\ Len(Append(jobs, a)) = Len(jobs) + 1
           /\ jobs # <<>> => /\ Head(jobs) \in Smtp
                             /\ Tail(jobs) \in Seq(Smtp) /\ Len(Tail(jobs)) = Len(jobs) - 1
           /\ Len(jobs) \in Nat
<1>1. jobs \in Seq(Smtp)
  BY DEF TypeOK
<1>2. \A a \in Smtp : Append(jobs, a) \in Seq(Smtp) /\ Len(Append(jobs, a)) = Len(jobs) + 1
  BY <1>1, AppendProperties
<1>3. jobs # <<>> => /\ Head(jobs) \in Smtp
                     /\ Tail(jobs) \in Seq(Smtp) /\ Len(Tail(jobs)) = Len(jobs) - 1
  BY <1>1, HeadTailProperties
<1>4. Len(jobs) \in Nat
  BY <1>1, LenProperties
<1>. QED  BY <1>2, <1>3, <1>4

\* dispatchSMTP, whoever runs it.
LEMMA DispatchType ==
    ASSUME TypeOK, HoldsDemand, NEW s \in Senders, DispatchSMTP(s)
    PROVE  TypeOK'
<1>. USE DispatchAssumption DEF daemon, session, history, bounds
<1>1. CASE Load(s)
  <2>1. cur(s) \in Smtp \cup {None} /\ MoveTo(s, "dial", cur(s))
    BY <1>1 DEF Load, TypeOK
  <2>. QED  BY <1>1, <2>1, Moved DEF Load, TypeOK, Steps
<1>2. CASE LoadFails(s)
  <2>1. errors' \in Nat
    BY <1>2 DEF LoadFails, StatementFails, TypeOK
  <2>. QED  BY <1>2, <2>1, Moved DEF LoadFails, TypeOK, Steps
<1>3. CASE NotConfigured(s)
  <2>1. cur(s) \in Smtp
    BY <1>3 DEF NotConfigured
  <2>2. at' \in [Senders -> [step : Steps, act : Smtp \cup {None}]]
    BY <1>3, <2>1, Moved DEF NotConfigured, Steps
  <2>. QED  BY <1>3, <2>1, <2>2 DEF NotConfigured, TypeOK
<1>4. CASE Deliver(s)
  <2>1. cur(s) \in Smtp
    BY <1>4 DEF Deliver, HoldsDemand
  <2>2. at' \in [Senders -> [step : Steps, act : Smtp \cup {None}]]
    BY <1>4, <2>1, Moved DEF Deliver, Steps
  <2>. QED  BY <1>4, <2>1, <2>2 DEF Deliver, TypeOK
<1>5. CASE SendError(s)
  <2>1. cur(s) \in Smtp
    BY <1>5 DEF SendError, HoldsDemand
  <2>2. at' \in [Senders -> [step : Steps, act : Smtp \cup {None}]]
    BY <1>5, <2>1, Moved DEF SendError, Steps
  <2>. QED  BY <1>5, <2>1, <2>2 DEF SendError, TypeOK
<1>6. CASE Record(s)
  <2>1. cur(s) \in Actions /\ Outcome(s) \in States
    BY <1>6 DEF Record, HoldsDemand, Outcome, States
  <2>2. row' \in [Actions -> [state : States \cup {"ABSENT"}, attempts : Nat]]
    BY <1>6, <2>1, Updated DEF Record
  <2>3. at' \in [Senders -> [step : Steps, act : Smtp \cup {None}]]
    BY <1>6, Moved DEF Record, Steps
  <2>. QED  BY <1>6, <2>2, <2>3 DEF Record, TypeOK
<1>7. CASE RecordFails(s)
  <2>1. cur(s) \in Smtp
    BY <1>7 DEF RecordFails, HoldsDemand
  <2>2. at' \in [Senders -> [step : Steps, act : Smtp \cup {None}]]
    BY <1>7, Moved DEF RecordFails, Steps
  <2>3. errors' \in Nat
    BY <1>7 DEF RecordFails, StatementFails, TypeOK
  <2>. QED  BY <1>7, <2>1, <2>2, <2>3 DEF RecordFails, TypeOK
<1>. QED  BY <1>1, <1>2, <1>3, <1>4, <1>5, <1>6, <1>7 DEF DispatchSMTP

LEMMA TypeStep ==
    ASSUME TypeOK, HoldsDemand, [Next]_vars
    PROVE  TypeOK'
<1>. USE DispatchAssumption DEF daemon, session, history, bounds
<1>1. ASSUME NEW a \in Actions, InsertAction(a) \/ CompleteAction(a) \/ Answer(a)
      PROVE  TypeOK'
  <2>1. row' \in [Actions -> [state : States \cup {"ABSENT"}, attempts : Nat]]
    BY <1>1, Updated DEF InsertAction, CompleteAction, Answer, States
  <2>. QED  BY <1>1, <2>1 DEF InsertAction, CompleteAction, Answer, TypeOK
<1>2. ASSUME NEW a \in Actions, Submit(a) \/ SubmitCancelled(a)
      PROVE  TypeOK'
  <2>1. a \in Smtp
    BY <1>2 DEF Submit, SubmitCancelled, Oldest, TypeOK
  <2>2. CASE Submit(a)
    <3>1. jobs' = Append(jobs, a) /\ Len(jobs) < Cap
      BY <2>2 DEF Submit
    <3>2. jobs' \in Seq(Smtp) /\ Len(jobs') <= Cap
      BY <2>1, <3>1, ChannelType
    <3>. QED  BY <2>2, <3>2 DEF Submit, TypeOK
  <2>3. CASE SubmitCancelled(a)
    BY <2>3 DEF SubmitCancelled, TypeOK
  <2>. QED  BY <1>2, <2>2, <2>3
<1>3. CASE Start \/ Cancel
  BY <1>3 DEF Start, Cancel, TypeOK
<1>4. CASE DrainQueued
  BY <1>4 DEF DrainQueued, TypeOK
<1>5. CASE ExitAfterWait \/ ExitAtOnce
  <2>1. DaemonGone
    BY <1>5 DEF ExitAfterWait, ExitAtOnce
  <2>2. /\ at' \in [Senders -> [step : Steps, act : Smtp \cup {None}]]
        /\ lost' \in [Actions -> Nat] /\ UNCHANGED <<mails, tries, replied>>
    BY <2>1, VanishType DEF DaemonGone, Senders
  <2>3. jobs' \in Seq(Smtp) /\ Len(jobs') <= Cap
    <3>1. jobs' = <<>>
      BY <2>1 DEF DaemonGone
    <3>2. <<>> \in Seq(Smtp) /\ Len(<<>>) = 0
      BY EmptySeq
    <3>. QED  BY <3>1, <3>2
  <2>4. /\ life' \in {"down", "up", "stopping"} /\ backlog' \subseteq Smtp
        /\ linked' \in BOOLEAN /\ UNCHANGED <<row, todo, stop, starts, sends, errors>>
    BY <2>1 DEF DaemonGone
  <2>. QED  BY <2>2, <2>3, <2>4 DEF TypeOK
<1>6. ASSUME NEW w \in Workers, Receive(w) \/ WorkerExits(w)
      PROVE  TypeOK'
  <2>1. at' \in [Senders -> [step : Steps, act : Smtp \cup {None}]]
    BY <1>6, Moved, ChannelType DEF Receive, WorkerExits, Senders, Steps
  <2>2. CASE Receive(w)
    <3>1. jobs # <<>> /\ jobs' = Tail(jobs)
      BY <2>2 DEF Receive
    <3>2. jobs' \in Seq(Smtp) /\ Len(jobs') <= Cap
      BY <3>1, ChannelType DEF TypeOK
    <3>. QED  BY <2>1, <2>2, <3>2 DEF Receive, TypeOK
  <2>3. CASE WorkerExits(w)
    BY <2>1, <2>3 DEF WorkerExits, TypeOK
  <2>. QED  BY <1>6, <2>2, <2>3
<1>7. ASSUME NEW s \in Sessions,
             SendQueuedSMTP(s) \/ Interrupt(s) \/ SessionEnds(s) \/ Reopen(s)
      PROVE  TypeOK'
  <2>1. CASE SendQueuedSMTP(s)
    BY <2>1 DEF SendQueuedSMTP, TypeOK
  <2>2. CASE Interrupt(s)
    BY <2>2 DEF Interrupt, TypeOK
  <2>3. CASE SessionEnds(s) \/ Reopen(s)
    <3>1. at' \in [Senders -> [step : Steps, act : Smtp \cup {None}]]
      BY <2>3, Moved DEF SessionEnds, Reopen, Senders, Steps
    <3>. QED  BY <2>3, <3>1 DEF SessionEnds, Reopen, TypeOK
  <2>. QED  BY <1>7, <2>1, <2>2, <2>3
<1>8. ASSUME NEW s \in Sessions, CloseWindow(s)
      PROVE  TypeOK'
  <2>1. /\ at' \in [Senders -> [step : Steps, act : Smtp \cup {None}]]
        /\ lost' \in [Actions -> Nat] /\ UNCHANGED <<mails, tries, replied>>
    BY <1>8, VanishType DEF CloseWindow, Senders
  <2>. QED  BY <1>8, <2>1 DEF CloseWindow, TypeOK
<1>9. ASSUME NEW s \in Sessions, NEW a \in Actions, SendNext(s, a)
      PROVE  TypeOK'
  <2>1. a \in Smtp
    BY <1>9 DEF SendNext, Newest, TypeOK
  <2>2. at' \in [Senders -> [step : Steps, act : Smtp \cup {None}]]
    BY <1>9, <2>1, Moved DEF SendNext, Senders, Steps
  <2>. QED  BY <1>9, <2>2 DEF SendNext, TypeOK
<1>10. CASE UNCHANGED vars
  BY <1>10 DEF vars, TypeOK
<1>. QED
  BY <1>1, <1>2, <1>3, <1>4, <1>5, <1>6, <1>7, <1>8, <1>9, <1>10, DispatchType DEF Next

-----------------------------------------------------------------------------
\* The only steps that write a row.
LEMMA RowSteps ==
    ASSUME [Next]_vars
    PROVE  \/ UNCHANGED row
           \/ \E a \in Actions : InsertAction(a) \/ CompleteAction(a) \/ Answer(a)
           \/ \E s \in Senders : Record(s)
<1>. USE DEF daemon, session, history, bounds
<1>1. ASSUME NEW s \in Senders, DispatchSMTP(s)
      PROVE  UNCHANGED row \/ Record(s)
  BY <1>1 DEF DispatchSMTP, Load, LoadFails, NotConfigured, Deliver, SendError, RecordFails
<1>2. ASSUME NEW a \in Actions, Submit(a) \/ SubmitCancelled(a)
      PROVE  UNCHANGED row
  BY <1>2 DEF Submit, SubmitCancelled
<1>3. CASE Start \/ DrainQueued \/ Cancel \/ ExitAfterWait \/ ExitAtOnce
  BY <1>3 DEF Start, DrainQueued, Cancel, ExitAfterWait, ExitAtOnce, DaemonGone
<1>4. ASSUME NEW w \in Workers, Receive(w) \/ WorkerExits(w)
      PROVE  UNCHANGED row
  BY <1>4 DEF Receive, WorkerExits
<1>5. ASSUME NEW s \in Sessions,
             \/ SendQueuedSMTP(s) \/ Interrupt(s) \/ SessionEnds(s)
             \/ CloseWindow(s) \/ Reopen(s) \/ \E a \in Actions : SendNext(s, a)
      PROVE  UNCHANGED row
  BY <1>5 DEF SendQueuedSMTP, Interrupt, SessionEnds, CloseWindow, Reopen, SendNext
<1>. QED  BY <1>1, <1>2, <1>3, <1>4, <1>5 DEF Next, vars

\* The only steps that hand a mail to a broker.
LEMMA MailSteps ==
    ASSUME [Next]_vars
    PROVE  UNCHANGED mails \/ \E s \in Senders : Deliver(s)
<1>. USE DEF daemon, session, history, bounds
<1>1. ASSUME NEW s \in Senders, DispatchSMTP(s)
      PROVE  UNCHANGED mails \/ Deliver(s)
  BY <1>1 DEF DispatchSMTP, Load, LoadFails, NotConfigured, SendError, Record, RecordFails
<1>2. ASSUME NEW a \in Actions,
             \/ InsertAction(a) \/ CompleteAction(a) \/ Answer(a)
             \/ Submit(a) \/ SubmitCancelled(a)
      PROVE  UNCHANGED mails
  BY <1>2 DEF InsertAction, CompleteAction, Answer, Submit, SubmitCancelled
<1>3. CASE Start \/ DrainQueued \/ Cancel \/ ExitAfterWait \/ ExitAtOnce
  BY <1>3 DEF Start, DrainQueued, Cancel, ExitAfterWait, ExitAtOnce, DaemonGone, Vanish
<1>4. ASSUME NEW w \in Workers, Receive(w) \/ WorkerExits(w)
      PROVE  UNCHANGED mails
  BY <1>4 DEF Receive, WorkerExits
<1>5. ASSUME NEW s \in Sessions,
             \/ SendQueuedSMTP(s) \/ Interrupt(s) \/ SessionEnds(s)
             \/ CloseWindow(s) \/ Reopen(s) \/ \E a \in Actions : SendNext(s, a)
      PROVE  UNCHANGED mails
  BY <1>5 DEF SendQueuedSMTP, Interrupt, SessionEnds, CloseWindow, Vanish, Reopen, SendNext
<1>. QED  BY <1>1, <1>2, <1>3, <1>4, <1>5 DEF Next, vars

\* Only the inbox takes a mail to be about a demand.
LEMMA RepliedSteps ==
    ASSUME TypeOK, [Next]_vars
    PROVE  UNCHANGED replied \/ \E a \in Actions : Answer(a)
<1>. USE DEF daemon, session, history, bounds
<1>1. ASSUME NEW s \in Senders, DispatchSMTP(s)
      PROVE  UNCHANGED replied
  BY <1>1 DEF DispatchSMTP, Load, LoadFails, NotConfigured, Deliver, SendError, Record,
              RecordFails
<1>2. ASSUME NEW a \in Actions,
             InsertAction(a) \/ CompleteAction(a) \/ Submit(a) \/ SubmitCancelled(a)
      PROVE  UNCHANGED replied
  BY <1>2 DEF InsertAction, CompleteAction, Submit, SubmitCancelled
<1>3. CASE Start \/ DrainQueued \/ Cancel \/ ExitAfterWait \/ ExitAtOnce
  BY <1>3 DEF Start, DrainQueued, Cancel, ExitAfterWait, ExitAtOnce, DaemonGone, Vanish
<1>4. ASSUME NEW w \in Workers, Receive(w) \/ WorkerExits(w)
      PROVE  UNCHANGED replied
  BY <1>4 DEF Receive, WorkerExits
<1>5. ASSUME NEW s \in Sessions,
             \/ SendQueuedSMTP(s) \/ Interrupt(s) \/ SessionEnds(s)
             \/ CloseWindow(s) \/ Reopen(s) \/ \E a \in Actions : SendNext(s, a)
      PROVE  UNCHANGED replied
  BY <1>5 DEF SendQueuedSMTP, Interrupt, SessionEnds, CloseWindow, Vanish, Reopen, SendNext
<1>. QED  BY <1>1, <1>2, <1>3, <1>4, <1>5 DEF Next, vars

\* The only steps by which a sender gets, or keeps, a demand in its hands.
LEMMA AtSteps ==
    ASSUME TypeOK, HoldsDemand, [Next]_vars, NEW s \in Senders
    PROVE  \/ at'[s] = at[s]
           \/ at'[s].step \in {"idle", "exited"}
           \/ Load(s) \/ NotConfigured(s) \/ Deliver(s) \/ SendError(s)
           \/ s \in Workers /\ Receive(s)
           \/ s \in Sessions /\ \E a \in Actions : SendNext(s, a)
<1>. USE DEF daemon, session, history, bounds
<1>0. at \in [Senders -> [step : Steps, act : Smtp \cup {None}]]
  BY DEF TypeOK
<1>1. ASSUME NEW r \in Senders, DispatchSMTP(r)
      PROVE  \/ at'[s] = at[s] \/ at'[s].step = "idle"
             \/ Load(s) \/ NotConfigured(s) \/ Deliver(s) \/ SendError(s)
  <2>1. CASE r # s
    BY <1>0, <1>1, <2>1 DEF DispatchSMTP, Load, LoadFails, NotConfigured, Deliver, SendError,
                            Record, RecordFails, MoveTo
  <2>2. CASE r = s
    BY <1>0, <1>1, <2>2 DEF DispatchSMTP, LoadFails, Record, RecordFails, MoveTo
  <2>. QED  BY <2>1, <2>2
<1>2. ASSUME NEW a \in Actions,
             \/ InsertAction(a) \/ CompleteAction(a) \/ Answer(a)
             \/ Submit(a) \/ SubmitCancelled(a)
      PROVE  at' = at
  BY <1>2 DEF InsertAction, CompleteAction, Answer, Submit, SubmitCancelled
<1>3. CASE Start \/ DrainQueued \/ Cancel
  BY <1>3 DEF Start, DrainQueued, Cancel
<1>4. CASE ExitAfterWait \/ ExitAtOnce
  BY <1>4, VanishType DEF ExitAfterWait, ExitAtOnce, DaemonGone, Senders
<1>5. ASSUME NEW w \in Workers, Receive(w) \/ WorkerExits(w)
      PROVE  at'[s] = at[s] \/ at'[s].step = "exited" \/ (s \in Workers /\ Receive(s))
  <2>1. w \in Senders
    BY DEF Senders
  <2>2. CASE w # s
    BY <1>0, <1>5, <2>1, <2>2 DEF Receive, WorkerExits, MoveTo
  <2>3. CASE w = s
    BY <1>0, <1>5, <2>3 DEF WorkerExits, MoveTo
  <2>. QED  BY <2>2, <2>3
<1>6. ASSUME NEW r \in Sessions, SendQueuedSMTP(r) \/ Interrupt(r)
      PROVE  at' = at
  BY <1>6 DEF SendQueuedSMTP, Interrupt
<1>7. ASSUME NEW r \in Sessions, SessionEnds(r) \/ Reopen(r)
      PROVE  at'[s] = at[s] \/ at'[s].step \in {"idle", "exited"}
  BY <1>0, <1>7 DEF SessionEnds, Reopen, MoveTo
<1>8. ASSUME NEW r \in Sessions, CloseWindow(r)
      PROVE  at'[s] = at[s] \/ at'[s].step \in {"idle", "exited"}
  BY <1>8, VanishType DEF CloseWindow, Senders
<1>9. ASSUME NEW r \in Sessions, NEW a \in Actions, SendNext(r, a)
      PROVE  at'[s] = at[s] \/ (s \in Sessions /\ SendNext(s, a))
  BY <1>0, <1>9 DEF SendNext, MoveTo
<1>. QED
  BY <1>1, <1>2, <1>3, <1>4, <1>5, <1>6, <1>7, <1>8, <1>9 DEF Next, vars

\* A row is never deleted.
LEMMA RowStays ==
    ASSUME TypeOK, HoldsDemand, [Next]_vars
    PROVE  \A a \in Actions : State(a) # "ABSENT" => State(a)' # "ABSENT"
<1>1. UNCHANGED row \/ \E a \in Actions, st \in States, n \in Nat : UpdateActionState(a, st, n)
  <2>1. ASSUME NEW a \in Actions, InsertAction(a) \/ CompleteAction(a) \/ Answer(a)
        PROVE  \E st \in States, n \in Nat : UpdateActionState(a, st, n)
    BY <2>1 DEF InsertAction, CompleteAction, Answer, States
  <2>2. ASSUME NEW s \in Senders, Record(s)
        PROVE  cur(s) \in Actions /\ \E st \in States : UpdateActionState(cur(s), st, 1)
    <3>1. cur(s) \in Actions
      BY <2>2, DispatchAssumption DEF Record, HoldsDemand
    <3>2. UpdateActionState(cur(s), Outcome(s), 1) /\ Outcome(s) \in States
      BY <2>2 DEF Record, Outcome, States
    <3>. QED  BY <3>1, <3>2
  <2>. QED  BY <2>1, <2>2, RowSteps
<1>2. ASSUME NEW a \in Actions, NEW st \in States, NEW n \in Nat, UpdateActionState(a, st, n)
      PROVE  \A b \in Actions : State(b) # "ABSENT" => State(b)' # "ABSENT"
  <2>1. st # "ABSENT"
    BY DEF States
  <2>2. /\ row'[a] = [state |-> st, attempts |-> row[a].attempts + n]
        /\ \A b \in Actions \ {a} : row'[b] = row[b]
    BY <1>2, Updated
  <2>. QED  BY <2>1, <2>2 DEF State
<1>. QED  BY <1>1, <1>2 DEF State

\* A mail handed over is never taken back.
LEMMA MailsGrow ==
    ASSUME TypeOK, [Next]_vars
    PROVE  \A a \in Actions : mails[a] > 0 => mails'[a] > 0
<1>1. ASSUME NEW s \in Senders, Deliver(s)
      PROVE  \A a \in Actions : mails[a] > 0 => mails'[a] > 0
  BY <1>1 DEF Deliver, TypeOK
<1>. QED  BY <1>1, MailSteps

-----------------------------------------------------------------------------
LEMMA HoldsStep ==
    ASSUME TypeOK, HoldsDemand, ListsDemands, [Next]_vars
    PROVE  HoldsDemand'
<1>. SUFFICES ASSUME NEW s \in Senders, at'[s].step \in {"load", "dial", "sent", "failed"}
              PROVE  at'[s].act \in Smtp /\ row'[at'[s].act].state # "ABSENT"
  BY DEF HoldsDemand, pc, cur, State
<1>1. \A a \in Smtp : State(a) # "ABSENT" => row'[a].state # "ABSENT"
  BY RowStays, DispatchAssumption DEF State
<1>2. CASE at'[s] = at[s]
  BY <1>1, <1>2 DEF HoldsDemand, pc, cur
<1>3. CASE Load(s) \/ NotConfigured(s) \/ Deliver(s) \/ SendError(s)
  <2>1. cur(s) \in Smtp /\ State(cur(s)) # "ABSENT"
    BY <1>3 DEF Load, NotConfigured, Deliver, SendError, HoldsDemand
  <2>2. at'[s].act = cur(s)
    BY <1>3 DEF Load, NotConfigured, Deliver, SendError, MoveTo, TypeOK
  <2>. QED  BY <1>1, <2>1, <2>2
<1>4. CASE s \in Workers /\ Receive(s)
  <2>1. Head(jobs) \in Smtp /\ Head(jobs) = jobs[1] /\ 1 \in 1..Len(jobs)
    <3>1. jobs \in Seq(Smtp) /\ jobs # <<>>
      BY <1>4 DEF Receive, TypeOK
    <3>. QED  BY <3>1
  <2>2. State(Head(jobs)) # "ABSENT"
    BY <2>1 DEF ListsDemands
  <2>3. at'[s].act = Head(jobs)
    BY <1>4 DEF Receive, MoveTo, TypeOK
  <2>. QED  BY <1>1, <2>1, <2>2, <2>3
<1>5. ASSUME s \in Sessions, NEW a \in Actions, SendNext(s, a)
      PROVE  at'[s].act \in Smtp /\ row'[at'[s].act].state # "ABSENT"
  <2>1. a \in todo[s] /\ a \in Smtp
    BY <1>5 DEF SendNext, Newest, TypeOK
  <2>2. at'[s].act = a
    BY <1>5 DEF SendNext, MoveTo, TypeOK
  <2>. QED  BY <1>1, <1>5, <2>1, <2>2 DEF ListsDemands
<1>. QED  BY <1>2, <1>3, <1>4, <1>5, AtSteps

LEMMA MailedStep ==
    ASSUME TypeOK, HoldsDemand, MailedFirst, [Next]_vars
    PROVE  MailedFirst'
<1>1. ASSUME NEW s \in Senders, at'[s].step = "sent"
      PROVE  mails'[at'[s].act] > 0
  <2>1. CASE at'[s] = at[s]
    <3>1. cur(s) \in Actions /\ mails[cur(s)] > 0
      BY <1>1, <2>1, DispatchAssumption DEF MailedFirst, HoldsDemand, pc, cur
    <3>. QED  BY <2>1, <3>1, MailsGrow DEF cur
  <2>2. CASE Deliver(s)
    <3>1. cur(s) \in Actions
      BY <2>2, DispatchAssumption DEF Deliver, HoldsDemand
    <3>2. at'[s].act = cur(s)
      BY <2>2 DEF Deliver, MoveTo, TypeOK
    <3>. QED  BY <2>2, <3>1, <3>2 DEF Deliver, TypeOK
  <2>3. Load(s) \/ NotConfigured(s) \/ SendError(s) => at'[s].step # "sent"
    BY DEF Load, NotConfigured, SendError, MoveTo, TypeOK
  <2>4. Receive(s) => at'[s].step # "sent"
    BY DEF Receive, MoveTo, TypeOK
  <2>5. \A a : SendNext(s, a) => at'[s].step # "sent"
    BY DEF SendNext, MoveTo, TypeOK
  <2>. QED  BY <1>1, <2>1, <2>2, <2>3, <2>4, <2>5, AtSteps
<1>2. ASSUME NEW a \in Actions, State(a)' = "ABSENT"
      PROVE  mails'[a] = 0
  <2>1. State(a) = "ABSENT" /\ mails[a] = 0
    BY <1>2, RowStays DEF MailedFirst
  <2>2. ASSUME NEW s \in Senders, Deliver(s)
        PROVE  mails'[a] = mails[a]
    <3>1. cur(s) # a
      BY <2>1, <2>2 DEF Deliver, HoldsDemand
    <3>. QED  BY <2>2, <3>1 DEF Deliver, TypeOK
  <2>. QED  BY <2>1, <2>2, MailSteps
<1>. QED  BY <1>1, <1>2 DEF MailedFirst, pc, cur

LEMMA ListsStep ==
    ASSUME TypeOK, HoldsDemand, ListsDemands, [Next]_vars
    PROVE  ListsDemands'
<1>. USE DEF daemon, session, history, bounds
<1>. DEFINE Waits(a) == \/ a \in backlog \cup Queued
                        \/ \E s \in Sessions : a \in todo[s]
                        \/ \E i \in 1..Len(jobs) : a = jobs[i]
<1>1. /\ \A a \in backlog' : Waits(a)
      /\ \A s \in Sessions : \A a \in todo'[s] : Waits(a)
      /\ \A i \in 1..Len(jobs') : Waits(jobs'[i])
  <2>1. ASSUME NEW a \in Actions, InsertAction(a) \/ CompleteAction(a) \/ Answer(a)
        PROVE  UNCHANGED <<backlog, todo, jobs>>
    BY <2>1 DEF InsertAction, CompleteAction, Answer
  <2>2. ASSUME NEW a \in Actions, Submit(a)
        PROVE  /\ backlog' \subseteq backlog /\ UNCHANGED todo
               /\ \A i \in 1..Len(jobs') : Waits(jobs'[i])
    <3>1. a \in backlog /\ jobs \in Seq(Smtp) /\ a \in Smtp
      BY <2>2 DEF Submit, Oldest, TypeOK
    <3>2. \A i \in 1..Len(Append(jobs, a)) :
             Append(jobs, a)[i] = a \/ (i \in 1..Len(jobs) /\ Append(jobs, a)[i] = jobs[i])
      BY <3>1, AppendProperties
    <3>. QED  BY <2>2, <3>1, <3>2 DEF Submit
  <2>3. ASSUME NEW a \in Actions, SubmitCancelled(a)
        PROVE  backlog' \subseteq backlog /\ UNCHANGED <<todo, jobs>>
    BY <2>3 DEF SubmitCancelled
  <2>4. CASE Start \/ Cancel
    BY <2>4 DEF Start, Cancel
  <2>5. CASE DrainQueued
    BY <2>5 DEF DrainQueued
  <2>6. CASE ExitAfterWait \/ ExitAtOnce
    <3>1. backlog' = {} /\ jobs' = <<>> /\ UNCHANGED todo
      BY <2>6 DEF ExitAfterWait, ExitAtOnce, DaemonGone
    <3>2. 1..Len(jobs') = {}
      BY <3>1, EmptySeq
    <3>. QED  BY <3>1, <3>2
  <2>7. ASSUME NEW w \in Workers, Receive(w)
        PROVE  UNCHANGED <<backlog, todo>> /\ \A i \in 1..Len(jobs') : Waits(jobs'[i])
    <3>1. jobs \in Seq(Smtp) /\ jobs # <<>> /\ jobs' = Tail(jobs)
      BY <2>7 DEF Receive, TypeOK
    <3>2. \A i \in 1..Len(jobs') : i + 1 \in 1..Len(jobs) /\ jobs'[i] = jobs[i + 1]
      BY <3>1, HeadTailProperties
    <3>. QED  BY <2>7, <3>2 DEF Receive
  <2>8. ASSUME NEW w \in Workers, WorkerExits(w)
        PROVE  UNCHANGED <<backlog, todo, jobs>>
    BY <2>8 DEF WorkerExits
  <2>9. ASSUME NEW s \in Sessions,
               \/ SendQueuedSMTP(s) \/ Interrupt(s) \/ SessionEnds(s)
               \/ CloseWindow(s) \/ Reopen(s) \/ \E a \in Actions : SendNext(s, a)
        PROVE  /\ UNCHANGED <<backlog, jobs>>
               /\ \A r \in Sessions : todo'[r] \subseteq todo[r] \cup Queued
    BY <2>9 DEF SendQueuedSMTP, Interrupt, SessionEnds, CloseWindow, Reopen, SendNext, TypeOK
  <2>10. ASSUME NEW s \in Senders, DispatchSMTP(s)
         PROVE  UNCHANGED <<backlog, todo, jobs>>
    BY <2>10 DEF DispatchSMTP, Load, LoadFails, NotConfigured, Deliver, SendError, Record,
                 RecordFails
  <2>11. CASE UNCHANGED vars
    BY <2>11 DEF vars
  <2>. QED  BY <2>1, <2>2, <2>3, <2>4, <2>5, <2>6, <2>7, <2>8, <2>9, <2>10, <2>11 DEF Next
<1>2. \A a : Waits(a) => a \in Actions /\ State(a) # "ABSENT"
  <2>1. \A i \in 1..Len(jobs) : jobs[i] \in Actions
    BY DispatchAssumption DEF TypeOK
  <2>. QED  BY <2>1, DispatchAssumption DEF ListsDemands, Queued, TypeOK
<1>3. \A a : Waits(a) => row'[a].state # "ABSENT"
  BY <1>2, RowStays DEF State
<1>. HIDE DEF Waits
<1>. QED  BY <1>1, <1>3 DEF ListsDemands, State

LEMMA SentStep ==
    ASSUME TypeOK, HoldsDemand, MailedFirst, SentMeansMailed, [Next]_vars
    PROVE  SentMeansMailed'
<1>. DEFINE Sent == {"SUBMITTED", "AWAITING_CONFIRMATION"}
<1>. SUFFICES ASSUME NEW a \in Actions, row'[a].state \in Sent
              PROVE  mails[a] > 0 \/ a \in replied'
  BY MailsGrow DEF SentMeansMailed, State
<1>0. replied \subseteq replied'
  BY RepliedSteps DEF Answer
<1>1. CASE row'[a] = row[a]
  BY <1>0, <1>1 DEF SentMeansMailed, State
<1>2. ASSUME NEW b \in Actions, InsertAction(b) \/ CompleteAction(b)
      PROVE  row'[a] = row[a]
  <2>1. \E st \in {"QUEUED", "AWAITING_MANUAL", "COMPLETED"} : UpdateActionState(b, st, 0)
    BY <1>2 DEF InsertAction, CompleteAction
  <2>. QED  BY <2>1 DEF UpdateActionState, TypeOK
<1>3. ASSUME NEW b \in Actions, Answer(b)
      PROVE  row'[a] = row[a] \/ a \in replied'
  BY <1>3 DEF Answer, UpdateActionState, TypeOK
<1>4. ASSUME NEW s \in Senders, Record(s), row'[a] # row[a]
      PROVE  mails[a] > 0
  <2>1. cur(s) = a /\ row'[a].state = Outcome(s)
    BY <1>4 DEF Record, UpdateActionState, TypeOK
  <2>2. pc(s) = "sent"
    BY <1>4, <2>1 DEF Record, Outcome
  <2>. QED  BY <2>1, <2>2 DEF MailedFirst
<1>. QED  BY <1>1, <1>2, <1>3, <1>4, RowSteps

-----------------------------------------------------------------------------
(***************************************************************************)
(* Counting.  A sender carries one outcome of a while it has not written   *)
(* it; what a step does to Pending follows from what it does to at.        *)
(***************************************************************************)
Carries(place, a) == place.step \in {"sent", "failed"} /\ place.act = a

One(carried) == IF carried THEN 1 ELSE 0

LEMMA PendingFinite ==
    \A a : /\ IsFiniteSet(Pending(a)) /\ Cardinality(Pending(a)) \in Nat
           /\ IsFiniteSet(Pending(a)') /\ Cardinality(Pending(a)') \in Nat
<1>1. ASSUME NEW a
      PROVE  Pending(a) \in SUBSET Senders /\ Pending(a)' \in SUBSET Senders
  BY DEF Pending, Unwritten
<1>. QED  BY <1>1, SendersFinite, FS_Subset, FS_CardinalityType

LEMMA PendingMoves ==
    ASSUME TypeOK, NEW s \in Senders, NEW step \in Steps, NEW b \in Smtp \cup {None},
           MoveTo(s, step, b), NEW a \in Actions
    PROVE  Cardinality(Pending(a)') + One(Carries(at[s], a))
              = Cardinality(Pending(a)) + One(Carries([step |-> step, act |-> b], a))
<1>. DEFINE Rest == Pending(a) \ {s}
            Before == Carries(at[s], a)
            After == Carries([step |-> step, act |-> b], a)
<1>1. IsFiniteSet(Rest) /\ Cardinality(Rest) \in Nat /\ s \notin Rest
  BY PendingFinite, FS_Subset, FS_CardinalityType
<1>2. Pending(a) = IF Before THEN Rest \cup {s} ELSE Rest
  BY DEF Pending, Unwritten, Carries, pc, cur
<1>3. Pending(a)' = IF After THEN Rest \cup {s} ELSE Rest
  <2>1. at'[s] = [step |-> step, act |-> b] /\ \A r \in Senders \ {s} : at'[r] = at[r]
    BY Moved
  <2>2. \A r \in Senders \ {s} : r \in Pending(a)' <=> r \in Pending(a)
    BY <2>1 DEF Pending, Unwritten, pc, cur
  <2>3. s \in Pending(a)' <=> After
    BY <2>1 DEF Pending, Unwritten, Carries, pc, cur
  <2>. QED  BY <2>2, <2>3 DEF Pending, Unwritten
<1>4. Cardinality(Rest \cup {s}) = Cardinality(Rest) + 1
  BY <1>1, FS_AddElement
<1>. HIDE DEF Rest, Before, After
<1>5. Cardinality(Pending(a)) = Cardinality(Rest) + One(Before)
  BY <1>1, <1>2, <1>4 DEF One
<1>6. Cardinality(Pending(a)') = Cardinality(Rest) + One(After)
  BY <1>1, <1>3, <1>4 DEF One
<1>7. Cardinality(Pending(a)') + One(Before) = Cardinality(Pending(a)) + One(After)
  BY <1>1, <1>5, <1>6 DEF One
<1>. QED  BY <1>7 DEF Before, After

\* What vanishes with the senders in S is what they had not written.
LEMMA PendingVanishes ==
    ASSUME TypeOK, NEW S \in SUBSET Senders, Vanish(S), NEW a \in Actions
    PROVE  Cardinality(Pending(a)') + lost'[a] = Cardinality(Pending(a)) + lost[a]
<1>1. IsFiniteSet(S)
  BY SendersFinite, FS_Subset
<1>2. IsFiniteSet(Unwritten(S, a)) /\ Cardinality(Unwritten(S, a)) \in Nat
  BY <1>1, SendersFinite, FS_CardinalityType
<1>3. \A s \in S : at'[s].step \in {"idle", "exited"}
  BY VanishType
<1>4. \A s \in Senders \ S : at'[s] = at[s]
  BY VanishType
<1>5. Pending(a)' = Pending(a) \ Unwritten(S, a) /\ Unwritten(S, a) \subseteq Pending(a)
  BY <1>3, <1>4 DEF Pending, Unwritten, pc, cur
<1>6. IsFiniteSet(Pending(a)') /\ Cardinality(Pending(a)') \in Nat
  BY <1>5, PendingFinite, FS_Subset, FS_CardinalityType
<1>7. /\ Pending(a)' \cup Unwritten(S, a) = Pending(a)
      /\ Pending(a)' \cap Unwritten(S, a) = {}
  BY <1>5
<1>8. Cardinality(Pending(a)) = Cardinality(Pending(a)') + Cardinality(Unwritten(S, a))
  BY <1>2, <1>6, <1>7, FS_Union, FS_EmptySet
<1>9. lost'[a] = lost[a] + Cardinality(Unwritten(S, a)) /\ lost[a] \in Nat
  BY DEF Vanish, TypeOK
<1>. QED  BY <1>2, <1>6, <1>8, <1>9

\* The three counters, seen from one row.
Balance(a) == tries[a] = row[a].attempts + Cardinality(Pending(a)) + lost[a]

LEMMA CountTypes ==
    ASSUME TypeOK, NEW a \in Actions
    PROVE  /\ tries[a] \in Nat /\ lost[a] \in Nat /\ row[a].attempts \in Nat
           /\ Cardinality(Pending(a)) \in Nat
  BY PendingFinite DEF TypeOK

\* What an UPDATE adds to the counter of one row.
LEMMA Adds ==
    ASSUME TypeOK, NEW b \in Actions, NEW st \in States, NEW n \in Nat,
           UpdateActionState(b, st, n), NEW a \in Actions
    PROVE  row'[a].attempts = row[a].attempts + (IF a = b THEN n ELSE 0)
  BY DEF TypeOK, UpdateActionState

LEMMA DispatchBalance ==
    ASSUME TypeOK, HoldsDemand, NEW s \in Senders, DispatchSMTP(s),
           NEW a \in Actions, Balance(a)
    PROVE  Balance(a)'
<1>. USE DEF daemon, session, history, bounds, Balance
<1>0. /\ tries[a] \in Nat /\ lost[a] \in Nat /\ row[a].attempts \in Nat
      /\ Cardinality(Pending(a)) \in Nat /\ Cardinality(Pending(a)') \in Nat
  BY CountTypes, PendingFinite
<1>. DEFINE Took == cur(s) = a
<1>1. CASE Load(s) \/ LoadFails(s)
  <2>1. PICK step \in {"dial", "idle"}, b \in Smtp \cup {None} : MoveTo(s, step, b)
    BY <1>1 DEF Load, LoadFails
  <2>2. ~Carries(at[s], a) /\ ~Carries([step |-> step, act |-> b], a)
    BY <1>1 DEF Load, LoadFails, Carries, pc
  <2>3. Cardinality(Pending(a)') = Cardinality(Pending(a))
    BY <1>0, <2>1, <2>2, PendingMoves DEF One, Steps
  <2>4. UNCHANGED <<row, tries, lost>>
    BY <1>1 DEF Load, LoadFails
  <2>. QED  BY <2>3, <2>4
<1>2. CASE NotConfigured(s) \/ Deliver(s) \/ SendError(s)
  <2>1. cur(s) \in Smtp /\ cur(s) \in Actions
    BY <1>2, DispatchAssumption DEF NotConfigured, Deliver, SendError, HoldsDemand
  <2>2. tries'[a] = tries[a] + (IF Took THEN 1 ELSE 0) /\ UNCHANGED <<row, lost>>
    <3>1. tries' = [tries EXCEPT ![cur(s)] = @ + 1] /\ UNCHANGED <<row, lost>>
      BY <1>2 DEF NotConfigured, Deliver, SendError
    <3>2. tries \in [Actions -> Nat]
      BY DEF TypeOK
    <3>. QED  BY <1>0, <2>1, <3>1, <3>2
  <2>3. PICK step \in {"sent", "failed"} : MoveTo(s, step, cur(s))
    BY <1>2 DEF NotConfigured, Deliver, SendError
  <2>4. ~Carries(at[s], a) /\ (Carries([step |-> step, act |-> cur(s)], a) <=> Took)
    BY <1>2 DEF NotConfigured, Deliver, SendError, Carries, pc
  <2>5. Cardinality(Pending(a)') = Cardinality(Pending(a)) + (IF Took THEN 1 ELSE 0)
    BY <1>0, <2>1, <2>3, <2>4, PendingMoves DEF One, Steps
  <2>. QED  BY <1>0, <2>2, <2>5
<1>3. CASE Record(s) \/ RecordFails(s)
  <2>1. cur(s) \in Actions
    BY <1>3, DispatchAssumption DEF Record, RecordFails, HoldsDemand
  <2>2. Carries(at[s], a) <=> Took
    BY <1>3 DEF Record, RecordFails, Carries, pc, cur
  <2>3. MoveTo(s, "idle", None) /\ ~Carries([step |-> "idle", act |-> None], a)
    BY <1>3 DEF Record, RecordFails, Carries
  <2>4. Cardinality(Pending(a)') + (IF Took THEN 1 ELSE 0) = Cardinality(Pending(a))
    BY <1>0, <2>2, <2>3, PendingMoves DEF One, Steps
  <2>5. CASE Record(s)
    <3>1. UpdateActionState(cur(s), Outcome(s), 1) /\ Outcome(s) \in States
      BY <2>5 DEF Record, Outcome, States
    <3>2. row'[a].attempts = row[a].attempts + (IF Took THEN 1 ELSE 0)
      BY <2>1, <3>1, Adds
    <3>3. UNCHANGED <<tries, lost>>
      BY <2>5 DEF Record
    <3>. QED  BY <1>0, <2>4, <3>2, <3>3
  <2>6. CASE RecordFails(s)
    <3>1. lost'[a] = lost[a] + (IF Took THEN 1 ELSE 0) /\ UNCHANGED <<row, tries>>
      BY <2>1, <2>6 DEF RecordFails, TypeOK
    <3>. QED  BY <1>0, <2>4, <3>1
  <2>. QED  BY <1>3, <2>5, <2>6
<1>. QED  BY <1>1, <1>2, <1>3 DEF DispatchSMTP

\* NoAttemptForgotten across the steps of everybody.
LEMMA CountStep ==
    ASSUME TypeOK, HoldsDemand, NoAttemptForgotten, [Next]_vars
    PROVE  NoAttemptForgotten'
<1>. SUFFICES ASSUME NEW a \in Actions
              PROVE  Balance(a)'
  BY DEF NoAttemptForgotten, Balance
<1>0. Balance(a)
  BY DEF NoAttemptForgotten, Balance
<1>. USE DEF daemon, session, history, bounds
<1>1. /\ tries[a] \in Nat /\ lost[a] \in Nat /\ row[a].attempts \in Nat
      /\ Cardinality(Pending(a)) \in Nat /\ Cardinality(Pending(a)') \in Nat
  BY CountTypes, PendingFinite
<1>2. ASSUME UNCHANGED <<at, tries, lost>>, row'[a].attempts = row[a].attempts
      PROVE  Balance(a)'
  <2>1. Pending(a)' = Pending(a)
    BY <1>2 DEF Pending, Unwritten, pc, cur
  <2>. QED  BY <1>0, <1>2, <2>1 DEF Balance
<1>3. ASSUME NEW s \in Senders, NEW step \in Steps \ {"sent", "failed"},
             NEW b \in Smtp \cup {None}, MoveTo(s, step, b), pc(s) \in {"idle", "exited"},
             UNCHANGED <<row, tries, lost>>
      PROVE  Balance(a)'
  <2>1. ~Carries(at[s], a) /\ ~Carries([step |-> step, act |-> b], a)
    BY <1>3 DEF Carries, pc
  <2>2. Cardinality(Pending(a)') = Cardinality(Pending(a))
    BY <1>1, <1>3, <2>1, PendingMoves DEF One
  <2>. QED  BY <1>0, <1>3, <2>2 DEF Balance
<1>4. ASSUME NEW S \in SUBSET Senders, Vanish(S), UNCHANGED row
      PROVE  Balance(a)'
  <2>1. Cardinality(Pending(a)') + lost'[a] = Cardinality(Pending(a)) + lost[a]
    BY <1>4, PendingVanishes
  <2>2. tries' = tries /\ lost'[a] \in Nat
    BY <1>4, VanishType
  <2>. QED  BY <1>0, <1>1, <1>4, <2>1, <2>2 DEF Balance
<1>5. ASSUME NEW c \in Actions, InsertAction(c) \/ CompleteAction(c) \/ Answer(c)
      PROVE  Balance(a)'
  <2>1. \E st \in States : UpdateActionState(c, st, 0)
    BY <1>5 DEF InsertAction, CompleteAction, Answer, States
  <2>2. row'[a].attempts = row[a].attempts
    BY <1>1, <2>1, Adds
  <2>3. UNCHANGED <<at, tries, lost>>
    BY <1>5 DEF InsertAction, CompleteAction, Answer
  <2>. QED  BY <1>2, <2>2, <2>3
<1>6. ASSUME NEW c \in Actions, Submit(c) \/ SubmitCancelled(c)
      PROVE  Balance(a)'
  BY <1>2, <1>6 DEF Submit, SubmitCancelled
<1>7. CASE Start \/ DrainQueued \/ Cancel
  BY <1>2, <1>7 DEF Start, DrainQueued, Cancel
<1>8. CASE ExitAfterWait \/ ExitAtOnce
  BY <1>4, <1>8 DEF ExitAfterWait, ExitAtOnce, DaemonGone, Senders
<1>9. ASSUME NEW w \in Workers, Receive(w) \/ WorkerExits(w)
      PROVE  Balance(a)'
  <2>1. w \in Senders /\ pc(w) \in {"idle", "exited"} /\ UNCHANGED <<row, tries, lost>>
    BY <1>9 DEF Receive, WorkerExits, Senders
  <2>2. \E step \in Steps \ {"sent", "failed"}, b \in Smtp \cup {None} : MoveTo(w, step, b)
    BY <1>9, ChannelType DEF Receive, WorkerExits, Steps
  <2>. QED  BY <1>3, <2>1, <2>2
<1>10. ASSUME NEW s \in Sessions, SendQueuedSMTP(s) \/ Interrupt(s)
       PROVE  Balance(a)'
  BY <1>2, <1>10 DEF SendQueuedSMTP, Interrupt
<1>11. ASSUME NEW s \in Sessions, SessionEnds(s) \/ Reopen(s) \/ \E c \in Actions : SendNext(s, c)
       PROVE  Balance(a)'
  <2>1. s \in Senders /\ pc(s) \in {"idle", "exited"} /\ UNCHANGED <<row, tries, lost>>
    BY <1>11 DEF SessionEnds, Reopen, SendNext, Senders
  <2>2. \E step \in Steps \ {"sent", "failed"}, b \in Smtp \cup {None} : MoveTo(s, step, b)
    BY <1>11 DEF SessionEnds, Reopen, SendNext, Newest, Steps, TypeOK
  <2>. QED  BY <1>3, <2>1, <2>2
<1>12. ASSUME NEW s \in Sessions, CloseWindow(s)
       PROVE  Balance(a)'
  BY <1>4, <1>12 DEF CloseWindow, Senders
<1>13. ASSUME NEW s \in Senders, DispatchSMTP(s)
       PROVE  Balance(a)'
  BY <1>0, <1>13, DispatchBalance
<1>14. CASE UNCHANGED vars
  BY <1>2, <1>14 DEF vars
<1>. QED
  BY <1>5, <1>6, <1>7, <1>8, <1>9, <1>10, <1>11, <1>12, <1>13, <1>14 DEF Next

-----------------------------------------------------------------------------
\* Losses are never taken back, and a sender that drops an outcome without writing it has lost it.
LossesTold ==
    /\ \A a \in Actions : lost[a] > 0 => lost'[a] > 0
    /\ \A s \in Senders : pc(s) \in {"sent", "failed"} =>
          at'[s] = at[s] \/ Record(s) \/ lost'[cur(s)] > 0

LEMMA LossSteps ==
    ASSUME TypeOK, HoldsDemand, [Next]_vars
    PROVE  LossesTold
<1>. USE DEF daemon, session, history, bounds
<1>1. ASSUME NEW r \in Senders, DispatchSMTP(r)
      PROVE  LossesTold
  <2>1. CASE Load(r) \/ LoadFails(r) \/ NotConfigured(r) \/ Deliver(r) \/ SendError(r)
    BY <2>1 DEF LossesTold, Load, LoadFails, NotConfigured, Deliver, SendError, MoveTo, TypeOK, pc
  <2>2. CASE Record(r)
    BY <2>2 DEF LossesTold, Record, MoveTo, TypeOK
  <2>3. CASE RecordFails(r)
    <3>1. cur(r) \in Actions
      BY <2>3, DispatchAssumption DEF RecordFails, HoldsDemand
    <3>2. lost' = [lost EXCEPT ![cur(r)] = lost[cur(r)] + 1] /\ lost \in [Actions -> Nat]
      BY <2>3 DEF RecordFails, TypeOK
    <3>3. \A s \in Senders \ {r} : at'[s] = at[s]
      BY <2>3 DEF RecordFails, MoveTo, TypeOK
    <3>. QED  BY <3>1, <3>2, <3>3 DEF LossesTold
  <2>. QED  BY <1>1, <2>1, <2>2, <2>3 DEF DispatchSMTP
<1>2. ASSUME NEW S \in SUBSET Senders, Vanish(S)
      PROVE  LossesTold
  <2>1. \A a \in Actions : lost'[a] = lost[a] + Cardinality(Unwritten(S, a))
    BY <1>2 DEF Vanish
  <2>2. \A a : IsFiniteSet(Unwritten(S, a)) /\ Cardinality(Unwritten(S, a)) \in Nat
    BY SendersFinite, FS_Subset, FS_CardinalityType
  <2>3. \A a \in Actions : lost[a] > 0 => lost'[a] > 0
    BY <2>1, <2>2 DEF TypeOK
  <2>4. ASSUME NEW s \in S, pc(s) \in {"sent", "failed"}
        PROVE  lost'[cur(s)] > 0
    <3>1. s \in Unwritten(S, cur(s))
      BY <2>4 DEF Unwritten
    <3>2. Cardinality(Unwritten(S, cur(s))) # 0
      BY <2>2, <3>1, FS_EmptySet
    <3>3. cur(s) \in Actions /\ lost[cur(s)] \in Nat
      BY <2>4, DispatchAssumption DEF HoldsDemand, TypeOK
    <3>. QED  BY <2>1, <2>2, <3>2, <3>3
  <2>5. \A s \in Senders \ S : at'[s] = at[s]
    BY <1>2, VanishType
  <2>. QED  BY <2>3, <2>4, <2>5 DEF LossesTold
<1>3. ASSUME NEW r \in Senders, NEW step, NEW b, MoveTo(r, step, b),
             pc(r) \in {"idle", "exited"}, UNCHANGED lost
      PROVE  LossesTold
  BY <1>3 DEF LossesTold, MoveTo, TypeOK, pc
<1>4. CASE UNCHANGED <<at, lost>>
  BY <1>4 DEF LossesTold
<1>5. ASSUME NEW a \in Actions,
             \/ InsertAction(a) \/ CompleteAction(a) \/ Answer(a)
             \/ Submit(a) \/ SubmitCancelled(a)
      PROVE  LossesTold
  BY <1>4, <1>5 DEF InsertAction, CompleteAction, Answer, Submit, SubmitCancelled
<1>6. CASE Start \/ DrainQueued \/ Cancel \/ UNCHANGED vars
  BY <1>4, <1>6 DEF Start, DrainQueued, Cancel, vars
<1>7. CASE ExitAfterWait \/ ExitAtOnce
  BY <1>2, <1>7 DEF ExitAfterWait, ExitAtOnce, DaemonGone, Senders
<1>8. ASSUME NEW w \in Workers, Receive(w) \/ WorkerExits(w)
      PROVE  LossesTold
  BY <1>3, <1>8 DEF Receive, WorkerExits, Senders
<1>9. ASSUME NEW s \in Sessions, SendQueuedSMTP(s) \/ Interrupt(s)
      PROVE  LossesTold
  BY <1>4, <1>9 DEF SendQueuedSMTP, Interrupt
<1>10. ASSUME NEW s \in Sessions,
              SessionEnds(s) \/ Reopen(s) \/ \E a \in Actions : SendNext(s, a)
       PROVE  LossesTold
  BY <1>3, <1>10 DEF SessionEnds, Reopen, SendNext, Senders
<1>11. ASSUME NEW s \in Sessions, CloseWindow(s)
       PROVE  LossesTold
  BY <1>2, <1>11 DEF CloseWindow, Senders
<1>. QED  BY <1>1, <1>5, <1>6, <1>7, <1>8, <1>9, <1>10, <1>11 DEF Next

LEMMA RequeueStep ==
    ASSUME TypeOK, HoldsDemand, MailedFirst, RequeuedOnlyByLoss, [Next]_vars
    PROVE  RequeuedOnlyByLoss'
<1>. USE DEF daemon, session, history, bounds
<1>. SUFFICES ASSUME NEW a \in Actions, row'[a].state = "QUEUED", mails'[a] > 0
              PROVE  Pending(a)' # {} \/ lost'[a] > 0
  BY DEF RequeuedOnlyByLoss, State
<1>1. ASSUME NEW s \in Senders, Deliver(s), mails'[a] # mails[a]
      PROVE  Pending(a)' # {}
  <2>1. cur(s) = a
    BY <1>1 DEF Deliver, TypeOK
  <2>2. at'[s].step = "sent" /\ at'[s].act = a
    BY <1>1, <2>1 DEF Deliver, MoveTo, TypeOK
  <2>. QED  BY <2>2 DEF Pending, Unwritten, pc, cur
<1>2. ASSUME mails[a] > 0, State(a) # "QUEUED"
      PROVE  FALSE
  <2>1. ASSUME NEW b \in Actions, NEW st \in States, NEW n \in Nat, UpdateActionState(b, st, n)
        PROVE  b = a /\ st = "QUEUED"
    BY <1>2, <2>1 DEF UpdateActionState, TypeOK, State
  <2>2. ASSUME NEW b \in Actions, InsertAction(b)
        PROVE  FALSE
    <3>1. \E st \in States : UpdateActionState(b, st, 0)
      BY <2>2 DEF InsertAction, States
    <3>2. State(a) = "ABSENT" /\ mails[a] = 0
      BY <2>1, <2>2, <3>1 DEF InsertAction, MailedFirst
    <3>. QED  BY <1>2, <3>2
  <2>3. ASSUME NEW b \in Actions, CompleteAction(b)
        PROVE  FALSE
    BY <2>1, <2>3 DEF CompleteAction, States
  <2>4. ASSUME NEW b \in Actions, Answer(b)
        PROVE  FALSE
    <3>1. \E st \in States \ {"QUEUED"} : UpdateActionState(b, st, 0)
      BY <2>4 DEF Answer, States
    <3>. QED  BY <2>1, <3>1
  <2>5. ASSUME NEW s \in Senders, Record(s)
        PROVE  FALSE
    <3>1. cur(s) \in Actions
      BY <2>5, DispatchAssumption DEF Record, HoldsDemand
    <3>2. Outcome(s) \in States \ {"QUEUED"} /\ UpdateActionState(cur(s), Outcome(s), 1)
      BY <2>5 DEF Record, Outcome, States
    <3>. QED  BY <2>1, <3>1, <3>2
  <2>6. row' # row
    BY <1>2 DEF State
  <2>. QED  BY <2>2, <2>3, <2>4, <2>5, <2>6, RowSteps
<1>3. CASE mails[a] > 0 /\ State(a) = "QUEUED"
  <2>1. CASE lost[a] > 0
    BY <2>1, LossSteps DEF LossesTold
  <2>2. ASSUME NEW s \in Pending(a)
        PROVE  Pending(a)' # {} \/ lost'[a] > 0
    <3>1. s \in Senders /\ pc(s) \in {"sent", "failed"} /\ cur(s) = a
      BY DEF Pending, Unwritten
    <3>2. CASE at'[s] = at[s]
      BY <3>1, <3>2 DEF Pending, Unwritten, pc, cur
    <3>3. ~Record(s)
      BY <3>1 DEF Record, UpdateActionState, Outcome, TypeOK
    <3>. QED  BY <3>1, <3>2, <3>3, LossSteps DEF LossesTold
  <2>. QED  BY <1>3, <2>1, <2>2 DEF RequeuedOnlyByLoss
<1>4. CASE mails' = mails
  BY <1>2, <1>3, <1>4
<1>5. CASE mails'[a] = mails[a]
  BY <1>2, <1>3, <1>5
<1>. QED  BY <1>1, <1>4, <1>5, MailSteps

-----------------------------------------------------------------------------
LEMMA InitIInv == Init => IInv
<1>. SUFFICES ASSUME Init PROVE IInv
  OBVIOUS
<1>1. TypeOK
  BY InitType
<1>2. \A s \in Senders : pc(s) = "idle"
  BY DEF Init, pc
<1>3. \A a \in Actions : State(a) = "ABSENT" /\ mails[a] = 0
  BY DEF Init, State
<1>4. backlog = {} /\ (\A s \in Sessions : todo[s] = {}) /\ 1..Len(jobs) = {}
  BY EmptySeq DEF Init
<1>5. HoldsDemand /\ ListsDemands /\ MailedFirst
  BY <1>2, <1>3, <1>4 DEF HoldsDemand, ListsDemands, MailedFirst
<1>6. SentMeansMailed /\ RequeuedOnlyByLoss
  BY <1>3 DEF SentMeansMailed, RequeuedOnlyByLoss
<1>7. NoAttemptForgotten
  <2>1. \A a \in Actions : Pending(a) = {}
    BY <1>2 DEF Pending, Unwritten
  <2>2. \A a \in Actions : tries[a] = 0 /\ row[a].attempts = 0 /\ lost[a] = 0
    BY DEF Init
  <2>3. Cardinality({}) = 0
    BY FS_EmptySet
  <2>. QED  BY <2>1, <2>2, <2>3 DEF NoAttemptForgotten
<1>. QED  BY <1>1, <1>5, <1>6, <1>7 DEF IInv

LEMMA NextIInv == IInv /\ [Next]_vars => IInv'
<1>. SUFFICES ASSUME IInv, [Next]_vars PROVE IInv'
  OBVIOUS
<1>. USE DEF IInv
<1>. QED
  BY TypeStep, HoldsStep, ListsStep, MailedStep, SentStep, CountStep, RequeueStep

LEMMA Invariant == Spec => []IInv
  BY InitIInv, NextIInv, PTL DEF Spec

\* Every variable of the dispatcher keeps its type: no channel ever holds more than Cap jobs, and
\* nothing but mail demands is ever queued, listed or sent (worker_pool.go, scheduler.go).
THEOREM TypeCorrect == Spec => []TypeOK
<1>1. IInv => TypeOK
  BY DEF IInv
<1>. QED  BY <1>1, Invariant, PTL

\* Concurrent workers, sessions and users never overwrite each other's count of attempts: each
\* outcome is in the row, in flight or lost (repository.go UpdateActionState).
THEOREM AttemptsCounted == Spec => []NoAttemptForgotten
<1>1. IInv => NoAttemptForgotten
  BY DEF IInv
<1>. QED  BY <1>1, Invariant, PTL

\* A demand that was mailed is in the queue again only while its outcome is in flight or after
\* it was lost (mail.go dispatchSMTP, scheduler.go drainQueued).
THEOREM RequeuedByLoss == Spec => []RequeuedOnlyByLoss
<1>1. IInv => RequeuedOnlyByLoss
  BY DEF IInv
<1>. QED  BY <1>1, Invariant, PTL

\* What a row shows as sent was mailed, or the inbox took a mail of the broker to be about it
\* (mail.go dispatchSMTP, HandleIMAP).
THEOREM ShownMeansMailed == Spec => []SentMeansMailed
<1>1. IInv => SentMeansMailed
  BY DEF IInv
<1>. QED  BY <1>1, Invariant, PTL

-----------------------------------------------------------------------------
(***************************************************************************)
(* How often one demand can be mailed.  Every mail a demand has had, and   *)
(* every one it can still get without being listed again, was paid for by  *)
(* a start of the daemon, by a run of [3] Send or by an outcome the        *)
(* database did not take.                                                  *)
(***************************************************************************)
\* What one start of the daemon may hand to a broker twice: a pool, a channel, a pass.
PerStart == Cardinality(Workers) + Cap + 1

\* What is paid for besides: the runs of [3] Send, and the outcomes the database refused.
Paid == sends + errors

\* Those of S that are at a step of P with demand a.
Hands(P, S, a) == {s \in S : pc(s) \in P /\ cur(s) = a}

Holding(S, a) == Hands({"load", "dial"}, S, a)
Mailed(a)     == Hands({"sent"}, Workers, a)

Places(q, a) == {i \in 1..Len(q) : q[i] = a}
Asking(a)    == {s \in Sessions : a \in todo[s]}

\* The mails of a so far, and those the sessions can still send without a new list.
Spent(a) == mails[a] + Cardinality(Holding(Sessions, a)) + Cardinality(Asking(a))

\* Those the daemon can still send without another tick.
Coming(a) == Cardinality(Holding(Workers, a)) + Cardinality(Places(jobs, a)) + One(a \in backlog)

\* While a demand is still queued, this daemon has mailed it only from workers that are about
\* to record it: whatever else was spent belongs to earlier starts.
Ration(a) ==
    /\ Spent(a) + Coming(a) <= starts * PerStart + Paid
    /\ State(a) = "QUEUED" /\ life = "up" =>
          Spent(a) <= (starts - 1) * PerStart + Paid + Cardinality(Mailed(a))

\* A daemon that is not running has nothing in its hands.
Resting ==
    /\ life = "down" => backlog = {} /\ jobs = <<>> /\ \A w \in Workers : pc(w) = "idle"
    /\ life # "down" => starts > 0

Rationed == Resting /\ \A a \in Actions : Ration(a)

LEMMA HandsFinite ==
    ASSUME NEW P, NEW S \in SUBSET Senders, NEW a
    PROVE  /\ IsFiniteSet(Hands(P, S, a)) /\ Cardinality(Hands(P, S, a)) \in Nat
           /\ IsFiniteSet(Hands(P, S, a)') /\ Cardinality(Hands(P, S, a)') \in Nat
<1>1. IsFiniteSet(S)
  BY SendersFinite, FS_Subset
<1>2. Hands(P, S, a) \in SUBSET S /\ Hands(P, S, a)' \in SUBSET S
  BY DEF Hands
<1>. QED  BY <1>1, <1>2, FS_Subset, FS_CardinalityType

\* One sender's step, seen from any hands.
LEMMA HandsMove ==
    ASSUME TypeOK, NEW P, NEW S \in SUBSET Senders, NEW s \in Senders, NEW step \in Steps,
           NEW b \in Smtp \cup {None}, MoveTo(s, step, b), NEW a \in Actions
    PROVE  Cardinality(Hands(P, S, a)') + One(s \in S /\ pc(s) \in P /\ cur(s) = a)
              = Cardinality(Hands(P, S, a)) + One(s \in S /\ step \in P /\ b = a)
<1>. DEFINE Rest == Hands(P, S, a) \ {s}
            Before == s \in S /\ pc(s) \in P /\ cur(s) = a
            After == s \in S /\ step \in P /\ b = a
<1>1. IsFiniteSet(Rest) /\ Cardinality(Rest) \in Nat /\ s \notin Rest
  BY HandsFinite, FS_Subset, FS_CardinalityType
<1>2. Hands(P, S, a) = IF Before THEN Rest \cup {s} ELSE Rest
  BY DEF Hands
<1>3. Hands(P, S, a)' = IF After THEN Rest \cup {s} ELSE Rest
  <2>1. at'[s] = [step |-> step, act |-> b] /\ \A r \in Senders \ {s} : at'[r] = at[r]
    BY Moved
  <2>2. \A r \in Senders \ {s} : r \in Hands(P, S, a)' <=> r \in Hands(P, S, a)
    BY <2>1 DEF Hands, pc, cur
  <2>3. s \in Hands(P, S, a)' <=> After
    BY <2>1 DEF Hands, pc, cur
  <2>4. Hands(P, S, a)' \subseteq Senders /\ Hands(P, S, a) \subseteq Senders
    BY DEF Hands
  <2>. QED  BY <2>2, <2>3, <2>4
<1>4. Cardinality(Rest \cup {s}) = Cardinality(Rest) + 1
  BY <1>1, FS_AddElement
<1>. HIDE DEF Rest, Before, After
<1>5. Cardinality(Hands(P, S, a)) = Cardinality(Rest) + One(Before)
  BY <1>1, <1>2, <1>4 DEF One
<1>6. Cardinality(Hands(P, S, a)') = Cardinality(Rest) + One(After)
  BY <1>1, <1>3, <1>4 DEF One
<1>7. Cardinality(Hands(P, S, a)') + One(Before) = Cardinality(Hands(P, S, a)) + One(After)
  BY <1>1, <1>5, <1>6 DEF One
<1>. QED  BY <1>7 DEF Before, After

\* Hands let go of what vanishes and keep the rest.
LEMMA HandsVanish ==
    ASSUME TypeOK, NEW T \in SUBSET Senders, Vanish(T), NEW S \in SUBSET Senders,
           NEW P \in SUBSET (Steps \ {"idle", "exited"}), NEW a \in Actions
    PROVE  /\ (\A s \in S : s \notin T) => Hands(P, S, a)' = Hands(P, S, a)
           /\ (\A s \in S : s \in T) => Hands(P, S, a)' = {}
           /\ Cardinality(Hands(P, S, a)') <= Cardinality(Hands(P, S, a))
<1>1. /\ \A s \in T : at'[s].step \in {"idle", "exited"}
      /\ \A s \in Senders \ T : at'[s] = at[s]
  BY VanishType
<1>2. (\A s \in S : s \notin T) => Hands(P, S, a)' = Hands(P, S, a)
  BY <1>1 DEF Hands, pc, cur
<1>3. \A s \in T : s \notin Hands(P, S, a)'
  BY <1>1 DEF Hands, pc
<1>4. (\A s \in S : s \in T) => Hands(P, S, a)' = {}
  BY <1>3 DEF Hands
<1>5. Hands(P, S, a)' \in SUBSET Hands(P, S, a)
  BY <1>1, <1>3 DEF Hands, pc, cur
<1>. QED  BY <1>2, <1>4, <1>5, HandsFinite, FS_Subset

\* When the daemon goes, and when a window is closed.
LEMMA Letting ==
    ASSUME TypeOK, NEW a \in Actions
    PROVE  /\ Vanish(Workers) => /\ Holding(Workers, a)' = {}
                                 /\ Holding(Sessions, a)' = Holding(Sessions, a)
           /\ \A s \in Sessions : Vanish({s}) =>
                 /\ Holding(Workers, a)' = Holding(Workers, a) /\ Mailed(a)' = Mailed(a)
                 /\ Cardinality(Holding(Sessions, a)') <= Cardinality(Holding(Sessions, a))
<1>1. /\ Workers \in SUBSET Senders /\ Sessions \in SUBSET Senders
      /\ \A s \in Sessions : s \notin Workers /\ {s} \in SUBSET Senders
  BY DispatchAssumption DEF Senders
<1>2. {"load", "dial"} \in SUBSET (Steps \ {"idle", "exited"})
  BY DEF Steps
<1>3. {"sent"} \in SUBSET (Steps \ {"idle", "exited"})
  BY DEF Steps
<1>4. ASSUME Vanish(Workers)
      PROVE  Holding(Workers, a)' = {} /\ Holding(Sessions, a)' = Holding(Sessions, a)
  BY <1>1, <1>2, <1>4, HandsVanish DEF Holding
<1>5. ASSUME NEW s \in Sessions, Vanish({s})
      PROVE  /\ Holding(Workers, a)' = Holding(Workers, a) /\ Mailed(a)' = Mailed(a)
             /\ Cardinality(Holding(Sessions, a)') <= Cardinality(Holding(Sessions, a))
  <2>1. \A w \in Workers : w \notin {s}
    BY <1>1
  <2>2. Holding(Workers, a)' = Holding(Workers, a)
    BY <1>1, <1>2, <1>5, <2>1, HandsVanish DEF Holding
  <2>3. Mailed(a)' = Mailed(a)
    BY <1>1, <1>3, <1>5, <2>1, HandsVanish DEF Mailed
  <2>4. Cardinality(Holding(Sessions, a)') <= Cardinality(Holding(Sessions, a))
    BY <1>1, <1>2, <1>5, HandsVanish DEF Holding
  <2>. QED  BY <2>2, <2>3, <2>4
<1>. QED  BY <1>4, <1>5

LEMMA PlacesFinite ==
    ASSUME NEW q \in Seq(Smtp), NEW a
    PROVE  /\ IsFiniteSet(Places(q, a)) /\ Cardinality(Places(q, a)) \in Nat
           /\ Cardinality(Places(q, a)) <= Len(q)
<1>1. Len(q) \in Nat
  BY LenProperties
<1>2. IsFiniteSet(1..Len(q)) /\ Cardinality(1..Len(q)) = Len(q)
  BY <1>1, FS_Interval, SMTT(30)
<1>3. Places(q, a) \in SUBSET (1..Len(q))
  BY DEF Places
<1>. QED  BY <1>2, <1>3, FS_Subset, FS_CardinalityType

LEMMA PlacesGrow ==
    ASSUME NEW q \in Seq(Smtp), NEW b \in Smtp, NEW a
    PROVE  Cardinality(Places(Append(q, b), a)) = Cardinality(Places(q, a)) + One(a = b)
<1>. DEFINE n == Len(q) + 1
<1>1. /\ Len(Append(q, b)) = n /\ n \in Nat /\ n \notin 1..Len(q)
      /\ \A i \in 1..Len(q) : Append(q, b)[i] = q[i]
      /\ Append(q, b)[n] = b
  BY AppendProperties, LenProperties
<1>2. 1..n = (1..Len(q)) \cup {n}
  BY <1>1, LenProperties
<1>3. Places(Append(q, b), a) = IF a = b THEN Places(q, a) \cup {n} ELSE Places(q, a)
  BY <1>1, <1>2 DEF Places
<1>4. IsFiniteSet(Places(q, a)) /\ Cardinality(Places(q, a)) \in Nat /\ n \notin Places(q, a)
  BY <1>1, PlacesFinite DEF Places
<1>5. Cardinality(Places(q, a) \cup {n}) = Cardinality(Places(q, a)) + 1
  BY <1>4, FS_AddElement
<1>. QED  BY <1>3, <1>4, <1>5 DEF One

LEMMA PlacesShrink ==
    ASSUME NEW q \in Seq(Smtp), q # <<>>, NEW a
    PROVE  Cardinality(Places(Tail(q), a)) + One(Head(q) = a) <= Cardinality(Places(q, a))
<1>. DEFINE Old == Places(q, a) \ {1}
            New == Places(Tail(q), a)
            f == [i \in New |-> i + 1]
<1>1. /\ Len(Tail(q)) = Len(q) - 1 /\ Len(q) \in Nat /\ Head(q) = q[1] /\ 1 \in 1..Len(q)
      /\ \A i \in 1..Len(Tail(q)) : Tail(q)[i] = q[i + 1]
      /\ Tail(q) \in Seq(Smtp)
  BY HeadTailProperties, LenProperties
<1>2. New \subseteq 1..(Len(q) - 1)
  BY <1>1 DEF Places
<1>3. \A i \in New : i \in Nat /\ i + 1 \in Old
  <2>. SUFFICES ASSUME NEW i \in New PROVE i \in Nat /\ i + 1 \in Old
    OBVIOUS
  <2>1. i \in 1..(Len(q) - 1) /\ Tail(q)[i] = a
    BY <1>2 DEF Places
  <2>2. i + 1 \in 1..Len(q) /\ i + 1 # 1 /\ i \in Nat
    BY <1>1, <2>1
  <2>3. q[i + 1] = a
    BY <1>1, <2>1
  <2>. QED  BY <2>2, <2>3 DEF Places
<1>4. IsFiniteSet(Places(q, a)) /\ Cardinality(Places(q, a)) \in Nat
  BY PlacesFinite
<1>5. /\ IsFiniteSet(Old) /\ Cardinality(Old) \in Nat
      /\ Cardinality(Old) = IF 1 \in Places(q, a) THEN Cardinality(Places(q, a)) - 1
                                                 ELSE Cardinality(Places(q, a))
  BY <1>4, FS_RemoveElement, FS_CardinalityType
<1>6. f \in Injection(New, Old)
  BY <1>3 DEF Injection, IsInjective
<1>7. Cardinality(New) <= Cardinality(Old)
  BY <1>5, <1>6, FS_Injection
<1>8. 1 \in Places(q, a) <=> Head(q) = a
  BY <1>1 DEF Places
<1>9. Cardinality(New) \in Nat
  BY <1>1, PlacesFinite
<1>. HIDE DEF New, Old
<1>10. Cardinality(New) + One(Head(q) = a) <= Cardinality(Places(q, a))
  BY <1>4, <1>5, <1>7, <1>8, <1>9 DEF One
<1>. QED  BY <1>10 DEF New

LEMMA RationTypes ==
    ASSUME TypeOK, TypeOK', NEW a \in Actions
    PROVE  /\ PerStart \in Nat /\ starts \in Nat /\ sends \in Nat /\ starts' \in Nat /\ sends' \in Nat
           /\ errors \in Nat /\ errors' \in Nat /\ Paid \in Nat /\ Paid' \in Nat
           /\ mails[a] \in Nat /\ mails'[a] \in Nat
           /\ Cardinality(Holding(Sessions, a)) \in Nat /\ Cardinality(Holding(Sessions, a)') \in Nat
           /\ Cardinality(Holding(Workers, a)) \in Nat /\ Cardinality(Holding(Workers, a)') \in Nat
           /\ Cardinality(Mailed(a)) \in Nat /\ Cardinality(Mailed(a)') \in Nat
           /\ Cardinality(Places(jobs, a)) \in Nat /\ Cardinality(Places(jobs, a)') \in Nat
           /\ IsFiniteSet(Asking(a)) /\ IsFiniteSet(Asking(a)')
           /\ Cardinality(Asking(a)) \in Nat /\ Cardinality(Asking(a)') \in Nat
           /\ Spent(a) \in Nat /\ Coming(a) \in Nat /\ Spent(a)' \in Nat /\ Coming(a)' \in Nat
<1>1. PerStart \in Nat
  BY DispatchAssumption, FS_CardinalityType DEF PerStart
<1>2. /\ Cardinality(Holding(Sessions, a)) \in Nat /\ Cardinality(Holding(Sessions, a)') \in Nat
      /\ Cardinality(Holding(Workers, a)) \in Nat /\ Cardinality(Holding(Workers, a)') \in Nat
      /\ Cardinality(Mailed(a)) \in Nat /\ Cardinality(Mailed(a)') \in Nat
  BY HandsFinite DEF Holding, Mailed, Senders
<1>3. Cardinality(Places(jobs, a)) \in Nat /\ Cardinality(Places(jobs, a)') \in Nat
  BY PlacesFinite, ZenonT(30) DEF TypeOK, Places
<1>4. /\ IsFiniteSet(Asking(a)) /\ IsFiniteSet(Asking(a)')
      /\ Cardinality(Asking(a)) \in Nat /\ Cardinality(Asking(a)') \in Nat
  <2>1. Asking(a) \in SUBSET Sessions /\ Asking(a)' \in SUBSET Sessions
    BY DEF Asking
  <2>. QED  BY <2>1, DispatchAssumption, FS_Subset, FS_CardinalityType
<1>5. /\ starts \in Nat /\ sends \in Nat /\ starts' \in Nat /\ sends' \in Nat
      /\ mails[a] \in Nat /\ mails'[a] \in Nat /\ errors \in Nat /\ errors' \in Nat
  BY DEF TypeOK
<1>6. Paid \in Nat /\ Paid' \in Nat
  <2>1. \A m, n \in Nat : m + n \in Nat
    OBVIOUS
  <2>2. sends + errors \in Nat /\ sends' + errors' \in Nat
    BY <1>5, <2>1
  <2>. QED  BY <2>2 DEF Paid
<1>7. One(a \in backlog) \in Nat /\ One(a \in backlog)' \in Nat
  BY DEF One
<1>8. Spent(a) \in Nat /\ Coming(a) \in Nat /\ Spent(a)' \in Nat /\ Coming(a)' \in Nat
  BY <1>2, <1>3, <1>4, <1>5, <1>7 DEF Spent, Coming
<1>. QED  BY <1>1, <1>2, <1>3, <1>4, <1>5, <1>6, <1>8

\* The three hands, under one sender's step.
LEMMA HandsMoves ==
    ASSUME TypeOK, NEW s \in Senders, NEW step \in Steps, NEW b \in Smtp \cup {None},
           MoveTo(s, step, b), NEW a \in Actions
    PROVE  /\ Cardinality(Holding(Workers, a)')
                 + One(s \in Workers /\ pc(s) \in {"load", "dial"} /\ cur(s) = a)
              = Cardinality(Holding(Workers, a))
                 + One(s \in Workers /\ step \in {"load", "dial"} /\ b = a)
           /\ Cardinality(Holding(Sessions, a)')
                 + One(s \in Sessions /\ pc(s) \in {"load", "dial"} /\ cur(s) = a)
              = Cardinality(Holding(Sessions, a))
                 + One(s \in Sessions /\ step \in {"load", "dial"} /\ b = a)
           /\ Cardinality(Mailed(a)') + One(s \in Workers /\ pc(s) \in {"sent"} /\ cur(s) = a)
              = Cardinality(Mailed(a)) + One(s \in Workers /\ step \in {"sent"} /\ b = a)
<1>1. Workers \in SUBSET Senders /\ Sessions \in SUBSET Senders
  BY DEF Senders
<1>. QED  BY <1>1, HandsMove DEF Holding, Mailed

LEMMA HandTypes ==
    ASSUME NEW a
    PROVE  /\ Cardinality(Holding(Workers, a)) \in Nat /\ Cardinality(Holding(Workers, a)') \in Nat
           /\ Cardinality(Holding(Sessions, a)) \in Nat /\ Cardinality(Holding(Sessions, a)') \in Nat
           /\ Cardinality(Mailed(a)) \in Nat /\ Cardinality(Mailed(a)') \in Nat
  BY HandsFinite DEF Holding, Mailed, Senders

\* A sender that neither leaves nor takes up a demand, and one that takes up c.
LEMMA HandsStill ==
    ASSUME TypeOK, NEW s \in Senders, NEW step \in Steps \ {"load", "dial", "sent"},
           NEW b \in Smtp \cup {None}, MoveTo(s, step, b), pc(s) \notin {"load", "dial", "sent"},
           NEW a \in Actions
    PROVE  /\ Cardinality(Holding(Workers, a)') = Cardinality(Holding(Workers, a))
           /\ Cardinality(Holding(Sessions, a)') = Cardinality(Holding(Sessions, a))
           /\ Cardinality(Mailed(a)') = Cardinality(Mailed(a))
<1>1. /\ Cardinality(Holding(Workers, a)') + One(FALSE) = Cardinality(Holding(Workers, a)) + One(FALSE)
      /\ Cardinality(Holding(Sessions, a)') + One(FALSE) = Cardinality(Holding(Sessions, a)) + One(FALSE)
      /\ Cardinality(Mailed(a)') + One(FALSE) = Cardinality(Mailed(a)) + One(FALSE)
  BY HandsMoves DEF One
<1>. QED  BY <1>1, HandTypes DEF One

LEMMA HandsTaken ==
    ASSUME TypeOK, NEW s \in Senders, NEW c \in Smtp, MoveTo(s, "load", c),
           pc(s) \notin {"load", "dial", "sent"}, NEW a \in Actions
    PROVE  /\ Cardinality(Holding(Workers, a)')
                = Cardinality(Holding(Workers, a)) + One(s \in Workers /\ c = a)
           /\ Cardinality(Holding(Sessions, a)')
                = Cardinality(Holding(Sessions, a)) + One(s \in Sessions /\ c = a)
           /\ Cardinality(Mailed(a)') = Cardinality(Mailed(a))
<1>1. "load" \in Steps
  BY DEF Steps
<1>2. /\ Cardinality(Holding(Workers, a)') + One(s \in Workers /\ pc(s) \in {"load", "dial"} /\ cur(s) = a)
           = Cardinality(Holding(Workers, a)) + One(s \in Workers /\ "load" \in {"load", "dial"} /\ c = a)
      /\ Cardinality(Holding(Sessions, a)') + One(s \in Sessions /\ pc(s) \in {"load", "dial"} /\ cur(s) = a)
           = Cardinality(Holding(Sessions, a)) + One(s \in Sessions /\ "load" \in {"load", "dial"} /\ c = a)
      /\ Cardinality(Mailed(a)') + One(s \in Workers /\ pc(s) \in {"sent"} /\ cur(s) = a)
           = Cardinality(Mailed(a)) + One(s \in Workers /\ "load" \in {"sent"} /\ c = a)
  BY <1>1, HandsMoves
<1>. QED  BY <1>2, HandTypes DEF One

\* Steps that leave the mails, the senders and the lists of the sessions alone.
LEMMA SpentStays ==
    ASSUME UNCHANGED <<mails, at, todo>>, NEW a \in Actions
    PROVE  /\ Spent(a)' = Spent(a) /\ Mailed(a)' = Mailed(a)
           /\ Holding(Workers, a)' = Holding(Workers, a)
  BY DEF Spent, Mailed, Holding, Asking, Hands, pc, cur

\* A step that spends no more than what it was given keeps the ration.
LEMMA RationKept ==
    ASSUME TypeOK, TypeOK', NEW a \in Actions, Ration(a), UNCHANGED starts,
           Spent(a)' + Coming(a)' + Paid <= Spent(a) + Coming(a) + Paid',
           State(a)' = "QUEUED" /\ life' = "up" =>
              /\ State(a) = "QUEUED" /\ life = "up"
              /\ Spent(a)' + Cardinality(Mailed(a)) + Paid
                    <= Spent(a) + Cardinality(Mailed(a)') + Paid'
    PROVE  Ration(a)'
<1>. DEFINE K == starts * PerStart
            L == (starts - 1) * PerStart
<1>1. K \in Int /\ L \in Int
  BY RationTypes
<1>2. K' = K /\ L' = L
  BY DEF PerStart
<1>. HIDE DEF K, L
<1>3. Spent(a) + Coming(a) <= K + Paid
  BY DEF Ration, K
<1>4. Spent(a)' + Coming(a)' <= K + Paid'
  BY <1>1, <1>3, RationTypes
<1>5. State(a)' = "QUEUED" /\ life' = "up" => Spent(a)' <= L + Paid' + Cardinality(Mailed(a)')
  <2>. SUFFICES ASSUME State(a)' = "QUEUED", life' = "up"
                PROVE  Spent(a)' <= L + Paid' + Cardinality(Mailed(a)')
    OBVIOUS
  <2>1. Spent(a) <= L + Paid + Cardinality(Mailed(a))
    BY DEF Ration, L
  <2>. QED  BY <1>1, <2>1, RationTypes
<1>. QED  BY <1>2, <1>4, <1>5 DEF Ration, K, L, PerStart

\* The user, the scrub and the inbox write rows; nothing is spent.
LEMMA RowRation ==
    ASSUME IInv, TypeOK', Resting, NEW a \in Actions, Ration(a), NEW c \in Actions,
           InsertAction(c) \/ CompleteAction(c) \/ Answer(c)
    PROVE  Ration(a)'
<1>. USE DEF IInv, daemon, session, history, bounds
<1>1. UNCHANGED <<mails, at, todo, life, backlog, jobs, starts, Paid>>
  BY DEF InsertAction, CompleteAction, Answer, Paid
<1>2. /\ Spent(a)' = Spent(a) /\ Mailed(a)' = Mailed(a)
      /\ Holding(Workers, a)' = Holding(Workers, a)
  BY <1>1, SpentStays
<1>3. Coming(a)' = Coming(a)
  BY <1>1, <1>2 DEF Coming, Places
<1>4. CASE State(a) = "QUEUED" \/ State(a)' # "QUEUED"
  <2>1. State(a)' = "QUEUED" /\ life' = "up" => State(a) = "QUEUED" /\ life = "up"
    BY <1>1, <1>4
  <2>. QED  BY <1>1, <1>2, <1>3, <2>1, RationTypes, RationKept
<1>5. CASE State(a) # "QUEUED" /\ State(a)' = "QUEUED"
  <2>1. State(a) = "ABSENT"
    <3>1. \E st \in States : UpdateActionState(c, st, 0) /\ (InsertAction(c) \/ st # "QUEUED")
      BY DEF InsertAction, CompleteAction, Answer, States
    <3>2. c = a /\ InsertAction(c)
      BY <1>5, <3>1, SMTT(30) DEF UpdateActionState, TypeOK, State
    <3>. QED  BY <3>2 DEF InsertAction
  <2>2. mails[a] = 0
    BY <2>1 DEF MailedFirst
  <2>3. Holding(Sessions, a) = {}
    BY <2>1 DEF Holding, Hands, HoldsDemand, Senders
  <2>4. Asking(a) = {}
    BY <2>1 DEF Asking, ListsDemands
  <2>5. Spent(a) = 0
    BY <2>2, <2>3, <2>4, FS_EmptySet DEF Spent
  <2>6. life = "up" => starts - 1 \in Nat
    BY RationTypes DEF Resting
  <2>7. life = "up" => 0 <= (starts - 1) * PerStart + Paid + Cardinality(Mailed(a))
    BY <2>6, RationTypes
  <2>8. UNCHANGED <<starts * PerStart, (starts - 1) * PerStart>>
    BY <1>1 DEF PerStart
  <2>. QED  BY <1>1, <1>2, <1>3, <2>5, <2>7, <2>8 DEF Ration
<1>. QED  BY <1>4, <1>5

\* A tick lists a demand only if no worker has recorded it since the start: then what the pool
\* and the channel can hold is still to spend.
LEMMA DrainRation ==
    ASSUME IInv, TypeOK', NEW a \in Actions, Ration(a), Resting, DrainQueued
    PROVE  Ration(a)'
<1>. USE DEF IInv, daemon, session, history, bounds
<1>1. /\ UNCHANGED <<mails, at, todo, life, row, jobs, starts, Paid>>
      /\ life = "up" /\ backlog = {} /\ backlog' = Queued \cap Smtp
  BY DEF DrainQueued, Paid
<1>2. /\ Spent(a)' = Spent(a) /\ Mailed(a)' = Mailed(a)
      /\ Holding(Workers, a)' = Holding(Workers, a)
  BY <1>1, SpentStays
<1>3. Places(jobs, a)' = Places(jobs, a) /\ State(a)' = State(a)
  BY <1>1 DEF Places, State
<1>4. CASE a \notin backlog'
  <2>1. Coming(a)' = Coming(a)
    BY <1>1, <1>2, <1>3, <1>4 DEF Coming, One
  <2>. QED  BY <1>1, <1>2, <1>3, <2>1, RationTypes, RationKept
<1>5. CASE a \in backlog'
  <2>. DEFINE K == starts * PerStart
              L == (starts - 1) * PerStart
  <2>1. K = L + PerStart /\ K \in Int /\ L \in Int
    BY RationTypes
  <2>2. UNCHANGED <<K, L>>
    BY <1>1 DEF PerStart
  <2>3. State(a) = "QUEUED"
    BY <1>1, <1>5 DEF Queued
  <2>4. Spent(a) <= L + Paid + Cardinality(Mailed(a))
    BY <1>1, <2>3 DEF Ration
  <2>5. Cardinality(Holding(Workers, a)) + Cardinality(Mailed(a)) <= Cardinality(Workers)
    <3>1. /\ Holding(Workers, a) \cup Mailed(a) \in SUBSET Workers
          /\ Holding(Workers, a) \cap Mailed(a) = {}
      BY DEF Holding, Mailed, Hands
    <3>2. IsFiniteSet(Holding(Workers, a)) /\ IsFiniteSet(Mailed(a))
      BY HandsFinite DEF Holding, Mailed, Senders
    <3>3. Cardinality(Holding(Workers, a) \cup Mailed(a))
                = Cardinality(Holding(Workers, a)) + Cardinality(Mailed(a))
      <4>1. Cardinality(Holding(Workers, a) \cup Mailed(a))
                = Cardinality(Holding(Workers, a)) + Cardinality(Mailed(a))
                     - Cardinality(Holding(Workers, a) \cap Mailed(a))
        BY <3>2, FS_Union
      <4>2. Cardinality(Holding(Workers, a) \cap Mailed(a)) = 0
        BY <3>1, FS_EmptySet
      <4>. QED  BY <4>1, <4>2, RationTypes
    <3>4. Cardinality(Holding(Workers, a) \cup Mailed(a)) <= Cardinality(Workers)
      BY <3>1, DispatchAssumption, FS_Subset
    <3>. QED  BY <3>3, <3>4
  <2>6. Cardinality(Places(jobs, a)) <= Cap
    <3>1. jobs \in Seq(Smtp) /\ Len(jobs) <= Cap
      BY DEF TypeOK
    <3>2. Cardinality(Places(jobs, a)) <= Len(jobs) /\ Len(jobs) \in Nat
      BY <3>1, PlacesFinite, LenProperties
    <3>3. Cap \in Nat /\ Cardinality(Places(jobs, a)) \in Nat
      BY RationTypes, DispatchAssumption
    <3>. HIDE DEF IInv
    <3>. QED  BY <3>1, <3>2, <3>3
  <2>. HIDE DEF K, L
  <2>7. Cardinality(Workers) \in Nat
    BY DispatchAssumption, FS_CardinalityType
  <2>8. Coming(a)' = Cardinality(Holding(Workers, a)) + Cardinality(Places(jobs, a)) + 1
    BY <1>2, <1>3, <1>5 DEF Coming, One
  <2>9. Spent(a)' + Coming(a)' <= K + Paid
    BY <1>2, <2>1, <2>4, <2>5, <2>6, <2>7, <2>8, RationTypes, DispatchAssumption DEF PerStart
  <2>. QED  BY <1>1, <1>2, <1>3, <2>2, <2>4, <2>9 DEF Ration, K, L
<1>. QED  BY <1>4, <1>5

\* The daemon's other steps move what it already had, let it go, or start a new ration.
LEMMA DaemonRation ==
    ASSUME IInv, TypeOK', NEW a \in Actions, Ration(a), Resting,
           \/ \E c \in Actions : Submit(c) \/ SubmitCancelled(c)
           \/ Start \/ Cancel \/ ExitAfterWait \/ ExitAtOnce
           \/ \E w \in Workers : Receive(w) \/ WorkerExits(w)
    PROVE  Ration(a)'
<1>. USE DEF IInv, daemon, session, history, bounds
<1>1. ASSUME NEW c \in Actions, Submit(c) \/ SubmitCancelled(c)
      PROVE  Ration(a)'
  <2>1. /\ UNCHANGED <<mails, at, todo, life, row, starts, Paid>> /\ c \in backlog /\ c \in Smtp
        /\ backlog' = backlog \ {c}
    BY <1>1 DEF Submit, SubmitCancelled, Oldest, TypeOK, Paid
  <2>2. /\ Spent(a)' = Spent(a) /\ Mailed(a)' = Mailed(a)
        /\ Holding(Workers, a)' = Holding(Workers, a)
    BY <2>1, SpentStays
  <2>3. Cardinality(Places(jobs, a)') <= Cardinality(Places(jobs, a)) + One(a = c)
    <3>1. CASE Submit(c)
      <4>1. jobs' = Append(jobs, c) /\ jobs \in Seq(Smtp)
        BY <3>1 DEF Submit, TypeOK
      <4>2. Cardinality(Places(Append(jobs, c), a)) = Cardinality(Places(jobs, a)) + One(a = c)
        BY <2>1, <4>1, PlacesGrow
      <4>3. Places(jobs, a)' = Places(Append(jobs, c), a)
        BY <4>1 DEF Places
      <4>. QED  BY <4>2, <4>3, RationTypes
    <3>2. CASE SubmitCancelled(c)
      <4>1. Places(jobs, a)' = Places(jobs, a)
        BY <3>2 DEF SubmitCancelled, Places
      <4>. QED  BY <4>1, RationTypes DEF One
    <3>. QED  BY <1>1, <3>1, <3>2
  <2>4. One(a \in backlog') + One(a = c) = One(a \in backlog)
    BY <2>1 DEF One
  <2>5. One(a = c) \in Nat /\ One(a \in backlog) \in Nat /\ One(a \in backlog') \in Nat
    BY DEF One
  <2>6. Coming(a)' = Cardinality(Holding(Workers, a)) + Cardinality(Places(jobs, a)')
                        + One(a \in backlog')
    BY <2>2 DEF Coming
  <2>7. Coming(a)' <= Coming(a)
    BY <2>3, <2>4, <2>5, <2>6, RationTypes DEF Coming
  <2>8. State(a)' = State(a)
    BY <2>1 DEF State
  <2>. QED  BY <2>1, <2>2, <2>7, <2>8, RationTypes, RationKept
<1>2. CASE Start
  <2>. DEFINE K == starts * PerStart
  <2>1. /\ UNCHANGED <<mails, at, todo, row, jobs, backlog, Paid>> /\ starts' = starts + 1
    BY <1>2 DEF Start, Paid
  <2>2. /\ Spent(a)' = Spent(a) /\ Mailed(a)' = Mailed(a)
        /\ Holding(Workers, a)' = Holding(Workers, a)
    BY <2>1, SpentStays
  <2>3. Coming(a)' = Coming(a)
    BY <2>1, <2>2 DEF Coming, Places
  <2>4. K' = K + PerStart /\ (starts' - 1) * PerStart' = K /\ K \in Int
    <3>1. PerStart' = PerStart
      BY DEF PerStart
    <3>2. (starts + 1) * PerStart = K + PerStart /\ K \in Int /\ (starts + 1) - 1 = starts
      BY RationTypes
    <3>. QED  BY <2>1, <3>1, <3>2
  <2>5. Spent(a) + Coming(a) <= K + Paid
    BY DEF Ration
  <2>. HIDE DEF K
  <2>6. Spent(a)' + Coming(a)' <= K' + Paid'
    BY <2>1, <2>2, <2>3, <2>4, <2>5, RationTypes
  <2>7. Spent(a)' <= K + Paid' + Cardinality(Mailed(a)')
    BY <2>1, <2>2, <2>4, <2>5, RationTypes
  <2>. QED  BY <2>4, <2>6, <2>7 DEF Ration, K
<1>3. CASE Cancel
  <2>1. UNCHANGED <<mails, at, todo, row, jobs, backlog, starts, Paid>> /\ life' = "stopping"
    BY <1>3 DEF Cancel, Paid
  <2>2. Spent(a)' = Spent(a) /\ Holding(Workers, a)' = Holding(Workers, a)
    BY <2>1, SpentStays
  <2>3. Coming(a)' = Coming(a)
    BY <2>1, <2>2 DEF Coming, Places
  <2>. QED  BY <2>1, <2>2, <2>3, RationTypes, RationKept
<1>4. CASE ExitAfterWait \/ ExitAtOnce
  <2>1. Vanish(Workers) /\ life' = "down" /\ UNCHANGED <<mails, todo, row, starts, Paid>>
        /\ jobs' = <<>> /\ backlog' = {}
    BY <1>4 DEF ExitAfterWait, ExitAtOnce, DaemonGone, Vanish, Paid
  <2>2. /\ Holding(Workers, a)' = {} /\ Holding(Sessions, a)' = Holding(Sessions, a)
    BY <2>1, Letting
  <2>3. Spent(a)' = Spent(a)
    BY <2>1, <2>2 DEF Spent, Asking
  <2>4. Places(jobs, a)' = {}
    BY <2>1, EmptySeq DEF Places
  <2>5. Coming(a)' = 0
    <3>1. Cardinality(Holding(Workers, a)') = 0 /\ Cardinality(Places(jobs, a)') = 0
      BY <2>2, <2>4, FS_EmptySet
    <3>2. One(a \in backlog') = 0
      BY <2>1 DEF One
    <3>. QED  BY <3>1, <3>2 DEF Coming
  <2>. QED  BY <2>1, <2>3, <2>5, RationTypes, RationKept, SMTT(30)
<1>5. ASSUME NEW w \in Workers, Receive(w)
      PROVE  Ration(a)'
  <2>1. /\ UNCHANGED <<mails, todo, row, life, backlog, starts, Paid>> /\ pc(w) = "idle"
        /\ jobs # <<>> /\ MoveTo(w, "load", Head(jobs)) /\ jobs' = Tail(jobs) /\ w \in Senders
        /\ w \notin Sessions
    BY <1>5, DispatchAssumption DEF Receive, Senders, Paid
  <2>2. Head(jobs) \in Smtp
    BY <2>1, ChannelType
  <2>3. /\ Cardinality(Holding(Workers, a)') = Cardinality(Holding(Workers, a)) + One(Head(jobs) = a)
        /\ Cardinality(Holding(Sessions, a)') = Cardinality(Holding(Sessions, a))
        /\ Cardinality(Mailed(a)') = Cardinality(Mailed(a))
    BY <2>1, <2>2, HandsTaken, HandTypes DEF One
  <2>4. Cardinality(Places(jobs, a)') + One(Head(jobs) = a) <= Cardinality(Places(jobs, a))
    <3>1. Cardinality(Places(Tail(jobs), a)) + One(Head(jobs) = a) <= Cardinality(Places(jobs, a))
      BY <2>1, PlacesShrink DEF TypeOK
    <3>2. Places(jobs, a)' = Places(Tail(jobs), a)
      BY <2>1 DEF Places
    <3>. QED  BY <3>1, <3>2
  <2>5. Spent(a)' = Spent(a)
    BY <2>1, <2>3 DEF Spent, Asking
  <2>6. One(Head(jobs) = a) \in Nat /\ One(a \in backlog) \in Nat /\ One(a \in backlog') = One(a \in backlog)
    BY <2>1 DEF One
  <2>7. Coming(a)' <= Coming(a)
    BY <2>3, <2>4, <2>6, RationTypes DEF Coming
  <2>8. State(a)' = State(a)
    BY <2>1 DEF State
  <2>9. Spent(a)' + Coming(a)' + Paid <= Spent(a) + Coming(a) + Paid'
    <3>1. /\ Spent(a) \in Nat /\ Coming(a) \in Nat /\ Coming(a)' \in Nat /\ Paid \in Nat
          /\ Paid' = Paid
      BY <2>1, RationTypes
    <3>. QED  BY <2>5, <2>7, <3>1
  <2>10. Spent(a)' + Cardinality(Mailed(a)) + Paid <= Spent(a) + Cardinality(Mailed(a)') + Paid'
    BY <2>1, <2>3, <2>5, RationTypes, SMTT(30)
  <2>. QED  BY <2>1, <2>8, <2>9, <2>10, RationKept
<1>6. ASSUME NEW w \in Workers, WorkerExits(w)
      PROVE  Ration(a)'
  <2>1. /\ UNCHANGED <<mails, todo, row, life, backlog, jobs, starts, Paid>> /\ pc(w) = "idle"
        /\ MoveTo(w, "exited", None) /\ life = "stopping" /\ w \in Senders
    BY <1>6 DEF WorkerExits, Senders, Paid
  <2>2. /\ Cardinality(Holding(Workers, a)') = Cardinality(Holding(Workers, a))
        /\ Cardinality(Holding(Sessions, a)') = Cardinality(Holding(Sessions, a))
    BY <2>1, HandsMoves, RationTypes DEF One, Steps
  <2>3. Spent(a)' = Spent(a) /\ Coming(a)' = Coming(a)
    BY <2>1, <2>2 DEF Spent, Asking, Coming, Places
  <2>. QED  BY <2>1, <2>3, RationTypes, RationKept
<1>. QED  BY <1>1, <1>2, <1>3, <1>4, <1>5, <1>6

\* A run of [3] Send pays for its whole list; the walk over it spends nothing more.
LEMMA SessionRation ==
    ASSUME IInv, TypeOK', NEW a \in Actions, Ration(a), NEW s \in Sessions,
           \/ SendQueuedSMTP(s) \/ Interrupt(s) \/ SessionEnds(s) \/ CloseWindow(s)
           \/ Reopen(s) \/ \E c \in Actions : SendNext(s, c)
    PROVE  Ration(a)'
<1>. USE DEF IInv, daemon, session, history, bounds
<1>0. s \in Senders /\ s \notin Workers
  BY DispatchAssumption DEF Senders
<1>1. /\ UNCHANGED <<mails, row, life, backlog, jobs, starts>>
      /\ Places(jobs, a)' = Places(jobs, a) /\ State(a)' = State(a)
  BY DEF SendQueuedSMTP, Interrupt, SessionEnds, CloseWindow, Reopen, SendNext, Vanish, Places,
         State
<1>2. ASSUME Cardinality(Holding(Workers, a)') = Cardinality(Holding(Workers, a)),
             Cardinality(Mailed(a)') = Cardinality(Mailed(a)),
             Cardinality(Holding(Sessions, a)') + Cardinality(Asking(a)') + Paid
                <= Cardinality(Holding(Sessions, a)) + Cardinality(Asking(a)) + Paid'
      PROVE  Ration(a)'
  <2>1. Coming(a)' = Coming(a)
    BY <1>1, <1>2 DEF Coming
  <2>2. Spent(a)' + Paid <= Spent(a) + Paid'
    BY <1>1, <1>2, RationTypes DEF Spent
  <2>. QED  BY <1>1, <1>2, <2>1, <2>2, RationTypes, RationKept
<1>3. ASSUME Asking(a)' \in SUBSET Asking(a)
      PROVE  Cardinality(Asking(a)') <= Cardinality(Asking(a))
  BY <1>3, RationTypes, FS_Subset
<1>4. CASE SendQueuedSMTP(s)
  <2>1. UNCHANGED at /\ Paid' = Paid + 1 /\ \A r \in Sessions \ {s} : todo'[r] = todo[r]
    BY <1>4 DEF SendQueuedSMTP, TypeOK, Paid
  <2>2. /\ Holding(Workers, a)' = Holding(Workers, a) /\ Mailed(a)' = Mailed(a)
        /\ Holding(Sessions, a)' = Holding(Sessions, a)
    BY <2>1 DEF Holding, Mailed, Hands, pc, cur
  <2>3. Asking(a)' \in SUBSET (Asking(a) \cup {s})
    BY <2>1 DEF Asking
  <2>4. /\ IsFiniteSet(Asking(a) \cup {s})
        /\ Cardinality(Asking(a) \cup {s}) <= Cardinality(Asking(a)) + 1
    <3>1. IsFiniteSet(Asking(a)) /\ Cardinality(Asking(a)) \in Nat
      BY RationTypes
    <3>2. /\ IsFiniteSet(Asking(a) \cup {s})
          /\ Cardinality(Asking(a) \cup {s})
                = IF s \in Asking(a) THEN Cardinality(Asking(a)) ELSE Cardinality(Asking(a)) + 1
      BY <3>1, FS_AddElement
    <3>. QED  BY <3>1, <3>2
  <2>5. Cardinality(Asking(a)') <= Cardinality(Asking(a)) + 1
    <3>1. Cardinality(Asking(a)') <= Cardinality(Asking(a) \cup {s})
      BY <2>3, <2>4, FS_Subset
    <3>2. Cardinality(Asking(a) \cup {s}) \in Nat
      BY <2>4, FS_CardinalityType
    <3>3. Cardinality(Asking(a)) \in Nat /\ Cardinality(Asking(a)') \in Nat
      BY RationTypes
    <3>. QED  BY <2>4, <3>1, <3>2, <3>3
  <2>. QED  BY <1>2, <2>1, <2>2, <2>5, RationTypes
<1>5. CASE Interrupt(s)
  <2>1. UNCHANGED <<at, todo, Paid>>
    BY <1>5 DEF Interrupt, Paid
  <2>2. /\ Holding(Workers, a)' = Holding(Workers, a) /\ Mailed(a)' = Mailed(a)
        /\ Holding(Sessions, a)' = Holding(Sessions, a) /\ Asking(a)' = Asking(a)
    BY <2>1 DEF Holding, Mailed, Hands, pc, cur, Asking
  <2>. QED  BY <1>2, <2>1, <2>2, RationTypes
<1>6. CASE SessionEnds(s) \/ Reopen(s)
  <2>1. PICK step \in {"idle", "exited"} : MoveTo(s, step, None)
    BY <1>6 DEF SessionEnds, Reopen
  <2>2. UNCHANGED Paid /\ pc(s) \in {"idle", "exited"} /\ Asking(a)' \in SUBSET Asking(a)
    BY <1>6 DEF SessionEnds, Reopen, Asking, TypeOK, Paid
  <2>3. /\ Cardinality(Holding(Workers, a)') = Cardinality(Holding(Workers, a))
        /\ Cardinality(Holding(Sessions, a)') = Cardinality(Holding(Sessions, a))
        /\ Cardinality(Mailed(a)') = Cardinality(Mailed(a))
    BY <1>0, <2>1, <2>2, HandsStill DEF Steps
  <2>. QED  BY <1>2, <1>3, <2>2, <2>3, RationTypes
<1>7. CASE CloseWindow(s)
  <2>1. Vanish({s}) /\ UNCHANGED Paid /\ Asking(a)' \in SUBSET Asking(a)
    BY <1>7 DEF CloseWindow, Asking, TypeOK, Paid
  <2>2. /\ Holding(Workers, a)' = Holding(Workers, a) /\ Mailed(a)' = Mailed(a)
        /\ Cardinality(Holding(Sessions, a)') <= Cardinality(Holding(Sessions, a))
    BY <2>1, Letting
  <2>. QED  BY <1>2, <1>3, <2>1, <2>2, RationTypes
<1>8. ASSUME NEW c \in Actions, SendNext(s, c)
      PROVE  Ration(a)'
  <2>1. /\ MoveTo(s, "load", c) /\ c \in todo[s] /\ c \in Smtp /\ UNCHANGED Paid
        /\ pc(s) = "idle" /\ todo' = [todo EXCEPT ![s] = todo[s] \ {c}]
    BY <1>8 DEF SendNext, Newest, TypeOK, Paid
  <2>2. /\ Cardinality(Holding(Workers, a)') = Cardinality(Holding(Workers, a))
        /\ Cardinality(Mailed(a)') = Cardinality(Mailed(a))
        /\ Cardinality(Holding(Sessions, a)') = Cardinality(Holding(Sessions, a)) + One(c = a)
    BY <1>0, <2>1, HandsTaken, HandTypes DEF One
  <2>3. Cardinality(Asking(a)') + One(c = a) <= Cardinality(Asking(a))
    <3>1. CASE c = a
      <4>1. Asking(a)' = Asking(a) \ {s} /\ s \in Asking(a)
        BY <2>1, <3>1 DEF Asking, TypeOK
      <4>2. Cardinality(Asking(a)') = Cardinality(Asking(a)) - 1
        BY <4>1, RationTypes, FS_RemoveElement, ZenonT(30)
      <4>. QED  BY <3>1, <4>2, RationTypes DEF One
    <3>2. CASE c # a
      <4>1. Asking(a)' = Asking(a)
        BY <2>1, <3>2 DEF Asking, TypeOK
      <4>. QED  BY <3>2, <4>1, RationTypes DEF One
    <3>. QED  BY <3>1, <3>2
  <2>4. One(c = a) \in Nat
    BY DEF One
  <2>. QED  BY <1>2, <2>1, <2>2, <2>3, <2>4, RationTypes
<1>. QED  BY <1>4, <1>5, <1>6, <1>7, <1>8

\* dispatchSMTP spends what its sender holds; a worker's mail stays uncounted against the queued
\* row until the outcome is recorded, and then the row is no longer queued.
LEMMA DispatchRation ==
    ASSUME IInv, TypeOK', NEW a \in Actions, Ration(a), NEW s \in Senders, DispatchSMTP(s)
    PROVE  Ration(a)'
<1>. USE DEF IInv, daemon, session, history, bounds
<1>. DEFINE Mine == cur(s) = a
<1>1. /\ UNCHANGED <<life, backlog, jobs, todo, starts>>
      /\ Places(jobs, a)' = Places(jobs, a) /\ Asking(a)' = Asking(a)
  BY DEF DispatchSMTP, Load, LoadFails, NotConfigured, Deliver, SendError, Record, RecordFails,
         Places, Asking
<1>0. Paid <= Paid'
  <2>1. UNCHANGED sends /\ errors' \in {errors, errors + 1}
    BY DEF DispatchSMTP, Load, LoadFails, NotConfigured, Deliver, SendError, Record,
           RecordFails, StatementFails
  <2>. QED  BY <2>1, RationTypes DEF Paid
<1>2. ASSUME mails'[a] + Cardinality(Holding(Sessions, a)') + Cardinality(Holding(Workers, a)')
                <= mails[a] + Cardinality(Holding(Sessions, a)) + Cardinality(Holding(Workers, a)),
             State(a)' = "QUEUED" /\ life' = "up" =>
                /\ State(a) = "QUEUED"
                /\ mails'[a] + Cardinality(Holding(Sessions, a)') + Cardinality(Mailed(a)) + Paid
                      <= mails[a] + Cardinality(Holding(Sessions, a)) + Cardinality(Mailed(a)') + Paid'
      PROVE  Ration(a)'
  <2>1. One(a \in backlog)' = One(a \in backlog) /\ One(a \in backlog) \in Nat
    BY <1>1 DEF One
  <2>2. Spent(a)' + Coming(a)' + Paid <= Spent(a) + Coming(a) + Paid'
    BY <1>0, <1>1, <1>2, <2>1, RationTypes DEF Spent, Coming
  <2>3. State(a)' = "QUEUED" /\ life' = "up" =>
           /\ State(a) = "QUEUED" /\ life = "up"
           /\ Spent(a)' + Cardinality(Mailed(a)) + Paid
                 <= Spent(a) + Cardinality(Mailed(a)') + Paid'
    BY <1>1, <1>2, RationTypes DEF Spent
  <2>. QED  BY <1>1, <2>2, <2>3, RationKept
<1>3. CASE Load(s)
  <2>1. MoveTo(s, "dial", cur(s)) /\ cur(s) \in Smtp /\ UNCHANGED <<mails, row>> /\ pc(s) = "load"
    BY <1>3 DEF Load
  <2>2. /\ Cardinality(Holding(Workers, a)') = Cardinality(Holding(Workers, a))
        /\ Cardinality(Holding(Sessions, a)') = Cardinality(Holding(Sessions, a))
        /\ Cardinality(Mailed(a)') = Cardinality(Mailed(a))
    <3>1. "dial" \in Steps
      BY DEF Steps
    <3>2. /\ Cardinality(Holding(Workers, a)') + One(s \in Workers /\ Mine)
               = Cardinality(Holding(Workers, a)) + One(s \in Workers /\ Mine)
          /\ Cardinality(Holding(Sessions, a)') + One(s \in Sessions /\ Mine)
               = Cardinality(Holding(Sessions, a)) + One(s \in Sessions /\ Mine)
          /\ Cardinality(Mailed(a)') + One(FALSE) = Cardinality(Mailed(a)) + One(FALSE)
      BY <2>1, <3>1, HandsMoves DEF One
    <3>. QED  BY <3>2, HandTypes DEF One
  <2>3. State(a)' = State(a)
    BY <2>1 DEF State
  <2>. QED  BY <1>0, <1>2, <2>1, <2>2, <2>3, RationTypes
<1>4. ASSUME NEW step \in {"idle", "failed"}, NEW b \in Smtp \cup {None}, MoveTo(s, step, b),
             pc(s) \in {"load", "dial"}, UNCHANGED mails,
             State(a)' = "QUEUED" => State(a) = "QUEUED"
      PROVE  Ration(a)'
  <2>1. step \in Steps
    BY DEF Steps
  <2>2. /\ Cardinality(Holding(Workers, a)') + One(s \in Workers /\ Mine)
             = Cardinality(Holding(Workers, a))
        /\ Cardinality(Holding(Sessions, a)') + One(s \in Sessions /\ Mine)
             = Cardinality(Holding(Sessions, a))
        /\ Cardinality(Mailed(a)') = Cardinality(Mailed(a))
    <3>1. /\ Cardinality(Holding(Workers, a)') + One(s \in Workers /\ Mine)
               = Cardinality(Holding(Workers, a)) + One(FALSE)
          /\ Cardinality(Holding(Sessions, a)') + One(s \in Sessions /\ Mine)
               = Cardinality(Holding(Sessions, a)) + One(FALSE)
          /\ Cardinality(Mailed(a)') + One(FALSE) = Cardinality(Mailed(a)) + One(FALSE)
      BY <1>4, <2>1, HandsMoves DEF One
    <3>. QED  BY <3>1, HandTypes DEF One
  <2>3. One(s \in Workers /\ Mine) \in Nat /\ One(s \in Sessions /\ Mine) \in Nat
    BY DEF One
  <2>. QED  BY <1>0, <1>2, <1>4, <2>2, <2>3, RationTypes
<1>5. CASE LoadFails(s)
  <2>1. MoveTo(s, "idle", None) /\ pc(s) \in {"load", "dial"} /\ UNCHANGED <<mails, row>>
    BY <1>5 DEF LoadFails
  <2>. QED  BY <1>4, <2>1 DEF State
<1>7. CASE NotConfigured(s) \/ SendError(s)
  <2>1. cur(s) \in Smtp /\ pc(s) \in {"load", "dial"}
    BY <1>7 DEF NotConfigured, SendError, HoldsDemand
  <2>2. MoveTo(s, "failed", cur(s)) /\ UNCHANGED <<mails, row>>
    BY <1>7 DEF NotConfigured, SendError
  <2>. QED  BY <1>4, <2>1, <2>2 DEF State
<1>8. CASE Deliver(s)
  <2>1. /\ cur(s) \in Smtp /\ pc(s) = "dial" /\ UNCHANGED row /\ MoveTo(s, "sent", cur(s))
        /\ "sent" \in Steps
    BY <1>8 DEF Deliver, HoldsDemand, Steps
  <2>2. mails'[a] = mails[a] + One(Mine)
    BY <1>8 DEF Deliver, TypeOK, One
  <2>3. /\ Cardinality(Holding(Workers, a)') + One(s \in Workers /\ Mine)
             = Cardinality(Holding(Workers, a)) + One(FALSE)
        /\ Cardinality(Holding(Sessions, a)') + One(s \in Sessions /\ Mine)
             = Cardinality(Holding(Sessions, a)) + One(FALSE)
        /\ Cardinality(Mailed(a)') + One(FALSE) = Cardinality(Mailed(a)) + One(s \in Workers /\ Mine)
    BY <2>1, HandsMoves DEF One
  <2>4. One(s \in Workers /\ Mine) + One(s \in Sessions /\ Mine) = One(Mine)
    BY DispatchAssumption DEF One, Senders
  <2>5. One(Mine) \in Nat /\ One(s \in Workers /\ Mine) \in Nat /\ One(s \in Sessions /\ Mine) \in Nat
    BY DEF One
  <2>6. State(a)' = State(a)
    BY <2>1 DEF State
  <2>. HIDE DEF Mine
  <2>7. /\ Cardinality(Holding(Workers, a)') + One(s \in Workers /\ Mine)
             = Cardinality(Holding(Workers, a))
        /\ Cardinality(Holding(Sessions, a)') + One(s \in Sessions /\ Mine)
             = Cardinality(Holding(Sessions, a))
        /\ Cardinality(Mailed(a)') = Cardinality(Mailed(a)) + One(s \in Workers /\ Mine)
    BY <2>3, HandTypes DEF One
  <2>. QED  BY <1>0, <1>2, <2>2, <2>4, <2>5, <2>6, <2>7, RationTypes
<1>9. CASE Record(s) \/ RecordFails(s)
  <2>1. /\ MoveTo(s, "idle", None) /\ pc(s) \in {"sent", "failed"} /\ UNCHANGED mails
        /\ "idle" \in Steps
    BY <1>9 DEF Record, RecordFails, Steps
  <2>2. /\ Cardinality(Holding(Workers, a)') = Cardinality(Holding(Workers, a))
        /\ Cardinality(Holding(Sessions, a)') = Cardinality(Holding(Sessions, a))
        /\ ~(s \in Workers /\ Mine) => Cardinality(Mailed(a)') = Cardinality(Mailed(a))
        /\ Cardinality(Mailed(a)) <= Cardinality(Mailed(a)') + 1
    <3>1. /\ Cardinality(Holding(Workers, a)') + One(FALSE)
               = Cardinality(Holding(Workers, a)) + One(FALSE)
          /\ Cardinality(Holding(Sessions, a)') + One(FALSE)
               = Cardinality(Holding(Sessions, a)) + One(FALSE)
          /\ Cardinality(Mailed(a)') + One(s \in Workers /\ pc(s) = "sent" /\ Mine)
               = Cardinality(Mailed(a)) + One(FALSE)
      BY <2>1, HandsMoves DEF One
    <3>. QED  BY <3>1, HandTypes DEF One
  <2>3. State(a)' = "QUEUED" => State(a) = "QUEUED" /\ (Record(s) => ~Mine)
    <3>1. CASE Record(s)
      <4>1. UpdateActionState(cur(s), Outcome(s), 1) /\ Outcome(s) # "QUEUED" /\ cur(s) \in Actions
        BY <3>1, DispatchAssumption DEF Record, Outcome, HoldsDemand
      <4>. QED  BY <4>1 DEF UpdateActionState, TypeOK, State
    <3>2. CASE RecordFails(s) /\ ~Record(s)
      BY <3>2 DEF RecordFails, State
    <3>. QED  BY <1>9, <3>1, <3>2
  <2>4. ASSUME State(a)' = "QUEUED", life' = "up"
        PROVE  /\ State(a) = "QUEUED"
               /\ Cardinality(Mailed(a)) + Paid <= Cardinality(Mailed(a)') + Paid'
    <3>1. CASE ~(s \in Workers /\ Mine)
      BY <1>0, <2>2, <2>3, <2>4, <3>1, RationTypes
    <3>2. CASE s \in Workers /\ Mine
      <4>1. RecordFails(s) /\ ~Cancelled(s)
        BY <1>1, <1>9, <2>3, <2>4, <3>2 DEF Cancelled
      <4>2. Paid' = Paid + 1
        BY <4>1, RationTypes DEF RecordFails, StatementFails, Paid
      <4>. QED  BY <2>2, <2>3, <2>4, <4>2, RationTypes
    <3>. QED  BY <3>1, <3>2
  <2>. QED  BY <1>0, <1>2, <2>1, <2>2, <2>4, RationTypes
<1>. QED  BY <1>3, <1>5, <1>7, <1>8, <1>9 DEF DispatchSMTP

LEMMA RestStep ==
    ASSUME IInv, Resting, [Next]_vars
    PROVE  Resting'
<1>. USE DispatchAssumption DEF IInv, daemon, session, history, bounds
<1>1. starts \in Nat
  BY DEF TypeOK
<1>2. ASSUME UNCHANGED <<life, backlog, jobs, starts>>, \A w \in Workers : at'[w] = at[w]
      PROVE  Resting'
  BY <1>2 DEF Resting, pc
<1>3. ASSUME NEW c \in Actions, InsertAction(c) \/ CompleteAction(c) \/ Answer(c)
      PROVE  Resting'
  BY <1>2, <1>3 DEF InsertAction, CompleteAction, Answer
<1>4. ASSUME NEW c \in Actions, Submit(c) \/ SubmitCancelled(c)
      PROVE  Resting'
  BY <1>4 DEF Resting, Submit, SubmitCancelled
<1>5. CASE Start
  BY <1>1, <1>5 DEF Resting, Start
<1>6. CASE DrainQueued \/ Cancel
  BY <1>6 DEF Resting, DrainQueued, Cancel
<1>7. CASE ExitAfterWait \/ ExitAtOnce
  <2>1. life' = "down" /\ backlog' = {} /\ jobs' = <<>> /\ Vanish(Workers)
    BY <1>7 DEF ExitAfterWait, ExitAtOnce, DaemonGone
  <2>2. \A w \in Workers : pc(w)' = "idle"
    BY <2>1 DEF Vanish, pc, Senders
  <2>. QED  BY <2>1, <2>2 DEF Resting
<1>8. ASSUME NEW w \in Workers, Receive(w) \/ WorkerExits(w)
      PROVE  Resting'
  BY <1>8 DEF Resting, Receive, WorkerExits
<1>9. ASSUME NEW s \in Sessions,
             \/ SendQueuedSMTP(s) \/ Interrupt(s) \/ SessionEnds(s) \/ CloseWindow(s)
             \/ Reopen(s) \/ \E c \in Actions : SendNext(s, c)
      PROVE  Resting'
  <2>1. UNCHANGED <<life, backlog, jobs, starts>>
    BY <1>9 DEF SendQueuedSMTP, Interrupt, SessionEnds, CloseWindow, Reopen, SendNext
  <2>2. CASE SendQueuedSMTP(s) \/ Interrupt(s)
    BY <1>2, <2>1, <2>2 DEF SendQueuedSMTP, Interrupt
  <2>3. CASE SessionEnds(s) \/ Reopen(s) \/ \E c \in Actions : SendNext(s, c)
    <3>1. \A w \in Workers : at'[w] = at[w]
      BY <2>3 DEF SessionEnds, Reopen, SendNext, MoveTo, TypeOK, Senders
    <3>. QED  BY <1>2, <2>1, <3>1
  <2>4. CASE CloseWindow(s)
    <3>1. \A w \in Workers : at'[w] = at[w]
      BY <2>4 DEF CloseWindow, Vanish, Senders
    <3>. QED  BY <1>2, <2>1, <3>1
  <2>. QED  BY <1>9, <2>2, <2>3, <2>4
<1>10. ASSUME NEW s \in Senders, DispatchSMTP(s)
       PROVE  Resting'
  <2>1. UNCHANGED <<life, backlog, jobs, starts>> /\ pc(s) # "idle"
    BY <1>10 DEF DispatchSMTP, Load, LoadFails, NotConfigured, Deliver, SendError, Record,
                 RecordFails
  <2>2. \A r \in Senders \ {s} : at'[r] = at[r]
    BY <1>10 DEF DispatchSMTP, Load, LoadFails, NotConfigured, Deliver, SendError, Record,
                 RecordFails, MoveTo, TypeOK
  <2>3. CASE life = "down"
    <3>1. s \notin Workers
      BY <2>1, <2>3 DEF Resting
    <3>2. \A w \in Workers : at'[w] = at[w]
      BY <2>2, <3>1 DEF Senders
    <3>. QED  BY <1>2, <2>1, <3>2
  <2>4. CASE life # "down"
    BY <2>1, <2>4 DEF Resting
  <2>. QED  BY <2>3, <2>4
<1>11. CASE UNCHANGED vars
  BY <1>2, <1>11 DEF vars
<1>. QED
  BY <1>3, <1>4, <1>5, <1>6, <1>7, <1>8, <1>9, <1>10, <1>11 DEF Next

LEMMA InitRationed == Init => Rationed
<1>. SUFFICES ASSUME Init PROVE Rationed
  OBVIOUS
<1>1. life = "down" /\ backlog = {} /\ jobs = <<>> /\ starts = 0 /\ Paid = 0
  BY DEF Init, Paid
<1>2. \A s \in Senders : pc(s) = "idle"
  BY DEF Init, pc
<1>3. Resting
  BY <1>1, <1>2 DEF Resting, Senders
<1>4. ASSUME NEW a \in Actions
      PROVE  Ration(a)
  <2>1. Holding(Workers, a) = {} /\ Holding(Sessions, a) = {}
    BY <1>2 DEF Holding, Hands, Senders
  <2>2. Asking(a) = {}
    BY DEF Init, Asking
  <2>3. Places(jobs, a) = {}
    BY <1>1, EmptySeq DEF Places
  <2>4. mails[a] = 0 /\ One(a \in backlog) = 0 /\ Cardinality({}) = 0
    BY FS_EmptySet DEF Init, One
  <2>5. Spent(a) = 0 /\ Coming(a) = 0
    BY <2>1, <2>2, <2>3, <2>4 DEF Spent, Coming
  <2>6. PerStart \in Nat
    BY DispatchAssumption, FS_CardinalityType DEF PerStart
  <2>7. 0 + 0 <= 0 * PerStart + 0
    BY <2>6
  <2>. QED  BY <1>1, <2>5, <2>7 DEF Ration
<1>. QED  BY <1>3, <1>4 DEF Rationed

LEMMA NextRationed ==
    ASSUME IInv, TypeOK', Rationed, [Next]_vars
    PROVE  Rationed'
<1>1. Resting'
  BY RestStep DEF Rationed
<1>2. ASSUME NEW a \in Actions
      PROVE  Ration(a)'
  <2>1. Resting /\ Ration(a)
    BY DEF Rationed
  <2>2. CASE UNCHANGED vars
    <3>1. UNCHANGED <<mails, at, todo, row, life, backlog, jobs, starts, Paid>>
      BY <2>2 DEF vars, daemon, session, history, bounds, Paid
    <3>. QED
      BY <2>1, <3>1 DEF Ration, Spent, Coming, Mailed, Holding, Hands, Asking, Places, PerStart,
                        State, pc, cur, One
  <2>. QED
    BY <2>1, <2>2, RowRation, DrainRation, DaemonRation, SessionRation, DispatchRation DEF Next
<1>. QED  BY <1>1, <1>2 DEF Rationed

\* However often the daemon is restarted and however its pool, its channel and the sessions
\* interleave, a broker gets one demand at most once for each place the daemon has for it in
\* each of its lives, once for each run of [3] Send and once for each outcome the database did
\* not take (scheduler.go drainQueued, worker_pool.go, mail.go SendQueuedSMTP, dispatchSMTP).
THEOREM DuplicatesBounded == Spec => []BoundedDuplicates
<1>1. IInv => TypeOK
  BY DEF IInv
<1>2. TypeOK /\ Rationed => BoundedDuplicates
  <2>. SUFFICES ASSUME TypeOK, Rationed, NEW a \in Actions
                PROVE  mails[a] <= starts * (Cardinality(Workers) + Cap + 1) + sends + errors
    BY DEF BoundedDuplicates
  <2>. DEFINE K == starts * PerStart
  <2>1. PerStart \in Nat /\ starts \in Nat /\ Paid \in Nat /\ mails[a] \in Nat
    BY DispatchAssumption, FS_CardinalityType DEF PerStart, TypeOK, Paid
  <2>2. K \in Nat
    BY <2>1
  <2>3. Spent(a) + Coming(a) <= K + Paid
    BY DEF Rationed, Ration
  <2>4. Cardinality(Asking(a)) \in Nat
    <3>1. Asking(a) \in SUBSET Sessions
      BY DEF Asking
    <3>. QED  BY <3>1, DispatchAssumption, FS_Subset, FS_CardinalityType
  <2>5. Cardinality(Places(jobs, a)) \in Nat /\ One(a \in backlog) \in Nat
    BY PlacesFinite DEF TypeOK, One
  <2>. HIDE DEF K
  <2>6. mails[a] <= K + Paid
    BY <2>1, <2>2, <2>3, <2>4, <2>5, HandTypes DEF Spent, Coming
  <2>7. sends \in Nat /\ errors \in Nat
    BY DEF TypeOK
  <2>. QED  BY <2>1, <2>2, <2>6, <2>7 DEF K, PerStart, Paid
<1>. QED  BY <1>1, <1>2, Invariant, InitRationed, NextRationed, PTL DEF Spec

-----------------------------------------------------------------------------
(***************************************************************************)
(* The refinement.                                                         *)
(***************************************************************************)
LEMMA UpdateIsSet ==
    ASSUME TypeOK, NEW a \in Actions, NEW st \in States, NEW n \in Nat,
           UpdateActionState(a, st, n)
    PROVE  Promise!Set(a, st)
<1>1. \A b \in Actions : row'[b].state = IF b = a THEN st ELSE row[b].state
  BY DEF UpdateActionState, TypeOK
<1>. QED  BY <1>1 DEF Promise!Set, State

LEMMA AnswersKeepPromise ==
    ASSUME IInv, NEW a \in Actions, Answer(a)
    PROVE  Promise!Next
<1>. USE DEF IInv, daemon, session, history, bounds
<1>1. PICK st \in {"SUBMITTED", "AWAITING_CONFIRMATION", "AWAITING_MANUAL", "COMPLETED"} :
         UpdateActionState(a, st, 0)
  BY DEF Answer
<1>2. Promise!Set(a, st)
  BY <1>1, UpdateIsSet DEF States
<1>3. State(a) # "ABSENT" /\ replied' = replied \cup {a} /\ UNCHANGED mails
  BY DEF Answer
<1>4. Promise!Answer(a)
  BY <1>2, <1>3 DEF Promise!Answer, State
<1>. QED  BY <1>4 DEF Promise!Next

LEMMA RowsKeepPromise ==
    ASSUME IInv, [Next]_vars, row' # row
    PROVE  Promise!Next
<1>. USE DEF IInv, daemon, session, history, bounds
<1>1. ASSUME NEW a \in Actions, InsertAction(a)
      PROVE  Promise!Ask(a)
  <2>1. Promise!Set(a, IF a \in Smtp THEN "QUEUED" ELSE "AWAITING_MANUAL")
    BY <1>1, UpdateIsSet DEF InsertAction, States
  <2>. QED  BY <1>1, <2>1 DEF InsertAction, Promise!Ask, State
<1>2. ASSUME NEW a \in Actions, CompleteAction(a)
      PROVE  Promise!Complete(a)
  <2>1. Promise!Set(a, "COMPLETED")
    BY <1>2, UpdateIsSet DEF CompleteAction, States
  <2>. QED  BY <1>2, <2>1 DEF CompleteAction, Promise!Complete, State
<1>3. ASSUME NEW a \in Actions, Answer(a)
      PROVE  Promise!Next
  BY <1>3, AnswersKeepPromise
<1>4. ASSUME NEW s \in Senders, Record(s)
      PROVE  cur(s) \in Actions /\ (Promise!Fail(cur(s)) \/ Promise!ShowSent(cur(s)))
  <2>1. cur(s) \in Smtp /\ cur(s) \in Actions /\ State(cur(s)) # "ABSENT"
    BY <1>4, DispatchAssumption DEF Record, HoldsDemand
  <2>2. /\ UpdateActionState(cur(s), Outcome(s), 1) /\ Outcome(s) \in States
        /\ UNCHANGED <<mails, replied>>
    BY <1>4 DEF Record, Outcome, States
  <2>3. Promise!Set(cur(s), Outcome(s))
    BY <2>1, <2>2, UpdateIsSet
  <2>4. CASE pc(s) = "failed"
    <3>1. Outcome(s) = "FAILED"
      BY <2>4 DEF Outcome
    <3>2. Promise!Set(cur(s), "FAILED")
      BY <2>3, <3>1
    <3>. QED  BY <2>1, <2>2, <3>2 DEF Promise!Fail, State
  <2>5. CASE pc(s) = "sent"
    <3>1. mails[cur(s)] > 0
      BY <2>5 DEF MailedFirst
    <3>2. Outcome(s) \in {"SUBMITTED", "AWAITING_CONFIRMATION"}
      BY <2>5 DEF Outcome
    <3>. QED  BY <2>1, <2>2, <2>3, <3>1, <3>2 DEF Promise!ShowSent
  <2>. QED  BY <1>4, <2>1, <2>4, <2>5 DEF Record
<1>. QED  BY <1>1, <1>2, <1>3, <1>4, RowSteps DEF Promise!Next

LEMMA MailsKeepPromise ==
    ASSUME IInv, NEW s \in Senders, Deliver(s)
    PROVE  Promise!Next
<1>1. cur(s) \in Smtp /\ cur(s) \in Actions /\ State(cur(s)) # "ABSENT"
  BY DispatchAssumption DEF IInv, Deliver, HoldsDemand
<1>2. mails' = [mails EXCEPT ![cur(s)] = mails[cur(s)] + 1] /\ UNCHANGED <<row, replied>>
  BY DEF Deliver
<1>3. Promise!Mail(cur(s))
  BY <1>1, <1>2 DEF Promise!Mail, State
<1>. QED  BY <1>1, <1>3 DEF Promise!Next

\* Daemon, workers, sessions, cancellations and kills together do to a demand only what Demand
\* allows: it is asked for once, only mail demands are mailed, and it is shown as sent only
\* after a mail went out or a mail of the broker came in (scrub.go, mail.go, scheduler.go).
THEOREM PromiseKept == Spec => KeepsPromise
<1>1. Init => Promise!Init
  <2>1. Init => \A a \in Actions : State(a) = "ABSENT"
    BY DEF Init, State
  <2>. QED  BY <2>1 DEF Init, Promise!Init
<1>2. IInv /\ [Next]_vars => [Promise!Next]_<<[a \in Actions |-> State(a)], mails, replied>>
  <2>. SUFFICES ASSUME IInv, [Next]_vars
                PROVE  [Promise!Next]_<<[a \in Actions |-> State(a)], mails, replied>>
    OBVIOUS
  <2>1. CASE row' # row
    BY <2>1, RowsKeepPromise
  <2>2. CASE row' = row /\ UNCHANGED <<mails, replied>>
    BY <2>2 DEF State
  <2>3. CASE mails' # mails
    BY <2>3, MailSteps, MailsKeepPromise
  <2>4. CASE replied' # replied
    BY <2>4, RepliedSteps, AnswersKeepPromise DEF IInv
  <2>. QED  BY <2>1, <2>2, <2>3, <2>4
<1>. QED  BY <1>1, <1>2, Invariant, PTL DEF Spec, KeepsPromise, Promise!Spec
=============================================================================
