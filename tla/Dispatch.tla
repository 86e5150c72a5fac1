------------------------------ MODULE Dispatch ------------------------------
(***************************************************************************)
(* How a queued deletion demand becomes a mail.  Two programs work on the  *)
(* same vault: the daemon, whose scheduler goroutine lists the QUEUED      *)
(* actions every 30 s and pushes them through a bounded channel to a pool  *)
(* of workers, and terminal sessions, which walk their own list when the   *)
(* user picks [3] Send.  Both end in dispatchSMTP, which hands a mail to   *)
(* the broker and only then writes the outcome to the vault, without       *)
(* looking at the state the row has by then.  The daemon's inbox writes    *)
(* the same rows, mailed or not, when a broker's mail comes in.            *)
(*                                                                         *)
(* A database statement is one step (the vault has one connection), and so *)
(* is the hand-over of a mail; everything between two of them may be       *)
(* interleaved, cancelled or killed, and every statement may fail.         *)
(***************************************************************************)
EXTENDS Integers, Sequences, FiniteSets

CONSTANTS
    Actions,     \* erasure_actions rows, numbered in the order of created_at
    Smtp,        \* those whose strategy is SMTP_DEMAND
    Confirm,     \* those whose broker asks for an e-mail confirmation
    Broken,      \* those whose broker row, its e-mail or the identity is missing
    Workers,     \* the goroutines of the daemon's pool
    Sessions,    \* the terminal sessions
    None,        \* no action
    Cap,         \* capacity of the pool's channel (64 in the code)
    MaxStarts,   \* bound: how often the daemon is started
    MaxSends,    \* bound: how often a session runs [3] Send
    MaxErrors    \* bound: how many statements of dispatchSMTP the database fails

ASSUME CreationOrder == Actions \subseteq Nat

ASSUME DispatchAssumption ==
    /\ Smtp \subseteq Actions
    /\ None \notin Actions
    /\ IsFiniteSet(Workers) /\ IsFiniteSet(Sessions)
    /\ Workers \cap Sessions = {}
    /\ Cap \in Nat \ {0}
    /\ MaxStarts \in Nat /\ MaxSends \in Nat /\ MaxErrors \in Nat

Senders == Workers \cup Sessions

States == {"QUEUED", "SUBMITTED", "AWAITING_CONFIRMATION", "AWAITING_MANUAL",
           "COMPLETED", "FAILED"}

Steps == {"idle", "load", "dial", "sent", "failed", "exited"}

VARIABLES
    row,       \* row[a]: the action's state ("ABSENT" before its INSERT) and attempts
    linked,    \* the configuration the daemon loaded at its start names an SMTP host
    life,      \* the daemon: "down", "up", or "stopping" once its context is cancelled
    backlog,   \* what is left of the list the scheduler is submitting
    jobs,      \* the pool's channel
    todo,      \* todo[s]: what is left of the list session s is sending
    stop,      \* stop[s]: Ctrl+C has cancelled the context of session s
    at,        \* at[s]: where sender s is in dispatchSMTP, and with which action
    mails,     \* history: demands handed to the broker, per action
    tries,     \* history: outcomes of Send, per action
    lost,      \* history: outcomes that were never written, per action
    replied,   \* history: actions the inbox took a broker's mail to be about
    starts,    \* how often the daemon was started
    sends,     \* how often [3] Send was run
    errors     \* how many statements the database failed

daemon  == <<life, backlog, jobs>>
session == <<todo, stop>>
history == <<mails, tries, lost, replied>>
bounds  == <<starts, sends, errors>>
vars    == <<row, linked, daemon, session, at, history, bounds>>

(***************************************************************************)
(* The rows.                                                               *)
(***************************************************************************)
State(a) == row[a].state

\* Mutant: the tick lists every row that is not done.
NotDone == {a \in Actions : State(a) \notin {"ABSENT", "COMPLETED", "FAILED"}}

Queued == {a \in Actions : State(a) = "QUEUED"}

\* Mutant: the UPDATE sets the counter instead of adding to it.
SetAttempts(a, state, delta) ==
    row' = [row EXCEPT ![a] = [state |-> state, attempts |-> delta]]

\* Blind: neither the old state nor the version of the row is compared.
UpdateActionState(a, state, delta) ==
    row' = [row EXCEPT ![a] = [state |-> state, attempts |-> @.attempts + delta]]

\* The scrub's INSERT; ids grow with created_at.
InsertAction(a) ==
    /\ State(a) = "ABSENT"
    /\ \A b \in Actions : b < a => State(b) # "ABSENT"
    /\ UpdateActionState(a, IF a \in Smtp THEN "QUEUED" ELSE "AWAITING_MANUAL", 0)
    /\ UNCHANGED <<linked, daemon, session, at, history, bounds>>

\* The user marks an action done, whatever state it is in.
CompleteAction(a) ==
    /\ State(a) # "ABSENT"
    /\ UpdateActionState(a, "COMPLETED", 0)
    /\ UNCHANGED <<linked, daemon, session, at, history, bounds>>

\* The daemon's inbox writes what a broker's mail says (HandleIMAP; Inbox has which mail, and
\* which row it is taken to be about): it may be any row, with or without a mail sent for it.
Answer(a) ==
    /\ life = "up" /\ State(a) # "ABSENT"
    /\ \E s \in {"SUBMITTED", "AWAITING_CONFIRMATION", "AWAITING_MANUAL", "COMPLETED"} :
          UpdateActionState(a, s, 0)
    /\ replied' = replied \cup {a}
    /\ UNCHANGED <<linked, daemon, session, at, mails, tries, lost, bounds>>

(***************************************************************************)
(* dispatchSMTP, run by a worker under the daemon's context or by a        *)
(* session under its own.  Under a cancelled context every statement of    *)
(* the database fails, and under any other it may (locked, disk full); a   *)
(* mail already being dialled may still get through.                       *)
(***************************************************************************)
Cancelled(s) == IF s \in Workers THEN life = "stopping" ELSE stop[s]

Configured(s) == s \in Workers => linked

pc(s) == at[s].step

cur(s) == at[s].act

StatementFails(s) ==
    \/ Cancelled(s) /\ UNCHANGED errors
    \/ errors < MaxErrors /\ errors' = errors + 1

\* What dispatchSMTP refuses: not a mail demand, or no broker, address or identity.
Refused(s) == cur(s) \notin Smtp \/ (Configured(s) /\ cur(s) \in Broken)

MoveTo(s, step, a) == at' = [at EXCEPT ![s] = [step |-> step, act |-> a]]

\* The row, the broker and the identity are read; nothing asks whether the row is still QUEUED.
Load(s) ==
    /\ pc(s) = "load" /\ ~Cancelled(s) /\ Configured(s)
    /\ cur(s) \in Smtp \ Broken
    /\ MoveTo(s, "dial", cur(s))
    /\ UNCHANGED <<row, linked, daemon, session, history, bounds>>

\* Mutant: the worker's loop returns when its handler reports an error.
LoadFailsForGood(s) ==
    /\ pc(s) = "load"
    /\ StatementFails(s) \/ (Refused(s) /\ UNCHANGED errors)
    /\ MoveTo(s, "exited", None)
    /\ UNCHANGED <<row, linked, daemon, session, history, starts, sends>>

\* A read fails, or the action is not one a mail can be sent for: the row is left as it is.
LoadFails(s) ==
    /\ pc(s) = "load"
    /\ StatementFails(s) \/ (Refused(s) /\ UNCHANGED errors)
    /\ MoveTo(s, "idle", None)
    /\ UNCHANGED <<row, linked, daemon, session, history, starts, sends>>

\* No SMTP host in the configuration this process loaded: the outcome is a failure at once.
NotConfigured(s) ==
    /\ pc(s) = "load" /\ ~Cancelled(s) /\ ~Configured(s)
    /\ cur(s) \in Smtp
    /\ tries' = [tries EXCEPT ![cur(s)] = @ + 1]
    /\ MoveTo(s, "failed", cur(s))
    /\ UNCHANGED <<row, linked, daemon, session, mails, lost, replied, bounds>>

Deliver(s) ==
    /\ pc(s) = "dial"
    /\ mails' = [mails EXCEPT ![cur(s)] = @ + 1]
    /\ tries' = [tries EXCEPT ![cur(s)] = @ + 1]
    /\ MoveTo(s, "sent", cur(s))
    /\ UNCHANGED <<row, linked, daemon, session, lost, replied, bounds>>

SendError(s) ==
    /\ pc(s) = "dial"
    /\ tries' = [tries EXCEPT ![cur(s)] = @ + 1]
    /\ MoveTo(s, "failed", cur(s))
    /\ UNCHANGED <<row, linked, daemon, session, mails, lost, replied, bounds>>

\* Mutants: a failure goes back to the queue; a failure is not told from a success.
OutcomeRetried(s) == IF pc(s) = "failed" THEN "QUEUED" ELSE "SUBMITTED"

OutcomeIgnored(s) == IF cur(s) \in Confirm THEN "AWAITING_CONFIRMATION" ELSE "SUBMITTED"

Outcome(s) ==
    IF pc(s) = "failed" THEN "FAILED"
    ELSE IF cur(s) \in Confirm THEN "AWAITING_CONFIRMATION" ELSE "SUBMITTED"

Record(s) ==
    /\ pc(s) \in {"sent", "failed"} /\ ~Cancelled(s)
    /\ UpdateActionState(cur(s), Outcome(s), 1)
    /\ MoveTo(s, "idle", None)
    /\ UNCHANGED <<linked, daemon, session, history, bounds>>

\* The UPDATE fails: the context was cancelled since the hand-over, or the database refuses it.
\* Nobody writes the outcome again, and the row stays as it is.
RecordFails(s) ==
    /\ pc(s) \in {"sent", "failed"} /\ StatementFails(s)
    /\ lost' = [lost EXCEPT ![cur(s)] = @ + 1]
    /\ MoveTo(s, "idle", None)
    /\ UNCHANGED <<row, linked, daemon, session, mails, tries, replied, starts, sends>>

DispatchSMTP(s) ==
    \/ Load(s) \/ LoadFails(s) \/ NotConfigured(s)
    \/ Deliver(s) \/ SendError(s) \/ Record(s) \/ RecordFails(s)

(***************************************************************************)
(* The daemon.                                                             *)
(***************************************************************************)
\* The config file is read once; what the user links or unlinks later changes nothing here.
Start ==
    /\ life = "down" /\ starts < MaxStarts
    /\ life' = "up"
    /\ linked' \in BOOLEAN
    /\ starts' = starts + 1
    /\ UNCHANGED <<row, backlog, jobs, session, at, history, sends, errors>>

\* Every tick lists all QUEUED actions again, those already in the pool included.
DrainQueued ==
    /\ life = "up" /\ backlog = {}
    /\ backlog' = Queued \cap Smtp
    /\ UNCHANGED <<row, linked, life, jobs, session, at, history, bounds>>

Oldest(a, S) == a \in S /\ \A b \in S : a <= b

Newest(a, S) == a \in S /\ \A b \in S : a >= b

\* Mutant: a channel without a limit.
SubmitUnbounded(a) ==
    /\ life # "down" /\ Oldest(a, backlog)
    /\ jobs' = Append(jobs, a)
    /\ backlog' = backlog \ {a}
    /\ UNCHANGED <<row, linked, life, session, at, history, bounds>>

\* Blocks the scheduler while the channel is full.
Submit(a) ==
    /\ life # "down" /\ Oldest(a, backlog)
    /\ Len(jobs) < Cap
    /\ jobs' = Append(jobs, a)
    /\ backlog' = backlog \ {a}
    /\ UNCHANGED <<row, linked, life, session, at, history, bounds>>

\* The other branch of Submit's select.
SubmitCancelled(a) ==
    /\ life = "stopping" /\ Oldest(a, backlog)
    /\ backlog' = backlog \ {a}
    /\ UNCHANGED <<row, linked, life, jobs, session, at, history, bounds>>

\* The worker's select may still take a job when the context is cancelled.
Receive(w) ==
    /\ life # "down" /\ pc(w) = "idle" /\ jobs # <<>>
    /\ MoveTo(w, "load", Head(jobs))
    /\ jobs' = Tail(jobs)
    /\ UNCHANGED <<row, linked, life, backlog, session, history, bounds>>

WorkerExits(w) ==
    /\ life = "stopping" /\ pc(w) = "idle"
    /\ MoveTo(w, "exited", None)
    /\ UNCHANGED <<row, linked, daemon, session, history, bounds>>

\* A signal, or the IPC shutdown command, which signals the daemon's own process.
Cancel ==
    /\ life = "up"
    /\ life' = "stopping"
    /\ UNCHANGED <<row, linked, backlog, jobs, session, at, history, bounds>>

\* Outcomes that die with the senders in S: the mail is out, the UPDATE is not.
Unwritten(S, a) == {s \in S : pc(s) \in {"sent", "failed"} /\ cur(s) = a}

Vanish(S) ==
    /\ at' = [s \in Senders |->
                 IF s \in S
                 THEN [step |-> IF s \in Workers THEN "idle" ELSE "exited", act |-> None]
                 ELSE at[s]]
    /\ lost' = [a \in Actions |-> lost[a] + Cardinality(Unwritten(S, a))]
    /\ UNCHANGED <<mails, tries, replied>>

DaemonGone ==
    /\ life' = "down" /\ backlog' = {} /\ jobs' = <<>>
    /\ linked' = FALSE
    /\ Vanish(Workers)
    /\ UNCHANGED <<row, session, bounds>>

\* Run saw ctx.Done: it leaves only when every worker has returned.
ExitAfterWait ==
    /\ life = "stopping" /\ \A w \in Workers : pc(w) = "exited"
    /\ DaemonGone

\* Run saw Serve's nil first and returns without pool.Wait, or the process is killed.
ExitAtOnce ==
    /\ life # "down"
    /\ DaemonGone

(***************************************************************************)
(* The terminal session: [3] Send, once a mailbox is linked, walks a list  *)
(* taken once, newest first.                                               *)
(***************************************************************************)
SendQueuedSMTP(s) ==
    /\ pc(s) = "idle" /\ todo[s] = {} /\ ~stop[s]
    /\ sends < MaxSends
    /\ todo' = [todo EXCEPT ![s] = Queued \cap Smtp]
    /\ sends' = sends + 1
    /\ UNCHANGED <<row, linked, daemon, stop, at, history, starts, errors>>

SendNext(s, a) ==
    /\ pc(s) = "idle" /\ ~stop[s] /\ Newest(a, todo[s])
    /\ todo' = [todo EXCEPT ![s] = @ \ {a}]
    /\ MoveTo(s, "load", a)
    /\ UNCHANGED <<row, linked, daemon, stop, history, bounds>>

Interrupt(s) ==
    /\ ~stop[s] /\ pc(s) # "exited"
    /\ stop' = [stop EXCEPT ![s] = TRUE]
    /\ UNCHANGED <<row, linked, daemon, todo, at, history, bounds>>

\* The loop's ctx.Err check: the rest of the list is not sent, and the program ends.
SessionEnds(s) ==
    /\ pc(s) = "idle" /\ stop[s]
    /\ todo' = [todo EXCEPT ![s] = {}]
    /\ MoveTo(s, "exited", None)
    /\ UNCHANGED <<row, linked, daemon, stop, history, bounds>>

CloseWindow(s) ==
    /\ pc(s) # "exited"
    /\ todo' = [todo EXCEPT ![s] = {}]
    /\ Vanish({s})
    /\ UNCHANGED <<row, linked, daemon, stop, bounds>>

\* A window opened while the daemon answers is its client and cannot send.
Reopen(s) ==
    /\ pc(s) = "exited" /\ life # "up"
    /\ stop' = [stop EXCEPT ![s] = FALSE]
    /\ MoveTo(s, "idle", None)
    /\ UNCHANGED <<row, linked, daemon, todo, history, bounds>>

Init ==
    /\ row = [a \in Actions |-> [state |-> "ABSENT", attempts |-> 0]]
    /\ linked = FALSE
    /\ life = "down" /\ backlog = {} /\ jobs = <<>>
    /\ todo = [s \in Sessions |-> {}] /\ stop = [s \in Sessions |-> FALSE]
    /\ at = [s \in Senders |-> [step |-> "idle", act |-> None]]
    /\ mails = [a \in Actions |-> 0] /\ tries = mails /\ lost = mails
    /\ replied = {}
    /\ starts = 0 /\ sends = 0 /\ errors = 0

Next ==
    \/ \E a \in Actions :
          InsertAction(a) \/ CompleteAction(a) \/ Answer(a) \/ Submit(a) \/ SubmitCancelled(a)
    \/ Start \/ DrainQueued \/ Cancel \/ ExitAfterWait \/ ExitAtOnce
    \/ \E w \in Workers : Receive(w) \/ WorkerExits(w)
    \/ \E s \in Sessions :
          \/ SendQueuedSMTP(s) \/ Interrupt(s) \/ SessionEnds(s)
          \/ CloseWindow(s) \/ Reopen(s)
          \/ \E a \in Actions : SendNext(s, a)
    \/ \E s \in Senders : DispatchSMTP(s)

(***************************************************************************)
(* The Go runtime runs every goroutine that can run: the scheduler keeps   *)
(* ticking and submitting, workers keep receiving, and each step of        *)
(* dispatchSMTP returns (the SMTP client and the vault have timeouts).     *)
(* Users, signals and kills owe nothing.                                   *)
(***************************************************************************)
Fairness ==
    /\ WF_vars(DrainQueued)
    /\ WF_vars(\E a \in Actions : Submit(a))
    /\ \A w \in Workers : WF_vars(Receive(w)) /\ WF_vars(DispatchSMTP(w))

Spec == Init /\ [][Next]_vars /\ Fairness

-----------------------------------------------------------------------------
TypeOK ==
    /\ row \in [Actions -> [state : States \cup {"ABSENT"}, attempts : Nat]]
    /\ linked \in BOOLEAN
    /\ life \in {"down", "up", "stopping"}
    /\ backlog \subseteq Smtp
    /\ jobs \in Seq(Smtp) /\ Len(jobs) <= Cap
    /\ todo \in [Sessions -> SUBSET Smtp]
    /\ stop \in [Sessions -> BOOLEAN]
    /\ at \in [Senders -> [step : Steps, act : Smtp \cup {None}]]
    /\ mails \in [Actions -> Nat] /\ tries \in [Actions -> Nat] /\ lost \in [Actions -> Nat]
    /\ replied \subseteq Actions
    /\ starts \in Nat /\ sends \in Nat /\ errors \in Nat

\* Senders that know the outcome of a mail for a and have not written it yet.
Pending(a) == Unwritten(Senders, a)

\* Every outcome of Send is counted in the row exactly once, is about to be, or was lost to a
\* failing UPDATE or a kill, however workers, sessions, completions and incoming mail
\* interleave: attempts are added in the UPDATE itself, so no concurrent writer's count is overwritten (repository.go
\* UpdateActionState, mail.go dispatchSMTP).
NoAttemptForgotten ==
    \A a \in Actions : tries[a] = row[a].attempts + Cardinality(Pending(a)) + lost[a]

\* A demand the broker already has is back in the queue only while its sender is about to
\* write the outcome, or when that outcome was lost; no other interleaving makes the next tick
\* send it again (scheduler.go drainQueued, mail.go dispatchSMTP).
RequeuedOnlyByLoss ==
    \A a \in Actions : State(a) = "QUEUED" /\ mails[a] > 0 => Pending(a) # {} \/ lost[a] > 0

\* A row claims that a demand was sent only if one was, or if the inbox took a mail of the
\* broker to be about it: no interleaving of senders, failures, completions and restarts shows
\* an unsent demand as sent, but an incoming mail does (mail.go dispatchSMTP, HandleIMAP).
SentMeansMailed ==
    \A a \in Actions :
        State(a) \in {"SUBMITTED", "AWAITING_CONFIRMATION"} => mails[a] > 0 \/ a \in replied

\* A tick resubmits what is already in the pool, so a broker can get one demand several times;
\* never more than one pool and one channel full and one pass of the scheduler for each start
\* of the daemon, plus one for each run of [3] Send and one for each outcome the database did
\* not take: such a row is still QUEUED, and the next tick mails it again (mail.go
\* dispatchSMTP, scheduler.go drainQueued).
BoundedDuplicates ==
    \A a \in Actions :
        mails[a] <= starts * (Cardinality(Workers) + Cap + 1) + sends + errors

\* Under a daemon that stays up a queued demand leaves the queue, unless it cannot be sent or
\* the database fails for ever.
QueueDrains ==
    \A a \in Smtp \ Broken :
        State(a) = "QUEUED" /\ life = "up" ~> State(a) # "QUEUED" \/ life # "up"

\* The scheduler is never blocked on a full channel for good, so the hourly watchdog, which
\* runs on the same goroutine, gets its turn.
SchedulerReturns == (backlog # {} /\ life = "up") ~> (backlog = {} \/ life # "up")

\* All of this keeps the promise of Demand: daemon, sessions and users together never ask
\* for a demand twice, mail what is not a mail demand, or show as sent what was neither mailed
\* nor answered.
Promise == INSTANCE Demand WITH state <- [a \in Actions |-> State(a)]

KeepsPromise == Promise!Spec

(***************************************************************************)
(* What the screens say.                                                   *)
(***************************************************************************)
\* "Nothing is sent until [3] Send." (interactive.go doScrub)
NothingSentUntilSend == sends = 0 => \A a \in Actions : mails[a] = 0

\* "Ctrl+C stops between messages." (interactive.go doSend): a message that went out before
\* the session stopped is not left in the queue.
StopsBetweenMessages ==
    [][\A s \in Sessions :
          pc(s) = "sent" /\ at'[s].step = "idle" => row'[cur(s)].state # "QUEUED"]_vars
=============================================================================
