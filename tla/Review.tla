------------------------------- MODULE Review -------------------------------
(***************************************************************************)
(* The life of a listing: found by a scan, queued for removal by a scrub,  *)
(* verified as removed by the user, and handed back for review by the      *)
(* daemon's watchdog when its time has come.  Scrubs run in terminal       *)
(* sessions and in the daemon's connection handlers, so several can run at *)
(* once, beside the watchdog and the user.  Each walks a list it read      *)
(* once, one database statement at a time, and every statement overwrites  *)
(* what is there: no transaction and no version number spans two of them.  *)
(*                                                                         *)
(* Time is counted in days.                                                *)
(***************************************************************************)
EXTENDS Integers, Sequences, FiniteSets

CONSTANTS
    Records,     \* the exposed_records of the identity, one for each broker
    Mailable,    \* those whose broker publishes a privacy e-mail
    Human,       \* those whose broker has a form a person must fill in
    Scrubs,      \* the processes and connection handlers that can run a scrub
    None,        \* no record
    Window,      \* scheduler.repopulation_days
    Repop,       \* Repop[r]: the repopulation_period_days of r's broker
    MaxDay,      \* bound: the last day
    MaxActions,  \* bound: how many actions are queued
    MaxErrors,   \* bound: how many statements fail
    MaxLate      \* bound: how many outcomes come after the user's completion

ASSUME ReviewAssumption ==
    /\ Mailable \subseteq Records /\ Human \subseteq Records
    /\ None \notin Records
    /\ IsFiniteSet(Scrubs)
    /\ Window \in Nat \ {0} /\ Repop \in [Records -> Nat]
    /\ MaxDay \in Nat /\ MaxActions \in Nat /\ MaxErrors \in Nat /\ MaxLate \in Nat

Statuses == {"DISCOVERED", "APPROVED_FOR_SCRUB", "VERIFIED_REMOVED", "PENDING_REVIEW"}

Strategies == {"SMTP_DEMAND", "MANUAL_WEB_FORM"}

Steps == {"idle", "next", "check", "insert", "approve"}

VARIABLES
    today,
    rec,      \* rec[r]: status ("ABSENT" before its INSERT) and last_verified_at
    acts,     \* the erasure_actions: record, strategy, whether it is completed, completed_at
    left,     \* left[p]: the part of its list scrub p has still to walk
    task,     \* task[p]: the listing p is at, with the status it had in the list
    at,       \* at[p]: the statement scrub p is at
    dog,      \* the watchdog: "idle", or marking the "stale" or the "past" list
    due,      \* what is left of the watchdog's list
    fresh,    \* history: fresh[p], the records verified since p read its list
    owed,     \* history: owed[p], what p's list calls for: a record and a strategy
    missed,   \* history: missed[p], the records whose broker p could not read
    touched,  \* history: the records written, or their actions, since the watchdog's query
    late,     \* history: how many completed actions were reopened by a late outcome
    errors    \* how many statements failed

scrub == <<left, task, at>>
list  == <<fresh, owed, missed>>
vars  == <<today, rec, acts, scrub, dog, due, list, touched, late, errors>>

Status(r) == rec[r].status

Never == 0 - 1

(***************************************************************************)
(* The statements.                                                         *)
(***************************************************************************)
\* Blind, and stamps last_verified_at whatever the new status is.
SetExposedStatus(r, s) ==
    /\ rec' = [rec EXCEPT ![r] = [status |-> s, seen |-> today]]
    /\ touched' = touched \cup {r}

Open(r, strategy) == {i \in DOMAIN acts :
    acts[i].of = r /\ acts[i].strategy = strategy /\ ~acts[i].completed}

\* Mutant: nothing asks for an open action.
HasNone(r, strategy) == FALSE

HasOpenAction(r, strategy) == Open(r, strategy) # {}

InsertAction(r, strategy) ==
    acts' = Append(acts, [of |-> r, strategy |-> strategy, completed |-> FALSE, on |-> Never])

(***************************************************************************)
(* A scrub.                                                                *)
(***************************************************************************)
NoTask == [of |-> None, status |-> "ABSENT", strategy |-> "SMTP_DEMAND"]

Go(p, step, t) == at' = [at EXCEPT ![p] = step] /\ task' = [task EXCEPT ![p] = t]

ListExposed(p) ==
    /\ at[p] = "idle"
    /\ left' = [left EXCEPT ![p] =
                   {[of |-> r, status |-> Status(r)] : r \in {q \in Records : Status(q) # "ABSENT"}}]
    /\ Go(p, "next", NoTask)
    /\ fresh' = [fresh EXCEPT ![p] = {}]
    /\ owed' = [owed EXCEPT ![p] =
                   {d \in Records \X Strategies :
                       /\ Status(d[1]) \notin {"ABSENT", "VERIFIED_REMOVED"}
                       /\ d[1] \in IF d[2] = "SMTP_DEMAND" THEN Mailable ELSE Human}]
    /\ missed' = [missed EXCEPT ![p] = {}]
    /\ UNCHANGED <<today, rec, acts, dog, due, touched, late, errors>>

\* Mutant: a listing that was verified as removed is scrubbed again.
SkipNone(status) == FALSE

Skip(status) == status = "VERIFIED_REMOVED"

FirstStrategy(r) == IF r \in Mailable THEN "SMTP_DEMAND" ELSE "MANUAL_WEB_FORM"

\* The list is ordered by confidence, which the model leaves open.
NextRecord(p, x) ==
    /\ at[p] = "next" /\ x \in left[p]
    /\ left' = [left EXCEPT ![p] = @ \ {x}]
    /\ IF Skip(x.status) \/ x.of \notin Mailable \cup Human
       THEN Go(p, "next", NoTask)
       ELSE Go(p, "check", [of |-> x.of, status |-> x.status, strategy |-> FirstStrategy(x.of)])
    /\ UNCHANGED <<today, rec, acts, dog, due, list, touched, late, errors>>

\* The broker's row cannot be read: the listing is counted as skipped and the scrub goes on.
BrokerUnread(p, x) ==
    /\ at[p] = "next" /\ x \in left[p] /\ ~Skip(x.status) /\ errors < MaxErrors
    /\ errors' = errors + 1
    /\ left' = [left EXCEPT ![p] = @ \ {x}]
    /\ missed' = [missed EXCEPT ![p] = @ \cup {x.of}]
    /\ Go(p, "next", NoTask)
    /\ UNCHANGED <<today, rec, acts, dog, due, fresh, owed, touched, late>>

ScrubReturns(p) ==
    /\ at[p] = "next" /\ left[p] = {}
    /\ Go(p, "idle", NoTask)
    /\ UNCHANGED <<today, rec, acts, left, dog, due, list, touched, late, errors>>

\* Mutant: a listing has either a mail or a form.
OneStrategy(p) == Go(p, "next", NoTask)

\* After the mail the form, after the form the next listing.
NextStrategy(p) ==
    IF task[p].strategy = "SMTP_DEMAND" /\ task[p].of \in Human
    THEN Go(p, "check", [task[p] EXCEPT !.strategy = "MANUAL_WEB_FORM"])
    ELSE Go(p, "next", NoTask)

CheckOpen(p) ==
    /\ at[p] = "check"
    /\ IF HasOpenAction(task[p].of, task[p].strategy)
       THEN NextStrategy(p)
       ELSE Go(p, "insert", task[p])
    /\ UNCHANGED <<today, rec, acts, left, dog, due, list, touched, late, errors>>

Queue(p) ==
    /\ at[p] = "insert" /\ Len(acts) < MaxActions
    /\ InsertAction(task[p].of, task[p].strategy)
    /\ IF task[p].status \in {"DISCOVERED", "PENDING_REVIEW"}
       THEN Go(p, "approve", task[p])
       ELSE NextStrategy(p)
    /\ UNCHANGED <<today, rec, left, dog, due, list, touched, late, errors>>

Approve(p) ==
    /\ at[p] = "approve"
    /\ SetExposedStatus(task[p].of, "APPROVED_FOR_SCRUB")
    /\ NextStrategy(p)
    /\ UNCHANGED <<today, acts, left, dog, due, list, late, errors>>

\* The error of this one statement is ignored.
ApproveFails(p) ==
    /\ at[p] = "approve" /\ errors < MaxErrors
    /\ errors' = errors + 1
    /\ NextStrategy(p)
    /\ UNCHANGED <<today, rec, acts, left, dog, due, list, touched, late>>

\* Any other error, or a cancelled context, ends the scrub where it is.
ScrubFails(p) ==
    /\ at[p] \in {"next", "check", "insert"} /\ errors < MaxErrors
    /\ errors' = errors + 1
    /\ left' = [left EXCEPT ![p] = {}]
    /\ Go(p, "idle", NoTask)
    /\ UNCHANGED <<today, rec, acts, dog, due, list, touched, late>>

Scrub(p) ==
    \/ ListExposed(p) \/ ScrubReturns(p) \/ CheckOpen(p) \/ Queue(p)
    \/ Approve(p) \/ ApproveFails(p) \/ ScrubFails(p)
    \/ \E x \in left[p] : NextRecord(p, x) \/ BrokerUnread(p, x)

(***************************************************************************)
(* The watchdog: two passes, each over a list read by one query.           *)
(***************************************************************************)
\* Mutant: the verification is not aged.
StaleAll == {r \in Records : Status(r) = "VERIFIED_REMOVED"}

StaleVerified == {r \in Records :
    Status(r) = "VERIFIED_REMOVED" /\ rec[r].seen < today - Window}

\* Mutant: the record's status is not joined in.
CompletedPast == {r \in Records : \E i \in DOMAIN acts :
    acts[i].of = r /\ acts[i].completed /\ today - acts[i].on >= Repop[r]}

CompletedPastRepopulation == {r \in Records :
    /\ Status(r) = "VERIFIED_REMOVED"
    /\ \E i \in DOMAIN acts :
          acts[i].of = r /\ acts[i].completed /\ today - acts[i].on >= Repop[r]}

FindStale ==
    /\ dog = "idle" /\ dog' = "stale"
    /\ due' = StaleVerified /\ touched' = {}
    /\ UNCHANGED <<today, rec, acts, scrub, list, late, errors>>

FindPast ==
    /\ dog = "stale" /\ due = {} /\ dog' = "past"
    /\ due' = CompletedPastRepopulation /\ touched' = {}
    /\ UNCHANGED <<today, rec, acts, scrub, list, late, errors>>

MarkPending(r) ==
    /\ dog # "idle" /\ r \in due
    /\ due' = due \ {r}
    /\ SetExposedStatus(r, "PENDING_REVIEW")
    /\ UNCHANGED <<today, acts, scrub, dog, list, late, errors>>

\* Mutant: after an error the watchdog does not come back.
WatchdogStops ==
    /\ dog # "idle" /\ errors < MaxErrors
    /\ errors' = errors + 1 /\ dog' = "stopped" /\ due' = {}
    /\ UNCHANGED <<today, rec, acts, scrub, list, touched, late>>

\* A statement fails: what is left is not marked, and the next hour starts again.
WatchdogFails ==
    /\ dog # "idle" /\ errors < MaxErrors
    /\ errors' = errors + 1 /\ dog' = "idle" /\ due' = {}
    /\ UNCHANGED <<today, rec, acts, scrub, list, touched, late>>

WatchdogReturns ==
    /\ dog = "past" /\ due = {} /\ dog' = "idle"
    /\ UNCHANGED <<today, rec, acts, scrub, due, list, touched, late, errors>>

Watchdog ==
    \/ FindStale \/ FindPast \/ WatchdogFails \/ WatchdogReturns
    \/ \E r \in Records : MarkPending(r)

(***************************************************************************)
(* Everybody else.                                                         *)
(***************************************************************************)
\* A scan writes DISCOVERED over whatever the record's status was.
SaveFinding(r) ==
    /\ SetExposedStatus(r, "DISCOVERED")
    /\ UNCHANGED <<today, acts, scrub, dog, due, list, late, errors>>

VerifyRemoved(r) ==
    /\ Status(r) # "ABSENT"
    /\ SetExposedStatus(r, "VERIFIED_REMOVED")
    /\ fresh' = [p \in Scrubs |-> fresh[p] \cup {r}]
    /\ UNCHANGED <<today, acts, scrub, dog, due, owed, missed, late, errors>>

CompleteAction(i) ==
    /\ acts' = [acts EXCEPT ![i].completed = TRUE, ![i].on = today]
    /\ touched' = touched \cup {acts[i].of}
    /\ UNCHANGED <<today, rec, scrub, dog, due, list, late, errors>>

\* The outcome of a mail that was still on its way when the user completed its action;
\* completed_at keeps its value.
LateOutcome(i) ==
    /\ acts[i].completed /\ acts[i].strategy = "SMTP_DEMAND" /\ late < MaxLate
    /\ acts' = [acts EXCEPT ![i].completed = FALSE]
    /\ touched' = touched \cup {acts[i].of}
    /\ late' = late + 1
    /\ UNCHANGED <<today, rec, scrub, dog, due, list, errors>>

Tomorrow ==
    /\ today < MaxDay
    /\ today' = today + 1
    /\ UNCHANGED <<rec, acts, scrub, dog, due, list, touched, late, errors>>

Init ==
    /\ today = 0
    /\ rec = [r \in Records |-> [status |-> "ABSENT", seen |-> 0]]
    /\ acts = <<>>
    /\ left = [p \in Scrubs |-> {}] /\ task = [p \in Scrubs |-> NoTask]
    /\ at = [p \in Scrubs |-> "idle"]
    /\ dog = "idle" /\ due = {}
    /\ fresh = [p \in Scrubs |-> {}] /\ owed = [p \in Scrubs |-> {}]
    /\ missed = [p \in Scrubs |-> {}] /\ touched = {}
    /\ late = 0 /\ errors = 0

Next ==
    \/ \E p \in Scrubs : Scrub(p)
    \/ Watchdog
    \/ \E r \in Records : SaveFinding(r) \/ VerifyRemoved(r)
    \/ \E i \in DOMAIN acts : CompleteAction(i) \/ LateOutcome(i)
    \/ Tomorrow

(***************************************************************************)
(* The scheduler's goroutine runs: the watchdog is called every hour and   *)
(* each of its statements returns.  Users, scrubs and the calendar owe     *)
(* nothing.                                                                *)
(***************************************************************************)
Fairness ==
    /\ WF_vars(FindStale) /\ WF_vars(FindPast) /\ WF_vars(WatchdogReturns)
    /\ WF_vars(\E r \in Records : MarkPending(r))

Spec == Init /\ [][Next]_vars /\ Fairness

-----------------------------------------------------------------------------
TypeOK ==
    /\ today \in 0..MaxDay
    /\ rec \in [Records -> [status : Statuses \cup {"ABSENT"}, seen : 0..MaxDay]]
    /\ acts \in Seq([of : Records, strategy : Strategies, completed : BOOLEAN,
                     on : 0..MaxDay \cup {Never}])
    /\ Len(acts) <= MaxActions
    /\ left \in [Scrubs -> SUBSET [of : Records, status : Statuses]]
    /\ task \in [Scrubs -> [of : Records \cup {None}, status : Statuses \cup {"ABSENT"},
                            strategy : Strategies]]
    /\ at \in [Scrubs -> Steps]
    /\ dog \in {"idle", "stale", "past"} /\ due \subseteq Records
    /\ fresh \in [Scrubs -> SUBSET Records]
    /\ owed \in [Scrubs -> SUBSET (Records \X Strategies)]
    /\ missed \in [Scrubs -> SUBSET Records]
    /\ touched \subseteq Records
    /\ late \in 0..MaxLate /\ errors \in 0..MaxErrors

\* The check for an open action and the INSERT are two statements, so scrubs that run together
\* can queue one listing several times: never more often than there are scrubs, not counting
\* completed actions a late outcome reopened (scrub.go queueAction).
BoundedOpen ==
    \A r \in Records, s \in Strategies :
        Cardinality(Open(r, s)) <= Cardinality(Scrubs) + late

\* A scrub that got to the end of its list, and so reports success, left no listing without the
\* action it calls for, by mail and by form, whatever ran beside it: all it leaves out are the
\* listings whose broker it could not read, each at the price of a failed statement
\* (scrub.go Scrub).
ScrubCovers ==
    \A p \in Scrubs : at[p] = "next" /\ left[p] = {} =>
        /\ \A d \in owed[p] : d[1] \in missed[p]
              \/ \E i \in DOMAIN acts : acts[i].of = d[1] /\ acts[i].strategy = d[2]
        /\ Cardinality(missed[p]) <= errors

\* A listing the user verified as removed is neither queued nor approved again by a scrub,
\* unless the scrub had read its list before (scrub.go Scrub, queueAction).
VerifiedNotScrubbed ==
    [][\A p \in Scrubs :
          (Queue(p) \/ Approve(p)) /\ Status(task[p].of) = "VERIFIED_REMOVED"
              => task[p].of \in fresh[p]]_vars

Over(since, days) == today - since >= days

\* The watchdog asks for a review only of listings that are verified as removed and whose window
\* is over since the verification or since the completion of a demand, unless somebody wrote the
\* listing or its actions after the watchdog's query (scrub.go Watchdog).
PendingOnlyDue ==
    [][\A r \in Records : MarkPending(r) /\ r \notin touched =>
          /\ Status(r) = "VERIFIED_REMOVED"
          /\ \/ Over(rec[r].seen, Window + 1)
             \/ \E i \in DOMAIN acts :
                   acts[i].of = r /\ acts[i].completed /\ Over(acts[i].on, Repop[r])]_vars

\* A verification that is older than the window does not stay: the watchdog asks for a review,
\* or somebody writes the listing anew (scheduler.go RunScheduler, scrub.go Watchdog).
AskedAgain == \A r \in Records : r \in StaleVerified ~> r \notin StaleVerified

\* "After ~45 days the watchdog asks you to check again." (playbook.go For): not before.
NotAskedEarly ==
    [][\A r \in Records : MarkPending(r) /\ r \notin touched =>
          Over(rec[r].seen, Window) \/ Over(rec[r].seen, Repop[r])]_vars
=============================================================================
