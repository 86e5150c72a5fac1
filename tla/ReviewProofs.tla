---------------------------- MODULE ReviewProofs ----------------------------
(***************************************************************************)
(* The theorems about Review, for every set of listings, any number of     *)
(* scrubs beside each other, every window and every bound.                 *)
(***************************************************************************)
EXTENDS Review, FiniteSetTheorems, SequenceTheorems, TLAPS

Actions == [of : Records, strategy : Strategies, completed : BOOLEAN, on : 0..MaxDay \cup {Never}]

Rows == [status : Statuses \cup {"ABSENT"}, seen : 0..MaxDay]

Listed == [of : Records, status : Statuses]

Tasks == [of : Records \cup {None}, status : Statuses \cup {"ABSENT"}, strategy : Strategies]

\* A scrub at a statement is at a listing its list had, with a strategy its broker has.
AtListing == \A p \in Scrubs : at[p] \notin {"idle", "next"} =>
    /\ task[p].of \in Records
    /\ task[p].strategy = "SMTP_DEMAND" => task[p].of \in Mailable
    /\ task[p].strategy = "MANUAL_WEB_FORM" => task[p].of \in Human

Typed == TypeOK /\ AtListing

-----------------------------------------------------------------------------
(***************************************************************************)
(* What the statements do to the types.                                    *)
(***************************************************************************)
LEMMA RowSet ==
    ASSUME TypeOK, NEW r \in Records, NEW s \in Statuses, SetExposedStatus(r, s)
    PROVE  /\ rec' \in [Records -> Rows] /\ touched' \subseteq Records
           /\ rec'[r] = [status |-> s, seen |-> today]
           /\ \A q \in Records \ {r} : rec'[q] = rec[q]
BY DEF TypeOK, SetExposedStatus, Rows

LEMMA Appended ==
    ASSUME TypeOK, NEW r \in Records, NEW s \in Strategies, InsertAction(r, s)
    PROVE  /\ acts' \in Seq(Actions) /\ Len(acts') = Len(acts) + 1
           /\ acts'[Len(acts) + 1] = [of |-> r, strategy |-> s, completed |-> FALSE, on |-> Never]
           /\ \A i \in DOMAIN acts : acts'[i] = acts[i]
<1>1. [of |-> r, strategy |-> s, completed |-> FALSE, on |-> Never] \in Actions
  BY DEF Actions
<1>2. acts \in Seq(Actions)
  BY DEF TypeOK, Actions
<1>. QED  BY <1>1, <1>2 DEF InsertAction

\* Completing an action, or reopening it, changes nothing else.
LEMMA Marked ==
    ASSUME TypeOK, NEW i \in DOMAIN acts, CompleteAction(i) \/ LateOutcome(i)
    PROVE  /\ acts' \in Seq(Actions) /\ Len(acts') = Len(acts)
           /\ acts'[i].of = acts[i].of /\ acts'[i].strategy = acts[i].strategy
           /\ acts'[i].completed = TRUE \/ LateOutcome(i)
           /\ acts[i].of \in Records
           /\ \A j \in DOMAIN acts \ {i} : acts'[j] = acts[j]
<1>1. acts \in Seq(Actions) /\ today \in 0..MaxDay
  BY DEF TypeOK, Actions
<1>2. acts[i] \in Actions /\ acts[i].of \in Records
  <2>1. acts[i] \in Actions
    BY <1>1
  <2>. QED  BY <2>1 DEF Actions
<1>3. CASE CompleteAction(i)
  <2>1. acts' = [acts EXCEPT ![i] = [acts[i] EXCEPT !.completed = TRUE, !.on = today]]
    BY <1>1, <1>2, <1>3 DEF CompleteAction
  <2>2. /\ [acts[i] EXCEPT !.completed = TRUE, !.on = today] \in Actions
        /\ [acts[i] EXCEPT !.completed = TRUE, !.on = today].of = acts[i].of
        /\ [acts[i] EXCEPT !.completed = TRUE, !.on = today].strategy = acts[i].strategy
        /\ [acts[i] EXCEPT !.completed = TRUE, !.on = today].completed = TRUE
    BY <1>1, <1>2 DEF Actions
  <2>3. acts' \in Seq(Actions) /\ Len(acts') = Len(acts)
        /\ \A j \in DOMAIN acts :
              acts'[j] = IF j = i THEN [acts[i] EXCEPT !.completed = TRUE, !.on = today] ELSE acts[j]
    BY <1>1, <2>1, <2>2, ExceptSeq
  <2>. QED  BY <1>2, <2>2, <2>3
<1>4. CASE LateOutcome(i)
  <2>1. acts' = [acts EXCEPT ![i] = [acts[i] EXCEPT !.completed = FALSE]]
    BY <1>1, <1>2, <1>4 DEF LateOutcome
  <2>2. /\ [acts[i] EXCEPT !.completed = FALSE] \in Actions
        /\ [acts[i] EXCEPT !.completed = FALSE].of = acts[i].of
        /\ [acts[i] EXCEPT !.completed = FALSE].strategy = acts[i].strategy
    BY <1>1, <1>2 DEF Actions
  <2>3. acts' \in Seq(Actions) /\ Len(acts') = Len(acts)
        /\ \A j \in DOMAIN acts :
              acts'[j] = IF j = i THEN [acts[i] EXCEPT !.completed = FALSE] ELSE acts[j]
    BY <1>1, <2>1, <2>2, ExceptSeq
  <2>. QED  BY <1>2, <1>4, <2>2, <2>3
<1>. QED  BY <1>3, <1>4

\* Where a scrub goes after a statement.
LEMMA Moved ==
    ASSUME Typed, NEW p \in Scrubs, at[p] \in {"check", "insert", "approve"}, NextStrategy(p)
    PROVE  /\ at' \in [Scrubs -> Steps] /\ task' \in [Scrubs -> Tasks] /\ AtListing'
           /\ \A q \in Scrubs \ {p} : at'[q] = at[q] /\ task'[q] = task[q]
           /\ \/ at'[p] = "next"
              \/ /\ at'[p] = "check" /\ task[p].strategy = "SMTP_DEMAND"
                 /\ task'[p].of = task[p].of /\ task'[p].status = task[p].status
                 /\ task'[p].strategy = "MANUAL_WEB_FORM"
           /\ task[p].strategy = "SMTP_DEMAND" /\ task[p].of \in Human => at'[p] = "check"
<1>1. task[p] \in Tasks /\ at \in [Scrubs -> Steps] /\ task \in [Scrubs -> Tasks]
  BY DEF Typed, TypeOK, Tasks
<1>2. LET t == [task[p] EXCEPT !.strategy = "MANUAL_WEB_FORM"]
      IN  t \in Tasks /\ t.of = task[p].of /\ t.status = task[p].status
          /\ t.strategy = "MANUAL_WEB_FORM"
  BY <1>1 DEF Tasks, Strategies
<1>3. NoTask \in Tasks
  BY DEF NoTask, Tasks, Strategies
<1>. QED  BY <1>1, <1>2, <1>3 DEF NextStrategy, Go, Typed, AtListing, Steps

LEMMA InitTyped == Init => Typed
BY ReviewAssumption DEF Init, Typed, TypeOK, AtListing, NoTask, Statuses, Strategies, Steps

LEMMA ScrubTyped == ASSUME Typed, NEW p \in Scrubs, Scrub(p) PROVE Typed'
<1>. USE DEF Typed, TypeOK, AtListing, list
<1>1. CASE ListExposed(p)
  BY <1>1 DEF ListExposed, Go, NoTask, Steps, Strategies, Status, Statuses
<1>2. CASE ScrubReturns(p)
  BY <1>2 DEF ScrubReturns, Go, NoTask, Steps, Strategies
<1>3. CASE CheckOpen(p)
  <2>1. CASE NextStrategy(p)
    BY <1>3, <2>1, Moved DEF CheckOpen, Tasks
  <2>2. CASE Go(p, "insert", task[p])
    BY <1>3, <2>2 DEF CheckOpen, Go, Steps
  <2>. QED  BY <1>3, <2>1, <2>2 DEF CheckOpen
<1>4. CASE Queue(p)
  <2>1. task[p].of \in Records /\ task[p].strategy \in Strategies
    BY <1>4 DEF Queue
  <2>2. acts' \in Seq(Actions) /\ Len(acts') <= MaxActions
    <3>1. acts' \in Seq(Actions) /\ Len(acts') = Len(acts) + 1
      BY <1>4, <2>1, Appended DEF Queue
    <3>2. Len(acts) < MaxActions /\ Len(acts) \in Nat
      BY <1>4 DEF Queue
    <3>. QED  BY <3>1, <3>2, ReviewAssumption
  <2>3. CASE NextStrategy(p)
    BY <1>4, <2>2, <2>3, Moved DEF Queue, Tasks, Actions
  <2>4. CASE Go(p, "approve", task[p])
    BY <1>4, <2>2, <2>4 DEF Queue, Go, Steps, Actions
  <2>. QED  BY <1>4, <2>3, <2>4 DEF Queue
<1>5. CASE Approve(p)
  <2>1. rec' \in [Records -> Rows] /\ touched' \subseteq Records
    BY <1>5, RowSet DEF Approve, Statuses
  <2>. QED  BY <1>5, <2>1, Moved DEF Approve, Rows, Tasks
<1>6. CASE ApproveFails(p)
  <2>1. errors' \in 0..MaxErrors
    BY <1>6, ReviewAssumption DEF ApproveFails
  <2>. QED  BY <1>6, <2>1, Moved DEF ApproveFails, Tasks
<1>7. CASE ScrubFails(p)
  <2>1. errors' \in 0..MaxErrors
    BY <1>7, ReviewAssumption DEF ScrubFails
  <2>. QED  BY <1>7, <2>1 DEF ScrubFails, Go, NoTask, Steps, Strategies
<1>8. ASSUME NEW x \in left[p], NextRecord(p, x) PROVE Typed'
  <2>1. x \in Listed
    BY DEF Listed
  <2>2. CASE Go(p, "next", NoTask)
    BY <1>8, <2>2 DEF NextRecord, Go, NoTask, Steps, Strategies
  <2>3. CASE /\ x.of \in Mailable \cup Human
             /\ Go(p, "check", [of |-> x.of, status |-> x.status, strategy |-> FirstStrategy(x.of)])
    <3>1. x.of \in Records /\ x.status \in Statuses /\ FirstStrategy(x.of) \in Strategies
      BY <2>1 DEF Listed, FirstStrategy, Strategies
    <3>2. /\ FirstStrategy(x.of) = "SMTP_DEMAND" => x.of \in Mailable
          /\ FirstStrategy(x.of) = "MANUAL_WEB_FORM" => x.of \in Human
      BY <2>3 DEF FirstStrategy
    <3>3. [of |-> x.of, status |-> x.status, strategy |-> FirstStrategy(x.of)] \in Tasks
      BY <3>1 DEF Tasks
    <3>4. task' \in [Scrubs -> Tasks] /\ AtListing'
      BY <2>3, <3>1, <3>2, <3>3 DEF Go, Tasks
    <3>. QED  BY <1>8, <2>3, <3>4 DEF NextRecord, Go, Steps, Tasks
  <2>. QED  BY <1>8, <2>2, <2>3 DEF NextRecord
<1>9. ASSUME NEW x \in left[p], BrokerUnread(p, x) PROVE Typed'
  <2>1. errors' \in 0..MaxErrors
    BY <1>9, ReviewAssumption DEF BrokerUnread
  <2>2. x \in Listed
    BY DEF Listed
  <2>3. missed' \in [Scrubs -> SUBSET Records]
    BY <1>9, <2>2 DEF BrokerUnread, Listed
  <2>. QED  BY <1>9, <2>1, <2>3 DEF BrokerUnread, Go, NoTask, Steps, Strategies
<1>. QED  BY <1>1, <1>2, <1>3, <1>4, <1>5, <1>6, <1>7, <1>8, <1>9 DEF Scrub

LEMMA NextTyped == Typed /\ [Next]_vars => Typed'
<1>. SUFFICES ASSUME Typed, [Next]_vars PROVE Typed'
  OBVIOUS
<1>1. CASE UNCHANGED vars
  BY <1>1 DEF vars, scrub, list, Typed, TypeOK, AtListing
<1>2. ASSUME NEW p \in Scrubs, Scrub(p) PROVE Typed'
  BY <1>2, ScrubTyped
<1>3. CASE FindStale \/ FindPast \/ WatchdogReturns
  BY <1>3 DEF FindStale, FindPast, WatchdogReturns, StaleVerified, CompletedPastRepopulation, scrub,
     list, Typed, TypeOK, AtListing
<1>4. CASE WatchdogFails
  <2>1. errors' \in 0..MaxErrors
    BY <1>4, ReviewAssumption DEF WatchdogFails, Typed, TypeOK
  <2>. QED  BY <1>4, <2>1 DEF WatchdogFails, scrub, list, Typed, TypeOK, AtListing
<1>5. ASSUME NEW r \in Records, MarkPending(r) \/ SaveFinding(r) \/ VerifyRemoved(r) PROVE Typed'
  <2>1. \E s \in Statuses : SetExposedStatus(r, s)
    BY <1>5 DEF MarkPending, SaveFinding, VerifyRemoved, Statuses
  <2>2. rec' \in [Records -> Rows] /\ touched' \subseteq Records
    BY <2>1, RowSet DEF Typed
  <2>. QED
    BY <1>5, <2>2 DEF MarkPending, SaveFinding, VerifyRemoved, scrub, list, Typed, TypeOK, AtListing,
       Rows
<1>6. ASSUME NEW i \in DOMAIN acts, CompleteAction(i) \/ LateOutcome(i) PROVE Typed'
  <2>1. acts' \in Seq(Actions) /\ Len(acts') = Len(acts)
    BY <1>6, Marked DEF Typed
  <2>2. touched' \subseteq Records
    BY <1>6, Marked DEF CompleteAction, LateOutcome, Typed, TypeOK
  <2>3. late' \in 0..MaxLate
    BY <1>6, ReviewAssumption, SMTT(30) DEF CompleteAction, LateOutcome, Typed, TypeOK
  <2>. QED
    BY <1>6, <2>1, <2>2, <2>3 DEF CompleteAction, LateOutcome, scrub, list, Typed, TypeOK, AtListing,
       Actions
<1>7. CASE Tomorrow
  <2>1. today' \in 0..MaxDay
    BY <1>7, ReviewAssumption DEF Tomorrow, Typed, TypeOK
  <2>. QED  BY <1>7, <2>1 DEF Tomorrow, scrub, list, Typed, TypeOK, AtListing
<1>. QED  BY <1>1, <1>2, <1>3, <1>4, <1>5, <1>6, <1>7 DEF Next, Watchdog

LEMMA TypedAlways == Spec => []Typed
BY InitTyped, NextTyped, PTL DEF Spec

\* Statuses, actions, lists and the watchdog keep their types (scrub.go, repository.go).
THEOREM TypeCorrect == Spec => []TypeOK
<1>1. Typed => TypeOK
  BY DEF Typed
<1>. QED  BY <1>1, TypedAlways, PTL

-----------------------------------------------------------------------------
(***************************************************************************)
(* What one step can do.                                                   *)
(***************************************************************************)
\* Nobody moves a scrub but itself; from outside it only gets to know of verifications.
Aside(p) ==
    /\ left'[p] = left[p] /\ task'[p] = task[p] /\ at'[p] = at[p] /\ owed'[p] = owed[p]
    /\ missed'[p] = missed[p] /\ fresh[p] \subseteq fresh'[p]

LEMMA ScrubSteps ==
    ASSUME Typed, [Next]_vars, NEW p \in Scrubs
    PROVE  Scrub(p) \/ Aside(p)
<1>1. CASE UNCHANGED vars
  BY <1>1 DEF vars, scrub, list, Aside
<1>2. ASSUME NEW q \in Scrubs \ {p}, Scrub(q) PROVE Aside(p)
  BY <1>2 DEF Scrub, ListExposed, ScrubReturns, CheckOpen, Queue, Approve, ApproveFails, ScrubFails,
     NextRecord, BrokerUnread, NextStrategy, Go, Typed, TypeOK, Aside, list
<1>3. CASE Watchdog
  BY <1>3 DEF Watchdog, FindStale, FindPast, WatchdogFails, WatchdogReturns, MarkPending, scrub, list,
     Aside
<1>4. ASSUME NEW r \in Records, SaveFinding(r) \/ VerifyRemoved(r) PROVE Aside(p)
  BY <1>4 DEF SaveFinding, VerifyRemoved, scrub, list, Aside
<1>5. ASSUME NEW i \in DOMAIN acts, CompleteAction(i) \/ LateOutcome(i) PROVE Aside(p)
  BY <1>5 DEF CompleteAction, LateOutcome, scrub, list, Aside
<1>6. CASE Tomorrow
  BY <1>6 DEF Tomorrow, scrub, list, Aside
<1>. QED  BY <1>1, <1>2, <1>3, <1>4, <1>5, <1>6 DEF Next

\* An action is never deleted, and stays one for its listing with its strategy.
ActsGrow ==
    /\ Len(acts) <= Len(acts') /\ DOMAIN acts \subseteq DOMAIN acts'
    /\ \A i \in DOMAIN acts : acts'[i].of = acts[i].of /\ acts'[i].strategy = acts[i].strategy

\* The actions change by an INSERT, a completion or a late outcome.
LEMMA ActsSteps ==
    ASSUME Typed, [Next]_vars
    PROVE  \/ acts' = acts
           \/ \E p \in Scrubs : Queue(p)
           \/ \E i \in DOMAIN acts : CompleteAction(i) \/ LateOutcome(i)
<1>1. CASE UNCHANGED vars
  BY <1>1 DEF vars
<1>2. ASSUME NEW p \in Scrubs, Scrub(p), ~Queue(p) PROVE acts' = acts
  BY <1>2 DEF Scrub, ListExposed, ScrubReturns, CheckOpen, Approve, ApproveFails, ScrubFails,
     NextRecord, BrokerUnread
<1>3. CASE Watchdog
  BY <1>3 DEF Watchdog, FindStale, FindPast, WatchdogFails, WatchdogReturns, MarkPending
<1>4. ASSUME NEW r \in Records, SaveFinding(r) \/ VerifyRemoved(r) PROVE acts' = acts
  BY <1>4 DEF SaveFinding, VerifyRemoved
<1>5. CASE Tomorrow
  BY <1>5 DEF Tomorrow
<1>. QED  BY <1>1, <1>2, <1>3, <1>4, <1>5 DEF Next

LEMMA ActsOnlyGrow == ASSUME Typed, [Next]_vars PROVE ActsGrow
<1>1. acts \in Seq(Actions)
  BY DEF Typed, TypeOK, Actions
<1>2. CASE acts' = acts
  BY <1>1, <1>2 DEF ActsGrow
<1>3. ASSUME NEW p \in Scrubs, Queue(p) PROVE ActsGrow
  <2>1. task[p].of \in Records /\ task[p].strategy \in Strategies
    BY <1>3 DEF Queue, Typed, TypeOK, AtListing
  <2>2. /\ acts' \in Seq(Actions) /\ Len(acts') = Len(acts) + 1
        /\ \A i \in DOMAIN acts : acts'[i] = acts[i]
    BY <1>3, <2>1, Appended DEF Queue, Typed
  <2>. QED  BY <1>1, <2>2 DEF ActsGrow
<1>4. ASSUME NEW i \in DOMAIN acts, CompleteAction(i) \/ LateOutcome(i) PROVE ActsGrow
  <2>1. /\ acts' \in Seq(Actions) /\ Len(acts') = Len(acts)
        /\ acts'[i].of = acts[i].of /\ acts'[i].strategy = acts[i].strategy
        /\ \A j \in DOMAIN acts \ {i} : acts'[j] = acts[j]
    BY <1>4, Marked DEF Typed
  <2>. QED  BY <1>1, <2>1 DEF ActsGrow
<1>. QED  BY <1>2, <1>3, <1>4, ActsSteps

-----------------------------------------------------------------------------
(***************************************************************************)
(* VerifiedNotScrubbed: whatever a scrub still has to do with a listing    *)
(* that is verified as removed, it read its list before the verification.  *)
(***************************************************************************)
ReadBefore(p) ==
    /\ \A x \in left[p] :
          x.status # "VERIFIED_REMOVED" /\ Status(x.of) = "VERIFIED_REMOVED" => x.of \in fresh[p]
    /\ at[p] \in {"check", "insert", "approve"} /\ Status(task[p].of) = "VERIFIED_REMOVED"
          => task[p].of \in fresh[p]

\* A listing becomes verified by the user alone, and every scrub is told.
LEMMA VerifiedByUser ==
    ASSUME Typed, [Next]_vars, NEW r \in Records, rec'[r].status = "VERIFIED_REMOVED"
    PROVE  rec[r].status = "VERIFIED_REMOVED" \/ \A p \in Scrubs : r \in fresh'[p]
<1>1. CASE rec' = rec
  BY <1>1
<1>2. ASSUME NEW q \in Records, NEW s \in Statuses \ {"VERIFIED_REMOVED"}, SetExposedStatus(q, s)
      PROVE  rec[r].status = "VERIFIED_REMOVED"
  <2>1. rec'[q] = [status |-> s, seen |-> today] /\ (r # q => rec'[r] = rec[r])
    BY <1>2, RowSet DEF Typed
  <2>2. q # r
    BY <2>1
  <2>. QED  BY <2>1, <2>2
<1>3. ASSUME NEW q \in Records, VerifyRemoved(q)
      PROVE  rec[r].status = "VERIFIED_REMOVED" \/ \A p \in Scrubs : r \in fresh'[p]
  <2>1. SetExposedStatus(q, "VERIFIED_REMOVED") /\ "VERIFIED_REMOVED" \in Statuses
    BY <1>3 DEF VerifyRemoved, Statuses
  <2>2. q # r => rec'[r] = rec[r]
    BY <2>1, RowSet DEF Typed
  <2>3. \A p \in Scrubs : q \in fresh'[p]
    BY <1>3 DEF VerifyRemoved
  <2>. QED  BY <2>2, <2>3
<1>4. CASE UNCHANGED vars
  BY <1>1, <1>4 DEF vars
<1>5. ASSUME NEW p \in Scrubs, Scrub(p) PROVE rec[r].status = "VERIFIED_REMOVED"
  <2>1. CASE Approve(p)
    BY <1>2, <2>1 DEF Approve, Statuses, Typed, AtListing
  <2>. QED
    BY <1>1, <1>5, <2>1 DEF Scrub, ListExposed, ScrubReturns, CheckOpen, Queue, ApproveFails,
       ScrubFails, NextRecord, BrokerUnread
<1>6. CASE Watchdog
  <2>1. ASSUME NEW q \in Records, MarkPending(q) PROVE rec[r].status = "VERIFIED_REMOVED"
    BY <1>2, <2>1 DEF MarkPending, Statuses
  <2>. QED
    BY <1>1, <1>6, <2>1 DEF Watchdog, FindStale, FindPast, WatchdogFails, WatchdogReturns
<1>7. ASSUME NEW q \in Records, SaveFinding(q) PROVE rec[r].status = "VERIFIED_REMOVED"
  BY <1>2, <1>7 DEF SaveFinding, Statuses
<1>8. ASSUME NEW i \in DOMAIN acts, CompleteAction(i) \/ LateOutcome(i) PROVE rec' = rec
  BY <1>8 DEF CompleteAction, LateOutcome
<1>9. CASE Tomorrow
  BY <1>1, <1>9 DEF Tomorrow
<1>. QED  BY <1>1, <1>3, <1>4, <1>5, <1>6, <1>7, <1>8, <1>9 DEF Next

LEMMA ReadBeforeNext ==
    ASSUME Typed, [Next]_vars, NEW p \in Scrubs, ReadBefore(p)
    PROVE  ReadBefore(p)'
<1>1. left[p] \subseteq Listed /\ left'[p] \subseteq Listed
  BY NextTyped DEF Typed, TypeOK, Listed
<1>2. \A x \in Listed : x.of \in Records
  BY DEF Listed
<1>3. \A r \in Records : rec'[r].status = "VERIFIED_REMOVED" =>
          rec[r].status = "VERIFIED_REMOVED" \/ r \in fresh'[p]
  BY VerifiedByUser
<1>4. CASE Aside(p)
  BY <1>1, <1>2, <1>3, <1>4 DEF Aside, ReadBefore, Status, Typed, AtListing
<1>5. CASE ListExposed(p)
  <2>1. rec' = rec /\ at'[p] = "next"
    BY <1>5 DEF ListExposed, Go, Typed, TypeOK
  <2>2. \A x \in left'[p] : x.status = rec[x.of].status
    BY <1>5 DEF ListExposed, Typed, TypeOK, Status
  <2>. QED  BY <2>1, <2>2 DEF ReadBefore, Status
<1>6. CASE Approve(p)
  <2>1. left' = left /\ fresh' = fresh
    BY <1>6 DEF Approve, list
  <2>2. at'[p] \in {"check", "insert", "approve"} => task'[p].of = task[p].of
    BY <1>6, Moved DEF Approve
  <2>3. task[p].of \in Records
    BY <1>6 DEF Approve, Typed, AtListing
  <2>. QED  BY <1>1, <1>2, <1>3, <1>6, <2>1, <2>2, <2>3 DEF ReadBefore, Status, Approve
<1>7. CASE CheckOpen(p) \/ Queue(p) \/ ApproveFails(p)
  <2>1. left' = left /\ fresh' = fresh /\ rec' = rec /\ at[p] \in {"check", "insert", "approve"}
    BY <1>7 DEF CheckOpen, Queue, ApproveFails, list
  <2>2. at'[p] \in {"check", "insert", "approve"} => task'[p].of = task[p].of
    <3>1. CASE NextStrategy(p)
      BY <2>1, <3>1, Moved
    <3>2. CASE Go(p, "insert", task[p]) \/ Go(p, "approve", task[p])
      BY <3>2 DEF Go, Typed, TypeOK
    <3>. QED  BY <1>7, <3>1, <3>2 DEF CheckOpen, Queue, ApproveFails
  <2>. QED  BY <2>1, <2>2 DEF ReadBefore, Status
<1>8. CASE ScrubReturns(p) \/ ScrubFails(p)
  BY <1>8 DEF ScrubReturns, ScrubFails, Go, ReadBefore, Status, Typed, TypeOK, list
<1>9. ASSUME NEW x \in left[p], NextRecord(p, x) PROVE ReadBefore(p)'
  <2>1. rec' = rec /\ fresh' = fresh /\ left'[p] \subseteq left[p]
    BY <1>9 DEF NextRecord, list, Typed, TypeOK
  <2>2. at'[p] \in {"check", "insert", "approve"} => task'[p].of = x.of /\ x.status # "VERIFIED_REMOVED"
    BY <1>9 DEF NextRecord, Go, Skip, Typed, TypeOK
  <2>. QED  BY <2>1, <2>2 DEF ReadBefore, Status
<1>10. ASSUME NEW x \in left[p], BrokerUnread(p, x) PROVE ReadBefore(p)'
  <2>1. rec' = rec /\ fresh' = fresh /\ left'[p] \subseteq left[p] /\ at'[p] = "next"
    BY <1>10 DEF BrokerUnread, Go, Typed, TypeOK
  <2>. QED  BY <2>1 DEF ReadBefore, Status
<1>. QED  BY <1>4, <1>5, <1>6, <1>7, <1>8, <1>9, <1>10, ScrubSteps DEF Scrub

AllReadBefore == \A p \in Scrubs : ReadBefore(p)

\* A listing verified as removed is not scrubbed by a scrub that began afterwards (scrub.go Scrub).
THEOREM VerifiedLeftAlone == Spec => VerifiedNotScrubbed
<1>1. Init => AllReadBefore
  BY DEF Init, AllReadBefore, ReadBefore
<1>2. Typed /\ AllReadBefore /\ [Next]_vars => AllReadBefore'
  BY ReadBeforeNext DEF AllReadBefore
<1>3. Typed /\ AllReadBefore /\ [Next]_vars =>
        [\A p \in Scrubs : (Queue(p) \/ Approve(p)) /\ Status(task[p].of) = "VERIFIED_REMOVED"
             => task[p].of \in fresh[p]]_vars
  BY DEF AllReadBefore, ReadBefore, Queue, Approve
<1>. QED  BY <1>1, <1>2, <1>3, TypedAlways, PTL DEF Spec, VerifiedNotScrubbed

-----------------------------------------------------------------------------
(***************************************************************************)
(* ScrubCovers: what a scrub's list calls for is there, or is still ahead  *)
(* of the scrub.                                                           *)
(***************************************************************************)
Demands == {d \in Records \X Strategies : d[1] \in IF d[2] = "SMTP_DEMAND" THEN Mailable ELSE Human}

Covered(d) == \E i \in DOMAIN acts : acts[i].of = d[1] /\ acts[i].strategy = d[2]

Ahead(p, d) ==
    \/ \E x \in left[p] : x.of = d[1] /\ x.status # "VERIFIED_REMOVED"
    \/ at[p] \in {"check", "insert"} /\ task[p].of = d[1] /\ task[p].strategy = d[2]
    \/ /\ at[p] \in {"check", "insert", "approve"} /\ task[p].of = d[1]
       /\ task[p].strategy = "SMTP_DEMAND" /\ d[2] = "MANUAL_WEB_FORM"

StillOwed(p) ==
    /\ owed[p] \subseteq Demands
    /\ at[p] # "idle" => \A d \in owed[p] : Covered(d) \/ Ahead(p, d) \/ d[1] \in missed[p]

LEMMA CoveredStays == ASSUME Typed, [Next]_vars, NEW d, Covered(d) PROVE Covered(d)'
BY ActsOnlyGrow DEF Covered, ActsGrow

\* A demand the scrub has reached is covered, or next.
LEMMA FormNext ==
    ASSUME Typed, NEW p \in Scrubs, at[p] \in {"check", "insert", "approve"}, NextStrategy(p),
           NEW d \in Demands, left'[p] = left[p], Ahead(p, d),
           at[p] = "approve" \/ d # <<task[p].of, task[p].strategy>>
    PROVE  Ahead(p, d)'
<1>1. d[1] \in Records /\ d[2] \in Strategies /\ d = <<d[1], d[2]>>
  BY DEF Demands
<1>2. CASE \E x \in left[p] : x.of = d[1] /\ x.status # "VERIFIED_REMOVED"
  BY <1>2 DEF Ahead
<1>3. CASE /\ task[p].of = d[1] /\ task[p].strategy = "SMTP_DEMAND" /\ d[2] = "MANUAL_WEB_FORM"
  <2>1. task[p].of \in Human
    BY <1>3 DEF Demands
  <2>2. at'[p] = "check" /\ task'[p].of = task[p].of /\ task'[p].strategy = "MANUAL_WEB_FORM"
    BY <1>3, <2>1, Moved
  <2>. QED  BY <1>3, <2>2 DEF Ahead
<1>. QED  BY <1>1, <1>2, <1>3 DEF Ahead

LEMMA StillOwedNext ==
    ASSUME Typed, [Next]_vars, NEW p \in Scrubs, StillOwed(p)
    PROVE  StillOwed(p)'
<1>1. \A d : Covered(d) => Covered(d)'
  BY CoveredStays
<1>2. CASE Aside(p)
  BY <1>1, <1>2 DEF Aside, StillOwed, Ahead
<1>3. CASE ListExposed(p)
  <2>1. at'[p] = "next" /\ owed'[p] \subseteq Demands
    BY <1>3 DEF ListExposed, Go, Demands, Typed, TypeOK
  <2>2. ASSUME NEW d \in owed'[p] PROVE Ahead(p, d)'
    <3>1. d[1] \in Records /\ Status(d[1]) \notin {"ABSENT", "VERIFIED_REMOVED"}
      BY <1>3 DEF ListExposed, Typed, TypeOK
    <3>2. [of |-> d[1], status |-> Status(d[1])] \in left'[p]
      BY <1>3, <3>1 DEF ListExposed, Typed, TypeOK
    <3>. QED  BY <3>1, <3>2 DEF Ahead
  <2>. QED  BY <2>1, <2>2 DEF StillOwed
<1>4. CASE CheckOpen(p)
  <2>1. left' = left /\ owed' = owed /\ missed' = missed /\ at[p] = "check"
    BY <1>4 DEF CheckOpen, list
  <2>2. CASE HasOpenAction(task[p].of, task[p].strategy) /\ NextStrategy(p)
    <3>1. Covered(<<task[p].of, task[p].strategy>>)
      BY <2>2 DEF HasOpenAction, Open, Covered
    <3>. QED  BY <1>1, <2>1, <2>2, <3>1, FormNext DEF StillOwed
  <2>3. CASE Go(p, "insert", task[p])
    BY <1>1, <2>1, <2>3 DEF Go, StillOwed, Ahead, Typed, TypeOK
  <2>. QED  BY <1>4, <2>2, <2>3 DEF CheckOpen
<1>5. CASE Queue(p)
  <2>1. left' = left /\ owed' = owed /\ missed' = missed /\ at[p] = "insert"
    BY <1>5 DEF Queue, list
  <2>2. ASSUME NEW d, d = <<task[p].of, task[p].strategy>> PROVE Covered(d)'
    <3>1. task[p].of \in Records /\ task[p].strategy \in Strategies
      BY <1>5 DEF Queue, Typed, TypeOK, AtListing
    <3>2. /\ acts' \in Seq(Actions) /\ Len(acts') = Len(acts) + 1 /\ Len(acts) \in Nat
          /\ acts'[Len(acts) + 1] =
                [of |-> task[p].of, strategy |-> task[p].strategy, completed |-> FALSE, on |-> Never]
      BY <1>5, <3>1, Appended DEF Queue, Typed, TypeOK
    <3>3. Len(acts) + 1 \in DOMAIN acts'
      BY <3>2
    <3>. QED  BY <2>2, <3>2, <3>3 DEF Covered
  <2>3. CASE NextStrategy(p)
    BY <1>1, <2>1, <2>2, <2>3, FormNext DEF StillOwed
  <2>4. CASE Go(p, "approve", task[p])
    <3>1. at'[p] = "approve" /\ task'[p] = task[p]
      BY <2>4 DEF Go, Typed, TypeOK
    <3>2. ASSUME NEW d \in Demands, Ahead(p, d), d # <<task[p].of, task[p].strategy>>
          PROVE  Ahead(p, d)'
      BY <2>1, <3>1, <3>2 DEF Ahead, Demands
    <3>. QED  BY <1>1, <2>1, <2>2, <3>1, <3>2 DEF StillOwed
  <2>. QED  BY <1>5, <2>3, <2>4 DEF Queue
<1>6. CASE Approve(p) \/ ApproveFails(p)
  <2>1. left' = left /\ owed' = owed /\ missed' = missed /\ at[p] = "approve" /\ NextStrategy(p)
    BY <1>6 DEF Approve, ApproveFails, list
  <2>. QED  BY <1>1, <2>1, FormNext DEF StillOwed
<1>7. CASE ScrubReturns(p) \/ ScrubFails(p)
  BY <1>7 DEF ScrubReturns, ScrubFails, Go, StillOwed, Typed, TypeOK, list
<1>8. ASSUME NEW x \in left[p], NextRecord(p, x) PROVE StillOwed(p)'
  <2>1. owed' = owed /\ missed' = missed /\ left'[p] = left[p] \ {x} /\ at[p] = "next"
    BY <1>8 DEF NextRecord, list, Typed, TypeOK
  <2>2. ASSUME NEW d \in Demands, Ahead(p, d) PROVE Ahead(p, d)'
    <3>1. PICK y \in left[p] : y.of = d[1] /\ y.status # "VERIFIED_REMOVED"
      BY <2>1, <2>2 DEF Ahead
    <3>2. CASE y # x
      BY <2>1, <3>1, <3>2 DEF Ahead
    <3>3. CASE y = x
      <4>1. x.of \in Mailable \cup Human
        BY <3>1, <3>3 DEF Demands
      <4>2. Go(p, "check", [of |-> x.of, status |-> x.status, strategy |-> FirstStrategy(x.of)])
        BY <1>8, <3>1, <3>3, <4>1 DEF NextRecord, Skip
      <4>3. at'[p] = "check" /\ task'[p].of = d[1] /\ task'[p].strategy = FirstStrategy(d[1])
        BY <3>1, <3>3, <4>2 DEF Go, Typed, TypeOK
      <4>4. \/ FirstStrategy(d[1]) = d[2]
            \/ FirstStrategy(d[1]) = "SMTP_DEMAND" /\ d[2] = "MANUAL_WEB_FORM"
        <5>1. d[2] \in Strategies /\ (d[2] = "SMTP_DEMAND" => d[1] \in Mailable)
          BY DEF Demands
        <5>. QED  BY <5>1 DEF FirstStrategy, Strategies
      <4>. QED  BY <4>3, <4>4 DEF Ahead
    <3>. QED  BY <3>2, <3>3
  <2>. QED  BY <1>1, <2>1, <2>2 DEF StillOwed
<1>9. ASSUME NEW x \in left[p], BrokerUnread(p, x) PROVE StillOwed(p)'
  <2>1. /\ owed' = owed /\ left'[p] = left[p] \ {x} /\ at[p] = "next"
        /\ missed'[p] = missed[p] \cup {x.of}
    BY <1>9 DEF BrokerUnread, Typed, TypeOK
  <2>2. ASSUME NEW d \in Demands, Ahead(p, d) PROVE Ahead(p, d)' \/ d[1] \in missed'[p]
    <3>1. PICK y \in left[p] : y.of = d[1] /\ y.status # "VERIFIED_REMOVED"
      BY <2>1, <2>2 DEF Ahead
    <3>2. CASE y # x
      BY <2>1, <3>1, <3>2 DEF Ahead
    <3>3. CASE y = x
      BY <2>1, <3>1, <3>3
    <3>. QED  BY <3>2, <3>3
  <2>. QED  BY <1>1, <2>1, <2>2 DEF StillOwed
<1>. QED  BY <1>2, <1>3, <1>4, <1>5, <1>6, <1>7, <1>8, <1>9, ScrubSteps DEF Scrub

AllStillOwed == \A p \in Scrubs : StillOwed(p)

\* Every listing a scrub left out for want of its broker's row cost a failed statement.
Paid(p) == IsFiniteSet(missed[p]) /\ Cardinality(missed[p]) <= errors

LEMMA ErrorsGrow == ASSUME Typed, [Next]_vars PROVE errors' \in {errors, errors + 1}
<1>1. CASE UNCHANGED vars
  BY <1>1 DEF vars
<1>2. ASSUME NEW p \in Scrubs, Scrub(p) PROVE errors' \in {errors, errors + 1}
  BY <1>2 DEF Scrub, ListExposed, ScrubReturns, CheckOpen, Queue, Approve, ApproveFails, ScrubFails,
     NextRecord, BrokerUnread
<1>3. CASE Watchdog
  BY <1>3 DEF Watchdog, FindStale, FindPast, WatchdogFails, WatchdogReturns, MarkPending
<1>4. ASSUME NEW r \in Records, SaveFinding(r) \/ VerifyRemoved(r) PROVE errors' = errors
  BY <1>4 DEF SaveFinding, VerifyRemoved
<1>5. ASSUME NEW i \in DOMAIN acts, CompleteAction(i) \/ LateOutcome(i) PROVE errors' = errors
  BY <1>5 DEF CompleteAction, LateOutcome
<1>6. CASE Tomorrow
  BY <1>6 DEF Tomorrow
<1>. QED  BY <1>1, <1>2, <1>3, <1>4, <1>5, <1>6 DEF Next

LEMMA PaidNext == ASSUME Typed, [Next]_vars, NEW p \in Scrubs, Paid(p) PROVE Paid(p)'
<1>1. errors \in Nat /\ errors' \in Nat
  BY NextTyped, ReviewAssumption DEF Typed, TypeOK
<1>2. Cardinality(missed[p]) \in Nat
  BY FS_CardinalityType DEF Paid
<1>3. ASSUME errors <= errors', missed'[p] = missed[p] PROVE Paid(p)'
  <2>1. Cardinality(missed'[p]) <= errors'
    BY <1>1, <1>2, <1>3 DEF Paid
  <2>. QED  BY <1>3, <2>1 DEF Paid
<1>4. CASE ListExposed(p)
  <2>1. missed'[p] = {}
    BY <1>4 DEF ListExposed, Typed, TypeOK
  <2>2. IsFiniteSet(missed'[p]) /\ Cardinality(missed'[p]) <= errors'
    BY <1>1, <2>1, FS_EmptySet
  <2>. QED  BY <2>2 DEF Paid
<1>5. ASSUME NEW x \in left[p], BrokerUnread(p, x) PROVE Paid(p)'
  <2>1. missed'[p] = missed[p] \cup {x.of} /\ errors' = errors + 1
    BY <1>5 DEF BrokerUnread, Typed, TypeOK
  <2>2. /\ IsFiniteSet(missed[p] \cup {x.of})
        /\ \/ Cardinality(missed[p] \cup {x.of}) = Cardinality(missed[p])
           \/ Cardinality(missed[p] \cup {x.of}) = Cardinality(missed[p]) + 1
    BY FS_AddElement DEF Paid
  <2>3. Cardinality(missed'[p]) <= errors'
    BY <1>1, <1>2, <2>1, <2>2 DEF Paid
  <2>. QED  BY <2>1, <2>2, <2>3 DEF Paid
<1>6. errors <= errors'
  BY <1>1, ErrorsGrow
<1>7. CASE CheckOpen(p) \/ Queue(p) \/ Approve(p) \/ ApproveFails(p) \/ ScrubReturns(p) \/ ScrubFails(p)
  BY <1>3, <1>6, <1>7 DEF CheckOpen, Queue, Approve, ApproveFails, ScrubReturns, ScrubFails, list
<1>8. ASSUME NEW x \in left[p], NextRecord(p, x) PROVE Paid(p)'
  BY <1>3, <1>6, <1>8 DEF NextRecord, list
<1>9. CASE Aside(p)
  BY <1>3, <1>6, <1>9 DEF Aside
<1>. QED  BY <1>4, <1>5, <1>7, <1>8, <1>9, ScrubSteps DEF Scrub

AllPaid == \A p \in Scrubs : Paid(p)

LEMMA InitPaid == Init => AllPaid
<1>. SUFFICES ASSUME Init, NEW p \in Scrubs PROVE Paid(p)
  BY DEF AllPaid
<1>1. missed[p] = {} /\ errors = 0
  BY DEF Init
<1>2. IsFiniteSet(missed[p]) /\ Cardinality(missed[p]) <= errors
  BY <1>1, FS_EmptySet
<1>. QED  BY <1>2 DEF Paid

\* A scrub that walked its list to the end has queued what the list called for, by mail and by
\* form, or found it queued; it leaves out no more than the listings whose broker it could not
\* read, one for a failed statement at most (scrub.go Scrub, queueAction).
THEOREM NothingLeftOut == Spec => []ScrubCovers
<1>1. Init => AllStillOwed
  BY DEF Init, AllStillOwed, StillOwed
<1>2. Typed /\ AllStillOwed /\ [Next]_vars => AllStillOwed'
  BY StillOwedNext DEF AllStillOwed
<1>3. Typed /\ AllPaid /\ [Next]_vars => AllPaid'
  BY PaidNext DEF AllPaid
<1>4. AllStillOwed /\ AllPaid => ScrubCovers
  BY DEF AllStillOwed, StillOwed, Ahead, Covered, AllPaid, Paid, ScrubCovers
<1>. QED  BY <1>1, <1>2, InitPaid, <1>3, <1>4, TypedAlways, PTL DEF Spec

-----------------------------------------------------------------------------
(***************************************************************************)
(* BoundedOpen: the open actions and the scrubs that are about to insert   *)
(* one more, together.  A scrub gets to its insert only while nothing is   *)
(* open, so then there are at most as many as there are scrubs.            *)
(***************************************************************************)
Inserting(r, s) == {p \in Scrubs : at[p] = "insert" /\ task[p].of = r /\ task[p].strategy = s}

RoomLeft(r, s) ==
    Cardinality(Open(r, s)) + Cardinality(Inserting(r, s)) <= Cardinality(Scrubs) + late

LEMMA Finite ==
    ASSUME Typed, NEW r, NEW s
    PROVE  /\ IsFiniteSet(Open(r, s)) /\ Cardinality(Open(r, s)) \in Nat
           /\ IsFiniteSet(Inserting(r, s)) /\ Cardinality(Inserting(r, s)) \in Nat
           /\ Cardinality(Inserting(r, s)) <= Cardinality(Scrubs) /\ Cardinality(Scrubs) \in Nat
<1>1. Open(r, s) \in SUBSET (1..Len(acts)) /\ Len(acts) \in Nat
  BY DEF Open, Typed, TypeOK
<1>2. IsFiniteSet(1..Len(acts))
  BY <1>1, FS_Interval
<1>3. Inserting(r, s) \in SUBSET Scrubs /\ IsFiniteSet(Scrubs)
  BY ReviewAssumption DEF Inserting
<1>4. IsFiniteSet(Open(r, s)) /\ IsFiniteSet(Inserting(r, s))
      /\ Cardinality(Inserting(r, s)) <= Cardinality(Scrubs)
  BY <1>1, <1>2, <1>3, FS_Subset
<1>. QED  BY <1>3, <1>4, FS_CardinalityType

\* Fewer open actions and fewer scrubs at the insert.
LEMMA Less ==
    ASSUME Typed, NEW r, NEW s, RoomLeft(r, s),
           Open(r, s)' \subseteq Open(r, s), Inserting(r, s)' \subseteq Inserting(r, s),
           late' = late
    PROVE  RoomLeft(r, s)'
<1>1. /\ Cardinality(Open(r, s)') <= Cardinality(Open(r, s)) /\ IsFiniteSet(Open(r, s)')
      /\ Cardinality(Inserting(r, s)') <= Cardinality(Inserting(r, s))
      /\ IsFiniteSet(Inserting(r, s)')
  BY Finite, FS_Subset
<1>2. Cardinality(Open(r, s)') \in Nat /\ Cardinality(Inserting(r, s)') \in Nat
  BY <1>1, FS_CardinalityType
<1>3. late \in Nat
  BY ReviewAssumption DEF Typed, TypeOK
<1>4. Cardinality(Open(r, s)') + Cardinality(Inserting(r, s)') <= Cardinality(Scrubs) + late
  BY <1>1, <1>2, <1>3, Finite DEF RoomLeft
<1>. QED  BY <1>4 DEF RoomLeft

\* A scrub that moves to another statement than the insert.
LEMMA NoMoreInserting ==
    ASSUME NEW p \in Scrubs, NEW r, NEW s, at'[p] # "insert",
           \A q \in Scrubs \ {p} : at'[q] = at[q] /\ task'[q] = task[q]
    PROVE  Inserting(r, s)' \subseteq Inserting(r, s) \ {p}
BY DEF Inserting

LEMMA RoomLeftScrub ==
    ASSUME Typed, NEW p \in Scrubs, Scrub(p), NEW r \in Records, NEW s \in Strategies,
           RoomLeft(r, s)
    PROVE  RoomLeft(r, s)'
<1>1. late' = late
  BY DEF Scrub, ListExposed, ScrubReturns, CheckOpen, Queue, Approve, ApproveFails, ScrubFails,
     NextRecord, BrokerUnread
<1>2. late \in Nat
  BY ReviewAssumption DEF Typed, TypeOK
<1>3. \A q \in Scrubs \ {p} : at'[q] = at[q] /\ task'[q] = task[q]
  BY DEF Scrub, ListExposed, ScrubReturns, CheckOpen, Queue, Approve, ApproveFails, ScrubFails,
     NextRecord, BrokerUnread, NextStrategy, Go, Typed, TypeOK
<1>4. CASE CheckOpen(p) /\ Go(p, "insert", task[p])
  <2>1. acts' = acts /\ ~HasOpenAction(task[p].of, task[p].strategy)
        /\ at'[p] = "insert" /\ task' = task
    <3>1. acts' = acts /\ at'[p] = "insert" /\ task' = task
      BY <1>4 DEF CheckOpen, Go, Typed, TypeOK
    <3>2. NextStrategy(p) => at'[p] # "insert"
      BY <1>4, Moved DEF CheckOpen
    <3>. QED  BY <1>4, <3>1, <3>2 DEF CheckOpen
  <2>2. CASE task[p].of = r /\ task[p].strategy = s
    <3>1. Open(r, s)' = {}
      BY <2>1, <2>2 DEF HasOpenAction, Open
    <3>2. Cardinality(Open(r, s)') = 0
      BY <3>1, FS_EmptySet
    <3>3. Inserting(r, s)' \in SUBSET Scrubs /\ IsFiniteSet(Scrubs)
      BY ReviewAssumption DEF Inserting
    <3>4. Cardinality(Inserting(r, s)') <= Cardinality(Scrubs) /\ IsFiniteSet(Inserting(r, s)')
      BY <3>3, FS_Subset
    <3>5. Cardinality(Inserting(r, s)') \in Nat /\ Cardinality(Scrubs) \in Nat
      BY <3>3, <3>4, FS_CardinalityType
    <3>6. Cardinality(Open(r, s)') + Cardinality(Inserting(r, s)') <= Cardinality(Scrubs) + late
      BY <1>2, <3>2, <3>4, <3>5
    <3>. QED  BY <1>1, <3>6 DEF RoomLeft
  <2>3. CASE ~(task[p].of = r /\ task[p].strategy = s)
    <3>1. Open(r, s)' \subseteq Open(r, s)
      BY <2>1 DEF Open
    <3>2. Inserting(r, s)' \subseteq Inserting(r, s)
      BY <1>3, <2>1, <2>3 DEF Inserting
    <3>. QED  BY <1>1, <3>1, <3>2, Less
  <2>. QED  BY <2>2, <2>3
<1>5. CASE Queue(p)
  <2>1. task[p].of \in Records /\ task[p].strategy \in Strategies
    BY <1>5 DEF Queue, Typed, TypeOK, AtListing
  <2>2. /\ Len(acts') = Len(acts) + 1 /\ acts' \in Seq(Actions) /\ Len(acts) \in Nat
        /\ acts'[Len(acts) + 1] =
              [of |-> task[p].of, strategy |-> task[p].strategy, completed |-> FALSE, on |-> Never]
        /\ \A i \in DOMAIN acts : acts'[i] = acts[i]
    BY <1>5, <2>1, Appended DEF Queue, Typed, TypeOK
  <2>3. DOMAIN acts' = DOMAIN acts \cup {Len(acts) + 1} /\ Len(acts) + 1 \notin DOMAIN acts
    BY <2>2 DEF Typed, TypeOK
  <2>4. at'[p] # "insert"
    <3>1. NextStrategy(p) => at'[p] # "insert"
      BY <1>5, Moved DEF Queue
    <3>2. Go(p, "approve", task[p]) => at'[p] # "insert"
      BY DEF Go, Typed, TypeOK
    <3>. QED  BY <1>5, <3>1, <3>2 DEF Queue
  <2>5. Inserting(r, s)' \subseteq Inserting(r, s) \ {p}
    BY <1>3, <2>4, NoMoreInserting
  <2>6. CASE task[p].of = r /\ task[p].strategy = s
    <3>1. p \in Inserting(r, s)
      BY <1>5, <2>6 DEF Inserting, Queue
    <3>2. Open(r, s)' = Open(r, s) \cup {Len(acts) + 1} /\ Len(acts) + 1 \notin Open(r, s)
      BY <2>2, <2>3, <2>6 DEF Open
    <3>3. Cardinality(Open(r, s)') = Cardinality(Open(r, s)) + 1
      BY <3>2, Finite, FS_AddElement
    <3>4. /\ IsFiniteSet(Inserting(r, s) \ {p})
          /\ Cardinality(Inserting(r, s) \ {p}) = Cardinality(Inserting(r, s)) - 1
      BY <3>1, Finite, FS_RemoveElement
    <3>5. /\ IsFiniteSet(Inserting(r, s)')
          /\ Cardinality(Inserting(r, s)') <= Cardinality(Inserting(r, s) \ {p})
      BY <2>5, <3>4, FS_Subset
    <3>6. Cardinality(Inserting(r, s)') \in Nat
      BY <3>5, FS_CardinalityType
    <3>7. Cardinality(Open(r, s)') + Cardinality(Inserting(r, s)') <= Cardinality(Scrubs) + late
      BY <1>2, <3>3, <3>4, <3>5, <3>6, Finite DEF RoomLeft
    <3>. QED  BY <1>1, <3>7 DEF RoomLeft
  <2>7. CASE ~(task[p].of = r /\ task[p].strategy = s)
    <3>1. Open(r, s)' \subseteq Open(r, s)
      BY <2>2, <2>3, <2>7 DEF Open
    <3>. QED  BY <1>1, <2>5, <3>1, Less
  <2>. QED  BY <2>6, <2>7
<1>6. ASSUME ~Queue(p), ~(CheckOpen(p) /\ Go(p, "insert", task[p])) PROVE RoomLeft(r, s)'
  <2>1. acts' = acts
    BY <1>6 DEF Scrub, ListExposed, ScrubReturns, CheckOpen, Approve, ApproveFails, ScrubFails,
       NextRecord, BrokerUnread
  <2>2. at'[p] # "insert"
    <3>1. at[p] \in {"check", "insert", "approve"} /\ NextStrategy(p) => at'[p] # "insert"
      BY Moved
    <3>2. (\E t : Go(p, "next", t) \/ Go(p, "idle", t) \/ Go(p, "check", t)) => at'[p] # "insert"
      BY DEF Go, Typed, TypeOK
    <3>3. CASE CheckOpen(p) \/ Approve(p) \/ ApproveFails(p)
      BY <1>6, <3>1, <3>3 DEF CheckOpen, Approve, ApproveFails
    <3>4. CASE \/ ListExposed(p) \/ ScrubReturns(p) \/ ScrubFails(p)
               \/ \E x \in left[p] : NextRecord(p, x) \/ BrokerUnread(p, x)
      BY <3>2, <3>4 DEF ListExposed, ScrubReturns, ScrubFails, NextRecord, BrokerUnread
    <3>. QED  BY <1>6, <3>3, <3>4 DEF Scrub
  <2>3. Inserting(r, s)' \subseteq Inserting(r, s) \ {p}
    BY <1>3, <2>2, NoMoreInserting
  <2>4. Open(r, s)' \subseteq Open(r, s)
    BY <2>1 DEF Open
  <2>. QED  BY <1>1, <2>3, <2>4, Less
<1>. QED  BY <1>4, <1>5, <1>6

LEMMA RoomLeftMarked ==
    ASSUME Typed, NEW i \in DOMAIN acts, CompleteAction(i) \/ LateOutcome(i),
           NEW r \in Records, NEW s \in Strategies, RoomLeft(r, s)
    PROVE  RoomLeft(r, s)'
<1>1. Inserting(r, s)' = Inserting(r, s)
  BY DEF CompleteAction, LateOutcome, Inserting, scrub
<1>2. /\ DOMAIN acts' = DOMAIN acts
      /\ acts'[i].of = acts[i].of /\ acts'[i].strategy = acts[i].strategy
      /\ acts'[i].completed = TRUE \/ LateOutcome(i)
      /\ \A j \in DOMAIN acts \ {i} : acts'[j] = acts[j]
  <2>1. acts' \in Seq(Actions) /\ Len(acts') = Len(acts)
    BY Marked DEF Typed
  <2>2. DOMAIN acts' = DOMAIN acts
    BY <2>1 DEF Typed, TypeOK
  <2>. QED  BY <2>2, Marked DEF Typed
<1>3. CASE CompleteAction(i) /\ ~LateOutcome(i)
  <2>1. Open(r, s)' \subseteq Open(r, s)
    BY <1>2, <1>3 DEF Open
  <2>2. late' = late
    BY <1>3 DEF CompleteAction
  <2>. QED  BY <1>1, <2>1, <2>2, Less
<1>4. CASE LateOutcome(i)
  <2>1. Open(r, s)' \in SUBSET (Open(r, s) \cup {i})
    BY <1>2 DEF Open
  <2>2. late' = late + 1 /\ late \in Nat
    BY <1>4, ReviewAssumption DEF LateOutcome, Typed, TypeOK
  <2>3. /\ IsFiniteSet(Open(r, s) \cup {i})
        /\ Cardinality(Open(r, s) \cup {i}) <= Cardinality(Open(r, s)) + 1
    <3>1. IsFiniteSet(Open(r, s)) /\ Cardinality(Open(r, s)) \in Nat
      BY Finite
    <3>2. /\ IsFiniteSet(Open(r, s) \cup {i})
          /\ \/ Cardinality(Open(r, s) \cup {i}) = Cardinality(Open(r, s))
             \/ Cardinality(Open(r, s) \cup {i}) = Cardinality(Open(r, s)) + 1
      BY <3>1, FS_AddElement
    <3>. QED  BY <3>1, <3>2
  <2>4. /\ IsFiniteSet(Open(r, s)')
        /\ Cardinality(Open(r, s)') <= Cardinality(Open(r, s) \cup {i})
    BY <2>1, <2>3, FS_Subset
  <2>5. Cardinality(Open(r, s)') \in Nat /\ Cardinality(Open(r, s) \cup {i}) \in Nat
    BY <2>3, <2>4, FS_CardinalityType
  <2>6. Cardinality(Open(r, s)') + Cardinality(Inserting(r, s)) <= Cardinality(Scrubs) + (late + 1)
    BY <2>2, <2>3, <2>4, <2>5, Finite DEF RoomLeft
  <2>. QED  BY <1>1, <2>2, <2>6 DEF RoomLeft
<1>. QED  BY <1>3, <1>4

LEMMA RoomLeftNext ==
    ASSUME Typed, [Next]_vars, NEW r \in Records, NEW s \in Strategies, RoomLeft(r, s)
    PROVE  RoomLeft(r, s)'
<1>1. CASE acts' = acts /\ scrub' = scrub /\ late' = late
  BY <1>1 DEF scrub, RoomLeft, Open, Inserting
<1>2. CASE UNCHANGED vars
  BY <1>1, <1>2 DEF vars
<1>3. CASE Watchdog \/ Tomorrow
  BY <1>1, <1>3 DEF Watchdog, FindStale, FindPast, WatchdogFails, WatchdogReturns, MarkPending, Tomorrow
<1>4. ASSUME NEW q \in Records, SaveFinding(q) \/ VerifyRemoved(q) PROVE RoomLeft(r, s)'
  BY <1>1, <1>4 DEF SaveFinding, VerifyRemoved
<1>. QED  BY <1>2, <1>3, <1>4, RoomLeftScrub, RoomLeftMarked DEF Next

AllRoom == \A r \in Records, s \in Strategies : RoomLeft(r, s)

LEMMA InitRoom == Init => AllRoom
<1>. SUFFICES ASSUME Init, NEW r \in Records, NEW s \in Strategies PROVE RoomLeft(r, s)
  BY DEF AllRoom
<1>1. Open(r, s) = {} /\ Inserting(r, s) = {} /\ late = 0
  BY DEF Init, Open, Inserting
<1>2. Cardinality(Open(r, s)) = 0 /\ Cardinality(Inserting(r, s)) = 0
  BY <1>1, FS_EmptySet
<1>3. Cardinality(Scrubs) \in Nat
  BY ReviewAssumption, FS_CardinalityType
<1>. QED  BY <1>1, <1>2, <1>3 DEF RoomLeft

\* Scrubs that run together queue one listing at most as often as there are scrubs, not counting
\* the actions a late outcome reopened (scrub.go queueAction).
THEOREM OpenBounded == Spec => []BoundedOpen
<1>1. Typed /\ AllRoom /\ [Next]_vars => AllRoom'
  BY RoomLeftNext DEF AllRoom
<1>2. Typed /\ AllRoom => BoundedOpen
  <2>. SUFFICES ASSUME Typed, AllRoom, NEW r \in Records, NEW s \in Strategies
                PROVE  Cardinality(Open(r, s)) <= Cardinality(Scrubs) + late
    BY DEF BoundedOpen
  <2>1. late \in Nat
    BY ReviewAssumption DEF Typed, TypeOK
  <2>. QED  BY <2>1, Finite DEF AllRoom, RoomLeft
<1>. QED  BY InitRoom, <1>1, <1>2, TypedAlways, PTL DEF Spec

-----------------------------------------------------------------------------
(***************************************************************************)
(* PendingOnlyDue: what the watchdog has in hand is still due, or somebody *)
(* wrote it since the query.                                               *)
(***************************************************************************)
IsDue(r) ==
    /\ Status(r) = "VERIFIED_REMOVED"
    /\ \/ Over(rec[r].seen, Window + 1)
       \/ \E i \in DOMAIN acts :
             acts[i].of = r /\ acts[i].completed /\ Over(acts[i].on, Repop[r])

StillDue == dog # "idle" => \A r \in due \ touched : IsDue(r)

\* What a step leaves alone of the watchdog's business, unless it asks anew.
Quiet ==
    /\ touched \subseteq touched' /\ due' \subseteq due /\ today <= today'
    /\ dog' # "idle" => dog # "idle"
    /\ \A r \in Records \ touched' : rec'[r] = rec[r]
    /\ DOMAIN acts \subseteq DOMAIN acts'
    /\ \A i \in DOMAIN acts : acts[i].of \notin touched' => acts'[i] = acts[i]

LEMMA QuietSteps == ASSUME Typed, [Next]_vars PROVE FindStale \/ FindPast \/ Quiet
<1>. USE DEF Quiet
<1>1. today \in Nat
  BY ReviewAssumption DEF Typed, TypeOK
<1>2. CASE UNCHANGED vars
  BY <1>1, <1>2 DEF vars
<1>3. ASSUME NEW p \in Scrubs, Queue(p) PROVE Quiet
  <2>1. task[p].of \in Records /\ task[p].strategy \in Strategies
    BY <1>3 DEF Queue, Typed, TypeOK, AtListing
  <2>2. \A i \in DOMAIN acts : acts'[i] = acts[i]
    BY <1>3, <2>1, Appended DEF Queue, Typed
  <2>3. DOMAIN acts \subseteq DOMAIN acts'
    BY ActsOnlyGrow DEF ActsGrow
  <2>. QED  BY <1>1, <1>3, <2>2, <2>3 DEF Queue
<1>4. ASSUME NEW p \in Scrubs, Scrub(p), ~Queue(p) PROVE Quiet
  <2>1. acts' = acts /\ UNCHANGED <<today, dog, due>>
    BY <1>4 DEF Scrub, ListExposed, ScrubReturns, CheckOpen, Approve, ApproveFails, ScrubFails,
       NextRecord, BrokerUnread
  <2>2. (rec' = rec /\ touched' = touched)
        \/ SetExposedStatus(task[p].of, "APPROVED_FOR_SCRUB")
    BY <1>4 DEF Scrub, ListExposed, ScrubReturns, CheckOpen, Approve, ApproveFails, ScrubFails,
       NextRecord, BrokerUnread
  <2>3. touched \subseteq touched' /\ \A r \in Records \ touched' : rec'[r] = rec[r]
    BY <2>2 DEF SetExposedStatus, Typed, TypeOK
  <2>. QED  BY <1>1, <2>1, <2>3
<1>5. CASE Watchdog
  BY <1>1, <1>5 DEF Watchdog, WatchdogFails, WatchdogReturns, MarkPending, SetExposedStatus, Typed,
     TypeOK
<1>6. ASSUME NEW r \in Records, SaveFinding(r) \/ VerifyRemoved(r) PROVE Quiet
  BY <1>1, <1>6 DEF SaveFinding, VerifyRemoved, SetExposedStatus, Typed, TypeOK
<1>7. ASSUME NEW i \in DOMAIN acts, CompleteAction(i) \/ LateOutcome(i) PROVE Quiet
  <2>1. \A j \in DOMAIN acts \ {i} : acts'[j] = acts[j]
    BY <1>7, Marked DEF Typed
  <2>2. DOMAIN acts \subseteq DOMAIN acts'
    BY ActsOnlyGrow DEF ActsGrow
  <2>3. touched' = touched \cup {acts[i].of}
    BY <1>7 DEF CompleteAction, LateOutcome
  <2>. QED  BY <1>1, <1>7, <2>1, <2>2, <2>3 DEF CompleteAction, LateOutcome
<1>8. CASE Tomorrow
  BY <1>1, <1>8 DEF Tomorrow
<1>. QED  BY <1>2, <1>3, <1>4, <1>5, <1>6, <1>7, <1>8 DEF Next

LEMMA StillDueNext == ASSUME Typed, [Next]_vars, StillDue PROVE StillDue'
<1>1. /\ today \in Nat /\ today' \in Nat /\ Window \in Nat /\ Repop \in [Records -> Nat]
      /\ due \subseteq Records /\ due' \subseteq Records
      /\ \A r \in Records : rec[r].seen \in Int
      /\ \A i \in DOMAIN acts : acts[i].on \in Int
  <2>1. today \in Nat /\ today' \in Nat /\ due \subseteq Records /\ due' \subseteq Records
    BY NextTyped, ReviewAssumption DEF Typed, TypeOK
  <2>2. \A r \in Records : rec[r].seen \in Int
    BY ReviewAssumption DEF Typed, TypeOK
  <2>3. \A a \in Actions : a.on \in Int
    BY ReviewAssumption DEF Actions, Never
  <2>4. \A i \in DOMAIN acts : acts[i] \in Actions
    <3>1. acts \in Seq(Actions)
      BY DEF Typed, TypeOK, Actions
    <3>. QED  BY <3>1
  <2>5. \A i \in DOMAIN acts : acts[i].on \in Int
    BY <2>3, <2>4
  <2>6. Window \in Nat /\ Repop \in [Records -> Nat]
    BY ReviewAssumption
  <2>. QED  BY <2>1, <2>2, <2>5, <2>6
<1>2. CASE FindStale
  <2>1. ASSUME NEW r \in due' PROVE IsDue(r)'
    BY <1>1, <1>2, <2>1 DEF FindStale, StaleVerified, IsDue, Over, Status
  <2>. QED  BY <2>1 DEF StillDue
<1>3. CASE FindPast
  <2>1. ASSUME NEW r \in due' PROVE IsDue(r)'
    BY <1>1, <1>3, <2>1 DEF FindPast, CompletedPastRepopulation, IsDue, Over, Status
  <2>. QED  BY <2>1 DEF StillDue
<1>4. CASE Quiet /\ dog' # "idle"
  <2>1. ASSUME NEW r \in due' \ touched' PROVE IsDue(r)'
    <3>1. r \in Records /\ IsDue(r) /\ rec'[r] = rec[r] /\ today <= today'
      BY <1>1, <1>4 DEF Quiet, StillDue
    <3>2. CASE Over(rec[r].seen, Window + 1)
      <4>1. today' - rec'[r].seen >= Window + 1
        BY <1>1, <3>1, <3>2 DEF Over
      <4>. QED  BY <3>1, <4>1 DEF IsDue, Over, Status
    <3>3. CASE \E i \in DOMAIN acts :
                  acts[i].of = r /\ acts[i].completed /\ Over(acts[i].on, Repop[r])
      <4>1. PICK i \in DOMAIN acts :
                   acts[i].of = r /\ acts[i].completed /\ Over(acts[i].on, Repop[r])
        BY <3>3
      <4>2. i \in DOMAIN acts' /\ acts'[i] = acts[i]
        BY <1>4, <4>1 DEF Quiet
      <4>3. Repop[r] \in Int /\ acts[i].on \in Int
        BY <1>1, <3>1
      <4>4. today' - acts'[i].on >= Repop[r]
        BY <1>1, <3>1, <4>1, <4>2, <4>3 DEF Over
      <4>. QED  BY <3>1, <4>1, <4>2, <4>4 DEF IsDue, Over, Status
    <3>. QED  BY <3>1, <3>2, <3>3 DEF IsDue
  <2>. QED  BY <2>1 DEF StillDue
<1>. QED  BY <1>2, <1>3, <1>4, QuietSteps DEF StillDue

\* The watchdog asks only for what is verified and whose window is over, unless somebody wrote the
\* listing or its actions after its query (scrub.go Watchdog, repository.go StaleVerified,
\* CompletedPastRepopulation).
THEOREM AsksOnlyDue == Spec => PendingOnlyDue
<1>1. Init => StillDue
  BY DEF Init, StillDue
<1>2. Typed /\ StillDue /\ [Next]_vars => StillDue'
  BY StillDueNext
<1>3. Typed /\ StillDue /\ [Next]_vars =>
        [\A r \in Records : MarkPending(r) /\ r \notin touched =>
          /\ Status(r) = "VERIFIED_REMOVED"
          /\ \/ Over(rec[r].seen, Window + 1)
             \/ \E i \in DOMAIN acts :
                   acts[i].of = r /\ acts[i].completed /\ Over(acts[i].on, Repop[r])]_vars
  BY DEF StillDue, IsDue, MarkPending
<1>. QED  BY <1>1, <1>2, <1>3, TypedAlways, PTL DEF Spec, PendingOnlyDue
=============================================================================
