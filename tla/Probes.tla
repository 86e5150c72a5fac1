------------------------------- MODULE Probes -------------------------------
(***************************************************************************)
(* Two fan-outs of the same shape: a username probed at every site of the  *)
(* footprint list, and every address looked up in Have I Been Pwned.  The  *)
(* caller starts one goroutine per item, no more at a time than there are  *)
(* slots; each appends its result to a list under a mutex, and the caller  *)
(* waits for all of them.                                                  *)
(***************************************************************************)
EXTENDS Naturals, Sequences, FiniteSets

CONSTANTS
    Items,      \* the sites or the addresses, in the order of their list
    Slots       \* max_concurrent, or two for the addresses

ASSUME ProbesAssumption == Items \in Seq(STRING) /\ Slots \in Nat \ {0}

VARIABLES
    kind,       \* "footprint" or "breaches"
    caller,     \* the statement the caller is before
    next,       \* how many items it has come to
    taken,      \* how many slots are taken
    routine,    \* routine[i]: the goroutine of item i
    mutex,      \* the goroutine that holds the mutex, or 0
    answer,     \* answer[i]: what goroutine i found out
    slice,      \* slice[i]: the list as goroutine i read it, to append to
    results,    \* the list of the results: an item and an answer each
    persist,    \* whether found profiles are to be saved
    report      \* what the caller returned

pvars == <<kind, caller, next, taken, routine, mutex, answer, slice, results, persist, report>>

Names == 1..Len(Items)

-----------------------------------------------------------------------------
(***************************************************************************)
(* One item.                                                               *)
(***************************************************************************)
\* A response, as far as it is looked at: the class of its status, whether the body or the final
\* address has an error marker of the site, whether that address has the username.
Responses == [class : {"success", "absent", "failure"}, marker : BOOLEAN, named : BOOLEAN]

ErrorTypes == {"message", "response_url", "status_code"}

ProbeOne(type, r) ==
    CASE type = "message"      -> IF r.marker THEN "NOT_FOUND" ELSE "FOUND"
      [] type = "response_url" -> IF r.marker \/ ~r.named THEN "NOT_FOUND" ELSE "FOUND"
      [] type = "status_code"  -> IF r.class = "absent" THEN "NOT_FOUND"
                                  ELSE IF r.class = "success" THEN "FOUND" ELSE "ERROR"

\* Found breaches, none (a 404), or an error: a rate limit, another status, no JSON.
OneEmail(r) ==
    CASE r.class = "absent"  -> "NOT_FOUND"
      [] r.class = "success" -> IF r.marker THEN "ERROR" ELSE "FOUND"
      [] r.class = "failure" -> "ERROR"

\* Without a response, after an error of the connection or a cancelled context, an error.
Answers ==
    {"ERROR"} \cup
    IF kind = "footprint" THEN {ProbeOne(t, r) : t \in ErrorTypes, r \in Responses}
                          ELSE {OneEmail(r) : r \in Responses}

-----------------------------------------------------------------------------
(***************************************************************************)
(* The goroutines.                                                         *)
(***************************************************************************)
Become(i, s) == routine' = [routine EXCEPT ![i] = s]

Request(i) ==
    /\ routine[i] = "started" /\ Become(i, "answered")
    /\ \E a \in Answers : answer' = [answer EXCEPT ![i] = <<i, a>>]
    /\ UNCHANGED <<kind, caller, next, taken, mutex, slice, results, persist, report>>

\* Mutant: the lock is forgotten.
ReadUnlocked(i) ==
    /\ routine[i] = "answered" /\ Become(i, "holding")
    /\ slice' = [slice EXCEPT ![i] = results]
    /\ UNCHANGED <<kind, caller, next, taken, mutex, answer, results, persist, report>>

\* out = append(out, res) reads the list, and then writes the longer one.
LockResults(i) ==
    /\ routine[i] = "answered" /\ mutex = 0
    /\ mutex' = i /\ Become(i, "holding")
    /\ slice' = [slice EXCEPT ![i] = results]
    /\ UNCHANGED <<kind, caller, next, taken, answer, results, persist, report>>

AppendResult(i) ==
    /\ routine[i] = "holding" /\ Become(i, "appended")
    /\ results' = Append(slice[i], answer[i]) /\ mutex' = 0
    /\ slice' = [slice EXCEPT ![i] = <<>>]
    /\ UNCHANGED <<kind, caller, next, taken, answer, persist, report>>

\* Mutant: only a probe that worked gives its slot back.
ReleaseOnSuccess(i) ==
    /\ routine[i] = "appended" /\ Become(i, "done")
    /\ taken' = IF answer[i][2] = "ERROR" THEN taken ELSE taken - 1
    /\ UNCHANGED <<kind, caller, next, mutex, answer, slice, results, persist, report>>

\* The deferred calls: the slot first, then the wait group.
Release(i) ==
    /\ routine[i] = "appended" /\ Become(i, "done")
    /\ taken' = taken - 1
    /\ UNCHANGED <<kind, caller, next, mutex, answer, slice, results, persist, report>>

Routine(i) == Request(i) \/ LockResults(i) \/ AppendResult(i) \/ Release(i)

-----------------------------------------------------------------------------
(***************************************************************************)
(* The caller.                                                             *)
(***************************************************************************)
\* nulltrace footprint, or the look-up that a scan begins with.
Begin ==
    /\ caller = "idle" /\ caller' = "loop"
    /\ kind' \in {"footprint", "breaches"} /\ persist' \in BOOLEAN
    /\ UNCHANGED <<next, taken, routine, mutex, answer, slice, results, report>>

\* Mutant: all goroutines at once.
SpawnAll ==
    /\ caller = "loop" /\ next < Len(Items)
    /\ next' = next + 1 /\ taken' = taken + 1
    /\ Become(next + 1, "started")
    /\ UNCHANGED <<kind, caller, mutex, answer, slice, results, persist, report>>

\* The slot is taken before the goroutine exists.
Spawn ==
    /\ caller = "loop" /\ next < Len(Items) /\ taken < Slots
    /\ next' = next + 1 /\ taken' = taken + 1
    /\ Become(next + 1, "started")
    /\ UNCHANGED <<kind, caller, mutex, answer, slice, results, persist, report>>

Wait ==
    /\ caller = "loop" /\ next = Len(Items)
    /\ \A i \in Names : routine[i] = "done"
    /\ caller' = "report"
    /\ UNCHANGED <<kind, next, taken, routine, mutex, answer, slice, results, persist, report>>

Some(status) == \E i \in DOMAIN results : results[i][2] = status

\* One address that failed fails the look-up, and the scan with it.  Profiles are saved if the
\* store is unlocked: without an identity that fails, and a profile that was found is refused by
\* the database, as its broker is in no registry; with it goes the audit event, not the result.
Report ==
    /\ caller = "report" /\ caller' = "over"
    /\ \E locked, identity \in BOOLEAN :
          report' = IF kind = "breaches" THEN IF Some("ERROR") THEN "failed" ELSE "complete"
                    ELSE IF persist /\ ~locked /\ (~identity \/ Some("FOUND")) THEN "unsaved"
                                                                               ELSE "complete"
    /\ UNCHANGED <<kind, next, taken, routine, mutex, answer, slice, results, persist>>

PInit ==
    /\ kind = "footprint" /\ persist = FALSE
    /\ caller = "idle" /\ next = 0 /\ taken = 0 /\ mutex = 0
    /\ routine = [i \in Names |-> "none"] /\ answer = [i \in Names |-> <<>>]
    /\ slice = [i \in Names |-> <<>>]
    /\ results = <<>> /\ report = "none"

PNext == Begin \/ Spawn \/ Wait \/ Report \/ \E i \in Names : Routine(i)

\* Goroutines run, and every request has the client's timeout.
PFairness == WF_pvars(Spawn) /\ WF_pvars(Wait) /\ WF_pvars(Report) /\ \A i \in Names : WF_pvars(Routine(i))

PSpec == PInit /\ [][PNext]_pvars /\ PFairness

-----------------------------------------------------------------------------
ProbesOK ==
    /\ kind \in {"footprint", "breaches"} /\ persist \in BOOLEAN
    /\ caller \in {"idle", "loop", "report", "over"}
    /\ next \in 0..Len(Items) /\ taken \in 0..Slots /\ mutex \in {0} \cup Names
    /\ slice \in [Names -> Seq(Names \X {"FOUND", "NOT_FOUND", "ERROR"})]
    /\ routine \in [Names -> {"none", "started", "answered", "holding", "appended", "done"}]
    /\ report \in {"none", "complete", "failed", "unsaved"}

\* However the goroutines interleave, what is returned has every item once and nothing else, and
\* a breach look-up that is called complete has an answer for every address
\* (footprint.go Probe, coordinator.go CheckBreaches).
EveryItemOnce ==
    caller \in {"report", "over"} =>
        /\ Len(results) = Len(Items)
        /\ {results[i][1] : i \in DOMAIN results} = Names
        /\ kind = "breaches" /\ report = "complete" => ~Some("ERROR")

\* No slot is lost: the caller, which waits for slots and for goroutines, returns
\* (footprint.go Probe, coordinator.go CheckBreaches).
ProbeReturns == caller = "loop" ~> caller = "over"
=============================================================================
