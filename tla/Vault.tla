------------------------------- MODULE Vault -------------------------------
(***************************************************************************)
(* The encrypted store.  Several processes open one database; each of them *)
(* makes the vault or unlocks it, holds the data key in memory while its   *)
(* goroutines save findings, and wipes the key when it closes.  A finding  *)
(* is sealed with the key, bound to the id of the row it is meant for.     *)
(***************************************************************************)
EXTENDS FiniteSets

CONSTANTS
    Procs,       \* processes that open the vault
    Daemons,     \* those that close it while their goroutines are at work
    Workers,     \* goroutines that save findings
    Proc,        \* Proc[w]: the process worker w belongs to
    Listings,    \* pairs of an identity and a broker
    Unseeded,    \* those whose broker is in no registry
    Ids,         \* ids of rows
    Wiped,       \* the key after its bytes were overwritten
    None         \* no key, no row, no id, no listing

Keys == Procs \cup {Wiped}

Blobs == [key : Keys, id : Ids]

Rows == [id : Ids, blob : Blobs]

ASSUME VaultAssumption ==
    /\ Daemons \subseteq Procs /\ Unseeded \subseteq Listings
    /\ Proc \in [Workers -> Procs]
    /\ None \notin Procs \cup Listings \cup Ids \cup {Wiped}
    /\ None \notin Blobs /\ None \notin Rows
    /\ Wiped \notin Procs

VARIABLES
    envelope,   \* the process whose key the stored envelope wraps
    row,        \* row[l]: the exposed record of listing l
    used,       \* ids that were ever drawn
    stage,      \* stage[p]: how far process p is
    key,        \* key[p]: Store.dek
    at,         \* at[w]: the statement of SaveFinding worker w is before
    job         \* job[w]: its listing, the id it took, the sealed details,
                \*   and (history) whether it had the listing for itself

store == <<envelope, row, used>>
vars  == <<store, stage, key, at, job>>

Jobs == [listing : Listings \cup {None}, id : Ids \cup {None}, blob : Blobs \cup {None},
         alone : BOOLEAN]

Stages == {"off", "open", "making", "unlocked", "wiped", "locked"}

NoJob == [listing |-> None, id |-> None, blob |-> None, alone |-> FALSE]

Busy(p) == \E w \in Workers : Proc[w] = p /\ at[w] # "idle"

-----------------------------------------------------------------------------
(***************************************************************************)
(* Opening, making and unlocking the vault.                                *)
(***************************************************************************)
Goto(p, s) == stage' = [stage EXCEPT ![p] = s]

Open(p) ==
    /\ stage[p] = "off"
    /\ Goto(p, "open")
    /\ UNCHANGED <<store, key, at, job>>

\* InitVault's check, which is not part of its transaction.
Initialized(p) ==
    /\ stage[p] = "open" /\ envelope = None
    /\ Goto(p, "making")
    /\ UNCHANGED <<store, key, at, job>>

\* Mutant: what is there is overwritten.
InitVaultReplacing(p) ==
    /\ stage[p] = "making"
    /\ envelope' = p
    /\ key' = [key EXCEPT ![p] = p]
    /\ Goto(p, "unlocked")
    /\ UNCHANGED <<row, used, at, job>>

\* The transaction: seven rows, and a primary key that refuses a second set.
InitVault(p) ==
    /\ stage[p] = "making" /\ envelope = None
    /\ envelope' = p
    /\ key' = [key EXCEPT ![p] = p]
    /\ Goto(p, "unlocked")
    /\ UNCHANGED <<row, used, at, job>>

Unlock(p) ==
    /\ stage[p] = "open" /\ envelope # None
    /\ key' = [key EXCEPT ![p] = envelope]
    /\ Goto(p, "unlocked")
    /\ UNCHANGED <<store, at, job>>

\* A wrong password, a vault that is there already or not yet, a failing statement.
GiveUp(p) ==
    /\ stage[p] \in {"open", "making"}
    /\ Goto(p, "off")
    /\ UNCHANGED <<store, key, at, job>>

(***************************************************************************)
(* Closing it: the key's bytes are overwritten, then forgotten, then the   *)
(* database is closed.  Only a daemon does so with goroutines at work.     *)
(***************************************************************************)
Wipe(p) ==
    /\ stage[p] = "unlocked" /\ (Busy(p) => p \in Daemons)
    /\ key' = [key EXCEPT ![p] = Wiped]
    /\ Goto(p, "wiped")
    /\ job' = [w \in Workers |-> IF Proc[w] = p THEN [job[w] EXCEPT !.alone = FALSE] ELSE job[w]]
    /\ UNCHANGED <<store, at>>

Lock(p) ==
    /\ stage[p] = "wiped"
    /\ key' = [key EXCEPT ![p] = None]
    /\ Goto(p, "locked")
    /\ UNCHANGED <<store, at, job>>

\* The process is over, after closing the database or killed at any moment.
End(p) ==
    /\ stage[p] # "off"
    /\ key' = [key EXCEPT ![p] = None]
    /\ Goto(p, "off")
    /\ at' = [w \in Workers |-> IF Proc[w] = p THEN "idle" ELSE at[w]]
    /\ job' = [w \in Workers |-> IF Proc[w] = p THEN NoJob ELSE job[w]]
    /\ UNCHANGED store

(***************************************************************************)
(* SaveFinding.                                                            *)
(***************************************************************************)
Saving(l) == {w \in Workers : job[w].listing = l}

Rest(w) == at' = [at EXCEPT ![w] = "idle"] /\ job' = [job EXCEPT ![w] = NoJob]

\* A scan or a footprint gets to the listing.
Begin(w, l) ==
    /\ at[w] = "idle" /\ stage[Proc[w]] = "unlocked"
    /\ at' = [at EXCEPT ![w] = "lookup"]
    /\ job' = [v \in Workers |->
                 IF v = w THEN [NoJob EXCEPT !.listing = l, !.alone = Saving(l) = {}]
                 ELSE [job[v] EXCEPT !.alone = @ /\ job[v].listing # l]]
    /\ UNCHANGED <<store, stage, key>>

\* Mutant: the id is always a new one.
DrawId(w) ==
    /\ at[w] = "lookup"
    /\ \E i \in Ids \ used :
          used' = used \cup {i} /\ job' = [job EXCEPT ![w].id = i]
    /\ at' = [at EXCEPT ![w] = "seal"]
    /\ UNCHANGED <<envelope, row, stage, key>>

\* The id of the row that is there, or a new one.
LookupExposedID(w) ==
    /\ at[w] = "lookup"
    /\ IF row[job[w].listing] # None
       THEN job' = [job EXCEPT ![w].id = row[job[w].listing].id] /\ UNCHANGED used
       ELSE \E i \in Ids \ used :
               used' = used \cup {i} /\ job' = [job EXCEPT ![w].id = i]
    /\ at' = [at EXCEPT ![w] = "seal"]
    /\ UNCHANGED <<envelope, row, stage, key>>

\* Mutant: the key is not asked for.
EncryptAnyway(w) ==
    /\ at[w] = "seal"
    /\ job' = [job EXCEPT ![w].blob = [key |-> key[Proc[w]], id |-> job[w].id]]
    /\ at' = [at EXCEPT ![w] = "again"]
    /\ UNCHANGED <<store, stage, key>>

\* The bytes are read while Lock may be overwriting them: anything but the key is Wiped.
EncryptJSON(w) ==
    /\ at[w] = "seal" /\ key[Proc[w]] # None
    /\ job' = [job EXCEPT ![w].blob = [key |-> key[Proc[w]], id |-> job[w].id]]
    /\ at' = [at EXCEPT ![w] = "again"]
    /\ UNCHANGED <<store, stage, key>>

\* UpsertExposed's own look-up: an existing row's id replaces the one the details are bound to.
LookupAgain(w) ==
    /\ at[w] = "again"
    /\ IF row[job[w].listing] # None
       THEN /\ job' = [job EXCEPT ![w].id = row[job[w].listing].id]
            /\ at' = [at EXCEPT ![w] = "update"]
       ELSE at' = [at EXCEPT ![w] = "insert"] /\ UNCHANGED job
    /\ UNCHANGED <<store, stage, key>>

Put(w) == row' = [row EXCEPT ![job[w].listing] = [id |-> job[w].id, blob |-> job[w].blob]]

Update(w) ==
    /\ at[w] = "update"
    /\ Put(w) /\ Rest(w)
    /\ UNCHANGED <<envelope, used, stage, key>>

\* Mutant: INSERT OR REPLACE.
InsertReplacing(w) ==
    /\ at[w] = "insert" /\ job[w].listing \notin Unseeded
    /\ Put(w) /\ Rest(w)
    /\ UNCHANGED <<envelope, used, stage, key>>

\* The table wants one row per listing and a broker it knows.
Insert(w) ==
    /\ at[w] = "insert" /\ row[job[w].listing] = None /\ job[w].listing \notin Unseeded
    /\ Put(w) /\ Rest(w)
    /\ UNCHANGED <<envelope, used, stage, key>>

\* A refused insert, a locked store, a closed database, a cancelled context.
Abort(w) ==
    /\ at[w] # "idle"
    /\ Rest(w)
    /\ UNCHANGED <<store, stage, key>>

Write(w) == Update(w) \/ Insert(w)

-----------------------------------------------------------------------------
Init ==
    /\ envelope = None /\ used = {}
    /\ row = [l \in Listings |-> None]
    /\ stage = [p \in Procs |-> "off"] /\ key = [p \in Procs |-> None]
    /\ at = [w \in Workers |-> "idle"] /\ job = [w \in Workers |-> NoJob]

Process(p) ==
    \/ Open(p) \/ Initialized(p) \/ InitVault(p) \/ Unlock(p) \/ GiveUp(p)
    \/ Wipe(p) \/ Lock(p) \/ End(p)

SaveFinding(w) ==
    \/ \E l \in Listings : Begin(w, l)
    \/ LookupExposedID(w) \/ EncryptJSON(w) \/ LookupAgain(w) \/ Write(w) \/ Abort(w)

Next == (\E p \in Procs : Process(p)) \/ (\E w \in Workers : SaveFinding(w))

Spec == Init /\ [][Next]_vars

-----------------------------------------------------------------------------
TypeOK ==
    /\ envelope \in Procs \cup {None}
    /\ row \in [Listings -> Rows \cup {None}]
    /\ used \subseteq Ids
    /\ stage \in [Procs -> Stages]
    /\ key \in [Procs -> Keys \cup {None}]
    /\ at \in [Workers -> {"idle", "lookup", "seal", "again", "update", "insert"}]
    /\ job \in [Workers -> Jobs]

Opens(l) == row[l].blob = [key |-> envelope, id |-> row[l].id]

\* Whatever processes make, unlock and close the vault together, a key in memory is the one the
\* stored envelope wraps, or overwritten (repository.go InitVault, Unlock, Lock).
OneKey == \A p \in Procs : key[p] \in {None, Wiped, envelope}

\* A save that had its listing for itself, in a process that was not closing, leaves details the
\* vault's key opens, whatever was in the row before (repository.go SaveFinding, UpsertExposed).
SavedAlone ==
    [][\A w \in Workers, l \in Listings :
          Write(w) /\ job[w].listing = l /\ job[w].alone => Opens(l)']_vars

\* The id of a listing never changes, and no two listings share one: what was bound to it stays
\* bound (repository.go UpsertExposed).
RowsStay ==
    [][\A l \in Listings : row[l] # None =>
          /\ row'[l] # None /\ row'[l].id = row[l].id
          /\ \A m \in Listings \ {l} : row'[m] # None => row'[m].id # row[l].id]_vars

\* "SaveFinding encrypts details under the stable exposed-record id, then upserts."
\* (repository.go SaveFinding): what a row holds is bound to the row's own id.
BoundToRow == \A l \in Listings : row[l] # None => row[l].blob.id = row[l].id
=============================================================================
