---------------------------- MODULE VaultProofs ----------------------------
(***************************************************************************)
(* Vault for every set of processes, goroutines and listings: keys in      *)
(* memory agree with the stored envelope, rows keep their ids, and what a  *)
(* save without a rival stored can be opened.                              *)
(***************************************************************************)
EXTENDS Vault, TLAPS

Sealed == {"again", "update", "insert"}

Chosen == {"seal"} \cup Sealed

\* An unlocked process holds the key of an envelope that is stored.
Holds == \A p \in Procs : stage[p] = "unlocked" => envelope # None /\ key[p] = envelope

\* A worker that is at work has a listing, and from its first look-up on an id.
HasJob ==
    \A w \in Workers :
        /\ at[w] = "idle" <=> job[w].listing = None
        /\ at[w] = "idle" => job[w].id = None /\ ~job[w].alone
        /\ at[w] \in Chosen => job[w].id # None
        /\ at[w] \in Sealed => job[w].blob # None

\* An id is drawn once, and serves one listing.
OneListing ==
    /\ \A l \in Listings : row[l] # None => row[l].id \in used
    /\ \A w \in Workers : job[w].id # None => job[w].id \in used
    /\ \A l, m \in Listings : row[l] # None /\ row[m] # None /\ row[l].id = row[m].id => l = m
    /\ \A w \in Workers, l \in Listings :
          row[l] # None /\ job[w].id = row[l].id => job[w].listing = l
    /\ \A v, w \in Workers :
          job[v].id # None /\ job[v].id = job[w].id => job[v].listing = job[w].listing

\* Who is about to update has the id of the row.
Updates ==
    \A w \in Workers : at[w] = "update" =>
        row[job[w].listing] # None /\ row[job[w].listing].id = job[w].id

\* A worker that has its listing for itself works with what is there and the vault's key.
Alone ==
    \A w \in Workers : job[w].alone =>
        /\ stage[Proc[w]] = "unlocked"
        /\ \A v \in Workers \ {w} : job[v].listing # job[w].listing
        /\ at[w] \in Chosen /\ row[job[w].listing] # None => row[job[w].listing].id = job[w].id
        /\ at[w] \in Sealed => job[w].blob = [key |-> envelope, id |-> job[w].id]

JobInv == HasJob /\ OneListing /\ Updates /\ Alone

IInv == TypeOK /\ OneKey /\ Holds /\ JobInv

-----------------------------------------------------------------------------
LEMMA InitInv == Init => IInv
BY VaultAssumption DEF Init, IInv, JobInv, TypeOK, OneKey, Holds, HasJob, OneListing, Updates, Alone, Stages,
   Jobs, NoJob, Chosen, Sealed

\* A job that changes in one field is a job.
LEMMA JobFields ==
    ASSUME TypeOK, NEW w \in Workers
    PROVE  /\ \A i \in Ids : [job EXCEPT ![w].id = i] \in [Workers -> Jobs]
           /\ \A b \in Blobs : [job EXCEPT ![w].blob = b] \in [Workers -> Jobs]
<1>1. job[w] \in Jobs
  BY DEF TypeOK
<1>2. /\ \A i \in Ids : [job[w] EXCEPT !.id = i] \in Jobs
      /\ \A b \in Blobs : [job[w] EXCEPT !.blob = b] \in Jobs
  BY <1>1 DEF Jobs
<1>. QED  BY <1>2 DEF TypeOK

LEMMA ProcessTypes ==
    ASSUME TypeOK, NEW p \in Procs, Process(p)
    PROVE  TypeOK'
<1>1. CASE Open(p) \/ Initialized(p) \/ GiveUp(p)
  BY <1>1 DEF TypeOK, Open, Initialized, GiveUp, Goto, Stages, store
<1>2. CASE InitVault(p)
  BY <1>2 DEF TypeOK, InitVault, Goto, Stages, Keys
<1>3. CASE Unlock(p)
  BY <1>3 DEF TypeOK, Unlock, Goto, Stages, Keys, store
<1>4. CASE Wipe(p)
  <2>1. job' \in [Workers -> Jobs]
    BY <1>4, ZenonT(30) DEF TypeOK, Wipe, Jobs
  <2>. QED  BY <1>4, <2>1 DEF TypeOK, Wipe, Goto, Stages, Keys, store
<1>5. CASE Lock(p)
  BY <1>5 DEF TypeOK, Lock, Goto, Stages, Keys, store
<1>6. CASE End(p)
  BY <1>6 DEF TypeOK, End, Goto, Stages, Keys, store, NoJob, Jobs
<1>. QED  BY <1>1, <1>2, <1>3, <1>4, <1>5, <1>6 DEF Process

LEMMA SaveTypes ==
    ASSUME TypeOK, HasJob, Updates, NEW w \in Workers, SaveFinding(w)
    PROVE  TypeOK'
<1>1. CASE \E l \in Listings : Begin(w, l)
  <2>1. PICK l \in Listings : Begin(w, l)
    BY <1>1
  <2>2. job' \in [Workers -> Jobs]
    BY <2>1, ZenonT(30) DEF TypeOK, Begin, Jobs, NoJob
  <2>. QED  BY <2>1, <2>2 DEF TypeOK, Begin, store
<1>2. CASE LookupExposedID(w)
  <2>1. job[w].listing \in Listings
    BY <1>2 DEF TypeOK, HasJob, LookupExposedID, Jobs
  <2>2. CASE row[job[w].listing] # None
    <3>1. row[job[w].listing].id \in Ids
      BY <2>1, <2>2 DEF TypeOK, Rows
    <3>2. [job EXCEPT ![w].id = row[job[w].listing].id] \in [Workers -> Jobs]
      BY <3>1, JobFields
    <3>. QED  BY <1>2, <2>2, <3>2 DEF TypeOK, LookupExposedID
  <2>3. CASE row[job[w].listing] = None
    <3>1. PICK i \in Ids : used' = used \cup {i} /\ job' = [job EXCEPT ![w].id = i]
      BY <1>2, <2>3 DEF LookupExposedID
    <3>2. job' \in [Workers -> Jobs]
      BY <3>1, JobFields
    <3>. QED  BY <1>2, <3>1, <3>2 DEF TypeOK, LookupExposedID
  <2>. QED  BY <2>2, <2>3
<1>3. CASE EncryptJSON(w)
  <2>1. job[w].id \in Ids /\ key[Proc[w]] \in Keys
    BY <1>3, VaultAssumption DEF TypeOK, HasJob, Chosen, EncryptJSON, Jobs
  <2>2. [key |-> key[Proc[w]], id |-> job[w].id] \in Blobs
    BY <2>1 DEF Blobs
  <2>3. job' \in [Workers -> Jobs]
    BY <1>3, <2>2, JobFields DEF EncryptJSON
  <2>. QED  BY <1>3, <2>3 DEF TypeOK, EncryptJSON, store
<1>4. CASE LookupAgain(w)
  <2>1. job[w].listing \in Listings
    BY <1>4 DEF TypeOK, HasJob, LookupAgain, Jobs
  <2>2. row[job[w].listing] # None => row[job[w].listing].id \in Ids
    BY <2>1 DEF TypeOK, Rows
  <2>3. job' \in [Workers -> Jobs]
    BY <1>4, <2>2, JobFields DEF TypeOK, LookupAgain
  <2>. QED  BY <1>4, <2>3 DEF TypeOK, LookupAgain, store
<1>5. CASE Write(w)
  <2>1. job[w].listing \in Listings /\ job[w].id \in Ids /\ job[w].blob \in Blobs
    BY <1>5 DEF TypeOK, HasJob, Write, Update, Insert, Jobs, Chosen, Sealed
  <2>2. [id |-> job[w].id, blob |-> job[w].blob] \in Rows
    BY <2>1 DEF Rows
  <2>3. row' \in [Listings -> Rows \cup {None}]
    BY <1>5, <2>2 DEF TypeOK, Write, Update, Insert, Put
  <2>4. NoJob \in Jobs
    BY DEF NoJob, Jobs
  <2>. QED  BY <1>5, <2>3, <2>4 DEF TypeOK, Write, Update, Insert, Rest
<1>6. CASE Abort(w)
  BY <1>6 DEF TypeOK, Abort, Rest, NoJob, Jobs, store
<1>. QED  BY <1>1, <1>2, <1>3, <1>4, <1>5, <1>6 DEF SaveFinding

LEMMA KeysStay ==
    ASSUME TypeOK, OneKey, Holds, Next
    PROVE  OneKey' /\ Holds'
<1>1. CASE \E p \in Procs : Process(p)
  <2>1. PICK p \in Procs : Process(p)
    BY <1>1
  <2>2. CASE Open(p) \/ Initialized(p) \/ GiveUp(p)
    BY <2>2 DEF TypeOK, OneKey, Holds, Open, Initialized, GiveUp, Goto, store
  <2>3. CASE InitVault(p)
    BY <2>3, VaultAssumption DEF TypeOK, OneKey, Holds, InitVault, Goto
  <2>4. CASE Unlock(p)
    BY <2>4 DEF TypeOK, OneKey, Holds, Unlock, Goto, store
  <2>5. CASE Wipe(p)
    BY <2>5 DEF TypeOK, OneKey, Holds, Wipe, Goto, store
  <2>6. CASE Lock(p) \/ End(p)
    BY <2>6 DEF TypeOK, OneKey, Holds, Lock, End, Goto, store
  <2>. QED  BY <2>1, <2>2, <2>3, <2>4, <2>5, <2>6 DEF Process
<1>2. CASE \E w \in Workers : SaveFinding(w)
  <2>1. UNCHANGED <<envelope, stage, key>>
    BY <1>2 DEF SaveFinding, Begin, LookupExposedID, EncryptJSON, LookupAgain, Write, Update, Insert,
       Abort, store
  <2>. QED  BY <2>1 DEF OneKey, Holds
<1>. QED  BY <1>1, <1>2 DEF Next

-----------------------------------------------------------------------------
\* What a process does leaves every job as it is, or ends it, or takes its solitude.
LEMMA ProcessSteps ==
    ASSUME TypeOK, NEW p \in Procs, Process(p)
    PROVE  /\ UNCHANGED <<row, used>>
           /\ \A w \in Workers :
                 \/ at'[w] = at[w] /\ job'[w] = job[w]
                 \/ Proc[w] = p /\ at'[w] = "idle" /\ job'[w] = NoJob
                 \/ /\ at'[w] = at[w] /\ job'[w].listing = job[w].listing /\ job'[w].id = job[w].id
                    /\ job'[w].blob = job[w].blob /\ ~job'[w].alone
<1>1. CASE Open(p) \/ Initialized(p) \/ GiveUp(p) \/ InitVault(p) \/ Unlock(p) \/ Lock(p)
  BY <1>1 DEF TypeOK, Open, Initialized, GiveUp, InitVault, Unlock, Lock, Goto, store
<1>2. CASE Wipe(p)
  <2>1. \A w \in Workers : job[w] \in Jobs
    BY DEF TypeOK
  <2>. QED  BY <1>2, <2>1 DEF Wipe, store, Jobs
<1>3. CASE End(p)
  BY <1>3 DEF TypeOK, End, Goto, store
<1>. QED  BY <1>1, <1>2, <1>3 DEF Process

LEMMA ProcessJobs ==
    ASSUME TypeOK, HasJob, OneListing, Updates, NEW p \in Procs, Process(p)
    PROVE  HasJob' /\ OneListing' /\ Updates'
<1>1. /\ UNCHANGED <<row, used>>
      /\ \A w \in Workers :
            \/ at'[w] = at[w] /\ job'[w].listing = job[w].listing /\ job'[w].id = job[w].id
               /\ job'[w].blob = job[w].blob /\ (job'[w].alone => job[w].alone)
            \/ at'[w] = "idle" /\ job'[w] = NoJob
  BY ProcessSteps
<1>2. HasJob'
  BY <1>1 DEF HasJob, NoJob, Chosen, Sealed
<1>3. OneListing'
  <2>1. \A w \in Workers : job'[w].id # None => job'[w].id = job[w].id /\ job'[w].listing = job[w].listing
    BY <1>1 DEF NoJob
  <2>2. row' = row /\ used' = used
    BY <1>1
  <2>3. \A l \in Listings : row[l] # None => row[l].id # None
    BY VaultAssumption DEF TypeOK, Rows
  <2>. QED  BY <2>1, <2>2, <2>3 DEF OneListing
<1>4. Updates'
  BY <1>1 DEF Updates
<1>. QED  BY <1>2, <1>3, <1>4

LEMMA ProcessAlone ==
    ASSUME TypeOK, Holds, HasJob, Alone, NEW p \in Procs, Process(p)
    PROVE  Alone'
<1>. SUFFICES ASSUME NEW w \in Workers, job'[w].alone
              PROVE  /\ stage'[Proc[w]] = "unlocked"
                     /\ \A v \in Workers \ {w} : job'[v].listing # job'[w].listing
                     /\ at'[w] \in Chosen /\ row'[job'[w].listing] # None
                          => row'[job'[w].listing].id = job'[w].id
                     /\ at'[w] \in Sealed => job'[w].blob = [key |-> envelope', id |-> job'[w].id]
  BY DEF Alone
<1>1. at'[w] = at[w] /\ job'[w] = job[w] /\ UNCHANGED <<row, used>>
  BY ProcessSteps DEF NoJob
<1>2. job[w].alone /\ at[w] # "idle" /\ stage[Proc[w]] = "unlocked" /\ job[w].listing # None
  BY <1>1 DEF Alone, HasJob
<1>3. \A v \in Workers : job'[v].listing = job[v].listing \/ job'[v].listing = None
  BY ProcessSteps DEF NoJob
<1>4. stage'[Proc[w]] = "unlocked"
  <2>1. CASE Proc[w] = p
    <3>1. ~Wipe(p) /\ ~End(p)
      BY <2>1, <1>1, <1>2 DEF TypeOK, Wipe, End, Jobs, NoJob
    <3>. QED  BY <2>1, <1>2, <3>1 DEF Process, Open, Initialized, GiveUp, InitVault, Unlock, Lock
  <2>2. CASE Proc[w] # p
    BY <2>2, <1>2, VaultAssumption DEF TypeOK, Process, Open, Initialized, GiveUp, InitVault, Unlock,
       Wipe, Lock, End, Goto
  <2>. QED  BY <2>1, <2>2
<1>5. UNCHANGED envelope
  <2>1. envelope # None
    BY <1>2, VaultAssumption DEF Holds
  <2>. QED  BY <2>1 DEF Process, Open, Initialized, GiveUp, InitVault, Unlock, Wipe, Lock, End, store
<1>. QED  BY <1>1, <1>2, <1>3, <1>4, <1>5 DEF Alone

-----------------------------------------------------------------------------
\* What the steps of a save leave alone.
LEMMA SaveSteps ==
    ASSUME TypeOK, NEW w \in Workers, SaveFinding(w)
    PROVE  /\ UNCHANGED <<envelope, stage, key>>
           /\ \A v \in Workers \ {w} :
                 /\ at'[v] = at[v] /\ job'[v].listing = job[v].listing /\ job'[v].id = job[v].id
                 /\ job'[v].blob = job[v].blob /\ (job'[v].alone => job[v].alone)
<1>1. \A v \in Workers : job[v] \in Jobs
  BY DEF TypeOK
<1>2. CASE \E l \in Listings : Begin(w, l)
  <2>1. PICK l \in Listings : Begin(w, l)
    BY <1>2
  <2>2. ASSUME NEW v \in Workers \ {w}
        PROVE  /\ job'[v].listing = job[v].listing /\ job'[v].id = job[v].id
               /\ job'[v].blob = job[v].blob /\ (job'[v].alone => job[v].alone)
    <3>1. job'[v] = [job[v] EXCEPT !.alone = job[v].alone /\ job[v].listing # l]
      BY <2>1, <2>2 DEF Begin
    <3>. QED  BY <1>1, <3>1 DEF Jobs
  <2>. QED  BY <2>1, <2>2 DEF TypeOK, Begin, store
<1>3. CASE LookupExposedID(w) \/ EncryptJSON(w) \/ LookupAgain(w)
  BY <1>3 DEF TypeOK, LookupExposedID, EncryptJSON, LookupAgain, store
<1>4. CASE Write(w) \/ Abort(w)
  BY <1>4 DEF TypeOK, Write, Update, Insert, Abort, Rest, store
<1>. QED  BY <1>2, <1>3, <1>4 DEF SaveFinding

LEMMA BeginJobs ==
    ASSUME TypeOK, JobInv, NEW w \in Workers, NEW l \in Listings, Begin(w, l)
    PROVE  JobInv'
<1>1. /\ at'[w] = "lookup" /\ job'[w].listing = l /\ job'[w].id = None
      /\ job'[w].alone <=> (\A v \in Workers : job[v].listing # l)
      /\ stage[Proc[w]] = "unlocked" /\ UNCHANGED <<row, used>>
  BY DEF TypeOK, Begin, NoJob, Saving, store
<1>2. \A v \in Workers \ {w} : job'[v].alone => job[v].listing # l
  <2>1. \A v \in Workers : job[v] \in Jobs
    BY DEF TypeOK
  <2>. QED  BY <2>1 DEF Begin, Jobs
<1>3. SaveFinding(w)
  BY DEF SaveFinding
<1>4. l # None
  BY VaultAssumption
<1>5. HasJob'
  BY <1>1, <1>3, <1>4, SaveSteps DEF JobInv, HasJob, Chosen, Sealed
<1>6. OneListing'
  <2>1. \A v \in Workers : job'[v].id # None =>
           job'[v].id = job[v].id /\ job'[v].listing = job[v].listing
    BY <1>1, <1>3, SaveSteps
  <2>2. \A m \in Listings : row[m] # None => row[m].id # None
    BY VaultAssumption DEF TypeOK, Rows
  <2>. QED  BY <1>1, <2>1, <2>2 DEF JobInv, OneListing
<1>7. Updates'
  BY <1>1, <1>3, SaveSteps DEF JobInv, Updates
<1>8. Alone'
  BY <1>1, <1>2, <1>3, SaveSteps DEF JobInv, Alone, Chosen, Sealed
<1>. QED  BY <1>5, <1>6, <1>7, <1>8 DEF JobInv

LEMMA LookupJobs ==
    ASSUME TypeOK, JobInv, NEW w \in Workers, LookupExposedID(w)
    PROVE  JobInv'
<1>1. /\ at[w] = "lookup" /\ at'[w] = "seal" /\ UNCHANGED row
      /\ job'[w].listing = job[w].listing /\ job'[w].alone = job[w].alone
      /\ job[w].listing \in Listings /\ job[w].listing # None
  BY VaultAssumption DEF TypeOK, JobInv, HasJob, LookupExposedID, Jobs
<1>2. \/ row[job[w].listing] # None /\ job'[w].id = row[job[w].listing].id /\ used' = used
      \/ row[job[w].listing] = None /\ job'[w].id \in Ids \ used /\ used' = used \cup {job'[w].id}
  <2>1. CASE row[job[w].listing] # None
    <3>1. job' = [job EXCEPT ![w].id = row[job[w].listing].id] /\ used' = used
      BY <2>1 DEF LookupExposedID
    <3>2. job'[w].id = row[job[w].listing].id
      BY <3>1 DEF TypeOK
    <3>. QED  BY <2>1, <3>1, <3>2
  <2>2. CASE row[job[w].listing] = None
    <3>1. PICK i \in Ids \ used : used' = used \cup {i} /\ job' = [job EXCEPT ![w].id = i]
      BY <2>2 DEF LookupExposedID
    <3>2. job'[w].id = i
      BY <3>1 DEF TypeOK
    <3>. QED  BY <2>2, <3>1, <3>2
  <2>. QED  BY <2>1, <2>2
<1>3. SaveFinding(w)
  BY DEF SaveFinding
<1>4. \A m \in Listings : row[m] # None => row[m].id # None
  BY VaultAssumption DEF TypeOK, Rows
<1>5. job'[w].id # None
  BY <1>1, <1>2, <1>4, VaultAssumption
<1>6. HasJob'
  BY <1>1, <1>3, <1>5, SaveSteps DEF JobInv, HasJob, Chosen, Sealed
<1>7. OneListing'
  <2>1. \A v \in Workers \ {w} : job'[v].id = job[v].id /\ job'[v].listing = job[v].listing
    BY <1>3, SaveSteps
  <2>2. \A m \in Listings : row[m] # None /\ job'[w].id = row[m].id => job[w].listing = m
    BY <1>1, <1>2 DEF JobInv, OneListing
  <2>3. \A v \in Workers : job[v].id # None /\ job[v].id = job'[w].id => job[v].listing = job[w].listing
    BY <1>1, <1>2 DEF JobInv, OneListing
  <2>4. used \subseteq used' /\ job'[w].id \in used'
    BY <1>1, <1>2 DEF JobInv, OneListing
  <2>. QED  BY <1>1, <2>1, <2>2, <2>3, <2>4 DEF JobInv, OneListing
<1>8. Updates'
  BY <1>1, <1>3, SaveSteps DEF JobInv, Updates
<1>9. Alone'
  <2>1. UNCHANGED <<envelope, stage, row>>
    BY <1>1, <1>3, SaveSteps
  <2>2. \A v \in Workers : job'[v].listing = job[v].listing /\ (job'[v].alone => job[v].alone)
    BY <1>1, <1>3, SaveSteps
  <2>3. row[job[w].listing] # None => job'[w].id = row[job[w].listing].id
    BY <1>2
  <2>4. \A v \in Workers \ {w} : at'[v] = at[v] /\ job'[v].id = job[v].id /\ job'[v].blob = job[v].blob
    BY <1>3, SaveSteps
  <2>. SUFFICES ASSUME NEW v \in Workers, job'[v].alone
                PROVE  /\ stage'[Proc[v]] = "unlocked"
                       /\ \A u \in Workers \ {v} : job'[u].listing # job'[v].listing
                       /\ at'[v] \in Chosen /\ row'[job'[v].listing] # None
                            => row'[job'[v].listing].id = job'[v].id
                       /\ at'[v] \in Sealed => job'[v].blob = [key |-> envelope', id |-> job'[v].id]
    BY DEF Alone
  <2>5. job[v].alone
    BY <2>2
  <2>6. CASE v = w
    <3>1. stage[Proc[w]] = "unlocked" /\ \A u \in Workers \ {w} : job[u].listing # job[w].listing
      BY <2>5, <2>6 DEF JobInv, Alone
    <3>2. at'[w] \notin Sealed
      BY <1>1 DEF Sealed
    <3>3. row'[job'[w].listing] # None => row'[job'[w].listing].id = job'[w].id
      BY <1>1, <2>1, <2>3
    <3>. QED  BY <2>1, <2>2, <2>6, <3>1, <3>2, <3>3
  <2>7. CASE v # w
    BY <2>1, <2>2, <2>4, <2>5, <2>7 DEF JobInv, Alone
  <2>. QED  BY <2>6, <2>7
<1>. QED  BY <1>6, <1>7, <1>8, <1>9 DEF JobInv

LEMMA EncryptJobs ==
    ASSUME TypeOK, Holds, JobInv, NEW w \in Workers, EncryptJSON(w)
    PROVE  JobInv'
<1>1. /\ at[w] = "seal" /\ at'[w] = "again" /\ UNCHANGED <<row, used>>
      /\ job'[w].listing = job[w].listing /\ job'[w].alone = job[w].alone /\ job'[w].id = job[w].id
      /\ job'[w].blob = [key |-> key[Proc[w]], id |-> job[w].id]
  BY DEF TypeOK, EncryptJSON, store
<1>2. SaveFinding(w)
  BY DEF SaveFinding
<1>3. job'[w].blob # None
  <2>1. job[w].id \in Ids /\ key[Proc[w]] \in Keys
    BY <1>1, VaultAssumption DEF TypeOK, JobInv, HasJob, Chosen, EncryptJSON, Jobs
  <2>2. job'[w].blob \in Blobs
    BY <1>1, <2>1 DEF Blobs
  <2>. QED  BY <2>2, VaultAssumption
<1>4. HasJob'
  BY <1>1, <1>2, <1>3, SaveSteps DEF JobInv, HasJob, Chosen, Sealed
<1>5. OneListing'
  <2>1. \A v \in Workers : job'[v].id = job[v].id /\ job'[v].listing = job[v].listing
    BY <1>1, <1>2, SaveSteps
  <2>. QED  BY <1>1, <2>1 DEF JobInv, OneListing
<1>6. Updates'
  BY <1>1, <1>2, SaveSteps DEF JobInv, Updates
<1>7. Alone'
  <2>1. job[w].alone => key[Proc[w]] = envelope
    BY VaultAssumption DEF JobInv, Alone, Holds
  <2>. QED  BY <1>1, <1>2, <2>1, SaveSteps DEF JobInv, Alone, Chosen, Sealed
<1>. QED  BY <1>4, <1>5, <1>6, <1>7 DEF JobInv

LEMMA AgainJobs ==
    ASSUME TypeOK, JobInv, NEW w \in Workers, LookupAgain(w)
    PROVE  JobInv'
<1>1. /\ at[w] = "again" /\ UNCHANGED <<row, used>>
      /\ job'[w].listing = job[w].listing /\ job'[w].alone = job[w].alone
      /\ job'[w].blob = job[w].blob /\ job[w].listing \in Listings
  BY DEF TypeOK, JobInv, HasJob, LookupAgain, Jobs, store
<1>2. \/ row[job[w].listing] # None /\ at'[w] = "update" /\ job'[w].id = row[job[w].listing].id
      \/ row[job[w].listing] = None /\ at'[w] = "insert" /\ job'[w].id = job[w].id
  <2>1. CASE row[job[w].listing] # None
    <3>1. job' = [job EXCEPT ![w].id = row[job[w].listing].id]
      BY <2>1 DEF LookupAgain
    <3>2. job'[w].id = row[job[w].listing].id
      BY <3>1 DEF TypeOK
    <3>. QED  BY <2>1, <3>2 DEF TypeOK, LookupAgain
  <2>2. CASE row[job[w].listing] = None
    BY <2>2 DEF TypeOK, LookupAgain
  <2>. QED  BY <2>1, <2>2
<1>3. SaveFinding(w)
  BY DEF SaveFinding
<1>4. \A m \in Listings : row[m] # None => row[m].id # None
  BY VaultAssumption DEF TypeOK, Rows
<1>5. HasJob'
  <2>1. job[w].id # None /\ job[w].blob # None /\ job[w].listing # None
    BY <1>1, VaultAssumption DEF JobInv, HasJob, Chosen, Sealed
  <2>2. job'[w].id # None
    BY <1>1, <1>2, <1>4, <2>1
  <2>. QED  BY <1>1, <1>2, <1>3, <2>1, <2>2, SaveSteps DEF JobInv, HasJob, Chosen, Sealed
<1>6. OneListing'
  <2>1. \A v \in Workers : job'[v].listing = job[v].listing
    BY <1>1, <1>3, SaveSteps
  <2>2. \A v \in Workers \ {w} : job'[v].id = job[v].id
    BY <1>3, SaveSteps
  <2>3. \A m \in Listings : row[m] # None /\ job'[w].id = row[m].id => job[w].listing = m
    BY <1>1, <1>2 DEF JobInv, OneListing
  <2>4. \A v \in Workers : job[v].id # None /\ job[v].id = job'[w].id => job[v].listing = job[w].listing
    BY <1>1, <1>2 DEF JobInv, OneListing
  <2>5. job'[w].id # None => job'[w].id \in used
    BY <1>1, <1>2 DEF JobInv, OneListing
  <2>. QED  BY <1>1, <2>1, <2>2, <2>3, <2>4, <2>5 DEF JobInv, OneListing
<1>7. Updates'
  BY <1>1, <1>2, <1>3, SaveSteps DEF JobInv, Updates
<1>8. Alone'
  <2>. SUFFICES ASSUME NEW v \in Workers, job'[v].alone
                PROVE  /\ stage'[Proc[v]] = "unlocked"
                       /\ \A u \in Workers \ {v} : job'[u].listing # job'[v].listing
                       /\ at'[v] \in Chosen /\ row'[job'[v].listing] # None
                            => row'[job'[v].listing].id = job'[v].id
                       /\ at'[v] \in Sealed => job'[v].blob = [key |-> envelope', id |-> job'[v].id]
    BY DEF Alone
  <2>1. UNCHANGED <<envelope, stage, row>>
    BY <1>1, <1>3, SaveSteps
  <2>2. \A u \in Workers : job'[u].listing = job[u].listing
    BY <1>1, <1>3, SaveSteps
  <2>3. at'[v] = at[v] \/ v = w
    BY <1>3, SaveSteps
  <2>4. job'[v].blob = job[v].blob /\ job[v].alone
    BY <1>1, <1>3, SaveSteps
  <2>5. job'[v].id = job[v].id
    <3>1. CASE v = w
      BY <1>1, <1>2, <2>4, <3>1 DEF JobInv, Alone, Chosen, Sealed
    <3>2. CASE v # w
      BY <1>3, <3>2, SaveSteps
    <3>. QED  BY <3>1, <3>2
  <2>6. at'[v] \in Chosen => at[v] \in Chosen
    BY <1>1, <2>3 DEF Chosen, Sealed
  <2>7. at'[v] \in Sealed => at[v] \in Sealed
    BY <1>1, <2>3 DEF Sealed
  <2>. QED  BY <2>1, <2>2, <2>4, <2>5, <2>6, <2>7 DEF JobInv, Alone
<1>. QED  BY <1>5, <1>6, <1>7, <1>8 DEF JobInv

\* The row a save writes.
LEMMA Written ==
    ASSUME TypeOK, JobInv, NEW w \in Workers, Write(w)
    PROVE  /\ job[w].listing \in Listings /\ job[w].id \in Ids /\ job[w].blob \in Blobs
           /\ at[w] \in Sealed
           /\ row' = [row EXCEPT ![job[w].listing] = [id |-> job[w].id, blob |-> job[w].blob]]
           /\ row[job[w].listing] # None => row[job[w].listing].id = job[w].id
           /\ at'[w] = "idle" /\ job'[w] = NoJob /\ UNCHANGED <<envelope, used>>
BY DEF TypeOK, JobInv, HasJob, Updates, Write, Update, Insert, Put, Rest, Jobs, Chosen, Sealed

LEMMA WriteJobs ==
    ASSUME TypeOK, JobInv, NEW w \in Workers, Write(w)
    PROVE  JobInv'
<1>. DEFINE l == job[w].listing
<1>1. SaveFinding(w)
  BY DEF SaveFinding
<1>2. /\ at'[w] = "idle" /\ job'[w].listing = None /\ job'[w].id = None /\ ~job'[w].alone
      /\ used' = used
  <2>1. at'[w] = "idle" /\ job'[w] = NoJob /\ used' = used
    BY Written
  <2>. QED  BY <2>1 DEF NoJob
<1>3. /\ l \in Listings /\ job[w].id \in Ids /\ row'[l] # None /\ row'[l].id = job[w].id
      /\ row[l] # None => row[l].id = job[w].id
      /\ \A m \in Listings \ {l} : row'[m] = row[m]
  <2>1. [id |-> job[w].id, blob |-> job[w].blob] \in Rows
    BY Written DEF Rows
  <2>. QED  BY <2>1, Written, VaultAssumption DEF TypeOK
<1>4. \A v \in Workers \ {w} :
         /\ at'[v] = at[v] /\ job'[v].listing = job[v].listing /\ job'[v].id = job[v].id
         /\ job'[v].blob = job[v].blob /\ (job'[v].alone => job[v].alone)
  BY <1>1, SaveSteps
<1>. HIDE DEF l
<1>5. HasJob'
  BY <1>2, <1>4 DEF JobInv, HasJob, Chosen, Sealed
<1>6. OneListing'
  <2>1. \A v \in Workers : job'[v].id # None =>
           v # w /\ job'[v].id = job[v].id /\ job'[v].listing = job[v].listing
    BY <1>2, <1>4
  <2>2. job[w].id # None /\ job[w].id \in used
    BY <1>3, VaultAssumption DEF JobInv, OneListing
  <2>3. \A m \in Listings : row[m] # None /\ job[w].id = row[m].id => l = m
    BY DEF JobInv, OneListing, l
  <2>4. \A v \in Workers : job[v].id # None /\ job[v].id = job[w].id => job[v].listing = l
    BY DEF JobInv, OneListing, l
  <2>5. \A m \in Listings : row'[m] # None => row'[m].id \in used
    BY <1>3, <2>2 DEF JobInv, OneListing
  <2>6. \A m, n \in Listings : row'[m] # None /\ row'[n] # None /\ row'[m].id = row'[n].id => m = n
    BY <1>3, <2>3 DEF JobInv, OneListing
  <2>7. \A v \in Workers, m \in Listings :
           row'[m] # None /\ job'[v].id = row'[m].id => job'[v].listing = m
    <3>1. \A m \in Listings : row'[m] # None => row'[m].id # None
      BY <1>3, <2>2, VaultAssumption DEF TypeOK, Rows
    <3>. QED  BY <1>3, <2>1, <2>4, <3>1 DEF JobInv, OneListing
  <2>8. \A v, u \in Workers :
           job'[v].id # None /\ job'[v].id = job'[u].id => job'[v].listing = job'[u].listing
    BY <2>1 DEF JobInv, OneListing
  <2>. QED  BY <1>2, <2>1, <2>5, <2>6, <2>7, <2>8 DEF JobInv, OneListing
<1>7. Updates'
  <2>. SUFFICES ASSUME NEW v \in Workers, at'[v] = "update"
                PROVE  row'[job'[v].listing] # None /\ row'[job'[v].listing].id = job'[v].id
    BY DEF Updates
  <2>1. v # w /\ at[v] = "update" /\ job'[v].listing = job[v].listing /\ job'[v].id = job[v].id
    BY <1>2, <1>4
  <2>2. job[v].listing \in Listings
    BY <2>1 DEF TypeOK, JobInv, HasJob, Jobs
  <2>. QED  BY <1>3, <2>1, <2>2 DEF JobInv, Updates
<1>8. Alone'
  <2>. SUFFICES ASSUME NEW v \in Workers, job'[v].alone
                PROVE  /\ stage'[Proc[v]] = "unlocked"
                       /\ \A u \in Workers \ {v} : job'[u].listing # job'[v].listing
                       /\ at'[v] \in Chosen /\ row'[job'[v].listing] # None
                            => row'[job'[v].listing].id = job'[v].id
                       /\ at'[v] \in Sealed => job'[v].blob = [key |-> envelope', id |-> job'[v].id]
    BY DEF Alone
  <2>1. v # w /\ job[v].alone /\ UNCHANGED <<envelope, stage>>
    BY <1>1, <1>2, <1>4, SaveSteps
  <2>2. job[v].listing \in Listings /\ job[v].listing # None /\ job[v].listing # l
    BY <2>1, VaultAssumption DEF TypeOK, JobInv, HasJob, Alone, Jobs, l
  <2>3. row'[job[v].listing] = row[job[v].listing]
    BY <1>3, <2>2
  <2>. QED  BY <1>2, <1>4, <2>1, <2>2, <2>3 DEF JobInv, Alone
<1>. QED  BY <1>5, <1>6, <1>7, <1>8 DEF JobInv

LEMMA AbortJobs ==
    ASSUME TypeOK, JobInv, NEW w \in Workers, Abort(w)
    PROVE  JobInv'
<1>1. SaveFinding(w)
  BY DEF SaveFinding
<1>2. /\ at'[w] = "idle" /\ job'[w].listing = None /\ job'[w].id = None /\ ~job'[w].alone
      /\ UNCHANGED <<row, used>>
  BY DEF TypeOK, Abort, Rest, NoJob, store
<1>3. HasJob'
  BY <1>1, <1>2, SaveSteps DEF JobInv, HasJob, Chosen, Sealed
<1>4. OneListing'
  <2>1. \A v \in Workers : job'[v].id # None =>
           job'[v].id = job[v].id /\ job'[v].listing = job[v].listing
    BY <1>1, <1>2, SaveSteps
  <2>2. \A m \in Listings : row[m] # None => row[m].id # None
    BY VaultAssumption DEF TypeOK, Rows
  <2>. QED  BY <1>2, <2>1, <2>2 DEF JobInv, OneListing
<1>5. Updates'
  BY <1>1, <1>2, SaveSteps DEF JobInv, Updates
<1>6. Alone'
  <2>1. \A v \in Workers : job'[v].alone => v # w /\ job[v].alone /\ job[v].listing # None
    BY <1>1, <1>2, SaveSteps DEF JobInv, Alone, HasJob
  <2>. QED  BY <1>1, <1>2, <2>1, SaveSteps DEF JobInv, Alone
<1>. QED  BY <1>3, <1>4, <1>5, <1>6 DEF JobInv

-----------------------------------------------------------------------------
\* The invariant is kept by every step.
LEMMA NextInv == IInv /\ [Next]_vars => IInv'
<1>. SUFFICES ASSUME IInv, [Next]_vars PROVE IInv'
  OBVIOUS
<1>. USE DEF IInv
<1>1. CASE \E p \in Procs : Process(p)
  <2>1. PICK p \in Procs : Process(p)
    BY <1>1
  <2>2. TypeOK' /\ OneKey' /\ Holds'
    BY <1>1, <2>1, ProcessTypes, KeysStay DEF Next
  <2>3. JobInv'
    BY <2>1, ProcessJobs, ProcessAlone DEF JobInv
  <2>. QED  BY <2>2, <2>3
<1>2. CASE \E w \in Workers : SaveFinding(w)
  <2>1. PICK w \in Workers : SaveFinding(w)
    BY <1>2
  <2>2. TypeOK' /\ OneKey' /\ Holds'
    BY <1>2, <2>1, SaveTypes, KeysStay DEF Next, JobInv
  <2>3. JobInv'
    BY <2>1, BeginJobs, LookupJobs, EncryptJobs, AgainJobs, WriteJobs, AbortJobs DEF SaveFinding
  <2>. QED  BY <2>2, <2>3
<1>3. CASE UNCHANGED vars
  BY <1>3 DEF vars, store, TypeOK, OneKey, Holds, JobInv, HasJob, OneListing, Updates, Alone
<1>. QED  BY <1>1, <1>2, <1>3 DEF Next

\* IInv is an invariant of Vault.
THEOREM Invariance == Spec => []IInv
BY InitInv, NextInv, PTL DEF Spec

\* The types of Vault: what is stored is sealed with a key and bound to an id.
THEOREM TypeCorrect == Spec => []TypeOK
<1>1. IInv => TypeOK
  BY DEF IInv
<1>. QED  BY <1>1, Invariance, PTL

\* Whoever made, unlocked or closed the vault when: keys in memory are the envelope's, or wiped.
THEOREM KeysAgree == Spec => []OneKey
<1>1. IInv => OneKey
  BY DEF IInv
<1>. QED  BY <1>1, Invariance, PTL

\* What a save without a rival stored, in a process that was not closing, can be opened.
THEOREM QuietSavesOpen == Spec => SavedAlone
<1>1. ASSUME IInv, [Next]_vars, NEW w \in Workers, NEW l \in Listings,
             Write(w), job[w].listing = l, job[w].alone
      PROVE  Opens(l)'
  <2>1. /\ row'[l] = [id |-> job[w].id, blob |-> job[w].blob] /\ envelope' = envelope
        /\ at[w] \in Sealed
    BY <1>1, Written DEF IInv, TypeOK
  <2>2. job[w].blob = [key |-> envelope, id |-> job[w].id]
    BY <1>1, <2>1 DEF IInv, JobInv, Alone
  <2>. QED  BY <2>1, <2>2 DEF Opens
<1>2. IInv /\ [Next]_vars =>
        [\A w \in Workers, l \in Listings :
            Write(w) /\ job[w].listing = l /\ job[w].alone => Opens(l)']_vars
  BY <1>1
<1>. QED  BY <1>2, Invariance, PTL DEF Spec, SavedAlone

\* Rows keep their ids, and no two listings share one.
THEOREM IdsKept == Spec => RowsStay
<1>1. ASSUME IInv, Next, NEW l \in Listings, row[l] # None
      PROVE  /\ row'[l] # None /\ row'[l].id = row[l].id
             /\ \A m \in Listings \ {l} : row'[m] # None => row'[m].id # row[l].id
  <2>1. IInv'
    BY <1>1, NextInv
  <2>2. row'[l] # None /\ row'[l].id = row[l].id
    <3>1. CASE \E w \in Workers : Write(w)
      <4>1. PICK w \in Workers : Write(w)
        BY <3>1
      <4>2. [id |-> job[w].id, blob |-> job[w].blob] \in Rows
        BY <4>1, <1>1, Written DEF IInv, Rows
      <4>. QED  BY <4>1, <4>2, <1>1, Written, VaultAssumption DEF IInv, TypeOK
    <3>2. CASE ~\E w \in Workers : Write(w)
      <4>1. row' = row
        BY <1>1, <3>2, ProcessSteps DEF IInv, Next, SaveFinding, Begin, LookupExposedID, EncryptJSON,
           LookupAgain, Abort, store
      <4>. QED  BY <1>1, <4>1
    <3>. QED  BY <3>1, <3>2
  <2>3. \A m \in Listings : row'[m] # None /\ row'[m].id = row'[l].id => m = l
    BY <2>1, <2>2 DEF IInv, JobInv, OneListing
  <2>. QED  BY <2>2, <2>3
<1>2. IInv /\ [Next]_vars =>
        [\A l \in Listings : row[l] # None =>
          /\ row'[l] # None /\ row'[l].id = row[l].id
          /\ \A m \in Listings \ {l} : row'[m] # None => row'[m].id # row[l].id]_vars
  BY <1>1
<1>. QED  BY <1>2, Invariance, PTL DEF Spec, RowsStay
=============================================================================
