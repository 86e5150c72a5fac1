---------------------------- MODULE SessionProofs ---------------------------
(***************************************************************************)
(* What a user starts, for snapshots of every length, every list of items  *)
(* and every number of slots: the full-screen program, the form in the     *)
(* browser, the look-up at many sites, and with the daemon and the         *)
(* terminal session the types of all five.                                 *)
(***************************************************************************)
EXTENDS MCSession, DaemonProofs, TerminalProofs

-----------------------------------------------------------------------------
(***************************************************************************)
(* Console: the cursor stays on a row, and the password that was checked is*)
(* the one that is used.                                                   *)
(***************************************************************************)
Counts == [Lists -> 0..MostRows]

OnRow == cursor \in Nat /\ rows \in Counts /\ CursorInside

-----------------------------------------------------------------------------
(***************************************************************************)
(* The cursor.                                                             *)
(***************************************************************************)
\* The last row of a list has a number, and what is clamped is on a row.
LEMMA LastRow ==
    ASSUME NEW r \in Counts, NEW t
    PROVE  MaxCursor(t, r) \in Nat
<1>1. t \in Lists => r[t] \in 0..MostRows
  BY DEF Counts
<1>. QED  BY <1>1, ConsoleAssumption DEF MaxCursor

LEMMA ClampedInside ==
    ASSUME NEW r \in Counts, NEW t, NEW c \in Int
    PROVE  Clamp(c, t, r) \in Nat /\ Clamp(c, t, r) <= MaxCursor(t, r)
BY LastRow DEF Clamp

\* A program that is not the dashboard leaves it alone.
LEMMA CursorStep == OnRow /\ [CNext]_cvars => OnRow'
<1>. SUFFICES ASSUME OnRow, [CNext]_cvars PROVE OnRow'
  OBVIOUS
<1>1. cursor \in Int /\ cursor + 1 \in Int /\ cursor - 1 \in Int /\ 0 \in Nat
  BY DEF OnRow
<1>2. CASE UNCHANGED view
  BY <1>2 DEF view, OnRow, CursorInside
<1>3. CASE SnapArrives
  <2>1. rows' \in Counts /\ cursor' = Clamp(cursor, tab, rows') /\ tab' = tab
    BY <1>3 DEF SnapArrives, Counts
  <2>. QED  BY <2>1, <1>1, ClampedInside DEF OnRow, CursorInside
<1>4. CASE NextTab
  <2>1. rows' = rows /\ (cursor' = 0 \/ (tab = "vault" /\ tab' = "dashboard" /\ cursor' = cursor))
    BY <1>4 DEF NextTab
  <2>2. CASE cursor' = 0
    BY <2>1, <2>2, LastRow DEF OnRow, CursorInside
  <2>3. CASE tab = "vault" /\ tab' = "dashboard" /\ cursor' = cursor
    BY <2>1, <2>3 DEF OnRow, CursorInside, MaxCursor, Lists
  <2>. QED  BY <2>1, <2>2, <2>3
<1>5. CASE PickTab
  <2>1. rows' = rows /\ cursor' = 0
    BY <1>5 DEF PickTab
  <2>. QED  BY <2>1, LastRow DEF OnRow, CursorInside
<1>6. CASE MoveCursor
  <2>1. rows' = rows /\ tab' = tab
    BY <1>6 DEF MoveCursor
  <2>2. cursor' \in {Clamp(cursor + 1, tab, rows), Clamp(cursor - 1, tab, rows), 0, MaxCursor(tab, rows)}
    BY <1>6 DEF MoveCursor
  <2>3. \A c \in {Clamp(cursor + 1, tab, rows), Clamp(cursor - 1, tab, rows), 0, MaxCursor(tab, rows)} :
            c \in Nat /\ c <= MaxCursor(tab, rows)
    BY <1>1, ClampedInside, LastRow DEF OnRow
  <2>. QED  BY <2>1, <2>2, <2>3 DEF OnRow, CursorInside
<1>7. CASE OpenDetail \/ Escape
  BY <1>7 DEF OpenDetail, Escape, OnRow, CursorInside
<1>. QED
  BY <1>2, <1>3, <1>4, <1>5, <1>6, <1>7 DEF CNext, cvars, OpenProgram, BootResult, BootFull, BootCancel,
     BootQuit, Edit, Tab, SubmitPassword, CancelLogin, LoginQuit, OpenVault

\* The cursor is on a row of the list, whatever arrives when (app.go Update, clamp).
THEOREM CursorStays == CSpec => []CursorInside
<1>1. CInit => OnRow
  BY ConsoleAssumption DEF CInit, OnRow, Counts, CursorInside, MaxCursor, Lists
<1>2. OnRow => CursorInside
  BY DEF OnRow
<1>. QED  BY <1>1, <1>2, CursorStep, PTL DEF CSpec

-----------------------------------------------------------------------------
(***************************************************************************)
(* The password.                                                           *)
(***************************************************************************)
Blanks == {"", "  "}

\* What the start found agrees with what is stored, and it asks for nothing before it knows.
Looked ==
    /\ passphrase \notin Blanks
    /\ found = "old" => passphrase # "none"
    /\ program = "boot" /\ quitting => canceled = TRUE \/ found # "none"
    /\ program = "none" => found = "none" /\ ~quitting
    /\ found \in {"none", "new", "old", "error"}
    /\ canceled \in BOOLEAN /\ quitting \in BOOLEAN /\ fresh \in BOOLEAN
    /\ accepted \in BOOLEAN /\ late \in BOOLEAN

\* What was accepted is not blank, and was typed twice when it is new, unless a key came later.
Checks == accepted /\ ~late => typed.pass \notin Blanks /\ (fresh => typed.confirm = typed.pass)

LoginInv ==
    /\ Looked /\ TypedTwice
    /\ program \in {"login", "opening"} => Checks /\ (~fresh => passphrase # "none")
    /\ program \in {"none", "boot"} => ~accepted
    /\ program = "opening" => accepted
    /\ typed \in [pass : Texts, confirm : Texts]

LEMMA FieldsKept ==
    /\ Empty \in [pass : Texts, confirm : Texts]
    /\ Empty.pass = ""
    /\ \A t \in [pass : Texts, confirm : Texts], x \in Texts :
          /\ [t EXCEPT !.pass = x] \in [pass : Texts, confirm : Texts]
          /\ [t EXCEPT !.confirm = x] \in [pass : Texts, confirm : Texts]
<1>1. "" \in Texts
  BY DEF Texts
<1>2. Empty \in [pass : Texts, confirm : Texts] /\ Empty.pass = ""
  BY <1>1 DEF Empty
<1>. QED  BY <1>2

LEMMA LoginStep == LoginInv /\ [CNext]_cvars => LoginInv'
<1>. SUFFICES ASSUME LoginInv, [CNext]_cvars PROVE LoginInv'
  OBVIOUS
<1>. USE DEF LoginInv, Looked, Checks, TypedTwice, Blanks
<1>1. CASE UNCHANGED <<program, boot, login>>
  BY <1>1 DEF boot, login
<1>2. CASE OpenProgram
  BY <1>2 DEF OpenProgram, boot
<1>3. CASE BootResult
  BY <1>3 DEF BootResult, login
<1>4. CASE BootFull
  BY <1>4 DEF BootFull, login
<1>5. CASE BootCancel
  BY <1>5 DEF BootCancel, login
<1>6. CASE BootQuit
  BY <1>6 DEF BootQuit
<1>7. CASE Edit
  BY <1>7 DEF Edit, boot
<1>8. CASE Tab
  BY <1>8 DEF Tab, boot
<1>9. CASE CancelLogin
  BY <1>9 DEF CancelLogin, login
<1>10. CASE SubmitPassword
  BY <1>10, ZenonT(30) DEF SubmitPassword, Accept, Texts
<1>11. CASE LoginQuit
  BY <1>11 DEF LoginQuit, login
<1>12. CASE OpenVault
  <2>1. boot' = boot /\ fresh' = fresh /\ typed' \in [pass : Texts, confirm : Texts]
    BY <1>12, FieldsKept DEF OpenVault
  <2>2. CASE program' = "menu"
    <3>1. accepted = TRUE /\ late' = late /\ typed' = typed /\ accepted' = accepted
      BY <1>12, <2>2 DEF OpenVault
    <3>2. ~late => typed.pass \notin Blanks /\ (fresh => typed.confirm = typed.pass)
      BY <1>12, <3>1 DEF OpenVault
    <3>3. typed.pass \in Texts /\ typed.pass # "none"
      BY DEF Texts
    <3>4. CASE fresh
      <4>1. passphrase' = typed.pass /\ typed.pass \notin {"", "  "}
        BY <1>12, <2>2, <3>4 DEF OpenVault
      <4>2. TypedTwice'
        BY <2>1, <3>1, <3>2, <3>3, <3>4, <4>1
      <4>. QED  BY <2>1, <2>2, <3>1, <3>3, <3>4, <4>1, <4>2 DEF boot
    <3>5. CASE ~fresh
      <4>1. passphrase' = passphrase /\ typed.pass \in {"", passphrase} /\ passphrase # "none"
        BY <1>12, <2>2, <3>5 DEF OpenVault
      <4>2. TypedTwice'
        BY <2>1, <3>1, <3>2, <3>5, <4>1
      <4>. QED  BY <2>1, <2>2, <3>1, <3>5, <4>1, <4>2 DEF boot
    <3>. QED  BY <3>4, <3>5
  <2>3. CASE program' # "menu"
    BY <1>12, <2>1, <2>3 DEF OpenVault, boot
  <2>. QED  BY <2>2, <2>3
<1>13. CASE SnapArrives \/ NextTab \/ PickTab \/ MoveCursor \/ OpenDetail \/ Escape
  BY <1>13, ZenonT(30) DEF SnapArrives, NextTab, PickTab, MoveCursor, OpenDetail, Escape, boot, login
<1>. QED
  BY <1>1, <1>2, <1>3, <1>4, <1>5, <1>6, <1>7, <1>8, <1>9, <1>10, <1>11, <1>12, <1>13 DEF CNext, cvars

\* A vault is made with a password that was typed twice, and a session begins with it open, unless
\* a key came in after Enter (login.go submit, cli.go runMenu).
THEOREM PasswordChecked == CSpec => []TypedTwice
<1>1. CInit => LoginInv
  BY FieldsKept DEF CInit, LoginInv, Looked, Checks, TypedTwice, Blanks
<1>2. LoginInv => TypedTwice
  BY DEF LoginInv
<1>. QED  BY <1>1, <1>2, LoginStep, PTL DEF CSpec

-----------------------------------------------------------------------------
(***************************************************************************)
(* Automate: what was started is given back, and a form is left to a person*)
(* rather than filled in behind a challenge.                               *)
(***************************************************************************)
\* How far the browser and its profile are at each statement.
Launched ==
    /\ stp \in {"check", "profile"} => profile = FALSE
    /\ stp \in {"check", "profile", "launch"} => browser = "none"
    /\ stp = "connect" => browser = "running"
    /\ stp \notin {"check", "profile", "launch", "connect", "over"} => browser = "connected"

BeforeFill == {"check", "profile", "launch", "connect", "page", "identity", "navigate", "detect",
               "create", "poll", "inject"}

\* What has been decided about the page at each statement.
Decided ==
    /\ stp \in BeforeFill => filled = {}
    /\ stp = "fill" => challenge = "none" \/ solved = TRUE
    /\ stp = "verdict" => clicked = TRUE

\* What is returned, and what the ledger has.
Returned ==
    /\ stp \in BeforeFill \cup {"fill", "verdict"} => outcome = "none" /\ audited = "none"
    /\ stp = "audit" => outcome = "result" /\ audited = "none"
    /\ stp \in {"close", "over"} =>
          (outcome = "result" /\ audited # "none") \/ (outcome = "error" /\ audited = "none")

\* SentByHand with its Boolean variables as values.
ByHand ==
    /\ filled # {} => challenge = "none" \/ solved = TRUE
    /\ status \in {"CONFIRMED", "SUBMITTED"} => clicked = TRUE
    /\ audited # "none" => outcome = "result"

\* CleanedUp likewise.
GivenBack ==
    stp = "over" =>
        /\ profile = FALSE \/ stuck = TRUE
        /\ browser = "connected" => expired = TRUE
        /\ browser = "running" => outcome = "error" /\ filled = {}

FormInv == Launched /\ GivenBack /\ Decided /\ Returned /\ ByHand

-----------------------------------------------------------------------------
LEMMA FormInit == AInit => FormInv
BY DEF AInit, FormInv, Launched, GivenBack, Decided, Returned, ByHand, BeforeFill

LEMMA FormNext == FormInv /\ [ANext]_avars => FormInv'
<1>. SUFFICES ASSUME FormInv, [ANext]_avars PROVE FormInv'
  OBVIOUS
<1>. USE DEF FormInv, Launched, GivenBack, Decided, Returned, ByHand, BeforeFill, To, Error
<1>1. CASE UNCHANGED avars
  BY <1>1 DEF avars, page, directory
<1>2. CASE Refused \/ GetSolver \/ EphemeralProfile
  BY <1>2 DEF Refused, GetSolver, EphemeralProfile, page, directory
<1>3. CASE LaunchProcess \/ Connect
  BY <1>3 DEF LaunchProcess, Connect, RemoveProfile, page, directory
<1>4. CASE OpenPage
  BY <1>4 DEF OpenPage, Shut, RemoveProfile, page, directory
<1>5. CASE Close
  BY <1>5 DEF Close, Shut, RemoveProfile, page
<1>6. CASE Deadline
  BY <1>6 DEF Deadline, directory
<1>7. CASE LoadIdentity \/ Navigate \/ CreateTask \/ Poll
  BY <1>7 DEF LoadIdentity, Navigate, CreateTask, Poll, page, directory
<1>8. CASE DetectChallenge
  BY <1>8 DEF DetectChallenge, NeedsHuman, directory
<1>9. CASE InjectToken
  BY <1>9 DEF InjectToken, directory
<1>10. CASE Fill
  BY <1>10 DEF Fill, directory
<1>11. CASE Submit
  BY <1>11 DEF Submit, directory
<1>12. CASE Verdict
  BY <1>12 DEF Verdict, directory
<1>13. CASE Audit
  BY <1>13 DEF Audit, page, directory
<1>. QED
  BY <1>1, <1>2, <1>3, <1>4, <1>5, <1>6, <1>7, <1>8, <1>9, <1>10, <1>11, <1>12, <1>13
     DEF ANext, AStep, Launch

LEMMA FormInvariance == ASpec => []FormInv
BY FormInit, FormNext, PTL DEF ASpec

\* On every way out the removal of the profile was tried, and the browser is closed unless the
\* deadline has passed or it never let itself be connected to, when nothing was typed into it
\* (browser.go Launch, Close; automate.go Automate).
THEOREM AlwaysCleanedUp == ASpec => []CleanedUp
<1>1. FormInv => CleanedUp
  BY DEF FormInv, GivenBack, CleanedUp
<1>. QED  BY <1>1, FormInvariance, PTL

\* No field is filled in behind a challenge without a token for it, nothing counts as sent that was
\* not clicked, and the ledger is asked to record exactly the runs that returned a result
\* (automate.go Run, Automate).
THEOREM LeftToAPerson == ASpec => []SentByHand
<1>1. FormInv => SentByHand
  BY DEF FormInv, ByHand, Returned, SentByHand
<1>. QED  BY <1>1, FormInvariance, PTL

-----------------------------------------------------------------------------
(***************************************************************************)
(* Probes: what the goroutines append to the shared list is every item,    *)
(* once.                                                                   *)
(***************************************************************************)
Findings == {"FOUND", "NOT_FOUND", "ERROR"}

Found == Names \X Findings

Progress == {"none", "started", "answered", "holding", "appended", "done"}

\* The items whose goroutines have appended.
Appended == {i \in Names : routine[i] \in {"appended", "done"}}

Listed == {results[j][1] : j \in DOMAIN results}

ProbesTypes ==
    /\ next \in 0..Len(Items)
    /\ routine \in [Names -> Progress]
    /\ answer \in [Names -> Found \cup {<<>>}]
    /\ results \in Seq(Found) /\ slice \in [Names -> Seq(Found)]

\* Who holds the mutex has read the list as it is.
Exclusive == \A i \in Names : routine[i] = "holding" => mutex = i /\ slice[i] = results

\* A goroutine works for the item it was started for.
Own ==
    /\ \A i \in Names : routine[i] \in {"answered", "holding", "appended", "done"} =>
          answer[i] \in Found /\ answer[i][1] = i
    /\ \A i \in Names : i > next => routine[i] = "none"

\* The list has the items of those that have appended, and as many entries.
Together == Len(results) = Cardinality(Appended) /\ Listed = Appended

Waited ==
    /\ caller \in {"report", "over"} => \A i \in Names : routine[i] = "done"
    /\ caller \in {"idle", "loop", "report"} => report = "none"
    /\ caller = "over" /\ kind = "breaches" /\ report = "complete" => ~Some("ERROR")
    /\ caller \in {"idle", "loop", "report", "over"}

ProbesInv == ProbesTypes /\ Own /\ Together /\ Waited /\ Exclusive

-----------------------------------------------------------------------------
LEMMA Lengths == Len(Items) \in Nat /\ IsFiniteSet(Names) /\ Cardinality(Names) = Len(Items)
<1>1. Len(Items) \in Nat
  BY ProbesAssumption
<1>2. IsFiniteSet(1..Len(Items)) /\ Cardinality(1..Len(Items)) = (IF 1 > Len(Items) THEN 0 ELSE Len(Items) - 1 + 1)
  BY <1>1, 1 \in Int, Len(Items) \in Int, FS_Interval
<1>3. Cardinality(1..Len(Items)) = Len(Items)
  BY <1>1, <1>2
<1>. QED  BY <1>1, <1>2, <1>3 DEF Names

\* Whatever the site answers, the verdict is one of three.
LEMMA AnswersAreVerdicts == \A a \in Answers : a \in Findings
<1>1. \A t \in ErrorTypes, r \in Responses : ProbeOne(t, r) \in Findings
  BY DEF ErrorTypes, ProbeOne, Findings
<1>2. \A r \in Responses : OneEmail(r) \in Findings
  BY DEF Responses, OneEmail, Findings
<1>. QED  BY <1>1, <1>2 DEF Answers, Findings

\* An item that is appended makes the list longer by itself.
LEMMA OneMore ==
    ASSUME ProbesTypes, Together, NEW i \in Names, routine[i] = "holding", answer[i] \in Found,
           answer[i][1] = i, slice[i] = results, AppendResult(i)
    PROVE  ProbesTypes' /\ Together'
<1>1. /\ results' = Append(results, answer[i]) /\ routine' = [routine EXCEPT ![i] = "appended"]
      /\ next' = next /\ answer' = answer /\ slice' = [slice EXCEPT ![i] = <<>>]
  BY DEF AppendResult, Become
<1>2. ProbesTypes'
  BY <1>1 DEF ProbesTypes, Progress
<1>3. Appended' = Appended \cup {i} /\ i \notin Appended
  BY <1>1 DEF ProbesTypes, Appended
<1>4. IsFiniteSet(Appended)
  BY Lengths, FS_Subset DEF Appended
<1>5. Cardinality(Appended') = Cardinality(Appended) + 1
  BY <1>3, <1>4, FS_AddElement
<1>6. /\ Len(results') = Len(results) + 1
      /\ results'[Len(results) + 1] = answer[i]
      /\ \A j \in 1..Len(results) : results'[j] = results[j]
      /\ DOMAIN results = 1..Len(results) /\ DOMAIN results' = 1..(Len(results) + 1)
      /\ Len(results) \in Nat
  BY <1>1 DEF ProbesTypes
<1>7. Listed' = Listed \cup {i}
  BY <1>6 DEF Listed
<1>. QED  BY <1>2, <1>3, <1>5, <1>6, <1>7 DEF Together

\* The other steps of the goroutines and of the caller leave the list and those in it alone.
LEMMA NoMore ==
    ASSUME ProbesTypes, Together, ProbesTypes', results' = results, Appended' = Appended
    PROVE  Together'
BY DEF Together, Listed

LEMMA ProbesInit == PInit => ProbesInv
<1>. SUFFICES ASSUME PInit PROVE ProbesInv
  OBVIOUS
<1>1. ProbesTypes /\ Own /\ Waited /\ Exclusive
  BY Lengths DEF PInit, ProbesTypes, Own, Waited, Progress, Exclusive
<1>2. Appended = {} /\ Listed = {} /\ Len(results) = 0
  BY DEF PInit, Appended, Listed
<1>. QED  BY <1>1, <1>2, FS_EmptySet DEF ProbesInv, Together

LEMMA ProbesNext == ProbesInv /\ [PNext]_pvars => ProbesInv'
<1>. SUFFICES ASSUME ProbesInv, [PNext]_pvars PROVE ProbesInv'
  OBVIOUS
<1>. USE DEF ProbesInv
<1>1. CASE UNCHANGED pvars
  BY <1>1 DEF pvars, ProbesTypes, Own, Together, Waited, Appended, Listed, Some, Exclusive
<1>2. CASE Begin
  <2>1. /\ caller = "idle" /\ caller' = "loop"
        /\ UNCHANGED <<next, routine, mutex, answer, slice, results, report>>
    BY <1>2 DEF Begin
  <2>2. ProbesTypes' /\ Own' /\ Exclusive' /\ Appended' = Appended
    BY <2>1 DEF ProbesTypes, Own, Exclusive, Appended
  <2>3. Waited'
    BY <2>1 DEF Waited
  <2>. QED  BY <2>1, <2>2, <2>3, NoMore
<1>3. CASE Spawn
  <2>1. /\ next + 1 \in Names /\ routine[next + 1] = "none" /\ next' = next + 1
        /\ routine' = [routine EXCEPT ![next + 1] = "started"]
        /\ results' = results /\ answer' = answer /\ caller' = caller /\ report' = report
        /\ caller = "loop" /\ slice' = slice /\ mutex' = mutex
    BY <1>3, Lengths DEF Spawn, Become, ProbesTypes, Own, Names
  <2>2. ProbesTypes'
    BY <2>1, Lengths DEF ProbesTypes, Progress, Names
  <2>3. Appended' = Appended
    BY <2>1 DEF ProbesTypes, Appended
  <2>4. Own' /\ Waited' /\ Exclusive'
    BY <2>1, Lengths DEF Own, ProbesTypes, Waited, Exclusive, Names
  <2>. QED  BY <2>1, <2>2, <2>3, <2>4, NoMore
<1>4. ASSUME NEW i \in Names, Request(i) PROVE ProbesInv'
  <2>1. PICK a \in Answers : answer' = [answer EXCEPT ![i] = <<i, a>>]
    BY <1>4 DEF Request
  <2>2. <<i, a>> \in Found /\ a \in Findings
    BY <2>1, AnswersAreVerdicts DEF Found
  <2>3. /\ routine[i] = "started" /\ routine' = [routine EXCEPT ![i] = "answered"]
        /\ results' = results /\ next' = next /\ caller' = caller /\ report' = report
        /\ kind' = kind /\ slice' = slice /\ mutex' = mutex
    BY <1>4 DEF Request, Become
  <2>4. ProbesTypes'
    BY <2>1, <2>2, <2>3 DEF ProbesTypes, Progress
  <2>5. Appended' = Appended
    BY <2>3 DEF ProbesTypes, Appended
  <2>6. Own'
    BY <2>1, <2>2, <2>3 DEF Own, ProbesTypes
  <2>7. Waited' /\ Exclusive'
    BY <2>3 DEF Waited, ProbesTypes, Exclusive, Some
  <2>. QED  BY <2>3, <2>4, <2>5, <2>6, <2>7, NoMore
<1>5. ASSUME NEW i \in Names, LockResults(i) \/ Release(i) PROVE ProbesInv'
  <2>1. /\ routine[i] \in {"answered", "appended"}
        /\ routine' = [routine EXCEPT ![i] = IF routine[i] = "answered" THEN "holding" ELSE "done"]
        /\ results' = results /\ next' = next /\ caller' = caller /\ report' = report
        /\ kind' = kind /\ answer' = answer
        /\ \/ slice' = slice /\ mutex' = mutex /\ routine[i] = "appended"
           \/ /\ slice' = [slice EXCEPT ![i] = results] /\ mutex = 0 /\ mutex' = i
    BY <1>5 DEF LockResults, Release, Become
  <2>2. ProbesTypes'
    BY <2>1 DEF ProbesTypes, Progress
  <2>3. Appended' = Appended
    BY <2>1 DEF ProbesTypes, Appended
  <2>4. Own' /\ Waited'
    BY <2>1 DEF Own, ProbesTypes, Waited, Some
  <2>5. Exclusive'
    BY <2>1 DEF Exclusive, ProbesTypes, Names
  <2>. QED  BY <2>1, <2>2, <2>3, <2>4, <2>5, NoMore
<1>6. ASSUME NEW i \in Names, AppendResult(i) PROVE ProbesInv'
  <2>1. routine[i] = "holding" /\ answer[i] \in Found /\ answer[i][1] = i
        /\ mutex = i /\ slice[i] = results
    BY <1>6 DEF AppendResult, Own, Exclusive
  <2>2. ProbesTypes' /\ Together'
    BY <1>6, <2>1, OneMore
  <2>3. /\ routine' = [routine EXCEPT ![i] = "appended"] /\ next' = next /\ answer' = answer
        /\ caller' = caller /\ report' = report /\ kind' = kind
    BY <1>6 DEF AppendResult, Become
  <2>4. Own' /\ Waited'
    BY <2>1, <2>3 DEF Own, ProbesTypes, Waited
  <2>5. Exclusive'
    BY <2>1, <2>3 DEF Exclusive, ProbesTypes
  <2>. QED  BY <2>2, <2>4, <2>5
<1>7. CASE Wait \/ Report
  <2>1. /\ routine' = routine /\ results' = results /\ next' = next /\ answer' = answer /\ kind' = kind
        /\ slice' = slice /\ mutex' = mutex
    BY <1>7 DEF Wait, Report
  <2>2. ProbesTypes' /\ Own' /\ Exclusive' /\ Appended' = Appended
    BY <2>1 DEF ProbesTypes, Own, Exclusive, Appended
  <2>3. Waited'
    <3>1. Some("ERROR")' = Some("ERROR")
      BY <2>1 DEF Some
    <3>. QED  BY <1>7, <2>1, <3>1 DEF Wait, Report, Waited
  <2>. QED  BY <2>1, <2>2, <2>3, NoMore
<1>. QED  BY <1>1, <1>2, <1>3, <1>4, <1>5, <1>6, <1>7 DEF PNext, Routine

\* Whatever the list and the slots, the caller gets every item once, and a look-up that is called
\* complete has an answer for every address (footprint.go Probe, coordinator.go CheckBreaches).
THEOREM EveryItem == PSpec => []EveryItemOnce
<1>1. ProbesInv => EveryItemOnce
  <2>. SUFFICES ASSUME ProbesInv, caller \in {"report", "over"}
                PROVE  /\ Len(results) = Len(Items) /\ Listed = Names
                       /\ kind = "breaches" /\ report = "complete" => ~Some("ERROR")
    BY DEF EveryItemOnce, Listed
  <2>1. Appended = Names
    BY DEF ProbesInv, Waited, Appended
  <2>. QED  BY <2>1, Lengths DEF ProbesInv, Together, Waited
<1>. QED  BY <1>1, ProbesInit, ProbesNext, PTL DEF PSpec

-----------------------------------------------------------------------------
(***************************************************************************)
(* The types of all five: each with what it needs to be inductive.         *)
(***************************************************************************)
Lives == {"off", "unlocked", "writing", "written", "serving", "closing", "over"}

DaemonInv == IInv /\ life \in [Runs -> Lives] /\ asked \subseteq Runs /\ bye \subseteq Runs /\ mailing \subseteq Runs

LEMMA DaemonInvInit == DInit => DaemonInv
BY InitInv DEF DInit, DaemonInv, Lives

LEMMA DaemonInvNext == ASSUME DaemonInv, [DNext]_dvars PROVE DaemonInv'
<1>1. IInv'
  BY NextInv DEF DaemonInv
<1>2. life' \in [Runs -> Lives] /\ asked' \subseteq Runs /\ mailing' \subseteq Runs
  <2>1. CASE \E r \in Runs : Run(r)
    <3>1. PICK r \in Runs : Run(r)
      BY <2>1
    <3>2. CASE Start(r) \/ TruncateToken(r) \/ WriteToken(r) \/ Listen(r)
      BY <3>2 DEF Start, TruncateToken, WriteToken, Listen, Reach, DaemonInv, Lives
    <3>3. CASE Mail(r) \/ Interrupt(r) \/ CloseListener(r)
      BY <3>3 DEF Mail, Interrupt, CloseListener, DaemonInv
    <3>4. CASE ServeFails(r) \/ Leave(r) \/ Exit(r) \/ Crash(r)
      BY <3>4 DEF ServeFails, Leave, Exit, Crash, Reach, DaemonInv, Lives
    <3> QED
      BY <3>1, <3>2, <3>3, <3>4 DEF Run
  <2>2. CASE \E c \in Clients : Handle(c) \/ Dispatch(c) \/ WriteReply(c) \/ Client(c)
    <3>1. UNCHANGED <<life, asked, mailing>>
      BY <2>2 DEF Handle, Dispatch, WriteReply, Client, Connection, Refuse, LoadToken, Ping, Ponged, PingFails,
         Call, Replied, CallTimesOut, Local, server
    <3> QED
      BY <3>1 DEF DaemonInv
  <2>3. CASE UNCHANGED dvars
    BY <2>3 DEF dvars, server, DaemonInv
  <2> QED
    BY <2>1, <2>2, <2>3 DEF DNext
<1>3. bye' \subseteq Runs
  <2>1. CASE \E c \in Clients : Dispatch(c)
    <3>1. PICK c \in Clients : Dispatch(c)
      BY <2>1
    <3>2. conn[c].to \in Runs
      BY <3>1 DEF Dispatch, Alive
    <3> QED
      BY <3>1, <3>2 DEF Dispatch, DaemonInv
  <2>2. CASE ~\E c \in Clients : Dispatch(c)
    <3>1. bye' = bye
      BY <2>2 DEF DNext, Run, Start, TruncateToken, WriteToken, Listen, Mail, Interrupt, CloseListener, ServeFails,
         Leave, Exit, Crash, Handle, WriteReply, Client, Connection, Refuse, LoadToken, Ping, Ponged, PingFails,
         Call, Replied, CallTimesOut, Local, server, dvars
    <3> QED
      BY <3>1 DEF DaemonInv
  <2> QED
    BY <2>1, <2>2
<1> QED
  BY <1>1, <1>2, <1>3 DEF DaemonInv

LEMMA DaemonInvOK == DaemonInv => DaemonOK
BY DEF DaemonInv, IInv, Types, DaemonOK, Conns, Phases, Stages, Lives

-----------------------------------------------------------------------------
Programs == {"none", "boot", "login", "opening", "menu", "dashboard", "ended"}

TabNames == {Tabs[i] : i \in 1..6}

ConsoleInv ==
    /\ OnRow /\ LoginInv
    /\ program \in Programs /\ focus \in {0, 1} /\ passphrase \in Texts \cup {"none"}
    /\ tab \in TabNames /\ detail \in Lists \cup {"none"}

LEMMA TabsAre ==
    /\ TabNames = {"dashboard", "dossier", "matrix", "stream", "playbooks", "vault"}
    /\ \A i \in 1..6 : Tabs[i] \in TabNames
    /\ \A t \in TabNames : At(t) \in 1..6
<1>1. /\ Tabs[1] = "dashboard" /\ Tabs[2] = "dossier" /\ Tabs[3] = "matrix" /\ Tabs[4] = "stream"
      /\ Tabs[5] = "playbooks" /\ Tabs[6] = "vault"
  BY DEF Tabs
<1>2. \A i \in 1..6 : i = 1 \/ i = 2 \/ i = 3 \/ i = 4 \/ i = 5 \/ i = 6
  OBVIOUS
<1>3. \A i \in 1..6 : Tabs[i] \in {"dashboard", "dossier", "matrix", "stream", "playbooks", "vault"}
  BY <1>1, <1>2
<1>4. \A t \in {"dashboard", "dossier", "matrix", "stream", "playbooks", "vault"} : \E i \in 1..6 : Tabs[i] = t
  <2>1. 1 \in 1..6 /\ 2 \in 1..6 /\ 3 \in 1..6 /\ 4 \in 1..6 /\ 5 \in 1..6 /\ 6 \in 1..6
    OBVIOUS
  <2> QED
    BY <1>1, <2>1
<1>5. \A t \in TabNames : At(t) \in 1..6
  BY DEF TabNames, At
<1> QED
  BY <1>3, <1>4, <1>5 DEF TabNames

LEMMA ConsoleInvInit == CInit => ConsoleInv
<1>1. CInit => OnRow
  BY ConsoleAssumption DEF CInit, OnRow, Counts, CursorInside, MaxCursor, Lists
<1>2. CInit => LoginInv
  BY FieldsKept DEF CInit, LoginInv, Looked, Checks, TypedTwice, Blanks
<1> QED
  BY <1>1, <1>2, TabsAre DEF CInit, ConsoleInv, Programs

LEMMA ConsoleInvNext == ASSUME ConsoleInv, [CNext]_cvars PROVE ConsoleInv'
<1>1. OnRow' /\ LoginInv'
  BY CursorStep, LoginStep DEF ConsoleInv
<1>2. program' \in Programs
  BY DEF CNext, OpenProgram, BootResult, BootFull, BootCancel, BootQuit, Edit, Tab, SubmitPassword, CancelLogin,
     LoginQuit, OpenVault, SnapArrives, NextTab, PickTab, MoveCursor, OpenDetail, Escape, cvars, ConsoleInv, Programs
<1>3. focus' \in {0, 1}
  <2>1. CASE Tab
    BY <2>1 DEF Tab, ConsoleInv
  <2>2. CASE SubmitPassword \/ OpenVault
    BY <2>2 DEF SubmitPassword, OpenVault, ConsoleInv
  <2>3. CASE ~Tab /\ ~SubmitPassword /\ ~OpenVault
    <3>1. focus' = focus
      BY <2>3 DEF CNext, OpenProgram, BootResult, BootFull, BootCancel, BootQuit, Edit, CancelLogin,
         LoginQuit, SnapArrives, NextTab, PickTab, MoveCursor, OpenDetail, Escape, cvars, login
    <3> QED
      BY <3>1 DEF ConsoleInv
  <2> QED
    BY <2>1, <2>2, <2>3
<1>4. passphrase' \in Texts \cup {"none"}
  <2>1. CASE OpenVault
    <3>1. typed.pass \in Texts
      BY DEF ConsoleInv, LoginInv
    <3>2. passphrase' \in {typed.pass, passphrase}
      BY <2>1 DEF OpenVault
    <3> QED
      BY <3>1, <3>2 DEF ConsoleInv
  <2>2. CASE OpenProgram
    BY <2>2 DEF OpenProgram, ConsoleInv, Texts
  <2>3. CASE ~OpenVault /\ ~OpenProgram
    <3>1. passphrase' = passphrase
      BY <2>3 DEF CNext, BootResult, BootFull, BootCancel, BootQuit, Edit, Tab, SubmitPassword, CancelLogin,
         LoginQuit, SnapArrives, NextTab, PickTab, MoveCursor, OpenDetail, Escape, cvars, login
    <3> QED
      BY <3>1 DEF ConsoleInv
  <2> QED
    BY <2>1, <2>2, <2>3
<1>5. tab' \in TabNames /\ detail' \in Lists \cup {"none"}
  <2>1. CASE NextTab
    <3>1. At(tab) \in 1..6 /\ tab \in TabNames /\ detail \in Lists \cup {"none"}
      BY TabsAre DEF ConsoleInv
    <3>2. (At(tab) % 6) + 1 \in 1..6 /\ ((At(tab) + 4) % 6) + 1 \in 1..6
      BY <3>1
    <3>3. tab' \in {"dashboard", Tabs[(At(tab) % 6) + 1], Tabs[((At(tab) + 4) % 6) + 1]}
      BY <2>1 DEF NextTab
    <3>4. detail' \in {detail, "none"}
      BY <2>1 DEF NextTab
    <3> QED
      BY <3>1, <3>2, <3>3, <3>4, TabsAre
  <2>2. CASE PickTab
    BY <2>2, TabsAre DEF PickTab, ConsoleInv
  <2>3. CASE OpenDetail
    BY <2>3 DEF OpenDetail, ConsoleInv
  <2>4. CASE Escape
    BY <2>4 DEF Escape, ConsoleInv
  <2>5. CASE SnapArrives \/ MoveCursor
    BY <2>5 DEF SnapArrives, MoveCursor, ConsoleInv
  <2>6. CASE UNCHANGED view
    BY <2>6 DEF view, ConsoleInv
  <2> QED
    BY <2>1, <2>2, <2>3, <2>4, <2>5, <2>6 DEF CNext, cvars, OpenProgram, BootResult, BootFull, BootCancel,
       BootQuit, Edit, Tab, SubmitPassword, CancelLogin, LoginQuit, OpenVault
<1> QED
  BY <1>1, <1>2, <1>3, <1>4, <1>5 DEF ConsoleInv

LEMMA ConsoleInvOK == ConsoleInv => ConsoleOK
BY DEF ConsoleInv, ConsoleOK, OnRow, LoginInv, Looked, Counts, Programs, TabNames

-----------------------------------------------------------------------------
Statements == {"check", "profile", "launch", "connect", "page", "identity", "navigate", "detect",
               "create", "poll", "inject", "fill", "verdict", "audit", "close", "over"}

FieldNames == {Fields[i] : i \in 1..Len(Fields)}

AutomateInv ==
    /\ FormInv /\ stp \in Statements
    /\ {profile, stuck, solver, expired, solved, clicked} \subseteq BOOLEAN
    /\ browser \in {"none", "running", "connected", "gone"}
    /\ challenge \in {"none", "recaptcha", "hcaptcha", "other"}
    /\ field \in 0..Len(Fields) /\ filled \subseteq FieldNames
    /\ status \in {"FAILED", "NEEDS_HUMAN", "CONFIRMED", "SUBMITTED"}
    /\ outcome \in {"none", "error", "result"} /\ audited \in {"none", "written", "refused"}

LEMMA AutomateInvInit == AInit => AutomateInv
<1> SUFFICES ASSUME AInit PROVE AutomateInv
  OBVIOUS
<1>1. Len(Fields) = 6
  BY DEF Fields
<1>2. FormInv /\ stp \in Statements
  BY FormInit DEF AInit, Statements
<1>3. field \in 0..Len(Fields) /\ filled \subseteq FieldNames
  BY <1>1 DEF AInit
<1>4. {profile, stuck, solver, expired, solved, clicked} \subseteq BOOLEAN
  BY DEF AInit
<1> QED
  BY <1>2, <1>3, <1>4 DEF AInit, AutomateInv

LEMMA AutomateInvNext == ASSUME AutomateInv, [ANext]_avars PROVE AutomateInv'
<1>1. FormInv'
  BY FormNext DEF AutomateInv
<1>2. Len(Fields) = 6 /\ \A i \in 1..6 : Fields[i] \in FieldNames
  BY DEF Fields, FieldNames
<1> USE DEF To, Error, directory
<1>3. CASE UNCHANGED avars
  BY <1>1, <1>3 DEF avars, page, AutomateInv
<1>4. CASE Refused \/ GetSolver \/ EphemeralProfile \/ LaunchProcess \/ Connect
  BY <1>1, <1>4 DEF Refused, GetSolver, EphemeralProfile, LaunchProcess, Connect, RemoveProfile, page,
     AutomateInv, Statements
<1>5. CASE OpenPage \/ Close
  BY <1>1, <1>5 DEF OpenPage, Close, Shut, RemoveProfile, page, AutomateInv, Statements
<1>6. CASE Deadline
  BY <1>1, <1>6 DEF Deadline, AutomateInv
<1>7. CASE LoadIdentity \/ Navigate \/ CreateTask \/ Poll
  BY <1>1, <1>7 DEF LoadIdentity, Navigate, CreateTask, Poll, page, AutomateInv, Statements
<1>8. CASE DetectChallenge
  BY <1>1, <1>8 DEF DetectChallenge, NeedsHuman, AutomateInv, Statements
<1>9. CASE InjectToken
  BY <1>1, <1>9 DEF InjectToken, AutomateInv, Statements
<1>10. CASE Fill
  <2>1. field + 1 \in 1..6
    BY <1>2, <1>10 DEF Fill, AutomateInv
  <2>2. field' \in 0..Len(Fields) /\ filled' \subseteq FieldNames
    BY <1>2, <1>10, <2>1 DEF Fill, AutomateInv
  <2> QED
    BY <1>1, <1>10, <2>2 DEF Fill, AutomateInv
<1>11. CASE Submit \/ Verdict
  BY <1>1, <1>11 DEF Submit, Verdict, AutomateInv, Statements
<1>12. CASE Audit
  BY <1>1, <1>12 DEF Audit, page, AutomateInv, Statements
<1> QED
  BY <1>3, <1>4, <1>5, <1>6, <1>7, <1>8, <1>9, <1>10, <1>11, <1>12 DEF ANext, AStep, Launch

LEMMA AutomateInvOK == AutomateInv => AutomateOK
BY DEF AutomateInv, AutomateOK, Statements, FieldNames

-----------------------------------------------------------------------------
\* The goroutines that have a slot.
Busy == {i \in Names : routine[i] \in {"started", "answered", "holding", "appended"}}

Slotted ==
    /\ taken = Cardinality(Busy) /\ taken \in 0..Slots
    /\ kind \in {"footprint", "breaches"} /\ persist \in BOOLEAN /\ mutex \in {0} \cup Names
    /\ report \in {"none", "complete", "failed", "unsaved"}

ProbesTyped == ProbesInv /\ Slotted

LEMMA SlottedInit == PInit => Slotted
<1> SUFFICES ASSUME PInit PROVE Slotted
  OBVIOUS
<1>1. Busy = {} /\ Cardinality({}) = 0
  BY FS_EmptySet DEF PInit, Busy
<1>2. 0 \in 0..Slots
  BY ProbesAssumption
<1> QED
  BY <1>1, <1>2 DEF PInit, Slotted

\* What neither takes nor gives back a slot.
LEMMA SameSlots ==
    ASSUME Slotted, taken' = taken, Busy' = Busy, UNCHANGED <<kind, persist>>, mutex' \in {0} \cup Names,
           report' \in {"none", "complete", "failed", "unsaved"}
    PROVE  Slotted'
BY DEF Slotted

LEMMA SlottedNext == ASSUME ProbesInv, Slotted, [PNext]_pvars PROVE Slotted'
<1>1. routine \in [Names -> Progress] /\ next \in 0..Len(Items) /\ Len(Items) \in Nat
  BY Lengths DEF ProbesInv, ProbesTypes
<1>2. IsFiniteSet(Busy)
  BY Lengths, FS_Subset DEF Busy
<1>3. CASE UNCHANGED pvars
  BY <1>3 DEF pvars, Slotted, Busy
<1>4. CASE Begin
  BY <1>4 DEF Begin, Slotted, Busy
<1>5. CASE Spawn
  <2>1. /\ next + 1 \in Names /\ routine[next + 1] = "none"
        /\ routine' = [routine EXCEPT ![next + 1] = "started"] /\ taken' = taken + 1 /\ taken < Slots
        /\ UNCHANGED <<kind, persist, mutex, report>>
    BY <1>1, <1>5 DEF Spawn, Become, ProbesInv, Own, Names
  <2>2. Busy' = Busy \cup {next + 1} /\ next + 1 \notin Busy
    BY <1>1, <2>1 DEF Busy
  <2>3. Cardinality(Busy') = Cardinality(Busy) + 1
    BY <1>2, <2>2, FS_AddElement
  <2>4. taken' \in 0..Slots
    BY <2>1, ProbesAssumption DEF Slotted
  <2> QED
    BY <2>1, <2>3, <2>4 DEF Slotted
<1>6. ASSUME NEW i \in Names, Request(i) \/ LockResults(i) \/ AppendResult(i) PROVE Slotted'
  <2>1. /\ taken' = taken /\ UNCHANGED <<kind, persist, report>> /\ mutex' \in {0} \cup Names
        /\ routine[i] \in {"started", "answered", "holding"}
        /\ \E s \in {"answered", "holding", "appended"} : routine' = [routine EXCEPT ![i] = s]
    BY <1>6 DEF Request, LockResults, AppendResult, Become, Slotted
  <2>2. Busy' = Busy
    BY <1>1, <2>1 DEF Busy
  <2> QED
    BY <2>1, <2>2, SameSlots DEF Slotted
<1>7. ASSUME NEW i \in Names, Release(i) PROVE Slotted'
  <2>1. /\ routine[i] = "appended" /\ routine' = [routine EXCEPT ![i] = "done"] /\ taken' = taken - 1
        /\ UNCHANGED <<kind, persist, mutex, report>>
    BY <1>7 DEF Release, Become
  <2>2. Busy' = Busy \ {i} /\ i \in Busy
    BY <1>1, <2>1 DEF Busy
  <2>3. Cardinality(Busy') = Cardinality(Busy) - 1
    BY <1>2, <2>2, FS_RemoveElement
  <2>4. Cardinality(Busy') \in Nat
    <3>1. IsFiniteSet(Busy')
      BY <1>2, <2>2, FS_RemoveElement
    <3> QED
      BY <3>1, FS_CardinalityType
  <2>5. taken' = Cardinality(Busy') /\ taken' \in 0..Slots
    BY <2>1, <2>3, <2>4, ProbesAssumption DEF Slotted
  <2> QED
    BY <2>1, <2>5 DEF Slotted
<1>8. CASE Wait \/ Report
  <2>1. /\ taken' = taken /\ UNCHANGED <<kind, persist, mutex, routine>>
        /\ report' \in {report, "complete", "failed", "unsaved"}
    BY <1>8 DEF Wait, Report
  <2>2. Busy' = Busy
    BY <2>1 DEF Busy
  <2> QED
    BY <2>1, <2>2, SameSlots DEF Slotted
<1> QED
  BY <1>3, <1>4, <1>5, <1>6, <1>7, <1>8 DEF PNext, Routine

LEMMA ProbesTypedOK == ProbesTyped => ProbesOK
BY DEF ProbesTyped, ProbesInv, ProbesTypes, Waited, Slotted, ProbesOK, Progress, Found, Findings

-----------------------------------------------------------------------------
SessionInv == DaemonInv /\ Flow /\ Rows /\ Known /\ ConsoleInv /\ AutomateInv /\ ProbesTyped

\* Each of the five steps for itself, and what stutters stays.
LEMMA SessionStep == SessionInv /\ [SessionNext]_allVars => SessionInv'
<1> SUFFICES ASSUME SessionInv, [SessionNext]_allVars PROVE SessionInv'
  OBVIOUS
<1>1. [DNext]_dvars /\ [TNext]_tvars /\ [CNext]_cvars /\ [ANext]_avars /\ [PNext]_pvars
  BY DEF SessionNext, allVars
<1>2. DaemonInv'
  BY <1>1, DaemonInvNext DEF SessionInv
<1>3. Flow' /\ Rows' /\ Known'
  BY <1>1, FlowNext, RowsNext, KnownNext DEF SessionInv
<1>4. ConsoleInv' /\ AutomateInv'
  BY <1>1, ConsoleInvNext, AutomateInvNext DEF SessionInv
<1>5. ProbesTyped'
  BY <1>1, ProbesNext, SlottedNext DEF SessionInv, ProbesTyped
<1> QED
  BY <1>2, <1>3, <1>4, <1>5 DEF SessionInv

\* The variables of the five programs keep their types, for every number of runs, clients, listings,
\* rows, items and slots (run.go, interactive.go, app.go, automate.go, footprint.go).
THEOREM SessionTypes == SessionSpec => []TypesOK
<1>1. SessionInit => SessionInv
  <2>1. TInit => Known
    BY DEF TInit, Known
  <2> QED
    BY <2>1, DaemonInvInit, FlowInit, RowsInit, ConsoleInvInit, AutomateInvInit, ProbesInit, SlottedInit
       DEF SessionInit, SessionInv, ProbesTyped
<1>2. SessionInv => TypesOK
  BY DaemonInvOK, FlowRowsOK, ConsoleInvOK, AutomateInvOK, ProbesTypedOK DEF SessionInv, TypesOK
<1> QED
  BY <1>1, <1>2, SessionStep, PTL DEF SessionSpec
=============================================================================
