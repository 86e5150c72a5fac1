------------------------------ MODULE Terminal ------------------------------
(***************************************************************************)
(* The screens of a terminal session: what runInteractive and the          *)
(* functions under it read, in which order, and where each line leads.     *)
(* Screens that loop are on a stack; a dialog is the sequence of what is   *)
(* still to be read and done before its screen is drawn again.  "m" sets   *)
(* a flag that every loop is to look at before it asks anything.  The      *)
(* listings are paged over a snapshot that other processes outdate.        *)
(***************************************************************************)
EXTENDS Integers, Sequences, FiniteSets, SequencesExt

CONSTANTS
    Sites,      \* listings, in the order of their brokers' names
    SheetRows,  \* listingsPage
    Finds       \* the search texts, each as the set of the listings it matches

ASSUME TerminalAssumption ==
    Sites \subseteq Nat /\ IsFiniteSet(Sites) /\ SheetRows \in Nat \ {0} /\ Finds \subseteq SUBSET Sites

VARIABLES
    stack,      \* the screens that loop, the innermost last; <<>> after the end
    reads,      \* what the dialog still has to read and to do; <<>> before a screen is drawn
    held,       \* whether the session holds the vault open itself
    eof,        \* whether the standard input is at its end
    goHome,     \* session.goHome
    stage,      \* how far the first start's set-up is
    stored,     \* the listings in the vault
    shown,      \* the rows on the screen
    sheet,      \* the page, from 0
    sheets,     \* how many pages the snapshot on the screen has
    filter,     \* the listings the filter lets through
    picked,     \* the listing whose record is on the screen, or 0
    marked,     \* history: the listing that was marked verified gone last, or 0
    meant,      \* history: the one the user saw under the number that was typed, or 0
    jumped      \* history: where "m" was last typed since the home screen, at a "screen" or pause,
                \* or at the "menu" of a dialog

paging == <<shown, sheet, sheets, filter, picked>>
flow   == <<stack, reads, goHome, stage, jumped>>
given  == <<held, eof, stored>>
tvars  == <<flow, given, paging, marked, meant>>

Screen == Last(stack)

Lines == IF eof THEN {""} ELSE {"", "m", "0", "y", "text", "bad"}

-----------------------------------------------------------------------------
(***************************************************************************)
(* The dialogs of each screen.  A work that fails goes to the last read.   *)
(***************************************************************************)
Person == <<"required", "required", "checked", "checked", "checked", "checked", "city">>

NeedLocal == {<<"wait">>}

DoScan      == {<<"wait">>, <<"scan", "wait">>}
DoScrub     == {<<"go", "scrub", "wait">>}
DoSend      == IF held THEN {<<"wait">>, <<"go", "send", "wait">>} ELSE NeedLocal
DoFootprint == {<<"maybe", "line", "footprint", "wait">>}
DoExport    == {<<"format", "export", "line", "wait">>}
DoExif      == {<<"maybe", "line", "strip", "wait">>}
DoGuide     == {<<"wait">>}

Link        == {<<"must", "password", "link", "pause">>,
                <<"must", "password", "link", "and", "inbox", "pause">>}
Custom      == {<<"must", "line", "line", "line", "line", "optional", "link", "pause">>}
SameInbox   == {<<"pause">>, <<"inbox", "pause">>}
Unlink      == {<<"unlink", "pause">>, <<"unlink", "and", "clear", "pause">>}
CustomInbox == {<<"pick", "line", "line", "line", "optional", "inbox", "pause">>,
                <<"pick", "maybe", "line", "line", "line", "line", "optional", "inbox", "pause">>}
StopInbox   == {<<"clear", "pause">>}

Proxy       == <<"line", "save", "pause">>
Law         == <<"pick", "save", "pause">>
ApiKey      == IF held THEN <<"secret", "put", "pause">> ELSE <<"wait">>
FormFill    == {<<"line", "save", "pause">>, <<"line", "line", "line", "save", "pause">>}
Speed       == <<"line", "save">>
Folders     == {<<"pause">>, <<>>}

AddPerson   == {Person \o <<"add", "pause">>}
AddAttr     == {<<"value", "attr", "pause">>}
CheckOne    == {<<"secret", "check", "report">>}
Generate    == {<<"report">>}
Complete    == {<<"line", "complete", "pause">>}
VerifyById  == {<<"maybe", "verifyAny", "pause">>}

\* A site, its steps and the offer to open its page; then the browser, if that is enabled.
Playbook    == {e \o f : e \in {<<"entry">>, <<"entry", "pause">>},
                         f \in {<<>>, <<"ask", "automate", "pause">>}}

Dialogs ==
    CASE Screen = "home"      -> DoScan \cup DoScrub \cup DoSend \cup DoFootprint \cup DoExport
                                 \cup DoExif \cup DoGuide
      [] Screen = "email"     -> Link \cup Custom \cup SameInbox \cup Unlink
      [] Screen = "inbox"     -> SameInbox \cup CustomInbox \cup StopInbox
      [] Screen = "settings"  -> {Proxy, Law, ApiKey, Speed} \cup FormFill \cup Folders
      [] Screen = "identity"  -> AddPerson \cup AddAttr
      [] Screen = "leaks"     -> CheckOne \cup Generate
      [] Screen = "progress"  -> Complete \cup VerifyById
      [] Screen = "playbooks" -> Playbook
      [] OTHER                -> {}

Loops == {"listings", "identity", "email", "inbox", "settings", "playbooks", "leaks"}

\* What the set-up asks; its second dialog ends in the screen of the mail.
Setup == <<Person \o <<"add">>, <<"go", "email">>, <<"ask">> \o Proxy, Law, <<"wait">>>>

Works == {"scan", "scrub", "send", "footprint", "export", "strip", "link", "inbox", "unlink", "clear",
          "save", "put", "add", "attr", "check", "complete", "verify", "verifyAny", "automate", "email"}

-----------------------------------------------------------------------------
(***************************************************************************)
(* Drawing a screen.                                                       *)
(***************************************************************************)
Jump(yes) == goHome' = (goHome \/ yes) /\ jumped' = IF yes THEN "screen" ELSE jumped

Pop == stack' = Front(stack)

\* Every round of the loop of runInteractive begins here, with nothing left of a listings screen.
DrawHome ==
    /\ stack = <<"home">> /\ reads = <<>>
    /\ goHome' = FALSE /\ jumped' = "none" /\ reads' = <<"menu">>
    /\ shown' = <<>> /\ sheet' = 0 /\ sheets' = 0 /\ filter' = Sites /\ picked' = 0
    /\ marked' = 0 /\ meant' = 0
    /\ UNCHANGED <<stack, stage, given>>

\* Mutant: the screen asks, whatever the flag says.
LookAway == reads' = <<"choice">> /\ UNCHANGED stack

\* The flag is looked at first.
Look == IF goHome THEN Pop /\ UNCHANGED reads ELSE reads' = <<"choice">> /\ UNCHANGED stack

\* The screen, or the error of the snapshot it shows and then the end of it.  A client of the
\* daemon gets its playbooks as one text.
DrawLoop ==
    /\ stack # <<>> /\ Screen \notin {"home", "setup", "listings"} /\ reads = <<>>
    /\ \/ ~(Screen = "playbooks" /\ ~held) /\ Look
       \/ ~goHome /\ Screen \in {"progress", "identity", "playbooks"} /\ Pop /\ reads' = <<"pause">>
    /\ UNCHANGED <<goHome, stage, jumped, given, paging, marked, meant>>

NextStage ==
    /\ stack = <<"setup">> /\ reads = <<>>
    /\ stage' = stage + 1 /\ goHome' = FALSE
    /\ IF stage = Len(Setup) THEN stack' = <<"home">> /\ UNCHANGED reads
                             ELSE reads' = Setup[stage + 1] /\ UNCHANGED stack
    /\ UNCHANGED <<jumped, given, paging, marked, meant>>

-----------------------------------------------------------------------------
(***************************************************************************)
(* Reading a line in a dialog.                                             *)
(***************************************************************************)
\* The reads that take "m" for the way home.
Navs == {"pause", "format", "entry", "record", "report", "rows"}

\* The menus within a dialog, of the laws and of the mail hosts, offer numbers as a screen does,
\* and take an "m" like any other line that is none of them.  The other questions ask for a text
\* or a yes.
Menus == {"pick"}

\* What is on record of line l as the answer to a read of this kind.
Typed(kind, l) ==
    jumped' = IF l = "m" /\ kind \in Navs THEN "screen"
              ELSE IF l = "m" /\ kind \in Menus THEN "menu" ELSE jumped

\* Where line l leads when it answers a read of this kind: on, to the same read again, past the
\* next item, to the question about an unknown city, to the error, or back to the screen.
Verdicts(kind, l) ==
    CASE kind \in {"pause", "wait", "line"} -> {"on"}
      [] kind = "required" -> IF l = "" THEN {"again"} ELSE {"on", "again"}
      [] kind = "checked"  -> IF l = "" THEN {"on"} ELSE {"on", "again"}
      [] kind = "city"     -> IF l = "" THEN {"on"} ELSE {"on", "again", "doubt"}
      [] kind = "keep"     -> IF l = "y" THEN {"skip"} ELSE {"on"}
      [] kind = "value"    -> IF l = "" THEN {"stop"} ELSE {"on", "again"}
      [] kind = "maybe"    -> IF l = "" THEN {"stop"} ELSE {"on"}
      [] kind = "must"     -> IF l = "" THEN {"on", "fail"} ELSE {"on"}
      [] kind = "password" -> IF l = "" THEN {"fail"} ELSE {"on"}
      [] kind = "secret"   -> IF eof THEN {"fail"} ELSE IF l = "" THEN {"stop"} ELSE {"on"}
      [] kind = "optional" -> IF eof THEN {"fail"} ELSE {"on"}
      [] kind = "go"       -> IF l \in {"", "y"} THEN {"on"} ELSE {"stop"}
      [] kind = "and"      -> IF l \in {"", "y"} THEN {"on"} ELSE {"skip"}
      [] kind = "ask"      -> IF l = "y" THEN {"on"} ELSE {"stop"}
      [] kind \in {"pick", "record", "rows"} -> IF l = "text" THEN {"on"} ELSE {"stop"}
      [] kind \in {"format", "entry"} -> IF l \in {"", "m", "0"} THEN {"stop"} ELSE {"on"}
      [] kind = "report"   -> IF l = "text" THEN {"again"} ELSE {"stop"}

\* Every dialog that can fail ends with the read that shows the error, or has none.
Shown == IF Last(reads) = "wait" THEN <<"wait">> ELSE <<"pause">>

Rest(verdict) ==
    CASE verdict = "on"    -> Tail(reads)
      [] verdict = "again" -> reads
      [] verdict = "skip"  -> Tail(Tail(reads))
      [] verdict = "doubt" -> <<"keep">> \o reads
      [] verdict = "fail"  -> Shown
      [] verdict = "stop"  -> <<>>

\* Mutant: a pause is left like the other questions.
ReadLinePlain ==
    /\ reads # <<>> /\ Head(reads) \notin Works \cup {"menu", "choice", "empty", "number", "find"}
    /\ \E l \in Lines : \E v \in Verdicts(Head(reads), l) :
          /\ reads' = Rest(v)
          /\ goHome' = (goHome \/ (l = "m" /\ Head(reads) \in Navs \ {"pause"}))
          /\ Typed(Head(reads), l)
    /\ UNCHANGED <<stack, stage, given, paging, marked, meant>>

ReadLine ==
    /\ reads # <<>> /\ Head(reads) \notin Works \cup {"menu", "choice", "empty", "number", "find"}
    /\ \E l \in Lines : \E v \in Verdicts(Head(reads), l) :
          /\ reads' = Rest(v)
          /\ goHome' = (goHome \/ (l = "m" /\ Head(reads) \in Navs))
          /\ Typed(Head(reads), l)
    /\ UNCHANGED <<stack, stage, given, paging, marked, meant>>

-----------------------------------------------------------------------------
(***************************************************************************)
(* Doing what a dialog asked for.                                          *)
(***************************************************************************)
\* Through the daemon or in this process; an error is shown and ends the dialog.
Work ==
    /\ reads # <<>> /\ Head(reads) \in Works \ {"email", "verify"}
    /\ \/ reads' = Tail(reads) /\ UNCHANGED stack
       \/ /\ Screen # "setup" \/ Head(reads) # "add"
          /\ reads' = Shown /\ UNCHANGED stack
       \/ /\ Screen = "setup" /\ Head(reads) = "add"
          /\ stack' = <<>> /\ reads' = <<>>
    /\ UNCHANGED <<goHome, stage, jumped, given, paging, marked, meant>>

\* The record on the screen, by its id.
Verify ==
    /\ reads # <<>> /\ Head(reads) = "verify"
    /\ \/ marked' = picked /\ reads' = Tail(reads)
       \/ reads' = Shown /\ UNCHANGED marked
    /\ UNCHANGED <<stack, goHome, stage, jumped, given, paging, meant>>

\* The set-up's way to the mail.
OpenMail ==
    /\ reads # <<>> /\ Head(reads) = "email"
    /\ stack' = Append(stack, "email") /\ reads' = <<>>
    /\ UNCHANGED <<goHome, stage, jumped, given, paging, marked, meant>>

-----------------------------------------------------------------------------
(***************************************************************************)
(* Choosing on a screen that loops.                                        *)
(***************************************************************************)
NeedsVault(screen) == screen \in {"email", "inbox", "leaks"}

\* An empty line draws the home screen again, and so does the end of the input.
ChooseHome ==
    /\ reads = <<"menu">>
    /\ \E l \in Lines :
          \/ l = "0" /\ stack' = <<>> /\ reads' = <<>>
          \/ l \in {"", "m", "y", "bad"} /\ reads' = <<>> /\ UNCHANGED stack
          \/ l = "text" /\ reads' \in Dialogs /\ UNCHANGED stack
          \/ /\ l = "text"
             /\ \E screen \in Loops :
                   IF held \/ ~NeedsVault(screen)
                   THEN stack' = Append(stack, screen) /\ reads' = <<>>
                   ELSE reads' \in NeedLocal /\ UNCHANGED stack
    /\ UNCHANGED <<goHome, stage, jumped, given, paging, marked, meant>>

\* Mutant: an empty line draws the screen again, as on the home screen.
ChooseForEver ==
    /\ reads = <<"choice">> /\ Screen # "listings"
    /\ \E l \in Lines :
          /\ Jump(l = "m")
          /\ \/ l \in {"m", "0"} /\ Pop /\ reads' = <<>>
             \/ l = "text" /\ reads' \in Dialogs /\ UNCHANGED stack
             \/ l \in {"", "y", "bad"} /\ reads' = <<>> /\ UNCHANGED stack
    /\ UNCHANGED <<stage, given, paging, marked, meant>>

Choose ==
    /\ reads = <<"choice">> /\ Screen # "listings"
    /\ \E l \in Lines :
          /\ Jump(l = "m")
          /\ \/ l \in {"m", "0", ""} /\ Pop /\ reads' = <<>>
             \/ l = "text" /\ reads' \in Dialogs /\ UNCHANGED stack
             \/ l \in {"y", "bad"} /\ reads' = <<>> /\ UNCHANGED stack
    /\ UNCHANGED <<stage, given, paging, marked, meant>>

-----------------------------------------------------------------------------
(***************************************************************************)
(* The listings.                                                           *)
(***************************************************************************)
\* sortListings and filterListings over the snapshot of this moment.
Ascending(q) == \A i, j \in DOMAIN q : i < j => q[i] < q[j]

Sorted == CHOOSE q \in SetToSeqs(stored \cap filter) : Ascending(q)

Pages(n) == (n + SheetRows - 1) \div SheetRows

\* Mutant: only a page beyond the last one is put right.
ClampedAbove(p, n) == IF p >= n THEN n - 1 ELSE p

Clamped(p, n) == IF p >= n THEN n - 1 ELSE IF p < 0 THEN 0 ELSE p

Least(a, b) == IF a < b THEN a ELSE b

Chunk(p) == SubSeq(Sorted, p * SheetRows + 1, Least((p + 1) * SheetRows, Len(Sorted)))

DrawListings ==
    /\ stack # <<>> /\ Screen = "listings" /\ reads = <<>>
    /\ IF goHome THEN Pop /\ UNCHANGED <<reads, shown, sheet, sheets>>
       ELSE \/ Pop /\ reads' = <<"wait">> /\ UNCHANGED <<shown, sheet, sheets>>
            \/ /\ IF stored = {} THEN Pop /\ reads' = <<"empty">>
                                 ELSE reads' = <<"choice">> /\ UNCHANGED stack
               /\ sheets' = Pages(Len(Sorted))
               /\ sheet' = IF Sorted = <<>> THEN sheet ELSE Clamped(sheet, sheets')
               /\ shown' = IF Sorted = <<>> THEN <<>> ELSE Chunk(sheet')
    /\ UNCHANGED <<goHome, stage, jumped, given, filter, picked, marked, meant>>

\* Nothing stored: any line goes back.
LeaveEmpty ==
    /\ reads = <<"empty">> /\ reads' = <<>>
    /\ \E l \in Lines : Jump(l = "m")
    /\ UNCHANGED <<stack, stage, given, paging, marked, meant>>

Listing == reads = <<"choice">> /\ Screen = "listings"

LeaveListings ==
    /\ Listing /\ Pop /\ reads' = <<>>
    /\ \E l \in Lines \cap {"m", "0", ""} : Jump(l = "m")
    /\ UNCHANGED <<stage, given, paging, marked, meant>>

\* n, p, f and l.
TurnPage ==
    /\ Listing /\ ~eof /\ shown # <<>> /\ reads' = <<>>
    /\ sheet' \in {Least(sheet + 1, sheets - 1), IF sheet > 0 THEN sheet - 1 ELSE 0, 0, sheets - 1}
    /\ UNCHANGED <<stack, goHome, stage, jumped, given, shown, sheets, filter, picked, marked, meant>>

\* g, and whatever number then comes.
AskPage ==
    /\ Listing /\ ~eof /\ shown # <<>> /\ reads' = <<"number">>
    /\ UNCHANGED <<stack, goHome, stage, jumped, given, paging, marked, meant>>

GotoPage ==
    /\ reads = <<"number">> /\ reads' = <<>>
    /\ sheet' \in IF eof THEN {sheet} ELSE (-1)..(sheets + 1)
    /\ UNCHANGED <<stack, goHome, stage, jumped, given, shown, sheets, filter, picked, marked, meant>>

\* "c", which also a filter that lets nothing through leaves, and "/" with or without a text.
Clear ==
    /\ Listing /\ ~eof /\ reads' = <<>> /\ sheet' = 0 /\ filter' = Sites
    /\ UNCHANGED <<stack, goHome, stage, jumped, given, shown, sheets, picked, marked, meant>>

Find ==
    /\ Listing /\ ~eof /\ shown # <<>> /\ sheet' = 0
    /\ \/ reads' = <<>> /\ filter' \in Finds
       \/ reads' = <<"find">> /\ filter' = Sites
    /\ UNCHANGED <<stack, goHome, stage, jumped, given, shown, sheets, picked, marked, meant>>

FindText ==
    /\ reads = <<"find">> /\ reads' = <<>>
    /\ filter' \in IF eof THEN {Sites} ELSE Finds \cup {Sites}
    /\ UNCHANGED <<stack, goHome, stage, jumped, given, shown, sheet, sheets, picked, marked, meant>>

\* "e", "s", and a text that is none of these.
Elsewhere ==
    /\ Listing /\ ~eof
    /\ \/ shown # <<>> /\ reads' = <<"rows", "export", "line", "pause">> /\ UNCHANGED stack
       \/ shown # <<>> /\ reads' = <<>> /\ stack' = Append(stack, "progress")
       \/ reads' = <<>> /\ UNCHANGED stack
    /\ UNCHANGED <<goHome, stage, jumped, given, paging, marked, meant>>

Record == {<<"record">>, <<"record", "pause">>, <<"record", "verify", "pause">>}

\* Mutant: the row of the rows as they are by now.
ShowListingNow ==
    /\ Listing /\ ~eof
    /\ \E i \in DOMAIN shown :
          /\ picked' = (Chunk(sheet))[i] /\ meant' = shown[i] /\ marked' = 0
          /\ reads' \in Record
    /\ UNCHANGED <<stack, goHome, stage, jumped, given, shown, sheet, sheets, filter>>

\* The number of a row: its record, which can be marked.
ShowListing ==
    /\ Listing /\ ~eof
    /\ \E i \in DOMAIN shown :
          /\ picked' = shown[i] /\ meant' = shown[i] /\ marked' = 0
          /\ reads' \in Record
    /\ UNCHANGED <<stack, goHome, stage, jumped, given, shown, sheet, sheets, filter>>

-----------------------------------------------------------------------------
\* The first start, or a session with a vault of its own, or one of the daemon.
TInit ==
    /\ stack \in {<<"setup">>, <<"home">>} /\ held \in BOOLEAN
    /\ stack = <<"setup">> => held
    /\ reads = <<>> /\ eof = FALSE /\ goHome = FALSE /\ stage = 0
    /\ stored = {} /\ shown = <<>> /\ sheet = 0 /\ sheets = 0 /\ filter = Sites /\ picked = 0
    /\ marked = 0 /\ meant = 0 /\ jumped = "none"

\* A scan of another process stores a listing.
Stored ==
    /\ \E x \in Sites \ stored : stored' = stored \cup {x}
    /\ UNCHANGED <<flow, held, eof, paging, marked, meant>>

EndOfInput ==
    /\ ~eof /\ stack # <<>> /\ eof' = TRUE
    /\ UNCHANGED <<flow, held, stored, paging, marked, meant>>

Session ==
    \/ DrawHome \/ DrawLoop \/ NextStage \/ DrawListings
    \/ ReadLine \/ Work \/ Verify \/ OpenMail \/ ChooseHome \/ Choose
    \/ LeaveEmpty \/ LeaveListings \/ TurnPage \/ AskPage \/ GotoPage \/ Clear \/ Find \/ FindText
    \/ Elsewhere \/ ShowListing

TNext == Session \/ Stored \/ EndOfInput

\* At the end of the input every read returns at once; what the user is asked for may never come.
TFairness == WF_tvars(eof /\ Session)

TSpec == TInit /\ [][TNext]_tvars /\ TFairness

-----------------------------------------------------------------------------
TerminalOK ==
    /\ Len(stack) <= 3 /\ Range(stack) \subseteq Loops \cup {"home", "setup", "progress"}
    /\ Len(reads) <= 10 /\ {held, eof, goHome} \subseteq BOOLEAN
    /\ jumped \in {"none", "screen", "menu"}
    /\ stage \in 0..(Len(Setup) + 1)
    /\ stored \subseteq Sites /\ {marked, meant, picked} \subseteq Sites \cup {0}
    /\ sheets \in 0..Cardinality(Sites) /\ Len(shown) <= SheetRows /\ Range(shown) \subseteq Sites

\* After an "m" at a screen or a pause nothing is asked any more before the home screen, however
\* deep the screens are, but for the offer of the browser after a playbook without an address
\* (interactive.go doGuide: "m jumps to the main menu from any nested screen").  The menus of the
\* laws and of the mail hosts do not hear it: there it leads to the screen they belong to, which
\* asks again, and no farther (wizards.go setLaw, doIMAPCustom).
JumpsHome ==
    stack # <<>> /\ Head(stack) = "home" /\ reads # <<>> =>
        /\ jumped = "screen" => Screen = "playbooks" /\ Head(reads) \in {"ask", "automate", "pause"}
        /\ jumped = "menu" => Screen \in {"settings", "inbox"}

\* When the input ends the session comes back to the home screen, through every question that is
\* open, and stays there; only a field that is required is asked for for ever
\* (interactive.go runInteractive, identity_check.go promptChecked).
InputEnds ==
    eof ~> [](stack \in {<<"home">>, <<>>}) \/ [](reads # <<>> /\ Head(reads) = "required")

\* The rows on the screen are a page that is there, whatever page was asked for and whatever was
\* stored, sought or cleared meanwhile; and what is marked as gone is what was on the screen under
\* the number that was typed (listings.go doListings, showListing).
RowsOnScreen ==
    /\ Listing /\ sheets > 0 => Len(shown) \in 1..SheetRows
    /\ marked \in {0, meant}
=============================================================================
