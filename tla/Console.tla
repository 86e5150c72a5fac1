------------------------------ MODULE Console ------------------------------
(***************************************************************************)
(* The programs that draw on the whole screen: the start, which looks for  *)
(* a vault while it counts to a hundred, the login, and the dashboard of   *)
(* nulltrace audit, whose rows are replaced whenever a snapshot arrives.   *)
(* Keys and the results of commands reach a program as messages, in any    *)
(* order; the message to quit is one of them.                              *)
(***************************************************************************)
EXTENDS Integers

CONSTANT MostRows   \* bound: rows of a snapshot

ASSUME ConsoleAssumption == MostRows \in Nat

VARIABLES
    program,    \* "none", "boot", "login", "opening", "menu", "dashboard" or "ended"
    found,      \* bootModel: the result of the look for a vault: "none", "new", "old" or "error"
    canceled,   \* bootModel.err is context.Canceled
    quitting,   \* whether the message to quit is on its way to the program
    fresh,      \* loginModel.first
    typed,      \* loginModel.pass and confirm
    focus,      \* loginModel.focus
    accepted,   \* loginModel.ok
    late,       \* history: a key changed the password after it was accepted
    passphrase, \* the one that opens the vault, or "none"
    tab,        \* model.tab
    cursor,     \* model.cursor
    detail,     \* the tab whose row model.detail is a copy of, or "none"
    rows        \* how many rows each list of model.snap has

boot  == <<found, canceled, quitting>>
login == <<fresh, typed, focus, accepted, late, passphrase>>
view  == <<tab, cursor, detail, rows>>
cvars == <<program, boot, login, view>>

\* What can be in a field: nothing, spaces only, or one of two words.
Texts == {"", "  ", "one", "two"}

Empty == [pass |-> "", confirm |-> ""]

-----------------------------------------------------------------------------
\* The start: runMenu without a daemon and without a passphrase file.
OpenProgram ==
    /\ program = "none"
    /\ \/ program' = "boot" /\ passphrase' \in {"none", "one"}
       \/ program' = "dashboard" /\ UNCHANGED passphrase
    /\ UNCHANGED <<boot, fresh, typed, focus, accepted, late, view>>

\* vaultInitialized answers, whatever happened before.
BootResult ==
    /\ program = "boot" /\ found = "none"
    /\ found' \in {"error", IF passphrase = "none" THEN "new" ELSE "old"}
    /\ canceled' = FALSE
    /\ UNCHANGED <<program, quitting, login, view>>

\* Nine tenths of a second and a hundred percent.
BootFull ==
    /\ program = "boot" /\ found # "none" /\ ~quitting
    /\ quitting' = TRUE
    /\ UNCHANGED <<program, found, canceled, login, view>>

BootCancel ==
    /\ program = "boot" /\ ~canceled
    /\ canceled' = TRUE /\ quitting' = TRUE
    /\ UNCHANGED <<program, found, login, view>>

BootQuit ==
    /\ program = "boot" /\ quitting
    /\ IF canceled \/ found = "error" THEN program' = "ended" /\ UNCHANGED fresh
                                     ELSE program' = "login" /\ fresh' = (found = "new")
    /\ quitting' = FALSE
    /\ UNCHANGED <<found, canceled, typed, focus, accepted, late, passphrase, view>>

-----------------------------------------------------------------------------
\* Typing, pasting and erasing in the field that has the focus; a key that comes between Enter
\* and the end of the program is one of these as well.
Edit ==
    /\ program = "login"
    /\ \E x \in Texts : typed' = IF fresh /\ focus = 1 THEN [typed EXCEPT !.confirm = x]
                                                       ELSE [typed EXCEPT !.pass = x]
    /\ late' = (late \/ (accepted /\ typed' # typed))
    /\ UNCHANGED <<program, boot, fresh, focus, accepted, passphrase, view>>

Tab ==
    /\ program = "login" /\ fresh
    /\ focus' = 1 - focus
    /\ UNCHANGED <<program, boot, fresh, typed, accepted, late, passphrase, view>>

\* ctrl+c and esc.
CancelLogin ==
    /\ program = "login" /\ ~quitting
    /\ quitting' = TRUE
    /\ UNCHANGED <<program, found, canceled, login, view>>

Accept == accepted' = TRUE /\ quitting' = TRUE /\ late' = FALSE

\* Mutant: what is typed a second time is not compared.
SubmitOnce ==
    /\ program = "login" /\ typed.pass \notin {"", "  "}
    /\ IF fresh /\ focus = 0 /\ typed.confirm = ""
       THEN focus' = 1 /\ UNCHANGED <<accepted, quitting, late>>
       ELSE Accept /\ UNCHANGED focus
    /\ UNCHANGED <<program, found, canceled, fresh, typed, passphrase, view>>

\* An empty password is refused; a new one must be typed twice.
SubmitPassword ==
    /\ program = "login" /\ typed.pass \notin {"", "  "}
    /\ IF fresh /\ focus = 0 /\ typed.confirm = ""
       THEN focus' = 1 /\ UNCHANGED <<typed, accepted, quitting, late>>
       ELSE IF fresh /\ typed.confirm # typed.pass
            THEN /\ typed' = [typed EXCEPT !.confirm = ""] /\ focus' = 1
                 /\ UNCHANGED <<accepted, quitting, late>>
            ELSE Accept /\ UNCHANGED <<typed, focus>>
    /\ UNCHANGED <<program, found, canceled, fresh, passphrase, view>>

\* The password is read off the model the program ended with.
LoginQuit ==
    /\ program = "login" /\ quitting
    /\ program' = IF accepted THEN "opening" ELSE "ended"
    /\ quitting' = FALSE
    /\ UNCHANGED <<found, canceled, login, view>>

\* The vault is made, or opened; an empty password opens it locked, a wrong one comes back to an
\* empty login, and a new one must not be blank.
OpenVault ==
    /\ program = "opening"
    /\ \/ /\ program' = "menu"
          /\ IF fresh THEN typed.pass \notin {"", "  "} ELSE typed.pass \in {"", passphrase}
          /\ UNCHANGED <<typed, focus, accepted, late>>
       \/ program' = "ended" /\ UNCHANGED <<typed, focus, accepted, late>>
       \/ /\ ~fresh /\ typed.pass \notin {"", passphrase} /\ program' = "login"
          /\ typed' = Empty /\ focus' = 0 /\ accepted' = FALSE /\ late' = FALSE
    /\ passphrase' = IF fresh /\ program' = "menu" THEN typed.pass ELSE passphrase
    /\ UNCHANGED <<boot, fresh, view>>

-----------------------------------------------------------------------------
(***************************************************************************)
(* The dashboard.                                                          *)
(***************************************************************************)
Tabs == <<"dashboard", "dossier", "matrix", "stream", "playbooks", "vault">>

Lists == {"matrix", "stream", "playbooks"}

MaxCursor(t, r) == IF t \in Lists /\ r[t] > 0 THEN r[t] - 1 ELSE 0

Clamp(c, t, r) == IF c < 0 THEN 0 ELSE IF c > MaxCursor(t, r) THEN MaxCursor(t, r) ELSE c

\* Mutant: the cursor stays where it was.
SnapUnclamped ==
    /\ program = "dashboard"
    /\ rows' \in [Lists -> 0..MostRows]
    /\ UNCHANGED <<program, boot, login, tab, cursor, detail>>

\* The snapshot of a tick or of "r"; one that failed has no rows, and an older one may come later.
SnapArrives ==
    /\ program = "dashboard"
    /\ rows' \in [Lists -> 0..MostRows]
    /\ cursor' = Clamp(cursor, tab, rows')
    /\ UNCHANGED <<program, boot, login, tab, detail>>

At(t) == CHOOSE i \in 1..6 : Tabs[i] = t

\* tab and shift+tab; on the vault's tab, tab and esc lead to the first, with the cursor as it is.
NextTab ==
    /\ program = "dashboard"
    /\ IF tab = "vault" THEN tab' = "dashboard" /\ UNCHANGED <<cursor, detail>>
       ELSE /\ tab' \in {Tabs[(At(tab) % 6) + 1], Tabs[((At(tab) + 4) % 6) + 1]}
            /\ cursor' = 0 /\ detail' = "none"
    /\ UNCHANGED <<program, boot, login, rows>>

\* 1 to 6: an open detail stays.
PickTab ==
    /\ program = "dashboard" /\ tab # "vault"
    /\ \E i \in 1..6 : tab' = Tabs[i]
    /\ cursor' = 0
    /\ UNCHANGED <<program, boot, login, detail, rows>>

\* j, k, g and G.
MoveCursor ==
    /\ program = "dashboard" /\ tab # "vault"
    /\ cursor' \in {Clamp(cursor + 1, tab, rows), Clamp(cursor - 1, tab, rows), 0, MaxCursor(tab, rows)}
    /\ UNCHANGED <<program, boot, login, tab, detail, rows>>

OpenDetail ==
    /\ program = "dashboard" /\ tab \in Lists /\ cursor < rows[tab]
    /\ detail' = tab
    /\ UNCHANGED <<program, boot, login, tab, cursor, rows>>

\* esc closes the detail first; q and ctrl+c end the program, as esc does then.
Escape ==
    /\ program = "dashboard"
    /\ \/ tab # "vault" /\ detail # "none" /\ detail' = "none" /\ UNCHANGED program
       \/ program' = "ended" /\ UNCHANGED detail
    /\ UNCHANGED <<boot, login, tab, cursor, rows>>

-----------------------------------------------------------------------------
CInit ==
    /\ program = "none"
    /\ found = "none" /\ canceled = FALSE /\ quitting = FALSE
    /\ fresh = FALSE /\ typed = Empty /\ focus = 0 /\ passphrase = "none"
    /\ accepted = FALSE /\ late = FALSE
    /\ tab = "dashboard" /\ cursor = 0 /\ detail = "none" /\ rows = [l \in Lists |-> 0]

CNext ==
    \/ OpenProgram \/ BootResult \/ BootFull \/ BootCancel \/ BootQuit
    \/ Edit \/ Tab \/ SubmitPassword \/ CancelLogin \/ LoginQuit \/ OpenVault
    \/ SnapArrives \/ NextTab \/ PickTab \/ MoveCursor \/ OpenDetail \/ Escape

CSpec == CInit /\ [][CNext]_cvars

-----------------------------------------------------------------------------
ConsoleOK ==
    /\ program \in {"none", "boot", "login", "opening", "menu", "dashboard", "ended"}
    /\ found \in {"none", "new", "old", "error"} /\ {canceled, quitting, fresh, accepted, late} \subseteq BOOLEAN
    /\ typed \in [pass : Texts, confirm : Texts] /\ focus \in {0, 1}
    /\ passphrase \in Texts \cup {"none"}
    /\ tab \in {Tabs[i] : i \in 1..6} /\ detail \in Lists \cup {"none"}
    /\ cursor \in Nat /\ rows \in [Lists -> 0..MostRows]

\* The cursor is on a row of the list, whatever snapshots arrive between the keys and in whatever
\* order, and at the top of a list that has none (app.go Update, clamp, openDetail).
CursorInside == cursor <= MaxCursor(tab, rows)

\* A vault is made with a password that was typed twice and is not blank, and a session begins
\* with the vault open, unless a key came in after Enter: the password that is used is not the one
\* that was checked then (login.go submit and RunLogin, cli.go runMenu).
TypedTwice ==
    program = "menu" /\ ~late =>
        /\ passphrase = typed.pass /\ passphrase \notin {"", "  ", "none"}
        /\ fresh => typed.confirm = passphrase
=============================================================================
