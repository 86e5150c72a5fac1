------------------------------ MODULE Linking ------------------------------
(***************************************************************************)
(* Linking a mailbox.  The account is in the configuration file, its       *)
(* password in the vault; a wizard writes one after the other, and each    *)
(* write can fail or be the process's last.  A terminal session that holds *)
(* the vault keeps the configuration it loaded in memory; one that is a    *)
(* client of the daemon reads the file each time.  Every save replaces the *)
(* whole file, through a temporary file of a fixed name that all processes *)
(* share.                                                                  *)
(***************************************************************************)
EXTENDS Naturals

CONSTANTS
    Accounts,   \* mailboxes; the password of a mailbox goes by its name
    Branded,    \* those with a provider whose inbox server is known
    Sessions,   \* terminal sessions
    Local,      \* those that hold the vault open themselves
    Nil,       \* no account, no password, no file
    Void,      \* a file of no bytes
    Torn,       \* a file with bytes of two configurations
    MaxOps,     \* bound: how many wizards are begun
    MaxFails    \* bound: how many writes fail

Laws == {"CCPA", "GDPR"}

Configs == [smtp : Accounts \cup {Nil}, imap : Accounts \cup {Nil}, law : Laws, solver : BOOLEAN]

ASSUME LinkingAssumption ==
    /\ Branded \subseteq Accounts /\ Local \subseteq Sessions
    /\ Nil \notin Accounts /\ {Nil, Void, Torn} \cap Configs = {}
    /\ MaxOps \in Nat /\ MaxFails \in Nat

VARIABLES
    file,      \* config.yaml
    temp,      \* config.yaml.tmp
    secret,    \* the vault's smtp.password, imap.password and capsolver.api_key
    mem,       \* mem[s]: rt.Cfg; Nil in a session that is not running
    wizard,    \* wizard[s]: the operation, its next statement, the configuration and the
               \*   password it carries, and the file its descriptor is open on
    ops,       \* how many operations were begun
    fails,     \* how many writes failed
    mixed,     \* history: whether two saves ever overlapped
    alone,     \* history: the session whose operation nobody disturbed since it began
    sole       \* history: the sessions that opened at rest and saw nobody else save since

disk  == <<file, temp>>
hist  == <<mixed, alone, sole>>
lvars == <<disk, secret, mem, wizard, ops, fails, hist>>

Default == [smtp |-> Nil, imap |-> Nil, law |-> "CCPA", solver |-> FALSE]

Idle == [op |-> "none", step |-> "none", cfg |-> Default, pw |-> Nil, on |-> "none"]

Running(s) == mem[s] # Nil

Savers == {s \in Sessions : wizard[s].step \in {"write", "rename"}}

-----------------------------------------------------------------------------
\* A missing file and an empty one are the defaults; a torn one does not parse.
Load == IF file \in {Nil, Void} THEN Default ELSE file

\* cfg(): the copy in memory, or the file as it is now; what cannot be read is the defaults.
Cfg(s) == IF s \in Local THEN mem[s] ELSE IF Load = Torn THEN Default ELSE Load

\* What the home screen says of the mail; a client of the daemon cannot see the password.
HomeMail(s) ==
    IF Cfg(s).smtp = Nil THEN "not linked"
    ELSE IF s \in Local /\ secret.smtp # Nil THEN "linked" ELSE "needs app password"

OpenSession(s) ==
    /\ ~Running(s) /\ Load # Torn
    /\ mem' = [mem EXCEPT ![s] = Load]
    /\ sole' = IF Savers = {} THEN sole \cup {s} ELSE sole
    /\ UNCHANGED <<disk, secret, wizard, ops, fails, mixed, alone>>

\* The session is closed or killed, at any moment.
Quit(s) ==
    /\ Running(s)
    /\ mem' = [mem EXCEPT ![s] = Nil] /\ wizard' = [wizard EXCEPT ![s] = Idle]
    /\ alone' = alone \ {s} /\ sole' = sole \ {s}
    /\ UNCHANGED <<disk, secret, ops, fails, mixed>>

-----------------------------------------------------------------------------
(***************************************************************************)
(* The screens.                                                            *)
(***************************************************************************)
StartWizard(s, op, step, cfg, pw) ==
    /\ Running(s) /\ wizard[s] = Idle /\ ops < MaxOps
    /\ ops' = ops + 1
    /\ wizard' = [wizard EXCEPT ![s] =
                     [op |-> op, step |-> step, cfg |-> cfg, pw |-> pw, on |-> "none"]]
    /\ alone' = IF \A t \in Sessions \ {s} : wizard[t] = Idle THEN {s} ELSE {}
    /\ UNCHANGED <<disk, secret, mem, fails, mixed, sole>>

\* Gmail, Outlook or Yahoo: the app password must not be empty.
LinkMail(s, a) ==
    /\ s \in Local /\ a \in Branded
    /\ StartWizard(s, "link", "create", [Cfg(s) EXCEPT !.smtp = a], a)

\* Any server; the password may be left out.
LinkCustomMail(s, a, pw) ==
    /\ s \in Local /\ pw \in {a, Nil}
    /\ StartWizard(s, "custom", "create", [Cfg(s) EXCEPT !.smtp = a], pw)

UnlinkMail(s) ==
    /\ s \in Local
    /\ StartWizard(s, "unlink", "create", [Cfg(s) EXCEPT !.smtp = Nil], Nil)

ClearIMAP(s) ==
    /\ s \in Local
    /\ StartWizard(s, "clear", "create", [Cfg(s) EXCEPT !.imap = Nil], Nil)

\* The inbox of the linked account, with the password that is stored for its mail.
EnableInboxFromLinked(s) ==
    /\ s \in Local /\ Running(s) /\ Cfg(s).smtp \in Branded /\ secret.smtp # Nil
    /\ StartWizard(s, "inbox", "create", [Cfg(s) EXCEPT !.imap = Cfg(s).smtp], secret.smtp)

IMAPCustom(s, a, pw) ==
    /\ s \in Local /\ pw \in {a, Nil}
    /\ StartWizard(s, "imap", "create", [Cfg(s) EXCEPT !.imap = a], pw)

\* The settings, which a client of the daemon may change as well.
SetLaw(s, l) == StartWizard(s, "setting", "create", [Cfg(s) EXCEPT !.law = l], Nil)

SetSecret(s, a) == s \in Local /\ StartWizard(s, "secret", "put solver", Cfg(s), a)

-----------------------------------------------------------------------------
(***************************************************************************)
(* config.Save, and what the session's own copy is after it.               *)
(***************************************************************************)
Move(s, step) == wizard' = [wizard EXCEPT ![s].step = step]

Finish(s) == wizard' = [wizard EXCEPT ![s] = Idle]

\* Mutant: the file itself is truncated.
CreateInPlace(s) ==
    /\ wizard[s].step = "create"
    /\ temp' = Void /\ file' = Void
    /\ mixed' = (mixed \/ Savers # {}) /\ sole' = sole \cap {s}
    /\ wizard' = [wizard EXCEPT ![s].step = "write", ![s].on = "temp"]
    /\ UNCHANGED <<secret, mem, ops, fails, alone>>

\* O_CREATE|O_TRUNC: another process's temporary file is emptied under its hands.
Create(s) ==
    /\ wizard[s].step = "create"
    /\ temp' = Void
    /\ mixed' = (mixed \/ Savers # {}) /\ sole' = sole \cap {s}
    /\ wizard' = [wizard EXCEPT ![s].step = "write", ![s].on = "temp"]
    /\ UNCHANGED <<file, secret, mem, ops, fails, alone>>

\* One write over bytes that another process put there leaves some of them at the end.
Over(old, cfg) == IF old \in {Void, cfg} THEN {cfg} ELSE {cfg, Torn}

WriteTemp(s) ==
    /\ wizard[s].step = "write"
    /\ \/ wizard[s].on = "temp" /\ temp' \in Over(temp, wizard[s].cfg) /\ UNCHANGED file
       \/ wizard[s].on = "file" /\ file' \in Over(file, wizard[s].cfg) /\ UNCHANGED temp
       \/ wizard[s].on = "gone" /\ UNCHANGED disk
    /\ Move(s, "rename")
    /\ UNCHANGED <<secret, mem, ops, fails, hist>>

\* What follows a save that succeeded.
AfterSave(s) ==
    CASE wizard[s].op \in {"link", "custom", "imap", "inbox", "link inbox"} /\ wizard[s].pw # Nil -> "put"
      [] wizard[s].op \in {"unlink", "clear"} -> "delete"
      [] wizard[s].op = "custom" /\ wizard[s].pw = Nil -> "probe"
      [] OTHER -> "report"

\* A descriptor keeps the file it was opened on when the name goes to another one.
Renamed(s) == [t \in Sessions |->
    IF t = s THEN [wizard[t] EXCEPT !.step = AfterSave(s), !.on = "none"]
    ELSE [wizard[t] EXCEPT !.on = IF @ = "temp" THEN "file" ELSE IF @ = "file" THEN "gone" ELSE @]]

Rename(s) ==
    /\ wizard[s].step = "rename" /\ temp # Nil
    /\ file' = temp /\ temp' = Nil
    /\ wizard' = Renamed(s)
    /\ mem' = [mem EXCEPT ![s] = wizard[s].cfg]
    /\ UNCHANGED <<secret, ops, fails, hist>>

\* An error ends the operation, except that an API key counts as stored.
Fail(s) == IF wizard[s].op = "secret" THEN Move(s, "report") ELSE Finish(s)

\* Another process's rename took the temporary file away.
RenameMisses(s) ==
    /\ wizard[s].step = "rename" /\ temp = Nil
    /\ Fail(s)
    /\ UNCHANGED <<disk, secret, mem, ops, fails, hist>>

\* Mutant: the copy in memory is changed before the file.
SaveFailsLate(s) ==
    /\ wizard[s].step \in {"create", "write"} /\ fails < MaxFails
    /\ fails' = fails + 1
    /\ Fail(s)
    /\ mem' = [mem EXCEPT ![s] = wizard[s].cfg]
    /\ UNCHANGED <<disk, secret, ops, hist>>

\* The temporary file cannot be opened or written; it stays.
SaveFails(s) ==
    /\ wizard[s].step \in {"create", "write"} /\ fails < MaxFails
    /\ fails' = fails + 1
    /\ Fail(s)
    /\ UNCHANGED <<disk, secret, mem, ops, hist>>

-----------------------------------------------------------------------------
(***************************************************************************)
(* What comes after the save.                                              *)
(***************************************************************************)
Key(op) == IF op \in {"link", "custom", "unlink"} THEN "smtp" ELSE "imap"

\* Mutant: a password that is there is kept.
PutIfNone(s) ==
    /\ wizard[s].step = "put"
    /\ secret' = [secret EXCEPT ![Key(wizard[s].op)] = IF @ = Nil THEN wizard[s].pw ELSE @]
    /\ Move(s, IF wizard[s].op \in {"link", "custom"} THEN "probe" ELSE "report")
    /\ UNCHANGED <<disk, mem, ops, fails, hist>>

PutSecret(s) ==
    /\ wizard[s].step = "put"
    /\ secret' = [secret EXCEPT ![Key(wizard[s].op)] = wizard[s].pw]
    /\ Move(s, IF wizard[s].op \in {"link", "custom"} THEN "probe" ELSE "report")
    /\ UNCHANGED <<disk, mem, ops, fails, hist>>

\* The key of the solver is stored before the configuration is read and saved.
PutSolver(s) ==
    /\ wizard[s].step = "put solver"
    /\ secret' = [secret EXCEPT !.solver = wizard[s].pw]
    /\ wizard' = [wizard EXCEPT ![s].step = "create", ![s].cfg = [Cfg(s) EXCEPT !.solver = TRUE]]
    /\ UNCHANGED <<disk, mem, ops, fails, hist>>

PutFails(s) ==
    /\ wizard[s].step \in {"put", "put solver"} /\ fails < MaxFails
    /\ fails' = fails + 1
    /\ Finish(s)
    /\ UNCHANGED <<disk, secret, mem, ops, hist>>

\* The sign-in with the password that was typed; a refusal is reported, what was saved stays.
Probe(s) ==
    /\ wizard[s].step = "probe"
    /\ \/ wizard[s].pw # Nil /\ Move(s, "report")
       \/ Finish(s)
    /\ UNCHANGED <<disk, secret, mem, ops, fails, hist>>

\* "linked", "inbox watching", "stored"; after a provider's link the inbox is offered.
Report(s) ==
    /\ wizard[s].step = "report"
    /\ \/ Finish(s)
       \/ /\ wizard[s].op = "link"
          /\ wizard' = [wizard EXCEPT ![s].op = "link inbox", ![s].step = "create",
                                      ![s].cfg.imap = wizard[s].cfg.smtp]
    /\ UNCHANGED <<disk, secret, mem, ops, fails, hist>>

\* The password is deleted, or stays if that fails; after the mail the inbox may go as well.
Delete(s) ==
    /\ wizard[s].step = "delete"
    /\ \/ secret' = [secret EXCEPT ![Key(wizard[s].op)] = Nil] /\ UNCHANGED fails
       \/ fails < MaxFails /\ fails' = fails + 1 /\ UNCHANGED secret
    /\ \/ Finish(s)
       \/ /\ wizard[s].op = "unlink" /\ wizard[s].cfg.imap # Nil
          /\ wizard' = [wizard EXCEPT ![s].op = "clear", ![s].step = "create",
                                      ![s].cfg = [Cfg(s) EXCEPT !.imap = Nil]]
    /\ UNCHANGED <<disk, mem, ops, hist>>

-----------------------------------------------------------------------------
LInit ==
    /\ file = Nil /\ temp = Nil
    /\ secret = [smtp |-> Nil, imap |-> Nil, solver |-> Nil]
    /\ mem = [s \in Sessions |-> Nil] /\ wizard = [s \in Sessions |-> Idle]
    /\ ops = 0 /\ fails = 0 /\ mixed = FALSE /\ alone = {} /\ sole = {}

Choose(s) ==
    \/ \E a \in Accounts :
          \/ LinkMail(s, a) \/ SetSecret(s, a)
          \/ \E pw \in {a, Nil} : LinkCustomMail(s, a, pw) \/ IMAPCustom(s, a, pw)
    \/ UnlinkMail(s) \/ ClearIMAP(s) \/ EnableInboxFromLinked(s)
    \/ \E l \in Laws : SetLaw(s, l)

Save(s) == Create(s) \/ WriteTemp(s) \/ Rename(s) \/ RenameMisses(s) \/ SaveFails(s)

LNext == \E s \in Sessions :
    \/ OpenSession(s) \/ Quit(s) \/ Choose(s) \/ Save(s)
    \/ PutSecret(s) \/ PutSolver(s) \/ PutFails(s) \/ Probe(s) \/ Report(s) \/ Delete(s)

LSpec == LInit /\ [][LNext]_lvars

-----------------------------------------------------------------------------
\* As long as no two processes saved at once, the configuration that is read is a whole one, at
\* whatever statement of a save its process died or failed (config.go Save).
ConfigWhole == ~mixed => file \in Configs \cup {Nil}

\* A session nobody else saved beside has in memory what is in the file, also after saves that
\* failed: its next save takes nothing back (interactive.go saveCfg).
MemoryOfFile == \A s \in sole \cap Local : mem[s] = Load

Done(s, op) == wizard[s].step = "report" /\ wizard[s].op = op

\* Whatever was half done before, a link that is reported as done and that nobody disturbed leaves
\* one account in the file, in the session and behind the stored password, and so does the inbox
\* that is offered with it (mail_link.go saveMail).
LinkedAlone ==
    \A s \in alone :
        /\ Done(s, "link") \/ Done(s, "custom") =>
              /\ HomeMail(s) = "linked"
              /\ Load.smtp = wizard[s].pw /\ secret.smtp = wizard[s].pw /\ mem[s].smtp = wizard[s].pw
        /\ Done(s, "link inbox") =>
              Load.imap = wizard[s].pw /\ secret.imap = wizard[s].pw /\ mem[s].imap = wizard[s].pw
=============================================================================
