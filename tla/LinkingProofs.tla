--------------------------- MODULE LinkingProofs ---------------------------
(***************************************************************************)
(* Linking for every number of mailboxes and sessions, any number of       *)
(* wizards and of writes that fail: what a save that had no rival leaves   *)
(* in the file and in memory, and what a link that is reported as done     *)
(* stands for.                                                             *)
(***************************************************************************)
EXTENDS Linking, TLAPS

Passwords == Accounts \cup {Nil}

Files == Configs \cup {Nil, Void, Torn}

Operations == {"none", "link", "custom", "inbox", "imap", "link inbox", "unlink", "clear",
               "setting", "secret"}

Statements == {"none", "create", "write", "rename", "put", "put solver", "delete", "probe",
               "report"}

Wizards == [op : Operations, step : Statements, cfg : Configs, pw : Passwords,
            on : {"none", "temp", "file", "gone"}]

\* The types, and: only a session that runs is in a wizard.
Types ==
    /\ file \in Files /\ temp \in Files
    /\ secret \in [smtp : Passwords, imap : Passwords, solver : Passwords]
    /\ mem \in [Sessions -> Configs \cup {Nil}]
    /\ wizard \in [Sessions -> Wizards]
    /\ mixed \in BOOLEAN
    /\ \A s \in Sessions : wizard[s] # Idle => Running(s)

\* A session in the middle of a save has the temporary file to itself.
Holds(s) ==
    /\ wizard[s].step = "write" => wizard[s].on = "temp" /\ temp = Void
    /\ wizard[s].step = "rename" => wizard[s].on = "temp" /\ temp = wizard[s].cfg

OneSaver ==
    ~mixed => /\ file \in Configs \cup {Nil}
              /\ \A s \in Savers : Savers = {s} /\ Holds(s)

SoleSaver == \A s \in sole \cap Sessions : mem[s] = Load /\ Savers \subseteq {s} /\ Holds(s)

Mail == {"link", "custom"}

\* What a link has done by each of its statements, when nobody disturbs it.
InOrder(s) ==
    LET w == wizard[s]
    IN  /\ w.op \in Mail => s \in Local /\ w.cfg.smtp # Nil /\ w.pw \in {w.cfg.smtp, Nil}
        /\ w.op = "link inbox" =>
              /\ s \in Local /\ w.cfg.imap # Nil /\ w.pw = w.cfg.imap
              /\ w.step \in {"create", "write", "rename", "put", "report"}
        /\ w.step = "put solver" => w.op = "secret"
        /\ w.op = "link" => w.pw # Nil
        /\ w.op \in Mail \cup {"link inbox"} /\ w.step \in {"put", "probe", "report"} =>
              file = w.cfg /\ mem[s] = w.cfg
        /\ w.op \in Mail /\ w.step \in {"put", "report"} => w.pw # Nil
        /\ w.op \in Mail /\ w.step \in {"probe", "report"} /\ w.pw # Nil => secret.smtp = w.pw
        /\ w.op = "link inbox" /\ w.step = "report" => secret.imap = w.pw

Alone(s) == \A t \in Sessions \ {s} : wizard[t] = Idle

Insiders == alone \subseteq Sessions

Undisturbed == \A s \in alone \cap Sessions : Holds(s) /\ InOrder(s) /\ Alone(s)

-----------------------------------------------------------------------------
(***************************************************************************)
(* Types.                                                                  *)
(***************************************************************************)
LEMMA Different ==
    /\ Nil \notin Configs /\ Void \notin Configs /\ Torn \notin Configs
    /\ Nil \notin Accounts
BY LinkingAssumption

LEMMA Defaults == Default \in Configs /\ Idle \in Wizards
BY DEF Default, Idle, Configs, Laws, Wizards, Operations, Statements, Passwords

LEMMA Changed ==
    ASSUME NEW c \in Configs, NEW a \in Passwords, NEW l \in Laws
    PROVE  /\ [c EXCEPT !.smtp = a] \in Configs /\ [c EXCEPT !.smtp = a].smtp = a
           /\ [c EXCEPT !.imap = a] \in Configs /\ [c EXCEPT !.imap = a].imap = a
           /\ [c EXCEPT !.law = l] \in Configs /\ [c EXCEPT !.solver = TRUE] \in Configs
           /\ c.smtp \in Passwords /\ c.imap \in Passwords
BY DEF Configs, Passwords

\* What a running session works from is a configuration.
LEMMA CfgType ==
    ASSUME Types, NEW s \in Sessions, Running(s)
    PROVE  Cfg(s) \in Configs
<1>1. mem[s] \in Configs
  BY DEF Types, Running
<1>2. Load # Torn => Load \in Configs
  BY Defaults DEF Types, Files, Load
<1>. QED  BY <1>1, <1>2, Defaults DEF Cfg

\* Replacing fields of one wizard.
LEMMA Rewritten ==
    ASSUME NEW w \in Wizards, NEW op \in Operations, NEW step \in Statements, NEW cfg \in Configs,
           NEW on \in {"none", "temp", "file", "gone"}
    PROVE  /\ [w EXCEPT !.step = step] \in Wizards
           /\ [w EXCEPT !.on = on] \in Wizards
           /\ [w EXCEPT !.step = step, !.on = on] \in Wizards
           /\ [w EXCEPT !.step = step, !.cfg = cfg] \in Wizards
           /\ [w EXCEPT !.op = op, !.step = step, !.cfg = cfg] \in Wizards
           /\ w.op \in Operations /\ w.step \in Statements /\ w.cfg \in Configs
           /\ w.pw \in Passwords /\ w.on \in {"none", "temp", "file", "gone"}
BY DEF Wizards

\* A step that only replaces the wizard of a session that runs.
LEMMA WizardTypes ==
    ASSUME Types, NEW s \in Sessions, NEW w \in Wizards,
           Running(s), wizard' = [wizard EXCEPT ![s] = w], UNCHANGED mem
    PROVE  /\ wizard' \in [Sessions -> Wizards]
           /\ \A t \in Sessions : wizard'[t] # Idle => Running(t)'
BY DEF Types, Running

\* What the screens begin.
Begun(s, op, step, cfg, pw) ==
    /\ StartWizard(s, op, step, cfg, pw)
    /\ op \in Mail => s \in Local /\ cfg.smtp # Nil /\ pw \in {cfg.smtp, Nil}
    /\ op = "link" => pw # Nil
    /\ step = "put solver" => op = "secret"

LEMMA Chosen ==
    ASSUME Types, NEW s \in Sessions, Choose(s)
    PROVE  \E op \in Operations \ {"link inbox"} : \E step \in {"create", "put solver"} :
             \E cfg \in Configs : \E pw \in Passwords : Begun(s, op, step, cfg, pw)
<1>. DEFINE Goal == \E op \in Operations \ {"link inbox"} : \E step \in {"create", "put solver"} :
                      \E cfg \in Configs : \E pw \in Passwords : Begun(s, op, step, cfg, pw)
<1>1. Running(s)
  BY DEF Choose, LinkMail, LinkCustomMail, UnlinkMail, ClearIMAP, EnableInboxFromLinked, IMAPCustom,
     SetLaw, SetSecret, StartWizard
<1>2. Cfg(s) \in Configs
  BY <1>1, CfgType
<1>. USE DEF Begun, Operations, Mail
<1>3. ASSUME NEW a \in Accounts, LinkMail(s, a) PROVE Goal
  <2>. DEFINE cfg == [Cfg(s) EXCEPT !.smtp = a]
  <2>1. a \in Passwords /\ a # Nil /\ StartWizard(s, "link", "create", cfg, a) /\ s \in Local
    BY <1>3, Different DEF LinkMail, Passwords
  <2>2. cfg \in Configs /\ cfg.smtp = a
    BY <1>2, <2>1, Changed DEF Laws
  <2>. QED  BY <2>1, <2>2
<1>4. ASSUME NEW a \in Accounts, SetSecret(s, a) PROVE Goal
  <2>1. a \in Passwords /\ StartWizard(s, "secret", "put solver", Cfg(s), a)
    BY <1>4 DEF SetSecret, Passwords
  <2>. QED  BY <2>1, <1>2
<1>5. ASSUME NEW a \in Accounts, NEW pw \in {a, Nil}, LinkCustomMail(s, a, pw) PROVE Goal
  <2>. DEFINE cfg == [Cfg(s) EXCEPT !.smtp = a]
  <2>1. a \in Passwords /\ pw \in Passwords /\ a # Nil /\ s \in Local
        /\ StartWizard(s, "custom", "create", cfg, pw)
    BY <1>5, Different DEF LinkCustomMail, Passwords
  <2>2. cfg \in Configs /\ cfg.smtp = a
    BY <1>2, <2>1, Changed DEF Laws
  <2>. QED  BY <2>1, <2>2
<1>6. ASSUME NEW a \in Accounts, NEW pw \in {a, Nil}, IMAPCustom(s, a, pw) PROVE Goal
  <2>. DEFINE cfg == [Cfg(s) EXCEPT !.imap = a]
  <2>1. a \in Passwords /\ pw \in Passwords /\ StartWizard(s, "imap", "create", cfg, pw)
    BY <1>6 DEF IMAPCustom, Passwords
  <2>2. cfg \in Configs
    BY <1>2, <2>1, Changed DEF Laws
  <2>. QED  BY <2>1, <2>2
<1>7. ASSUME UnlinkMail(s) \/ ClearIMAP(s) PROVE Goal
  <2>1. Nil \in Passwords
    BY DEF Passwords
  <2>2. [Cfg(s) EXCEPT !.smtp = Nil] \in Configs /\ [Cfg(s) EXCEPT !.imap = Nil] \in Configs
    BY <1>2, <2>1, Changed DEF Laws
  <2>. QED  BY <1>7, <2>1, <2>2 DEF UnlinkMail, ClearIMAP
<1>8. ASSUME EnableInboxFromLinked(s) PROVE Goal
  <2>. DEFINE cfg == [Cfg(s) EXCEPT !.imap = Cfg(s).smtp]
  <2>1. secret.smtp \in Passwords /\ Cfg(s).smtp \in Passwords
    BY <1>2, Changed DEF Types, Laws, Passwords
  <2>2. cfg \in Configs
    BY <1>2, <2>1, Changed DEF Laws
  <2>. QED  BY <2>1, <2>2, <1>8 DEF EnableInboxFromLinked
<1>9. ASSUME NEW l \in Laws, SetLaw(s, l) PROVE Goal
  <2>1. Nil \in Passwords
    BY DEF Passwords
  <2>2. [Cfg(s) EXCEPT !.law = l] \in Configs
    BY <1>2, <2>1, Changed
  <2>. QED  BY <1>9, <2>1, <2>2 DEF SetLaw
<1>. QED  BY <1>3, <1>4, <1>5, <1>6, <1>7, <1>8, <1>9 DEF Choose

LEMMA ChooseTypes ==
    ASSUME Types, NEW s \in Sessions, Choose(s)
    PROVE  Types'
<1>1. PICK op \in Operations \ {"link inbox"}, step \in {"create", "put solver"}, cfg \in Configs,
           pw \in Passwords : Begun(s, op, step, cfg, pw)
  BY Chosen
<1>2. [op |-> op, step |-> step, cfg |-> cfg, pw |-> pw, on |-> "none"] \in Wizards
  BY DEF Wizards, Statements
<1>. QED  BY <1>1, <1>2, WizardTypes DEF Types, Begun, StartWizard, disk

\* A session in a wizard runs, and what its wizard can become.
LEMMA InWizard ==
    ASSUME Types, NEW s \in Sessions, wizard[s].step # "none"
    PROVE  Running(s) /\ wizard[s] \in Wizards /\ mem[s] \in Configs
BY DEF Types, Idle, Running

LEMMA MoveTypes ==
    ASSUME Types, NEW s \in Sessions, wizard[s].step # "none",
           (\E step \in Statements : Move(s, step)) \/ Finish(s),
           UNCHANGED mem
    PROVE  /\ wizard' \in [Sessions -> Wizards]
           /\ \A t \in Sessions : wizard'[t] # Idle => Running(t)'
<1>1. CASE Finish(s)
  BY <1>1, InWizard, Defaults, WizardTypes DEF Finish
<1>2. ASSUME NEW step \in Statements, Move(s, step)
      PROVE  wizard' = [wizard EXCEPT ![s] = [wizard[s] EXCEPT !.step = step]]
             /\ [wizard[s] EXCEPT !.step = step] \in Wizards
  <2>1. wizard[s] \in Wizards
    BY InWizard
  <2>2. [wizard[s] EXCEPT !.step = step] \in Wizards
    BY <2>1 DEF Wizards
  <2>. QED  BY <1>2, <2>2 DEF Move
<1>. QED  BY <1>1, <1>2, InWizard, WizardTypes

LEMMA SaveTypes ==
    ASSUME Types, NEW s \in Sessions, wizard[s].step # "none", Save(s)
    PROVE  Types'
<1>1. Running(s) /\ wizard[s] \in Wizards
  BY InWizard
<1>2. "report" \in Statements /\ "rename" \in Statements /\ AfterSave(s) \in Statements
  BY DEF Statements, AfterSave
<1>3. CASE Create(s)
  <2>. DEFINE w == [wizard[s] EXCEPT !.step = "write", !.on = "temp"]
  <2>1. w \in Wizards
    BY <1>1 DEF Wizards, Statements
  <2>2. wizard' = [wizard EXCEPT ![s] = w]
    BY <1>3 DEF Create
  <2>. QED  BY <1>1, <1>3, <2>1, <2>2, WizardTypes DEF Create, Types, Files
<1>4. CASE WriteTemp(s)
  <2>1. wizard[s].cfg \in Configs
    BY <1>1, Rewritten DEF Wizards
  <2>2. \A old : Over(old, wizard[s].cfg) \subseteq Files
    BY <2>1 DEF Over, Files
  <2>. QED  BY <1>2, <1>4, <2>2, MoveTypes DEF WriteTemp, Types, disk, hist
<1>5. CASE Rename(s)
  <2>1. \A t \in Sessions : Renamed(s)[t] \in Wizards
    <3> SUFFICES ASSUME NEW t \in Sessions PROVE Renamed(s)[t] \in Wizards
      OBVIOUS
    <3>1. wizard[t] \in Wizards
      BY DEF Types
    <3>2. wizard[t].on \in {"none", "temp", "file", "gone"}
      BY <3>1 DEF Wizards
    <3>. QED  BY <1>2, <3>1, <3>2 DEF Renamed, Wizards
  <2>2. \A t \in Sessions : wizard[t] = Idle /\ t # s => Renamed(s)[t] = Idle
    BY DEF Renamed, Idle
  <2>3. wizard[s].cfg \in Configs
    BY <1>1 DEF Wizards
  <2>4. mem' \in [Sessions -> Configs \cup {Nil}] /\ \A t \in Sessions : Running(t) => Running(t)'
    BY <1>5, <2>3, Different DEF Rename, Types, Running
  <2>5. wizard' = Renamed(s) /\ DOMAIN Renamed(s) = Sessions
    BY <1>5 DEF Rename, Renamed
  <2>6. wizard' \in [Sessions -> Wizards]
    BY <2>1, <2>5 DEF Renamed
  <2>7. \A t \in Sessions : wizard'[t] # Idle => Running(t)'
    BY <1>1, <2>2, <2>4, <2>5 DEF Types
  <2>. QED  BY <1>5, <2>4, <2>6, <2>7 DEF Rename, Types, Files, hist
<1>6. CASE RenameMisses(s) \/ SaveFails(s)
  BY <1>2, <1>6, MoveTypes DEF RenameMisses, SaveFails, Fail, Types, disk, hist
<1>. QED  BY <1>3, <1>4, <1>5, <1>6 DEF Save

LEMMA AfterTypes ==
    ASSUME Types, NEW s \in Sessions, wizard[s].step # "none",
           PutSecret(s) \/ PutSolver(s) \/ PutFails(s) \/ Probe(s) \/ Report(s) \/ Delete(s)
    PROVE  Types'
<1>1. Running(s) /\ wizard[s] \in Wizards /\ Cfg(s) \in Configs
  BY InWizard, CfgType
<1>2. wizard[s].pw \in Passwords /\ wizard[s].cfg \in Configs /\ Nil \in Passwords
  BY <1>1 DEF Wizards, Passwords
<1>. USE DEF Statements, Operations
<1>3. CASE PutSecret(s)
  <2>1. secret' \in [smtp : Passwords, imap : Passwords, solver : Passwords]
    BY <1>2, <1>3 DEF PutSecret, Types, Key
  <2>. QED  BY <1>3, <2>1, MoveTypes DEF PutSecret, Types, disk, hist
<1>4. CASE PutSolver(s)
  <2>. DEFINE w == [wizard[s] EXCEPT !.step = "create", !.cfg = [Cfg(s) EXCEPT !.solver = TRUE]]
  <2>1. w \in Wizards
    <3>1. [Cfg(s) EXCEPT !.solver = TRUE] \in Configs
      BY <1>1, ZenonT(30) DEF Configs
    <3>2. "create" \in Statements
      OBVIOUS
    <3>. QED  BY <1>1, <3>1, <3>2, Rewritten
  <2>2. wizard' = [wizard EXCEPT ![s] = w]
    BY <1>4 DEF PutSolver
  <2>3. secret' \in [smtp : Passwords, imap : Passwords, solver : Passwords]
    BY <1>2, <1>4 DEF PutSolver, Types
  <2>. QED  BY <1>1, <1>4, <2>1, <2>2, <2>3, WizardTypes DEF PutSolver, Types, disk, hist
<1>5. CASE PutFails(s)
  BY <1>5, MoveTypes DEF PutFails, Types, disk, hist
<1>6. CASE Probe(s)
  BY <1>6, MoveTypes DEF Probe, Types, disk, hist
<1>7. CASE Report(s)
  <2>. DEFINE w == [wizard[s] EXCEPT !.op = "link inbox", !.step = "create",
                                     !.cfg = [wizard[s].cfg EXCEPT !.imap = wizard[s].cfg.smtp]]
  <2>1. w \in Wizards
    <3>1. [wizard[s].cfg EXCEPT !.imap = wizard[s].cfg.smtp] \in Configs
      BY <1>2, ZenonT(30) DEF Configs
    <3>2. "link inbox" \in Operations /\ "create" \in Statements
      OBVIOUS
    <3>. QED  BY <1>1, <3>1, <3>2, Rewritten, ZenonT(30)
  <2>2. CASE Finish(s)
    BY <1>7, <2>2, MoveTypes DEF Report, Types, disk, hist
  <2>3. CASE wizard' = [wizard EXCEPT ![s] = w]
    BY <1>1, <1>7, <2>1, <2>3, WizardTypes DEF Report, Types, disk, hist
  <2>4. Finish(s) \/ wizard' = [wizard EXCEPT ![s] = w]
    BY <1>1, <1>7 DEF Report, Types, Wizards
  <2>. QED  BY <2>2, <2>3, <2>4
<1>8. CASE Delete(s)
  <2>. DEFINE w == [wizard[s] EXCEPT !.op = "clear", !.step = "create",
                                     !.cfg = [Cfg(s) EXCEPT !.imap = Nil]]
  <2>1. w \in Wizards
    BY <1>1, <1>2, Rewritten, Changed DEF Laws
  <2>2. secret' \in [smtp : Passwords, imap : Passwords, solver : Passwords]
    BY <1>2, <1>8 DEF Delete, Types, Key
  <2>3. CASE Finish(s)
    BY <1>8, <2>2, <2>3, MoveTypes DEF Delete, Types, disk, hist
  <2>4. CASE wizard' = [wizard EXCEPT ![s] = w]
    BY <1>1, <1>8, <2>1, <2>2, <2>4, WizardTypes DEF Delete, Types, disk, hist
  <2>. QED  BY <1>8, <2>3, <2>4 DEF Delete
<1>. QED  BY <1>3, <1>4, <1>5, <1>6, <1>7, <1>8

LEMMA TypesStep == Types /\ [LNext]_lvars => Types'
<1>. SUFFICES ASSUME Types, [LNext]_lvars PROVE Types'
  OBVIOUS
<1>1. CASE UNCHANGED lvars
  BY <1>1 DEF lvars, disk, hist, Types, Running
<1>2. ASSUME NEW s \in Sessions, OpenSession(s)
      PROVE  Types'
  <2>1. Load \in Configs
    BY <1>2, Defaults DEF OpenSession, Load, Types, Files
  <2>2. Load # Nil
    BY <2>1, Different
  <2>. QED  BY <1>2, <2>1, <2>2 DEF OpenSession, Types, Running, disk
<1>3. ASSUME NEW s \in Sessions, Quit(s)
      PROVE  Types'
  BY <1>3, Defaults DEF Quit, Types, Running, disk
<1>4. ASSUME NEW s \in Sessions, Choose(s)
      PROVE  Types'
  BY <1>4, ChooseTypes
<1>5. ASSUME NEW s \in Sessions, wizard[s].step # "none", Save(s)
      PROVE  Types'
  BY <1>5, SaveTypes
<1>6. ASSUME NEW s \in Sessions, wizard[s].step # "none",
             PutSecret(s) \/ PutSolver(s) \/ PutFails(s) \/ Probe(s) \/ Report(s) \/ Delete(s)
      PROVE  Types'
  BY <1>6, AfterTypes
<1>7. \A s \in Sessions :
         Save(s) \/ PutSecret(s) \/ PutSolver(s) \/ PutFails(s) \/ Probe(s) \/ Report(s) \/ Delete(s)
            => wizard[s].step # "none"
  BY DEF Save, Create, WriteTemp, Rename, RenameMisses, SaveFails, PutSecret, PutSolver, PutFails,
     Probe, Report, Delete
<1>. QED  BY <1>1, <1>2, <1>3, <1>4, <1>5, <1>6, <1>7 DEF LNext

-----------------------------------------------------------------------------
(***************************************************************************)
(* Savers.  A step that is no statement of a save, and one that ends a     *)
(* save early, leave the files as they are.                                *)
(***************************************************************************)
EndsSave(s) ==
    \/ Quit(s) \/ Choose(s) \/ RenameMisses(s) \/ SaveFails(s) \/ PutSecret(s) \/ PutSolver(s)
    \/ PutFails(s) \/ Probe(s) \/ Report(s) \/ Delete(s)

LEMMA NextCases ==
    ASSUME [LNext]_lvars
    PROVE  \/ UNCHANGED lvars
           \/ \E s \in Sessions : OpenSession(s) \/ EndsSave(s) \/ Create(s) \/ WriteTemp(s) \/ Rename(s)
BY DEF LNext, Save, EndsSave

\* Moving on, or finishing, changes one wizard.
LEMMA Moves ==
    ASSUME Types, NEW s \in Sessions, NEW step \in Statements, Move(s, step)
    PROVE  /\ \A t \in Sessions \ {s} : wizard'[t] = wizard[t]
           /\ wizard'[s] = [wizard[s] EXCEPT !.step = step]
           /\ wizard'[s].step = step /\ wizard'[s].op = wizard[s].op
           /\ wizard'[s].cfg = wizard[s].cfg /\ wizard'[s].pw = wizard[s].pw
<1>1. wizard[s] \in Wizards /\ wizard \in [Sessions -> Wizards]
  BY DEF Types
<1>. QED  BY <1>1 DEF Move, Wizards

LEMMA Finishes ==
    ASSUME Types, NEW s \in Sessions, Finish(s)
    PROVE  /\ \A t \in Sessions \ {s} : wizard'[t] = wizard[t]
           /\ wizard'[s] = Idle /\ wizard'[s].step = "none" /\ wizard'[s].op = "none"
<1>1. wizard \in [Sessions -> Wizards]
  BY DEF Types
<1>. QED  BY <1>1 DEF Finish, Idle

\* The two dialogs that go on with the inbox, and the one that reads the configuration late.
LEMMA Continues ==
    ASSUME Types, NEW s \in Sessions
    PROVE  /\ Report(s) /\ ~Finish(s) =>
                /\ \A t \in Sessions \ {s} : wizard'[t] = wizard[t]
                /\ wizard[s].op = "link" /\ wizard'[s].op = "link inbox"
                /\ wizard'[s].step = "create" /\ wizard'[s].pw = wizard[s].pw
                /\ wizard'[s].cfg.imap = wizard[s].cfg.smtp
           /\ Delete(s) /\ ~Finish(s) =>
                /\ \A t \in Sessions \ {s} : wizard'[t] = wizard[t]
                /\ wizard'[s].op = "clear" /\ wizard'[s].step = "create"
           /\ PutSolver(s) =>
                /\ \A t \in Sessions \ {s} : wizard'[t] = wizard[t]
                /\ wizard'[s].op = wizard[s].op /\ wizard'[s].step = "create"
<1>1. wizard[s] \in Wizards /\ wizard \in [Sessions -> Wizards]
  BY DEF Types
<1>2. wizard[s].cfg \in Configs
  BY <1>1 DEF Wizards
<1>3. ASSUME Report(s), ~Finish(s)
      PROVE  /\ wizard[s].op = "link"
             /\ wizard' = [wizard EXCEPT ![s].op = "link inbox", ![s].step = "create",
                                         ![s].cfg.imap = wizard[s].cfg.smtp]
  BY <1>3 DEF Report
<1>4. ASSUME Delete(s), ~Finish(s)
      PROVE  wizard' = [wizard EXCEPT ![s].op = "clear", ![s].step = "create",
                                      ![s].cfg = [Cfg(s) EXCEPT !.imap = Nil]]
  BY <1>4 DEF Delete
<1>5. ASSUME PutSolver(s)
      PROVE  wizard' = [wizard EXCEPT ![s] = [wizard[s] EXCEPT !.step = "create",
                                                 !.cfg = [Cfg(s) EXCEPT !.solver = TRUE]]]
  BY <1>5 DEF PutSolver
<1>6. Report(s) /\ ~Finish(s) =>
        wizard' = [wizard EXCEPT ![s] = [wizard[s] EXCEPT !.op = "link inbox", !.step = "create",
                      !.cfg = [wizard[s].cfg EXCEPT !.imap = wizard[s].cfg.smtp]]]
  BY <1>1, <1>3 DEF Wizards
<1>7. Delete(s) /\ ~Finish(s) =>
        wizard' = [wizard EXCEPT ![s] = [wizard[s] EXCEPT !.op = "clear", !.step = "create",
                      !.cfg = [Cfg(s) EXCEPT !.imap = Nil]]]
  BY <1>1, <1>4 DEF Wizards
<1>8. PutSolver(s) =>
        /\ \A t \in Sessions \ {s} : wizard'[t] = wizard[t]
        /\ wizard'[s].op = wizard[s].op /\ wizard'[s].step = "create"
  <2>. DEFINE w == [wizard[s] EXCEPT !.step = "create", !.cfg = [Cfg(s) EXCEPT !.solver = TRUE]]
  <2>1. w.op = wizard[s].op /\ w.step = "create"
    BY <1>1 DEF Wizards
  <2>2. PutSolver(s) => wizard' = [wizard EXCEPT ![s] = w]
    BY <1>5
  <2>. HIDE DEF w
  <2>. QED  BY <1>1, <2>1, <2>2
<1>9. Report(s) /\ ~Finish(s) =>
        /\ \A t \in Sessions \ {s} : wizard'[t] = wizard[t]
        /\ wizard[s].op = "link" /\ wizard'[s].op = "link inbox"
        /\ wizard'[s].step = "create" /\ wizard'[s].pw = wizard[s].pw
        /\ wizard'[s].cfg.imap = wizard[s].cfg.smtp
  <2>. DEFINE w == [wizard[s] EXCEPT !.op = "link inbox", !.step = "create",
                      !.cfg = [wizard[s].cfg EXCEPT !.imap = wizard[s].cfg.smtp]]
  <2>1. w.op = "link inbox" /\ w.step = "create" /\ w.pw = wizard[s].pw
        /\ w.cfg = [wizard[s].cfg EXCEPT !.imap = wizard[s].cfg.smtp]
    BY <1>1 DEF Wizards
  <2>2. w.cfg.imap = wizard[s].cfg.smtp
    BY <1>2, <2>1 DEF Configs
  <2>3. Report(s) /\ ~Finish(s) => wizard' = [wizard EXCEPT ![s] = w] /\ wizard[s].op = "link"
    BY <1>3, <1>6
  <2>. HIDE DEF w
  <2>. QED  BY <1>1, <2>1, <2>2, <2>3
<1>10. Delete(s) /\ ~Finish(s) =>
        /\ \A t \in Sessions \ {s} : wizard'[t] = wizard[t]
        /\ wizard'[s].op = "clear" /\ wizard'[s].step = "create"
  <2>. DEFINE w == [wizard[s] EXCEPT !.op = "clear", !.step = "create",
                      !.cfg = [Cfg(s) EXCEPT !.imap = Nil]]
  <2>1. w.op = "clear" /\ w.step = "create"
    BY <1>1 DEF Wizards
  <2>2. Delete(s) /\ ~Finish(s) => wizard' = [wizard EXCEPT ![s] = w]
    BY <1>7
  <2>. HIDE DEF w
  <2>. QED  BY <1>1, <2>1, <2>2
<1>. QED  BY <1>8, <1>9, <1>10

LEMMA Ends ==
    ASSUME Types, NEW s \in Sessions, EndsSave(s)
    PROVE  /\ UNCHANGED <<file, temp, mixed>>
           /\ \A t \in Sessions \ {s} : wizard'[t] = wizard[t]
           /\ wizard'[s].step \notin {"write", "rename"}
           /\ sole' \subseteq sole /\ \A t \in sole' \cap Sessions : mem'[t] = mem[t]
<1>. DEFINE Aside ==
        /\ \A t \in Sessions \ {s} : wizard'[t] = wizard[t]
        /\ wizard'[s].step \notin {"write", "rename"}
<1>1. CASE Quit(s)
  BY <1>1 DEF Quit, Types, Idle, disk
<1>2. CASE Choose(s)
  <2>1. PICK op \in Operations \ {"link inbox"}, step \in {"create", "put solver"}, cfg \in Configs,
             pw \in Passwords : Begun(s, op, step, cfg, pw)
    BY <1>2, Chosen
  <2>2. UNCHANGED <<file, temp, mixed, mem, sole>>
    BY <2>1 DEF Begun, StartWizard, disk
  <2>3. /\ wizard \in [Sessions -> Wizards]
        /\ wizard' = [wizard EXCEPT ![s] =
                         [op |-> op, step |-> step, cfg |-> cfg, pw |-> pw, on |-> "none"]]
    BY <2>1 DEF Begun, StartWizard, Types
  <2>. QED  BY <2>2, <2>3
<1>3. CASE RenameMisses(s) \/ SaveFails(s)
  <2>1. UNCHANGED <<file, temp, mixed, mem, sole>> /\ Fail(s)
    BY <1>3 DEF RenameMisses, SaveFails, disk, hist
  <2>2. Aside
    <3>1. Move(s, "report") \/ Finish(s)
      BY <2>1 DEF Fail
    <3>2. Move(s, "report") => Aside
      BY Moves DEF Statements
    <3>3. Finish(s) => Aside
      BY Finishes
    <3>. QED  BY <3>1, <3>2, <3>3
  <2>. QED  BY <2>1, <2>2
<1>4. CASE PutSecret(s) \/ PutFails(s) \/ Probe(s)
  <2>1. UNCHANGED <<file, temp, mixed, mem, sole>>
        /\ (Move(s, "report") \/ Move(s, "probe") \/ Finish(s))
    BY <1>4 DEF PutSecret, PutFails, Probe, disk, hist
  <2>2. Aside
    <3>1. Move(s, "report") => Aside
      BY Moves DEF Statements
    <3>2. Move(s, "probe") => Aside
      BY Moves DEF Statements
    <3>3. Finish(s) => Aside
      BY Finishes
    <3>. QED  BY <2>1, <3>1, <3>2, <3>3
  <2>. QED  BY <2>1, <2>2
<1>5. CASE PutSolver(s) \/ Report(s) \/ Delete(s)
  <2>1. UNCHANGED <<file, temp, mixed, mem, sole>>
    BY <1>5 DEF PutSolver, Report, Delete, disk, hist
  <2>. QED  BY <1>5, <2>1, Continues, Finishes
<1>. QED  BY <1>1, <1>2, <1>3, <1>4, <1>5 DEF EndsSave

LEMMA Creates ==
    ASSUME Types, NEW s \in Sessions, Create(s)
    PROVE  /\ Savers' = Savers \cup {s}
           /\ \A t \in Sessions \ {s} : wizard'[t] = wizard[t]
           /\ wizard'[s].step = "write" /\ wizard'[s].on = "temp" /\ temp' = Void
           /\ wizard'[s].cfg = wizard[s].cfg
           /\ mixed' = (mixed \/ Savers # {}) /\ sole' = sole \cap {s} /\ UNCHANGED <<file, mem>>
<1>1. \A t \in Sessions \ {s} : wizard'[t] = wizard[t]
  BY DEF Create, Types
<1>2. /\ wizard'[s].step = "write" /\ wizard'[s].on = "temp" /\ temp' = Void
      /\ wizard'[s].cfg = wizard[s].cfg
  BY DEF Create, Types, Wizards
<1>. QED  BY <1>1, <1>2 DEF Create, Savers

LEMMA Writes ==
    ASSUME Types, NEW s \in Sessions, WriteTemp(s)
    PROVE  /\ s \in Savers /\ Savers' = Savers
           /\ \A t \in Sessions \ {s} : wizard'[t] = wizard[t]
           /\ wizard'[s].step = "rename" /\ wizard'[s].on = wizard[s].on
           /\ wizard'[s].cfg = wizard[s].cfg
           /\ Holds(s) => temp' = wizard[s].cfg /\ wizard[s].on = "temp" /\ file' = file
           /\ UNCHANGED <<mixed, sole, mem>>
<1>1. \A t \in Sessions \ {s} : wizard'[t] = wizard[t]
  BY DEF WriteTemp, Move, Types
<1>2. wizard'[s].step = "rename" /\ wizard'[s].on = wizard[s].on /\ wizard'[s].cfg = wizard[s].cfg
  <2>1. wizard[s] \in Wizards /\ wizard \in [Sessions -> Wizards]
    BY DEF Types
  <2>. QED  BY <2>1 DEF WriteTemp, Move, Wizards
<1>3. s \in Savers /\ Savers' = Savers
  BY <1>1, <1>2 DEF WriteTemp, Savers
<1>4. Holds(s) => temp' = wizard[s].cfg /\ wizard[s].on = "temp" /\ file' = file
  BY DEF WriteTemp, Holds, Over
<1>. QED  BY <1>1, <1>2, <1>3, <1>4 DEF WriteTemp, hist

LEMMA Renames ==
    ASSUME Types, NEW s \in Sessions, Rename(s)
    PROVE  /\ s \in Savers /\ Savers' = Savers \ {s}
           /\ \A t \in Sessions \ {s} :
                 /\ wizard'[t].step = wizard[t].step
                 /\ wizard[t] = Idle => wizard'[t] = Idle
           /\ wizard'[s] = [wizard[s] EXCEPT !.step = AfterSave(s), !.on = "none"]
           /\ Holds(s) => file' = wizard[s].cfg
           /\ mem'[s] = wizard[s].cfg /\ \A t \in Sessions \ {s} : mem'[t] = mem[t]
           /\ UNCHANGED <<mixed, sole>>
<1>1. \A t \in Sessions : wizard[t] \in Wizards
  BY DEF Types
<1>2. \A t \in Sessions \ {s} :
         /\ wizard'[t].step = wizard[t].step
         /\ wizard[t] = Idle => wizard'[t] = Idle
  <2> SUFFICES ASSUME NEW t \in Sessions \ {s}
               PROVE  /\ wizard'[t].step = wizard[t].step
                      /\ wizard[t] = Idle => wizard'[t] = Idle
    OBVIOUS
  <2>. DEFINE on == IF wizard[t].on = "temp" THEN "file"
                    ELSE IF wizard[t].on = "file" THEN "gone" ELSE wizard[t].on
  <2>1. wizard'[t] = [wizard[t] EXCEPT !.on = on]
    BY DEF Rename, Renamed
  <2>2. wizard[t] = Idle => on = "none"
    BY DEF Idle
  <2>. QED  BY <1>1, <2>1, <2>2 DEF Wizards, Idle
<1>3. wizard'[s] = [wizard[s] EXCEPT !.step = AfterSave(s), !.on = "none"]
  BY DEF Rename, Renamed
<1>4. wizard'[s].step = AfterSave(s)
  BY <1>1, <1>3 DEF Wizards
<1>5. AfterSave(s) \notin {"write", "rename"}
  BY DEF AfterSave
<1>6. s \in Savers /\ Savers' = Savers \ {s}
  BY <1>2, <1>4, <1>5 DEF Rename, Savers
<1>. QED  BY <1>2, <1>3, <1>6 DEF Rename, Holds, Types, hist

-----------------------------------------------------------------------------
(***************************************************************************)
(* As long as no two saves overlap, the file is whole.                     *)
(***************************************************************************)
LEMMA OneSaverStep == Types /\ OneSaver /\ [LNext]_lvars => OneSaver'
<1>. SUFFICES ASSUME Types, OneSaver, [LNext]_lvars, ~mixed'
              PROVE  /\ file' \in Configs \cup {Nil}
                     /\ \A t \in Savers' : Savers' = {t} /\ Holds(t)'
  BY DEF OneSaver
<1>1. CASE UNCHANGED lvars
  BY <1>1 DEF lvars, disk, hist, OneSaver, Savers, Holds
<1>2. ASSUME NEW s \in Sessions, OpenSession(s)
      PROVE  UNCHANGED <<file, temp, wizard, mixed>>
  BY <1>2 DEF OpenSession, disk
<1>3. ASSUME NEW s \in Sessions, EndsSave(s)
      PROVE  /\ file' \in Configs \cup {Nil}
             /\ \A t \in Savers' : Savers' = {t} /\ Holds(t)'
  <2>1. ~mixed /\ UNCHANGED <<file, temp>> /\ Savers' = Savers \ {s}
        /\ \A t \in Savers' : wizard'[t] = wizard[t]
    BY <1>3, Ends DEF Savers
  <2>. QED  BY <2>1 DEF OneSaver, Holds
<1>4. ASSUME NEW s \in Sessions, Create(s)
      PROVE  /\ file' \in Configs \cup {Nil}
             /\ \A t \in Savers' : Savers' = {t} /\ Holds(t)'
  <2>1. ~mixed /\ Savers = {}
    BY <1>4, Creates DEF Types
  <2>. QED  BY <1>4, <2>1, Creates DEF OneSaver, Holds
<1>5. ASSUME NEW s \in Sessions, WriteTemp(s)
      PROVE  /\ file' \in Configs \cup {Nil}
             /\ \A t \in Savers' : Savers' = {t} /\ Holds(t)'
  <2>1. ~mixed /\ Savers = {s} /\ Holds(s)
    BY <1>5, Writes DEF OneSaver
  <2>. QED  BY <1>5, <2>1, Writes DEF OneSaver, Holds
<1>6. ASSUME NEW s \in Sessions, Rename(s)
      PROVE  /\ file' \in Configs \cup {Nil}
             /\ \A t \in Savers' : Savers' = {t} /\ Holds(t)'
  <2>1. ~mixed /\ Savers = {s} /\ Holds(s)
    BY <1>6, Renames DEF OneSaver
  <2>2. file' \in Configs
    <3>1. wizard[s].cfg \in Configs
      BY DEF Types, Wizards
    <3>. QED  BY <1>6, <2>1, <3>1, Renames
  <2>. QED  BY <1>6, <2>1, <2>2, Renames
<1>. QED  BY <1>1, <1>2, <1>3, <1>4, <1>5, <1>6, NextCases DEF OneSaver, Savers, Holds

LEMMA TypesInvariant == LSpec => []Types
<1>1. LInit => Types
  <2> SUFFICES ASSUME LInit PROVE Types
    OBVIOUS
  <2>1. /\ wizard \in [Sessions -> Wizards] /\ mem \in [Sessions -> Configs \cup {Nil}]
        /\ \A s \in Sessions : wizard[s] = Idle
    BY Defaults DEF LInit
  <2>. QED  BY <2>1 DEF LInit, Types, Files, Passwords
<1>. QED  BY <1>1, TypesStep, PTL DEF LSpec

\* As long as no two processes saved at once, what is read is a whole configuration, whatever
\* writes failed and whenever sessions were closed (config.go Save).
THEOREM ConfigStaysWhole == LSpec => []ConfigWhole
<1>1. LInit => OneSaver
  BY DEF LInit, OneSaver, Savers, Idle
<1>2. OneSaver => ConfigWhole
  BY DEF OneSaver, ConfigWhole
<1>. QED  BY <1>1, <1>2, TypesInvariant, OneSaverStep, PTL DEF LSpec

-----------------------------------------------------------------------------
(***************************************************************************)
(* A session nobody saved beside has the file in memory.                   *)
(***************************************************************************)
LEMMA SoleSaverStep == Types /\ SoleSaver /\ [LNext]_lvars => SoleSaver'
<1>. SUFFICES ASSUME Types, SoleSaver, [LNext]_lvars, NEW r \in sole' \cap Sessions
              PROVE  mem'[r] = Load' /\ Savers' \subseteq {r} /\ Holds(r)'
  BY DEF SoleSaver
<1>1. CASE UNCHANGED lvars
  BY <1>1 DEF lvars, disk, hist, SoleSaver, Savers, Holds, Load
<1>2. ASSUME NEW s \in Sessions, OpenSession(s)
      PROVE  mem'[r] = Load' /\ Savers' \subseteq {r} /\ Holds(r)'
  <2>1. UNCHANGED <<file, temp, wizard>> /\ mem' = [mem EXCEPT ![s] = Load]
    BY <1>2 DEF OpenSession, disk
  <2>2. Savers' = Savers /\ Load' = Load /\ Holds(r)' = Holds(r)
    BY <2>1 DEF Savers, Load, Holds
  <2>3. CASE r \in sole
    BY <2>1, <2>2, <2>3 DEF SoleSaver, Types
  <2>4. CASE r \notin sole
    <3>1. r = s /\ Savers = {}
      BY <1>2, <2>4 DEF OpenSession
    <3>. QED  BY <2>1, <2>2, <3>1 DEF Types, Savers, Holds
  <2>. QED  BY <2>3, <2>4
<1>3. ASSUME NEW s \in Sessions, EndsSave(s)
      PROVE  mem'[r] = Load' /\ Savers' \subseteq {r} /\ Holds(r)'
  <2>1. r \in sole /\ UNCHANGED <<file, temp>> /\ mem'[r] = mem[r]
    BY <1>3, Ends
  <2>2. Savers' \subseteq Savers /\ \A t \in Savers' : wizard'[t] = wizard[t]
    BY <1>3, Ends DEF Savers
  <2>3. Load' = Load
    BY <2>1 DEF Load
  <2>4. Holds(r)'
    BY <2>1, <2>2 DEF SoleSaver, Holds, Savers
  <2>. QED  BY <2>1, <2>2, <2>3, <2>4 DEF SoleSaver
<1>4. ASSUME NEW s \in Sessions, Create(s)
      PROVE  mem'[r] = Load' /\ Savers' \subseteq {r} /\ Holds(r)'
  <2>1. r = s /\ r \in sole
    BY <1>4, Creates
  <2>. QED  BY <1>4, <2>1, Creates DEF SoleSaver, Holds, Load
<1>5. ASSUME NEW s \in Sessions, WriteTemp(s)
      PROVE  mem'[r] = Load' /\ Savers' \subseteq {r} /\ Holds(r)'
  <2>1. r = s /\ r \in sole /\ Holds(s)
    BY <1>5, Writes DEF SoleSaver
  <2>. QED  BY <1>5, <2>1, Writes DEF SoleSaver, Holds, Load
<1>6. ASSUME NEW s \in Sessions, Rename(s)
      PROVE  mem'[r] = Load' /\ Savers' \subseteq {r} /\ Holds(r)'
  <2>1. r = s /\ r \in sole /\ Holds(s) /\ Savers' = {}
    BY <1>6, Renames DEF SoleSaver
  <2>2. wizard[s].cfg \in Configs
    BY DEF Types, Wizards
  <2>3. file' \in Configs /\ file' = mem'[r]
    BY <1>6, <2>1, <2>2, Renames
  <2>4. Load' = file'
    BY <2>3, Different DEF Load
  <2>. QED  BY <2>1, <2>3, <2>4 DEF Savers, Holds
<1>. QED  BY <1>1, <1>2, <1>3, <1>4, <1>5, <1>6, NextCases

\* A session nobody saved beside has in memory what is in the file, also after saves that failed
\* (interactive.go saveCfg).
THEOREM MemoryAgrees == LSpec => []MemoryOfFile
<1>1. LInit => SoleSaver
  BY DEF LInit, SoleSaver
<1>2. Types /\ SoleSaver => MemoryOfFile
  BY LinkingAssumption DEF SoleSaver, MemoryOfFile
<1>. QED  BY <1>1, <1>2, TypesInvariant, SoleSaverStep, PTL DEF LSpec

-----------------------------------------------------------------------------
(***************************************************************************)
(* A link that nobody disturbs.                                            *)
(***************************************************************************)
\* A statement of one wizard leaves the others where they are.
LEMMA OthersStay ==
    ASSUME Types, NEW s \in Sessions,
           Save(s) \/ PutSecret(s) \/ PutSolver(s) \/ PutFails(s) \/ Probe(s) \/ Report(s) \/ Delete(s)
    PROVE  \A t \in Sessions \ {s} : wizard[t] = Idle => wizard'[t] = Idle
BY Ends, Creates, Writes, Renames DEF EndsSave, Save

\* The statements of a save, for a session that holds the temporary file.
LEMMA SaveInOrder ==
    ASSUME Types, NEW r \in Sessions, wizard[r].step # "none", Holds(r), InOrder(r), Save(r)
    PROVE  Holds(r)' /\ InOrder(r)'
<1>1. wizard[r] \in Wizards
  BY DEF Types
<1>2. CASE Create(r)
  <2>1. wizard' = [wizard EXCEPT ![r] = [wizard[r] EXCEPT !.step = "write", !.on = "temp"]]
    BY <1>2 DEF Create
  <2>2. wizard'[r] = [wizard[r] EXCEPT !.step = "write", !.on = "temp"]
    BY <2>1 DEF Types
  <2>3. /\ wizard'[r].op = wizard[r].op /\ wizard'[r].cfg = wizard[r].cfg
        /\ wizard'[r].pw = wizard[r].pw /\ wizard'[r].step = "write" /\ wizard'[r].on = "temp"
    BY <1>1, <2>2 DEF Wizards
  <2>4. Holds(r)'
    BY <1>2, <2>3 DEF Create, Holds
  <2>5. InOrder(r)'
    BY <2>3 DEF InOrder
  <2>. QED  BY <2>4, <2>5
<1>3. CASE WriteTemp(r)
  <2>1. Move(r, "rename")
    BY <1>3 DEF WriteTemp
  <2>2. /\ wizard'[r].op = wizard[r].op /\ wizard'[r].cfg = wizard[r].cfg
        /\ wizard'[r].pw = wizard[r].pw /\ wizard'[r].step = "rename"
    BY <2>1, Moves DEF Statements
  <2>3. Holds(r)'
    BY <1>3, <2>2, Writes DEF Holds
  <2>4. InOrder(r)'
    BY <2>2 DEF InOrder
  <2>. QED  BY <2>3, <2>4
<1>4. CASE Rename(r)
  <2>1. /\ wizard'[r].op = wizard[r].op /\ wizard'[r].cfg = wizard[r].cfg
        /\ wizard'[r].pw = wizard[r].pw /\ wizard'[r].step = AfterSave(r)
    BY <1>1, <1>4, Renames, ZenonT(30) DEF Wizards
  <2>2. file' = wizard[r].cfg /\ mem'[r] = wizard[r].cfg
    BY <1>4, Renames
  <2>3. AfterSave(r) \in {"put", "delete", "probe", "report"}
    BY DEF AfterSave
  <2>4. Holds(r)'
    BY <2>1, <2>3 DEF Holds
  <2>5. wizard[r].op \in Mail => AfterSave(r) = IF wizard[r].pw = Nil THEN "probe" ELSE "put"
    BY DEF AfterSave, Mail, InOrder
  <2>6. wizard[r].op = "link inbox" => AfterSave(r) = "put"
    BY DEF AfterSave, InOrder
  <2>7. InOrder(r)'
    BY <2>1, <2>2, <2>3, <2>5, <2>6 DEF InOrder, Mail
  <2>. QED  BY <2>4, <2>7
<1>5. CASE RenameMisses(r) \/ SaveFails(r)
  <2>1. Fail(r) /\ wizard[r].step \in {"create", "write", "rename"} /\ UNCHANGED <<file, secret, mem>>
    BY <1>5 DEF RenameMisses, SaveFails, disk
  <2>2. CASE Finish(r)
    <3>1. wizard'[r].step = "none" /\ wizard'[r].op = "none"
      BY <2>2, Finishes
    <3>. QED  BY <3>1 DEF Holds, InOrder, Mail
  <2>3. CASE wizard[r].op = "secret" /\ Move(r, "report")
    <3>1. wizard'[r].step = "report" /\ wizard'[r].op = "secret"
      BY <2>3, Moves DEF Statements
    <3>. QED  BY <3>1 DEF Holds, InOrder, Mail
  <2>. QED  BY <2>1, <2>2, <2>3 DEF Fail
<1>. QED  BY <1>2, <1>3, <1>4, <1>5 DEF Save

\* The statements after it.
LEMMA AfterInOrder ==
    ASSUME Types, NEW r \in Sessions, wizard[r].step # "none", Holds(r), InOrder(r),
           PutSecret(r) \/ PutSolver(r) \/ PutFails(r) \/ Probe(r) \/ Report(r) \/ Delete(r)
    PROVE  Holds(r)' /\ InOrder(r)'
<1>1. wizard[r] \in Wizards
  BY DEF Types
<1>2. ASSUME Finish(r)
      PROVE  Holds(r)' /\ InOrder(r)'
  <2>1. wizard'[r].step = "none" /\ wizard'[r].op = "none"
    BY <1>2, Finishes
  <2>. QED  BY <2>1 DEF Holds, InOrder, Mail
<1>3. CASE PutSecret(r)
  <2>. DEFINE step == IF wizard[r].op \in {"link", "custom"} THEN "probe" ELSE "report"
  <2>1. Move(r, step) /\ wizard[r].step = "put" /\ UNCHANGED <<file, mem>>
    BY <1>3 DEF PutSecret, disk
  <2>2. /\ wizard'[r].op = wizard[r].op /\ wizard'[r].cfg = wizard[r].cfg
        /\ wizard'[r].pw = wizard[r].pw /\ wizard'[r].step = step
    BY <2>1, Moves DEF Statements
  <2>3. wizard[r].op \in Mail => secret'.smtp = wizard[r].pw
    BY <1>3 DEF PutSecret, Key, Mail, Types
  <2>4. wizard[r].op = "link inbox" => secret'.imap = wizard[r].pw
    BY <1>3 DEF PutSecret, Key, Types
  <2>5. Holds(r)'
    BY <2>2 DEF Holds
  <2>6. InOrder(r)'
    BY <2>1, <2>2, <2>3, <2>4 DEF InOrder, Mail
  <2>. QED  BY <2>5, <2>6
<1>4. CASE PutSolver(r)
  <2>1. wizard'[r].op = wizard[r].op /\ wizard'[r].step = "create" /\ wizard[r].op = "secret"
    BY <1>4, Continues DEF PutSolver, InOrder
  <2>. QED  BY <2>1 DEF Holds, InOrder, Mail
<1>5. CASE PutFails(r)
  BY <1>2, <1>5 DEF PutFails
<1>6. CASE Probe(r)
  <2>1. CASE wizard[r].pw # Nil /\ Move(r, "report")
    <3>1. wizard[r].step = "probe" /\ UNCHANGED <<file, mem, secret>>
      BY <1>6 DEF Probe, disk
    <3>2. /\ wizard'[r].op = wizard[r].op /\ wizard'[r].cfg = wizard[r].cfg
          /\ wizard'[r].pw = wizard[r].pw /\ wizard'[r].step = "report"
      BY <2>1, Moves DEF Statements
    <3>. QED  BY <2>1, <3>1, <3>2 DEF Holds, InOrder
  <2>. QED  BY <1>2, <1>6, <2>1 DEF Probe
<1>7. CASE Report(r)
  <2>1. CASE ~Finish(r)
    <3>1. /\ wizard[r].op = "link" /\ wizard'[r].op = "link inbox" /\ wizard'[r].step = "create"
          /\ wizard'[r].pw = wizard[r].pw /\ wizard'[r].cfg.imap = wizard[r].cfg.smtp
      BY <1>7, <2>1, Continues
    <3>. QED  BY <3>1 DEF Holds, InOrder, Mail
  <2>. QED  BY <1>2, <2>1
<1>8. CASE Delete(r)
  <2>1. CASE ~Finish(r)
    <3>1. wizard'[r].op = "clear" /\ wizard'[r].step = "create"
      BY <1>8, <2>1, Continues
    <3>. QED  BY <3>1 DEF Holds, InOrder, Mail
  <2>. QED  BY <1>2, <2>1
<1>. QED  BY <1>3, <1>4, <1>5, <1>6, <1>7, <1>8

LEMMA UndisturbedStep == Types /\ Undisturbed /\ [LNext]_lvars => Undisturbed'
<1>. SUFFICES ASSUME Types, Undisturbed, [LNext]_lvars, NEW r \in alone' \cap Sessions
              PROVE  Holds(r)' /\ InOrder(r)' /\ Alone(r)'
  BY DEF Undisturbed
<1>. DEFINE w == wizard[r]
<1>0. w \in Wizards /\ mem[r] \in Configs \cup {Nil}
  BY DEF Types
<1>1. CASE UNCHANGED lvars
  BY <1>1 DEF lvars, disk, hist, Undisturbed, Holds, InOrder, Alone
<1>2. ASSUME NEW s \in Sessions, OpenSession(s)
      PROVE  Holds(r)' /\ InOrder(r)' /\ Alone(r)'
  <2>1. r \in alone /\ UNCHANGED <<file, temp, secret, wizard>> /\ ~Running(s)
    BY <1>2 DEF OpenSession, disk
  <2>2. wizard[s] = Idle
    BY <2>1 DEF Types
  <2>3. mem'[r] = mem[r] \/ wizard[r] = Idle
    BY <1>2, <2>2 DEF OpenSession, Types
  <2>4. CASE wizard[r] = Idle
    <3>1. wizard'[r].op = "none" /\ wizard'[r].step = "none"
      BY <2>1, <2>4 DEF Idle
    <3>2. Holds(r)' /\ InOrder(r)'
      BY <3>1 DEF Holds, InOrder, Mail
    <3>. QED  BY <2>1, <3>2 DEF Undisturbed, Alone
  <2>5. CASE mem'[r] = mem[r]
    BY <2>1, <2>5 DEF Undisturbed, Holds, InOrder, Alone
  <2>. QED  BY <2>3, <2>4, <2>5
<1>3. ASSUME NEW s \in Sessions, Quit(s)
      PROVE  Holds(r)' /\ InOrder(r)' /\ Alone(r)'
  <2>1. r \in alone /\ r # s /\ UNCHANGED <<file, temp, secret>>
    BY <1>3 DEF Quit, disk
  <2>2. wizard'[r] = wizard[r] /\ mem'[r] = mem[r] /\ \A t \in Sessions : wizard'[t] \in {wizard[t], Idle}
    BY <1>3, <2>1 DEF Quit, Types
  <2>. QED  BY <2>1, <2>2, ZenonT(30) DEF Undisturbed, Holds, InOrder, Alone
<1>4. ASSUME NEW s \in Sessions, Choose(s)
      PROVE  Holds(r)' /\ InOrder(r)' /\ Alone(r)'
  <2>1. PICK op \in Operations \ {"link inbox"}, step \in {"create", "put solver"}, cfg \in Configs,
             pw \in Passwords : Begun(s, op, step, cfg, pw)
    BY <1>4, Chosen
  <2>2. r = s /\ Alone(s)
    BY <2>1 DEF Begun, StartWizard, Alone
  <2>3. /\ wizard'[s] = [op |-> op, step |-> step, cfg |-> cfg, pw |-> pw, on |-> "none"]
        /\ \A t \in Sessions \ {s} : wizard'[t] = wizard[t]
    BY <2>1 DEF Begun, StartWizard, Types
  <2>4. /\ wizard'[s].op = op /\ wizard'[s].step = step /\ wizard'[s].cfg = cfg
        /\ wizard'[s].pw = pw
    <3>. DEFINE v == [op |-> op, step |-> step, cfg |-> cfg, pw |-> pw, on |-> "none"]
    <3>1. v.op = op /\ v.step = step /\ v.cfg = cfg /\ v.pw = pw
      OBVIOUS
    <3>2. wizard'[s] = v
      BY <2>3
    <3>. HIDE DEF v
    <3>. QED  BY <3>1, <3>2
  <2>5. Holds(s)' /\ Alone(s)'
    BY <2>2, <2>3, <2>4 DEF Holds, Alone
  <2>6. InOrder(s)'
    BY <2>1, <2>4 DEF Begun, InOrder, Mail
  <2>. QED  BY <2>2, <2>5, <2>6
<1>5. ASSUME NEW s \in Sessions, s = r, wizard[s].step # "none", alone' = alone,
             Save(s) \/ PutSecret(s) \/ PutSolver(s) \/ PutFails(s) \/ Probe(s) \/ Report(s) \/ Delete(s)
      PROVE  Holds(r)' /\ InOrder(r)' /\ Alone(r)'
  <2>1. Holds(r) /\ InOrder(r) /\ Alone(r)
    BY <1>5 DEF Undisturbed
  <2>2. Alone(r)'
    BY <1>5, <2>1, OthersStay DEF Alone
  <2>3. Holds(r)' /\ InOrder(r)'
    BY <1>5, <2>1, SaveInOrder, AfterInOrder
  <2>. QED  BY <2>2, <2>3
<1>6. ASSUME NEW s \in Sessions,
             Save(s) \/ PutSecret(s) \/ PutSolver(s) \/ PutFails(s) \/ Probe(s) \/ Report(s) \/ Delete(s)
      PROVE  Holds(r)' /\ InOrder(r)' /\ Alone(r)'
  <2>1. wizard[s].step # "none" /\ alone' = alone
    BY <1>6 DEF Save, Create, WriteTemp, Rename, RenameMisses, SaveFails, PutSecret, PutSolver,
       PutFails, Probe, Report, Delete, hist
  <2>2. s = r
    BY <2>1 DEF Undisturbed, Alone, Idle
  <2>. QED  BY <1>5, <1>6, <2>1, <2>2
<1>. QED  BY <1>1, <1>2, <1>3, <1>4, <1>6 DEF LNext

LEMMA InsidersStep == Insiders /\ [LNext]_lvars => Insiders'
<1>. SUFFICES ASSUME Insiders, [LNext]_lvars PROVE Insiders'
  OBVIOUS
<1>1. CASE UNCHANGED lvars
  BY <1>1 DEF Insiders, lvars, hist
<1>2. ASSUME NEW s \in Sessions, OpenSession(s) \/ Quit(s)
      PROVE  Insiders'
  BY <1>2 DEF Insiders, OpenSession, Quit
<1>3. ASSUME NEW s \in Sessions, Choose(s)
      PROVE  alone' \in {{s}, {}}
  BY <1>3 DEF Choose, LinkMail, LinkCustomMail, UnlinkMail, ClearIMAP, EnableInboxFromLinked,
     IMAPCustom, SetLaw, SetSecret, StartWizard
<1>4. ASSUME NEW s \in Sessions,
             Save(s) \/ PutSecret(s) \/ PutSolver(s) \/ PutFails(s) \/ Probe(s) \/ Report(s) \/ Delete(s)
      PROVE  alone' = alone
  BY <1>4 DEF Save, Create, WriteTemp, Rename, RenameMisses, SaveFails, PutSecret, PutSolver,
     PutFails, Probe, Report, Delete, hist
<1>. QED  BY <1>1, <1>2, <1>3, <1>4 DEF LNext, Insiders

\* A link that is reported as done and that nobody disturbed leaves one account in the file, in the
\* session and behind the stored password, and so does the inbox offered with it
\* (mail_link.go saveMail).
THEOREM OneAccount == LSpec => []LinkedAlone
<1>1. LInit => Undisturbed
  BY DEF LInit, Undisturbed
<1>2. LInit => Insiders
  BY DEF LInit, Insiders
<1>3. Insiders /\ [LNext]_lvars => Insiders'
  BY InsidersStep
<1>4. Types /\ Undisturbed /\ Insiders => LinkedAlone
  <2> SUFFICES ASSUME Types, Undisturbed, NEW s \in alone \cap Sessions
               PROVE  /\ Done(s, "link") \/ Done(s, "custom") =>
                           /\ HomeMail(s) = "linked"
                           /\ Load.smtp = wizard[s].pw /\ secret.smtp = wizard[s].pw
                           /\ mem[s].smtp = wizard[s].pw
                      /\ Done(s, "link inbox") =>
                           /\ Load.imap = wizard[s].pw /\ secret.imap = wizard[s].pw
                           /\ mem[s].imap = wizard[s].pw
    BY DEF LinkedAlone, Insiders
  <2>1. InOrder(s) /\ wizard[s].cfg \in Configs
    BY DEF Undisturbed, Types, Wizards
  <2>2. file \in Configs => Load = file
    BY Different DEF Load
  <2>3. ASSUME Done(s, "link") \/ Done(s, "custom")
        PROVE  /\ HomeMail(s) = "linked"
               /\ Load.smtp = wizard[s].pw /\ secret.smtp = wizard[s].pw
               /\ mem[s].smtp = wizard[s].pw
    BY <2>1, <2>2, <2>3 DEF Done, InOrder, Mail, HomeMail, Cfg
  <2>4. ASSUME Done(s, "link inbox")
        PROVE  /\ Load.imap = wizard[s].pw /\ secret.imap = wizard[s].pw
               /\ mem[s].imap = wizard[s].pw
    BY <2>1, <2>2, <2>4 DEF Done, InOrder
  <2>. QED  BY <2>3, <2>4
<1>. QED  BY <1>1, <1>2, <1>3, <1>4, TypesInvariant, UndisturbedStep, PTL DEF LSpec
=============================================================================
