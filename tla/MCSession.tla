----------------------------- MODULE MCSession -----------------------------
(***************************************************************************)
(* What a user starts: commands against daemons, a terminal session, a     *)
(* full-screen program, a form in the browser, or a look-up at many sites. *)
(* Each runs in a process of its own, and a behaviour is about one of them.*)
(***************************************************************************)
EXTENDS Daemon, Terminal, Console, Automate, Probes

VARIABLE about

MCItems == <<"a", "b", "c">>
MCSites == {1, 2, 3}
MCFinds == {{1, 3}, {}}

allVars == <<about, dvars, tvars, cvars, avars, pvars>>

SessionInit ==
    /\ about \in {"daemon", "terminal", "console", "form", "probes"}
    /\ DInit /\ TInit /\ CInit /\ AInit /\ PInit
    /\ about # "terminal" => stack = <<"home">> /\ held

SessionNext ==
    /\ UNCHANGED about
    /\ \/ about = "daemon"   /\ DNext /\ UNCHANGED <<tvars, cvars, avars, pvars>>
       \/ about = "terminal" /\ TNext /\ UNCHANGED <<dvars, cvars, avars, pvars>>
       \/ about = "console"  /\ CNext /\ UNCHANGED <<dvars, tvars, avars, pvars>>
       \/ about = "form"     /\ ANext /\ UNCHANGED <<dvars, tvars, cvars, pvars>>
       \/ about = "probes"   /\ PNext /\ UNCHANGED <<dvars, tvars, cvars, avars>>

SessionSpec ==
    SessionInit /\ [][SessionNext]_allVars /\ DFairness /\ TFairness /\ AFairness /\ PFairness

\* The variables of the five programs have their types (their state in run.go, interactive.go,
\* app.go, automate.go and footprint.go).
TypesOK == DaemonOK /\ TerminalOK /\ ConsoleOK /\ AutomateOK /\ ProbesOK
=============================================================================
