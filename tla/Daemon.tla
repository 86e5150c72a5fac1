------------------------------- MODULE Daemon -------------------------------
(***************************************************************************)
(* The daemon as its clients meet it.  Every start of nulltraced is a run: *)
(* it unlocks the vault, writes a token of its own into the one token      *)
(* file, takes the port, and serves each connection on a goroutine nobody  *)
(* waits for.  A command of the CLI reads the token, pings whoever has the *)
(* port, and then calls it on a second connection; if the ping was in vain *)
(* it opens the vault itself.  Between any two of these steps a run may    *)
(* end and another one begin.                                              *)
(***************************************************************************)
EXTENDS Naturals, FiniteSets

CONSTANTS
    Runs,       \* starts of the daemon, each with a random token of its own
    Clients,    \* commands given to the CLI
    Commands,   \* those a user gives
    Here,       \* the client's own process, as a place where a command runs
    None,       \* no run, no file
    Blank       \* the token file after it was truncated

ASSUME DaemonAssumption ==
    /\ Runs \cap {Here, None, Blank} = {} /\ Here # None /\ None # Blank /\ Here # Blank
    /\ Commands \subseteq {"identity add", "attr add", "identity list", "secret set", "scan",
                           "scrub", "export", "complete", "verify", "playbook", "footprint",
                           "automate", "status", "daemon status", "daemon stop"}

VARIABLES
    token,     \* the token file
    port,      \* the run that listens
    life,      \* life[r]: how far Run is
    asked,     \* the runs whose context is done
    bye,       \* those that are about to send themselves an interrupt
    mailing,   \* those with a pool worker in the middle of a message
    doing,     \* doing[c]: how far client c is
    class,     \* class[c]: the class of its command
    tok,       \* tok[c]: the token it read
    conn,      \* conn[c]: its last connection: to whom, for what, how far the handler is
    result,    \* result[c]: what it told the user
    ran        \* history: ran[c], the places that carried its command out

server == <<token, port, life, asked, bye, mailing>>
client == <<doing, class, tok, result>>
dvars  == <<server, client, conn, ran>>

-----------------------------------------------------------------------------
(***************************************************************************)
(* A run of the daemon.                                                    *)
(***************************************************************************)
Reach(r, s) == life' = [life EXCEPT ![r] = s]

\* A wrong passphrase or a vault that does not open: nothing was written yet.
Start(r) ==
    /\ life[r] = "off"
    /\ \E s \in {"unlocked", "over"} : Reach(r, s)
    /\ UNCHANGED <<token, port, asked, bye, mailing, client, conn, ran>>

\* os.WriteFile truncates, then writes.
TruncateToken(r) ==
    /\ life[r] = "unlocked" /\ Reach(r, "writing")
    /\ token' = Blank
    /\ UNCHANGED <<port, asked, bye, mailing, client, conn, ran>>

WriteToken(r) ==
    /\ life[r] = "writing" /\ Reach(r, "written")
    /\ token' = r
    /\ UNCHANGED <<port, asked, bye, mailing, client, conn, ran>>

\* The token is replaced before the port turns out to be taken.
Listen(r) ==
    /\ life[r] = "written"
    /\ IF port = None THEN port' = r /\ Reach(r, "serving")
                      ELSE Reach(r, "closing") /\ UNCHANGED port
    /\ UNCHANGED <<token, asked, bye, mailing, client, conn, ran>>

\* The scheduler hands a demand to the pool; the message ends, whatever its outcome.
Mail(r) ==
    /\ life[r] = "serving"
    /\ mailing' = IF r \in mailing THEN mailing \ {r} ELSE mailing \cup {r}
    /\ r \notin mailing => r \notin asked
    /\ UNCHANGED <<token, port, life, asked, bye, client, conn, ran>>

\* SIGINT or SIGTERM, at any time.
Interrupt(r) ==
    /\ life[r] \notin {"off", "over"} /\ r \notin asked
    /\ asked' = asked \cup {r}
    /\ UNCHANGED <<token, port, life, bye, mailing, client, conn, ran>>

\* 50 milliseconds after a shutdown command.
InterruptItself(r) == r \in bye /\ Interrupt(r)

Unheard(r) == [c \in Clients |->
    IF conn[c].to = r /\ conn[c].phase = "sent" THEN [conn[c] EXCEPT !.phase = "reset"] ELSE conn[c]]

\* What waits in the backlog is reset, what was accepted goes on.
CloseListener(r) ==
    /\ life[r] = "serving" /\ r \in asked /\ port = r
    /\ port' = None /\ conn' = Unheard(r)
    /\ UNCHANGED <<token, life, asked, bye, mailing, client, ran>>

\* Accept fails for a reason of its own.
ServeFails(r) ==
    /\ life[r] = "serving" /\ port = r
    /\ Reach(r, "closing")
    /\ UNCHANGED <<token, port, asked, bye, mailing, client, conn, ran>>

\* Mutant: the handlers are waited for, too.
LeaveAfterAll(r) ==
    /\ life[r] = "serving" /\ r \in asked /\ r \notin mailing
    /\ \A c \in Clients : conn[c].to = r => conn[c].phase \notin {"running", "done"}
    /\ Reach(r, "closing")
    /\ UNCHANGED <<token, port, asked, bye, mailing, client, conn, ran>>

\* After the pool is done; or at once, when Serve has returned and the select takes its side.
Leave(r) ==
    /\ life[r] = "serving" /\ r \in asked
    /\ r \notin mailing \/ port # r
    /\ Reach(r, "closing")
    /\ UNCHANGED <<token, port, asked, bye, mailing, client, conn, ran>>

Unanswered(r) == [c \in Clients |->
    IF conn[c].to = r /\ conn[c].phase \in {"sent", "running", "done"}
    THEN [conn[c] EXCEPT !.phase = "reset"] ELSE conn[c]]

\* The vault is closed and the process gone, with its goroutines and its connections.
Exit(r) ==
    /\ life[r] = "closing" /\ Reach(r, "over")
    /\ port' = IF port = r THEN None ELSE port
    /\ mailing' = mailing \ {r} /\ conn' = Unanswered(r)
    /\ UNCHANGED <<token, asked, bye, client, ran>>

Crash(r) ==
    /\ life[r] \notin {"off", "over"} /\ Reach(r, "over")
    /\ port' = IF port = r THEN None ELSE port
    /\ mailing' = mailing \ {r} /\ conn' = Unanswered(r)
    /\ UNCHANGED <<token, asked, bye, client, ran>>

Run(r) ==
    \/ Start(r) \/ TruncateToken(r) \/ WriteToken(r) \/ Listen(r) \/ Mail(r)
    \/ Interrupt(r) \/ CloseListener(r) \/ ServeFails(r) \/ Leave(r) \/ Exit(r) \/ Crash(r)

-----------------------------------------------------------------------------
(***************************************************************************)
(* A connection's handler.                                                 *)
(***************************************************************************)
Phase(c, p) == conn' = [conn EXCEPT ![c].phase = p]

Alive(r) == r \in Runs /\ life[r] \in {"serving", "closing"}

Accepted(c) == Alive(conn[c].to) /\ conn[c].phase = "sent" /\ port = conn[c].to

Handle(c) ==
    /\ Accepted(c)
    /\ Phase(c, IF tok[c] # conn[c].to THEN "error"
                ELSE IF conn[c].cmd = "ping" THEN "ok" ELSE "running")
    /\ UNCHANGED <<server, client, ran>>

\* The command is carried out; a run that is closing has no vault to do it with.
Dispatch(c) ==
    /\ Alive(conn[c].to) /\ conn[c].phase = "running"
    /\ \/ /\ life[conn[c].to] = "serving" /\ Phase(c, "done")
          /\ ran' = [ran EXCEPT ![c] = @ \cup {conn[c].to}]
          /\ bye' = IF class[c] = "stop" THEN bye \cup {conn[c].to} ELSE bye
       \/ Phase(c, "error") /\ UNCHANGED <<ran, bye>>
    /\ UNCHANGED <<token, port, life, asked, mailing, client>>

WriteReply(c) ==
    /\ Alive(conn[c].to) /\ conn[c].phase = "done"
    /\ Phase(c, "ok")
    /\ UNCHANGED <<server, client, ran>>

-----------------------------------------------------------------------------
(***************************************************************************)
(* A command of the CLI.                                                   *)
(***************************************************************************)
\* cobra, the prompts and the checks of the fields refuse these before anything is asked.
Checked == {"identity add", "attr add"}

Secrets == {"secret set"}

Searches == {"scan", "scrub"}

Ledger == {"export", "complete", "verify", "status"}

Engines == {"footprint", "automate"}

\* They need a daemon: there is nothing to fall back to.
DaemonOnly == {"daemon status", "daemon stop"}

Class(k) ==
    IF k = "daemon stop" THEN "stop"
    ELSE IF k \in DaemonOnly THEN "remote"
    ELSE IF k = "playbook" THEN "playbook"
    ELSE IF k \in Checked \cup Secrets \cup Searches \cup Ledger \cup Engines \cup {"identity list"}
         THEN "either" ELSE "none"

Step(c, s) == doing' = [doing EXCEPT ![c] = s]

Tell(c, s) == Step(c, "over") /\ result' = [result EXCEPT ![c] = s]

Refuse(c, k) ==
    /\ doing[c] = "idle" /\ k \in Checked
    /\ Tell(c, "error")
    /\ UNCHANGED <<server, class, tok, conn, ran>>

\* No ping, no daemon: the command is done here, if it can be.
Alone(c, kind) ==
    IF kind \in {"stop", "remote"} THEN Tell(c, "error") ELSE Step(c, "local") /\ UNCHANGED result

LoadToken(c, k) ==
    /\ doing[c] = "idle"
    /\ class' = [class EXCEPT ![c] = Class(k)]
    /\ IF token = None THEN Alone(c, Class(k)) /\ UNCHANGED tok
       ELSE /\ tok' = [tok EXCEPT ![c] = token]
            /\ Step(c, "ping") /\ UNCHANGED result
    /\ UNCHANGED <<server, conn, ran>>

Dial(c, cmd) == conn' = [conn EXCEPT ![c] = [to |-> port, cmd |-> cmd, phase |-> "sent"]]

Ping(c) ==
    /\ doing[c] = "ping"
    /\ IF port = None THEN Alone(c, class[c]) /\ UNCHANGED conn
       ELSE Dial(c, "ping") /\ Step(c, "pinging") /\ UNCHANGED result
    /\ UNCHANGED <<server, class, tok, ran>>

Answer(c, phases) == conn[c].phase \in phases

Ponged(c) ==
    /\ doing[c] = "pinging" /\ Answer(c, {"ok"})
    /\ Step(c, "call")
    /\ UNCHANGED <<server, class, tok, result, conn, ran>>

NoConn == [to |-> None, cmd |-> "none", phase |-> "none"]

\* A wrong token, a connection that is reset, or 800 milliseconds without an answer.
PingFails(c) ==
    /\ doing[c] = "pinging" /\ ~Answer(c, {"ok"})
    /\ Alone(c, class[c])
    /\ conn' = [conn EXCEPT ![c] = NoConn]
    /\ UNCHANGED <<server, class, tok, ran>>

\* Mutant: a call that failed is made up for here.
FallBack(c) == Step(c, "local") /\ UNCHANGED result

\* An error of the call is the command's; only a playbook is in the binary as well.
CallFails(c) == Tell(c, IF class[c] = "playbook" THEN "ok" ELSE "error")

Call(c) ==
    /\ doing[c] = "call"
    /\ IF port = None THEN CallFails(c) /\ UNCHANGED conn
       ELSE Dial(c, "call") /\ Step(c, "calling") /\ UNCHANGED result
    /\ UNCHANGED <<server, class, tok, ran>>

Replied(c) ==
    /\ doing[c] = "calling" /\ Answer(c, {"ok", "error", "reset"})
    /\ IF Answer(c, {"ok"}) THEN Tell(c, "ok") ELSE CallFails(c)
    /\ UNCHANGED <<server, class, tok, conn, ran>>

\* Mutant: a client that was accepted waits for its answer.
NoDeadline(c) ==
    /\ doing[c] = "calling" /\ Answer(c, {"sent"})
    /\ CallFails(c)
    /\ UNCHANGED <<server, class, tok, conn, ran>>

\* The client's two minutes are over; the handler does not learn of it.
CallTimesOut(c) ==
    /\ doing[c] = "calling" /\ ~Answer(c, {"ok", "error", "reset"})
    /\ CallFails(c)
    /\ UNCHANGED <<server, class, tok, conn, ran>>

\* The passphrase is asked for until it opens the vault, then the command runs in this process.
Local(c) ==
    /\ doing[c] = "local"
    /\ \/ Tell(c, "ok") /\ ran' = [ran EXCEPT ![c] = @ \cup {Here}]
       \/ Tell(c, IF class[c] = "playbook" THEN "ok" ELSE "error") /\ UNCHANGED ran
    /\ UNCHANGED <<server, class, tok, conn>>

Connection(c) ==
    Ping(c) \/ Ponged(c) \/ PingFails(c) \/ Call(c) \/ Replied(c) \/ CallTimesOut(c)

Client(c) ==
    \/ \E k \in Commands : Refuse(c, k) \/ LoadToken(c, k)
    \/ Connection(c) \/ Local(c)

-----------------------------------------------------------------------------
DInit ==
    /\ token = None /\ port = None
    /\ life = [r \in Runs |-> "off"]
    /\ asked = {} /\ bye = {} /\ mailing = {}
    /\ doing = [c \in Clients |-> "idle"] /\ class = [c \in Clients |-> "none"]
    /\ tok = [c \in Clients |-> None] /\ conn = [c \in Clients |-> NoConn]
    /\ result = [c \in Clients |-> "none"]
    /\ ran = [c \in Clients |-> {}]

DNext ==
    \/ \E r \in Runs : Run(r)
    \/ \E c \in Clients : Handle(c) \/ Dispatch(c) \/ WriteReply(c) \/ Client(c)

(***************************************************************************)
(* Goroutines that are ready run, messages end, timers fire.  What a       *)
(* handler does may take for ever, and users owe nothing.                  *)
(***************************************************************************)
DFairness ==
    /\ \A r \in Runs :
          /\ WF_dvars(InterruptItself(r)) /\ WF_dvars(CloseListener(r))
          /\ WF_dvars(r \in mailing /\ Mail(r))
          /\ WF_dvars(Leave(r)) /\ WF_dvars(Exit(r))
    /\ \A c \in Clients : WF_dvars(Connection(c))

DSpec == DInit /\ [][DNext]_dvars /\ DFairness

-----------------------------------------------------------------------------
DaemonOK ==
    /\ token \in Runs \cup {None, Blank} /\ port \in Runs \cup {None}
    /\ life \in [Runs -> {"off", "unlocked", "writing", "written", "serving", "closing", "over"}]
    /\ asked \subseteq Runs /\ bye \subseteq Runs /\ mailing \subseteq Runs
    /\ doing \in [Clients -> {"idle", "ping", "pinging", "call", "calling", "local", "over"}]
    /\ class \in [Clients -> {"none", "either", "playbook", "remote", "stop"}]
    /\ tok \in [Clients -> Runs \cup {None, Blank}]
    /\ conn \in [Clients -> [to : Runs \cup {None}, cmd : {"none", "ping", "call"},
                    phase : {"none", "sent", "running", "done", "ok", "error", "reset"}]]
    /\ result \in [Clients -> {"none", "ok", "error"}]
    /\ ran \in [Clients -> SUBSET (Runs \cup {Here})]

\* A command is carried out at most once, by the client itself or by the daemon whose token it
\* read, though another one may have taken its port since, however the ping, the call and their
\* deadlines race with the handler; and what is reported as done was done
\* (cli.go callOrLocal, doOrLocal; protocol.go Call; server.go dispatch).
DoneOnce ==
    \A c \in Clients :
        /\ Cardinality(ran[c]) <= 1 /\ ran[c] \subseteq {tok[c], Here}
        /\ result[c] = "ok" /\ class[c] # "playbook" => ran[c] # {}

\* A daemon that carried out `daemon stop` ends, though handlers may be stuck and a message on
\* its way (server.go CmdShutdown, run.go Run).
Stops == \A r \in Runs : r \in bye ~> life[r] = "over"

\* No client waits for ever for a daemon: the command is done, refused, or done here
\* (protocol.go Call, cli.go tryClient).
NotKept == \A c \in Clients : doing[c] = "pinging" \/ doing[c] = "calling" ~> doing[c] \in {"local", "over"}
=============================================================================
