------------------------------ MODULE Automate ------------------------------
(***************************************************************************)
(* An opt-out form filled in a browser: Runtime.Automate, the browser it   *)
(* launches with a profile of its own, the look for a challenge, the       *)
(* solver that is polled for a token, the fields, the button, and the      *)
(* verdict read off the page.  The page and the services answer as they    *)
(* like at every step; all calls into the page share one deadline.         *)
(***************************************************************************)
EXTENDS Naturals, Sequences

VARIABLES
    stp,         \* the statement Automate is before
    profile,     \* whether the browser's profile directory exists
    stuck,       \* history: whether its removal was tried and failed
    browser,     \* "none", "running", "connected" or "gone"
    solver,      \* whether CapSolver is enabled and has a key
    expired,     \* whether the deadline of the browser has passed
    challenge,   \* what was detected: "none", "recaptcha", "hcaptcha" or "other"
    solved,      \* whether the solver gave a token, and typing it did not fail
    field,       \* how many fields fill has been through
    filled,      \* the fields that were typed into the page
    clicked,     \* whether the submit control was clicked
    status,      \* Result.Status
    outcome,     \* what Automate returned: "none", "error" or "result"
    audited      \* its audit event: "none", "written" or "refused"

page  == <<expired, challenge, solved, field, filled, clicked, status>>
directory == <<profile, stuck>>
avars == <<stp, directory, browser, solver, page, outcome, audited>>

Fields == <<"first", "last", "email", "phone", "city", "address">>

To(s) == stp' = s

\* The error of closing the browser is dropped; after the deadline the call may be in vain.
Shut == browser' \in IF expired THEN {"gone", browser} ELSE {"gone"}

\* os.RemoveAll, tried once and its error dropped: a browser that still runs on the directory,
\* and not only that, can make it fail.
RemoveProfile == profile' \in BOOLEAN /\ stuck' = profile'

\* Every return but the last is an error; whatever was deferred by then runs.
Error(s) == To(s) /\ outcome' = "error"

-----------------------------------------------------------------------------
\* Disabled, an unknown broker, no address, a secret that does not open.
Refused ==
    /\ stp = "check" /\ Error("over")
    /\ UNCHANGED <<directory, browser, solver, page, audited>>

GetSolver ==
    /\ stp = "check" /\ To("profile")
    /\ solver' \in BOOLEAN
    /\ UNCHANGED <<directory, browser, page, outcome, audited>>

EphemeralProfile ==
    /\ stp = "profile"
    /\ \/ profile' = TRUE /\ To("launch") /\ UNCHANGED <<stuck, outcome>>
       \/ Error("over") /\ UNCHANGED directory
    /\ UNCHANGED <<browser, solver, page, audited>>

\* A proxy of an unknown scheme, or a browser that does not start: the profile goes.
\* What starts and never says where it listens is waited for: neither the deadline nor the
\* caller's context is there yet.
LaunchProcess ==
    /\ stp = "launch"
    /\ \/ browser' = "running" /\ To("connect") /\ UNCHANGED <<directory, outcome>>
       \/ RemoveProfile /\ Error("over") /\ UNCHANGED browser
    /\ UNCHANGED <<solver, page, audited>>

\* A browser that does not answer is left to itself.
Connect ==
    /\ stp = "connect"
    /\ \/ browser' = "connected" /\ To("page") /\ UNCHANGED <<directory, outcome>>
       \/ RemoveProfile /\ Error("over") /\ UNCHANGED browser
    /\ UNCHANGED <<solver, page, audited>>

\* Mutant: the error of the page returns like the ones before it.
OpenPageLeaking ==
    /\ stp = "page"
    /\ \/ To("identity") /\ UNCHANGED <<directory, browser, outcome>>
       \/ RemoveProfile /\ Error("over") /\ UNCHANGED browser
    /\ UNCHANGED <<solver, page, audited>>

OpenPage ==
    /\ stp = "page"
    /\ \/ To("identity") /\ UNCHANGED <<directory, browser, outcome>>
       \/ Shut /\ RemoveProfile /\ Error("over")
    /\ UNCHANGED <<solver, page, audited>>

Launch == EphemeralProfile \/ LaunchProcess \/ Connect \/ OpenPage

\* Engine.Close, deferred.
Close ==
    /\ stp = "close" /\ To("over")
    /\ Shut /\ RemoveProfile
    /\ UNCHANGED <<solver, page, outcome, audited>>

-----------------------------------------------------------------------------
LoadIdentity ==
    /\ stp = "identity"
    /\ (To("navigate") /\ UNCHANGED outcome) \/ Error("close")
    /\ UNCHANGED <<directory, browser, solver, page, audited>>

\* The deadline passes at any time once there is a page.
Deadline ==
    /\ browser = "connected" /\ ~expired /\ stp # "over"
    /\ expired' = TRUE
    /\ UNCHANGED <<stp, directory, browser, solver, challenge, solved, field, filled, clicked,
                   status, outcome, audited>>

Navigate ==
    /\ stp = "navigate"
    /\ (~expired /\ To("detect") /\ UNCHANGED outcome) \/ Error("close")
    /\ UNCHANGED <<directory, browser, solver, page, audited>>

\* Mutant: a challenge nobody solves does not end the run.
GoOn == To("fill") /\ UNCHANGED <<status, outcome>>

NeedsHuman == To("audit") /\ status' = "NEEDS_HUMAN" /\ outcome' = "result"

\* The page's text, in lower case: a reCAPTCHA first, then an hCaptcha, then the phrases.
\* A solver is asked if there is one and the page has a site key.
DetectChallenge ==
    /\ stp = "detect"
    /\ \/ /\ ~expired
          /\ \E c \in {"none", "recaptcha", "hcaptcha", "other"}, sitekey \in BOOLEAN :
                /\ challenge' = c
                /\ IF c = "none" THEN To("fill") /\ UNCHANGED <<status, outcome>>
                   ELSE IF c # "other" /\ solver /\ sitekey
                        THEN To("create") /\ UNCHANGED <<status, outcome>>
                        ELSE NeedsHuman
       \/ Error("close") /\ UNCHANGED <<challenge, status>>
    /\ UNCHANGED <<directory, browser, solver, expired, solved, field, filled, clicked, audited>>

\* createTask: an id, or an error.
CreateTask ==
    /\ stp = "create"
    /\ (To("poll") /\ UNCHANGED outcome) \/ Error("close")
    /\ UNCHANGED <<directory, browser, solver, page, audited>>

\* getTaskResult every three seconds for as long as it says "processing"; a token, an error,
\* or a context that is done ends it.
Poll ==
    /\ stp = "poll"
    /\ (To("inject") /\ UNCHANGED outcome) \/ Error("close")
    /\ UNCHANGED <<directory, browser, solver, page, audited>>

\* The token is typed into the response field; a page without one is no error, and its
\* challenge counts as solved all the same.
InjectToken ==
    /\ stp = "inject"
    /\ \/ solved' = TRUE /\ To("fill") /\ UNCHANGED outcome
       \/ Error("close") /\ UNCHANGED solved
    /\ UNCHANGED <<directory, browser, solver, expired, challenge, field, filled, clicked, status,
                   audited>>

-----------------------------------------------------------------------------
\* Mutant: a selector that is not in the page is looked for again.
FillAgain ==
    /\ stp = "fill" /\ field < Len(Fields)
    /\ \/ ~expired /\ filled' = filled \cup {Fields[field + 1]} /\ field' = field + 1
       \/ UNCHANGED <<filled, field>>
    /\ UNCHANGED <<stp, directory, browser, solver, expired, challenge, solved, clicked, status,
                   outcome, audited>>

\* One field: without a value, not in the page, or typed; the error of typing is dropped.
Fill ==
    /\ stp = "fill" /\ field < Len(Fields)
    /\ field' = field + 1
    /\ \/ ~expired /\ filled' = filled \cup {Fields[field + 1]}
       \/ UNCHANGED filled
    /\ UNCHANGED <<stp, directory, browser, solver, expired, challenge, solved, clicked, status,
                   outcome, audited>>

\* The consent boxes that are there, then the first button that is.
Submit ==
    /\ stp = "fill" /\ field = Len(Fields)
    /\ \/ ~expired /\ clicked' = TRUE /\ To("verdict") /\ UNCHANGED outcome
       \/ Error("close") /\ UNCHANGED clicked
    /\ UNCHANGED <<directory, browser, solver, expired, challenge, solved, field, filled, status,
                   audited>>

\* A text that cannot be read has neither a phrase of success nor one of a challenge.
Verdict ==
    /\ stp = "verdict" /\ To("audit")
    /\ status' \in IF expired THEN {"SUBMITTED"} ELSE {"CONFIRMED", "NEEDS_HUMAN", "SUBMITTED"}
    /\ outcome' = "result"
    /\ UNCHANGED <<directory, browser, solver, expired, challenge, solved, field, filled, clicked,
                   audited>>

\* A locked store, or one that fails to append, writes nothing, and nobody is told.
Audit ==
    /\ stp = "audit" /\ To("close")
    /\ audited' \in {"written", "refused"}
    /\ UNCHANGED <<directory, browser, solver, page, outcome>>

-----------------------------------------------------------------------------
AInit ==
    /\ stp = "check" /\ profile = FALSE /\ stuck = FALSE /\ browser = "none" /\ solver = FALSE
    /\ expired = FALSE /\ challenge = "none" /\ solved = FALSE
    /\ field = 0 /\ filled = {} /\ clicked = FALSE
    /\ status = "FAILED" /\ outcome = "none" /\ audited = "none"

AStep ==
    \/ Refused \/ GetSolver \/ Launch \/ LoadIdentity \/ Navigate \/ DetectChallenge
    \/ CreateTask \/ InjectToken \/ Fill \/ Submit \/ Verdict \/ Audit \/ Close

ANext == AStep \/ Poll \/ Deadline

\* What was begun goes on: every call returns but the start of the browser, which has no deadline,
\* and the solver may say "processing" for ever.
AFairness == WF_avars(stp \notin {"check", "launch"} /\ AStep)

ASpec == AInit /\ [][ANext]_avars /\ AFairness

-----------------------------------------------------------------------------
AutomateOK ==
    /\ stp \in {"check", "profile", "launch", "connect", "page", "identity", "navigate", "detect",
                "create", "poll", "inject", "fill", "verdict", "audit", "close", "over"}
    /\ {profile, stuck, solver, expired, solved, clicked} \subseteq BOOLEAN
    /\ browser \in {"none", "running", "connected", "gone"}
    /\ challenge \in {"none", "recaptcha", "hcaptcha", "other"}
    /\ field \in 0..Len(Fields) /\ filled \subseteq {Fields[i] : i \in 1..Len(Fields)}
    /\ status \in {"FAILED", "NEEDS_HUMAN", "CONFIRMED", "SUBMITTED"}
    /\ outcome \in {"none", "error", "result"} /\ audited \in {"none", "written", "refused"}

\* On every way out the profile with the user's data is removed, unless the removal itself was
\* tried and failed; the browser is closed, unless the deadline has passed, or it never let itself
\* be connected to: then it is left running, but nothing was typed into it and the run is reported
\* as failed (browser.go Launch, Close).
CleanedUp ==
    stp = "over" =>
        /\ profile => stuck
        /\ browser = "connected" => expired
        /\ browser = "running" => outcome = "error" /\ filled = {}

\* The user's data goes into no page that shows a challenge for which the solver gave no token; a
\* form is reported as sent only if its button was clicked; and the ledger is asked to record every
\* run that returned a result, and no other, though it may refuse (automate.go Run, Automate).
SentByHand ==
    /\ filled # {} => challenge = "none" \/ solved
    /\ status \in {"CONFIRMED", "SUBMITTED"} => clicked
    /\ audited # "none" => outcome = "result"
    /\ stp = "over" /\ outcome = "result" => audited # "none"

\* The run ends, or it is the solver that is polled for ever, or the start of the browser that is
\* waited for (capsolver.go solve, browser.go Launch).
EndsOrPolls == []<>(stp \in {"check", "over"}) \/ <>[](stp = "poll") \/ <>[](stp = "launch")
=============================================================================
