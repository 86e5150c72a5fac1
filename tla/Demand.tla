------------------------------- MODULE Demand -------------------------------
(***************************************************************************)
(* What the vault promises about a deletion demand, whoever works on it:   *)
(* it is asked for once and never asked for again, it is only mailed if it *)
(* is a mail demand, it is only shown as sent after a mail went out or the *)
(* broker answered, and it can fail or be marked done at any time.         *)
(***************************************************************************)
EXTENDS Integers

CONSTANTS Actions, Smtp

VARIABLES state, mails, replied

Set(a, s) == state' = [state EXCEPT ![a] = s]

Ask(a) ==
    /\ state[a] = "ABSENT"
    /\ Set(a, IF a \in Smtp THEN "QUEUED" ELSE "AWAITING_MANUAL")
    /\ UNCHANGED <<mails, replied>>

Mail(a) ==
    /\ a \in Smtp /\ state[a] # "ABSENT"
    /\ mails' = [mails EXCEPT ![a] = @ + 1]
    /\ UNCHANGED <<state, replied>>

ShowSent(a) ==
    /\ mails[a] > 0
    /\ \E s \in {"SUBMITTED", "AWAITING_CONFIRMATION"} : Set(a, s)
    /\ UNCHANGED <<mails, replied>>

Fail(a) ==
    /\ a \in Smtp /\ state[a] # "ABSENT"
    /\ Set(a, "FAILED")
    /\ UNCHANGED <<mails, replied>>

Complete(a) ==
    /\ state[a] # "ABSENT"
    /\ Set(a, "COMPLETED")
    /\ UNCHANGED <<mails, replied>>

\* A mail of the broker is taken to be about a, and the row says what the mail says.
Answer(a) ==
    /\ state[a] # "ABSENT"
    /\ \E s \in {"SUBMITTED", "AWAITING_CONFIRMATION", "AWAITING_MANUAL", "COMPLETED"} : Set(a, s)
    /\ replied' = replied \cup {a}
    /\ UNCHANGED mails

Init ==
    /\ state = [a \in Actions |-> "ABSENT"]
    /\ mails = [a \in Actions |-> 0] /\ replied = {}

Next ==
    \E a \in Actions :
        Ask(a) \/ Mail(a) \/ ShowSent(a) \/ Fail(a) \/ Complete(a) \/ Answer(a)

Spec == Init /\ [][Next]_<<state, mails, replied>>
=============================================================================
