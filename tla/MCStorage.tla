----------------------------- MODULE MCStorage -----------------------------
(***************************************************************************)
(* What a machine keeps: the vault, or the configuration with the          *)
(* passwords of the mailboxes.  A behaviour is about one of the two.       *)
(***************************************************************************)
EXTENDS MCVault, Linking

VARIABLE about

allVars == <<about, vars, lvars>>

StorageInit == about \in {"vault", "mailbox"} /\ Init /\ LInit

\* A configuration that does not parse lets no session start any more.
Broken == mem = [s \in Sessions |-> Nil] /\ Load = Torn

StorageNext ==
    /\ UNCHANGED about
    /\ \/ about = "vault" /\ Next /\ UNCHANGED lvars
       \/ about = "mailbox" /\ LNext /\ UNCHANGED vars
       \/ about = "mailbox" /\ Broken /\ UNCHANGED <<vars, lvars>>

StorageSpec == StorageInit /\ [][StorageNext]_allVars
=============================================================================
