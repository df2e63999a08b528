----------------------------- MODULE MCMessages -----------------------------
(***************************************************************************)
(* A channel's messages with the interactions that answer in it, and the    *)
(* scripts that capture real checkouts.  A behaviour is about one of the    *)
(* two, which its initial state chooses.                                    *)
(***************************************************************************)
EXTENDS Interactions, Checkouts

VARIABLE part

NoChecking == mode = "live" /\ \A e \in Ents : status[e] = "none"

SuiteInit ==
  /\ part \in {"messages", "checkouts"}
  /\ Init /\ CheckoutsInit
  /\ part = "messages" => NoChecking

SuiteNext ==
  \/ part = "messages" /\ AllNext /\ UNCHANGED <<part, checkoutVars>>
  \/ part = "checkouts" /\ CheckoutsNext /\ UNCHANGED <<part, vars>>

SuiteSpec == SuiteInit /\ [][SuiteNext]_<<part, vars, checkoutVars>>
=============================================================================
