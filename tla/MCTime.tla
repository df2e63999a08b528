------------------------------- MODULE MCTime -------------------------------
(***************************************************************************)
(* Virtual time: the settlement of the bot's tasks, and what the clock      *)
(* alone brings to an end.  A behaviour is about one of the two, which its  *)
(* initial state chooses; the other rests.                                  *)
(***************************************************************************)
EXTENDS Settlement, Resources, TLC

VARIABLE part

\* A catalogue with a sku for each case.
McCatalogue ==
  "server" :> [type |-> "subscription", scope |-> "guild"] @@
  "token" :> [type |-> "consumable", scope |-> "other"]

\* The tasks of the bot are alike.
Alike == Permutations(Tasks)

TimeInit ==
  /\ part \in {"settlement", "resources"}
  /\ Init /\ ResourcesInit

TimeNext ==
  \/ part = "settlement" /\ Next /\ UNCHANGED <<part, resourceVars>>
  \/ part = "resources" /\ ResourcesNext /\ UNCHANGED <<part, vars>>

TimeSpec == TimeInit /\ [][TimeNext]_<<part, vars, resourceVars>>
=============================================================================
