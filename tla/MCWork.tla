------------------------------- MODULE MCWork -------------------------------
(***************************************************************************)
(* The calls of executors, and the lifecycle of the Env that detaches them. *)
(* A behaviour is about one of the two, which its initial state chooses.    *)
(***************************************************************************)
EXTENDS Executor, Lifecycle

VARIABLE part

WorkInit ==
  /\ part \in {"executor", "lifecycle"}
  /\ Init /\ (part # "executor" => nativeHook)
  /\ EnvInit

WorkNext ==
  \/ part = "executor" /\ Next /\ UNCHANGED <<part, lifeVars>>
  \/ part = "lifecycle" /\ EnvNext /\ UNCHANGED <<part, vars>>

\* The part a behaviour is not about has no step that could be taken.
WorkSpec == WorkInit /\ [][WorkNext]_<<part, vars, lifeVars>> /\ Fairness /\ EnvFairness

\* Work that began is released, every error surfaces, and start, restart_bot and
\* shutdown end (record.finish, _detach_bot).
WorkEnds == WorkReleased /\ ErrorSurfaces /\ OperationsEnd
=============================================================================
