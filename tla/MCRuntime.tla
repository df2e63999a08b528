----------------------------- MODULE MCRuntime -----------------------------
(***************************************************************************)
(* What an Env rests on while its bot runs: the deadline queue, the index   *)
(* of the callbacks that the bot schedules, and the hooks that the Envs of  *)
(* a process share.  The three do not call each other: a behaviour is about *)
(* one of them, which its initial state chooses.                            *)
(***************************************************************************)
EXTENDS Deadlines, Hooks, Callbacks, TLC

CONSTANTS k1, k2

MCKeys  == {k1, k2}
MCOrder == k1 :> 1 @@ k2 :> 2

MCWoken == 3 :> 6 @@ 4 :> 6 @@ 5 :> 7 @@ 8 :> 7

VARIABLE part

RuntimeInit ==
  /\ part \in {"deadlines", "callbacks", "hooks"}
  /\ Init /\ HooksInit /\ CallbacksInit

\* Timers that wake one future are alike: they are scheduled in one order.  The
\* fourth timer is there for what a pass leaves behind when it retires a record
\* (three never fill the heap); it comes where nothing is scheduled at once.
Alike ==
  /\ handle'[4] # "none" => handle'[3] # "none"
  /\ handle'[8] # "none" => handle'[5] # "none" /\ handle'[1] = "none"
  /\ handle'[1] # "none" => handle[8] = "none"

RuntimeNext ==
  \/ part = "deadlines" /\ Next /\ UNCHANGED <<part, callbackVars, hookVars>>
  \/ part = "callbacks" /\ CallbacksNext /\ Alike /\ UNCHANGED <<part, vars, hookVars>>
  \/ part = "hooks" /\ HooksNext /\ UNCHANGED <<part, vars, callbackVars>>

RuntimeSpec == RuntimeInit /\ [][RuntimeNext]_<<part, vars, callbackVars, hookVars>>
=============================================================================
