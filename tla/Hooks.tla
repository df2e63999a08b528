-------------------------------- MODULE Hooks --------------------------------
(***************************************************************************)
(* What an Env installs outside itself while its bot is attached, and how  *)
(* it takes it away: the methods of its event loop (_runtime._attach_bot,  *)
(* _restore_loop), the submit method of the executors of the process       *)
(* (_acquire_executor_hooks, _release_executor_hooks) and the clocks that  *)
(* discord.py reads (_dpy_internals.acquire_clocks, release_clocks).       *)
(* Several Envs live in one process, each on a loop and a thread of its    *)
(* own, and start, restart and stop in any order; a test may patch submit  *)
(* itself meanwhile, and undoes its patch only from the top.               *)
(***************************************************************************)
EXTENDS Naturals, FiniteSets, Sequences

CONSTANTS
  Envs, Loops,
  MaxGeneration, \* bound on the bots an Env is given
  MaxPatches     \* bound on the patches of the test

NoEnv == "none"
NoLoop == "none"

ASSUME HooksAssumption == NoEnv \notin Envs /\ MaxGeneration \in Nat

Foreign == <<"foreign">>

VARIABLES
  at,        \* per Env: how far _attach_bot or _detach_bot came
  generation,\* per Env: _generation
  runtime,   \* per Env: _runtime, of at most one: the hooks of the loop it found
  loop,      \* per Env: _loop
  again,     \* per Env: the detachment belongs to restart_bot
  live,      \* _LIVE_LOOPS
  hooks,     \* per loop: whose tracking methods are installed, one over the other
  submit,    \* the layers of Executor.submit over the original
  submits,   \* _EXECUTOR_SUBMITS, of at most one: the layers that were found
  owners,    \* _EXECUTOR_OWNERS
  clock,     \* the clocks dispatch to the Envs
  clockOwners,
  foreignTime, \* something else has replaced discord.utils.datetime
  patches,   \* how often the test has patched submit
  under      \* observing layers that were left under a patch of the test

envVars   == <<at, generation, runtime, loop, again, live, hooks>>
poolVars  == <<submit, submits, owners, patches, under>>
clockVars == <<clock, clockOwners, foreignTime>>
hookVars == <<envVars, poolVars, clockVars>>

NoScope == <<"none">>
Observed(e) == <<"observed", e>>   \* the wrapper, by the Env that built it

Goes(e, where) == at' = [at EXCEPT ![e] = where]

------------------------------------------------------------------------------
\* Attaching

\* start: one Env per event loop
Free(l) == live[l] = NoEnv

\* _attach_bot as far as the methods of the loop
Attach(e, l) ==
  /\ generation[e] < MaxGeneration
  /\ generation' = [generation EXCEPT ![e] = @ + 1]
  /\ runtime' = [runtime EXCEPT ![e] = {hooks[l]}]
  /\ hooks' = [hooks EXCEPT ![l] = Append(@, <<e, generation'[e]>>)]
  /\ loop' = [loop EXCEPT ![e] = l]
  /\ Goes(e, "hooked")

Start(e, l) ==
  /\ at[e] = "off" /\ Free(l)
  /\ Attach(e, l)
  /\ live' = [live EXCEPT ![l] = e]
  /\ again' = [again EXCEPT ![e] = FALSE]
  /\ UNCHANGED <<poolVars, clockVars>>

\* the loop or the shards are refused before anything is installed
Refused(e, l) ==
  /\ at[e] = "off" /\ Free(l)
  /\ clockOwners' = clockOwners \ {e}
  /\ clock' = (clock /\ clockOwners' # {})
  /\ UNCHANGED <<envVars, poolVars, foreignTime>>

AcquireExecutorHooks(e) ==
  /\ at[e] = "hooked" /\ Goes(e, "observed")
  /\ owners' = owners \cup {e}
  /\ IF submits # {} THEN UNCHANGED <<submit, submits>>
     ELSE submits' = {submit} /\ submit' = Append(submit, Observed(e))
  /\ UNCHANGED <<generation, runtime, loop, again, live, hooks, patches, under, clockVars>>

\* a datetime module that is not the library's own is not patched: SetupError
AcquireClocks(e) ==
  /\ at[e] = "observed"
  /\ IF clockOwners = {} /\ foreignTime
     THEN Goes(e, "failed") /\ UNCHANGED <<clock, clockOwners>>
     ELSE Goes(e, "up") /\ clock' = TRUE /\ clockOwners' = clockOwners \cup {e}
  /\ UNCHANGED <<generation, runtime, loop, again, live, hooks, poolVars, foreignTime>>

------------------------------------------------------------------------------
\* Detaching: by shutdown, by restart_bot, or because the login failed. When native
\* work does not end in time it raises, and leaves everything as it is

Detach(e) ==
  /\ at[e] = "up"
  /\ Goes(e, "leaving")
  /\ \E r \in BOOLEAN : again' = [again EXCEPT ![e] = r]
  /\ UNCHANGED <<generation, runtime, loop, live, hooks, poolVars, clockVars>>

DetachTimesOut(e) ==
  /\ at[e] = "leaving"
  /\ Goes(e, "up")
  /\ UNCHANGED <<generation, runtime, loop, again, live, hooks, poolVars, clockVars>>

ReleasedAlone(rest) == TRUE
\* _release_executor_hooks: the last one out
Released(rest) == rest = {}

\* the layer that a call of submit meets first
Top == submit[Len(submit)]

\* a patch of the test over the layer keeps it, and the layer stays under it
ReleaseExecutorHooks(e) ==
  /\ owners' = owners \ {e}
  /\ IF ~Released(owners') THEN UNCHANGED <<submit, submits, under>>
     ELSE /\ submits' = {}
          /\ IF Top # Foreign
             THEN submit' \in submits /\ UNCHANGED under
             ELSE submit' = submit /\ under' = under + 1
  /\ UNCHANGED patches

\* _restore_loop, which calls it
RestoreLoop(e) ==
  /\ at[e] \in {"leaving", "failed"}
  /\ Goes(e, "restored")
  /\ \E found \in runtime[e] : hooks' = [hooks EXCEPT ![loop[e]] = found]
  /\ runtime' = [runtime EXCEPT ![e] = {}]
  /\ ReleaseExecutorHooks(e)
  /\ again' = [again EXCEPT ![e] = @ /\ at[e] = "leaving"]
  /\ UNCHANGED <<generation, loop, live, clockVars>>

\* release_clocks
ReleaseClocks(e) ==
  /\ at[e] = "restored" /\ Goes(e, "detached")
  /\ clockOwners' = clockOwners \ {e}
  /\ clock' = (clock /\ clockOwners' # {})
  /\ UNCHANGED <<generation, runtime, loop, again, live, hooks, poolVars, foreignTime>>

\* restart_bot attaches the next bot
Restart(e) ==
  /\ at[e] = "detached" /\ again[e]
  /\ Attach(e, loop[e])
  /\ again' = [again EXCEPT ![e] = FALSE]
  /\ UNCHANGED <<live, poolVars, clockVars>>

\* the end of shutdown, and of a start or a restart that failed
Stopped(e) ==
  /\ at[e] = "detached"
  /\ Goes(e, "off")
  /\ live' = [live EXCEPT ![loop[e]] = IF @ = e THEN NoEnv ELSE @]
  /\ UNCHANGED <<generation, runtime, loop, again, hooks, poolVars, clockVars>>

------------------------------------------------------------------------------
\* The test's own patches

Patch ==
  /\ patches < MaxPatches
  /\ \A i \in DOMAIN submit : submit[i] # Foreign
  /\ submit' = Append(submit, Foreign) /\ patches' = patches + 1
  /\ UNCHANGED <<envVars, submits, owners, under, clockVars>>

Unpatch ==
  /\ submit # <<>> /\ Top = Foreign
  /\ submit' = SubSeq(submit, 1, Len(submit) - 1)
  /\ UNCHANGED <<envVars, submits, owners, patches, under, clockVars>>

\* a tool that freezes time takes the binding, or gives it back, while no Env has it
OtherTime ==
  /\ ~clock /\ foreignTime' = ~foreignTime
  /\ UNCHANGED <<envVars, poolVars, clock, clockOwners>>

------------------------------------------------------------------------------
\* Whose time a call reads, from the scopes of its context

Started(e) == at[e] # "off" /\ runtime[e] # {}

\* _selected_env: a scope that is over selects nothing, not the driver's Env either
SelectedEnv(scope, driver) ==
  IF scope # NoScope
  THEN IF Started(scope[1]) /\ scope[2] = generation[scope[1]] THEN scope[1] ELSE NoEnv
  ELSE IF driver # NoEnv /\ Started(driver) THEN driver ELSE NoEnv

\* _ClockDatetime and _clock_monotonic; without them the wall clock
TimeOf(scope, driver) == IF clock THEN SelectedEnv(scope, driver) ELSE NoEnv

\* _observed_executor_submit: how often a submission is reported to its record
Layered(layers) == {i \in DOMAIN layers : layers[i] # Foreign}
Reports == Cardinality(Layered(submit))

------------------------------------------------------------------------------
HooksInit ==
  /\ at = [e \in Envs |-> "off"]
  /\ generation = [e \in Envs |-> 0] /\ runtime = [e \in Envs |-> {}]
  /\ loop = [e \in Envs |-> NoLoop] /\ again = [e \in Envs |-> FALSE]
  /\ live = [l \in Loops |-> NoEnv] /\ hooks = [l \in Loops |-> <<>>]
  /\ submit = <<>> /\ submits = {} /\ owners = {} /\ patches = 0 /\ under = 0
  /\ clock = FALSE /\ clockOwners = {} /\ foreignTime = FALSE

HooksNext ==
  \/ \E e \in Envs, l \in Loops : Start(e, l) \/ Refused(e, l)
  \/ \E e \in Envs :
       \/ AcquireExecutorHooks(e) \/ AcquireClocks(e)
       \/ Detach(e) \/ DetachTimesOut(e) \/ RestoreLoop(e) \/ ReleaseClocks(e)
       \/ Restart(e) \/ Stopped(e)
  \/ Patch \/ Unpatch \/ OtherTime

HooksSpec == HooksInit /\ [][HooksNext]_hookVars

Attached(e) == at[e] \in {"up", "leaving"}

(***************************************************************************)
(* The hooks follow the Envs, in whatever order they come and go: the loop *)
(* of an attached bot has the methods of its own generation and no others, *)
(* its submissions are observed, once unless a patch of the test hid a     *)
(* layer from the Env that took its own away, and a loop without a bot and *)
(* a process without Envs are as they were.                                *)
(***************************************************************************)
HooksInPlace ==
  /\ \A e \in Envs : runtime[e] # {} => hooks[loop[e]] = <<<<e, generation[e]>>>>
  /\ \A l \in Loops :
       (\A e \in Envs : loop[e] = l => runtime[e] = {}) => hooks[l] = <<>>
  /\ \A e \in Envs : Attached(e) => e \in owners /\ clock
  /\ Reports = under + (IF owners = {} THEN 0 ELSE 1)
  /\ (\A e \in Envs : at[e] = "off") => ~clock /\ submits = {}

(***************************************************************************)
(* Time is one's own: code of a bot reads the virtual time of its Env      *)
(* while that bot is attached, whatever Env the driver has chosen and      *)
(* whatever the others do, and the wall clock once it is detached.         *)
(***************************************************************************)
TimeIsOwn ==
  \A e \in Envs, g \in 1 .. MaxGeneration, d \in Envs \cup {NoEnv} :
    g <= generation[e] =>
      LET t == TimeOf(<<e, g>>, d) IN
        /\ t \in {e, NoEnv}
        /\ g = generation[e] /\ Attached(e) => t = e
        /\ g # generation[e] \/ runtime[e] = {} => t = NoEnv

\* The hooks follow the Envs, and code of a bot reads the time of its own Env
\* (_attach_bot, _restore_loop, acquire_clocks).
HooksFollow == HooksInPlace /\ TimeIsOwn
=============================================================================
