----------------------------- MODULE Lifecycle ------------------------------
(***************************************************************************)
(* env.py and _runtime.py: the life of an Env and of its bot.              *)
(*                                                                         *)
(* Tasks of the test call start, restart_bot, shutdown and the verbs of    *)
(* one Env; a guard lets one of them operate at a time. The bot's work -   *)
(* tasks, loop callbacks and executor threads of a generation - goes on    *)
(* between their awaits, and detaching has to end all of it, what it       *)
(* starts while it is being cancelled included.                            *)
(***************************************************************************)
EXTENDS Integers, FiniteSets

CONSTANTS
  Callers,        \* tasks of the test
  Works,          \* pieces of work the bot may start, each once
  MaxGeneration   \* bound on the bots that are attached

Nobody == "nobody"

ASSUME GenerationAssumption == MaxGeneration \in Nat \ {0} /\ Nobody \notin Callers

VARIABLES
  started,     \* _started, and the Env's entry of _LIVE_LOOPS
  runtime,     \* the generation whose hooks are installed, 0: _runtime is None
  generation,  \* _generation
  kind,        \* unborn; task, cancelled task, callback or thread; ended
  born,        \* the generation that started the work
  holder,      \* _operation_task
  depth,       \* _operation_depth
  op,          \* the method a caller is in
  pc,          \* where it awaits
  next,        \* what follows the _detach_bot of the operation
  awaited,     \* the tasks or threads _detach_bot waits for
  late,        \* its deadline has passed
  preview,     \* none, open with its close registered, or open but forgotten
  cleanup,     \* _pre_shutdown_task
  joined,      \* the callers that await that very task
  complete     \* _pre_shutdown_complete

envVars    == <<started, runtime, generation>>
workVars   == <<kind, born>>
guardVars  == <<holder, depth>>
callVars   == <<op, pc>>
detachVars == <<next, awaited, late>>
preVars    == <<preview, cleanup, joined, complete>>
lifeVars == <<envVars, workVars, guardVars, callVars, detachVars, preVars>>

Becomes(f, x, v) == [f EXCEPT ![x] = v]

Kind(k)   == {w \in Works : kind[w] = k}
Tasks     == Kind("task") \cup Kind("cancelled")
Threads   == Kind("thread")
Alive     == Tasks \cup Threads \cup Kind("callback")
Detaching == {"gather", "swept", "drain", "last"}
Operating == Detaching \cup {"verb", "settle", "attach"}

EnvInit ==
  /\ started = FALSE /\ runtime = 0 /\ generation = 0
  /\ kind = [w \in Works |-> "unborn"] /\ born = [w \in Works |-> 0]
  /\ holder = Nobody /\ depth = 0
  /\ op = [c \in Callers |-> "none"] /\ pc = [c \in Callers |-> "idle"]
  /\ next = "none" /\ awaited = {} /\ late = FALSE
  /\ preview = "none" /\ cleanup = "none" /\ joined = {} /\ complete = FALSE

-----------------------------------------------------------------------------
(* The bot's work. What is started under the hooks of a generation is      *)
(* tracked for it; the hooks of a generation start work of no other.       *)

Starts(w, k) == kind' = Becomes(kind, w, k) /\ born' = Becomes(born, w, runtime)

\* An event reaches the bot: a verb emitted it, or the login of its start.
Dispatch(c) ==
  /\ pc[c] \in {"verb", "attach"} /\ runtime # 0
  /\ \E w \in Kind("unborn") : Starts(w, "task")
  /\ UNCHANGED <<envVars, guardVars, callVars, detachVars, preVars>>

\* Running work of the attached generation starts more: a thread reaches the
\* loop by call_soon_threadsafe only.
Spawn(w) ==
  /\ w \in Tasks \cup Threads /\ born[w] = runtime
  /\ \E v \in Kind("unborn"), k \in {"task", "thread", "callback"} :
       /\ w \in Threads => k = "callback"
       /\ Starts(v, k)
  /\ UNCHANGED <<envVars, guardVars, callVars, detachVars, preVars>>

\* A callback runs, and may start a task.
Called(w) ==
  /\ kind[w] = "callback"
  /\ \E k \in {"ended", "task"} : kind' = Becomes(kind, w, k)
  /\ UNCHANGED <<envVars, born, guardVars, callVars, detachVars, preVars>>

EndWork(w) ==
  /\ w \in Tasks \cup Threads
  /\ kind' = Becomes(kind, w, "ended")
  /\ UNCHANGED <<envVars, born, guardVars, callVars, detachVars, preVars>>

-----------------------------------------------------------------------------
(* The guard.                                                              *)

\* _begin_operation lets the task in that holds the guard, or any if it is free.
Free(c) == holder \in {Nobody, c}

Began(c) == holder' = c /\ depth' = depth + 1

EndedOperation(c) == depth' = depth - 1 /\ holder' = IF depth' = 0 THEN Nobody ELSE holder

Await(c, l) == pc' = Becomes(pc, c, l)

\* The method returns or raises to its caller.
Returned(c) == op' = Becomes(op, c, "none") /\ Await(c, "idle")

Leaves(c) == Returned(c) /\ EndedOperation(c) /\ next' = "none" /\ awaited' = {} /\ late' = FALSE

-----------------------------------------------------------------------------
(* _detach_bot                                                             *)

CancelTasks(c) ==
  /\ kind' = [w \in Works |-> IF w \in Tasks THEN "cancelled" ELSE kind[w]]
  /\ awaited' = Tasks
  /\ Await(c, "gather")

WaitForThread(c) == awaited' = Threads /\ Await(c, "drain") /\ UNCHANGED kind

YieldOnce(c) == awaited' = {} /\ Await(c, "last") /\ UNCHANGED kind

\* A turn of its loop that does not raise.
Turn(c) ==
  IF Tasks # {} THEN CancelTasks(c)
  ELSE IF Threads # {} THEN WaitForThread(c) ELSE YieldOnce(c)

\* A new call of _detach_bot; n is what its caller does once it returns.
Detach(c, n) == next' = n /\ late' = FALSE /\ Turn(c)

\* Of restart_bot, an exception with a live thread leaves the hooks to it.
KeepsHooks(c) == op[c] = "restart_bot" /\ Threads # {}

\* _detach_bot raised, to shutdown or to an except clause: _started stays; or
\* to the attempt that clause is for.
DetachRaises(c) ==
  /\ UNCHANGED started
  /\ IF next \in {"stop", "failed"} \/ KeepsHooks(c)
     THEN Leaves(c) /\ UNCHANGED kind
     ELSE Detach(c, "failed") /\ UNCHANGED guardVars /\ UNCHANGED op

\* The gathered tasks ended; errors were recorded and the loop yields.
Gathered(c) ==
  /\ pc[c] = "gather" /\ \A w \in awaited : kind[w] = "ended"
  /\ Await(c, "swept") /\ awaited' = {}
  /\ UNCHANGED <<envVars, workVars, guardVars, op, next, late, preVars>>

Woken(c) ==
  \/ pc[c] = "swept"
  \/ pc[c] = "drain" /\ (late \/ \E w \in awaited : kind[w] = "ended")

\* Mutant: after the last yield only the threads are looked at again.
NoThreads == Threads = {}

Quiet == Tasks \cup Threads = {}

\* The timeout is over and only native work is left.
Overdue == Tasks = {} /\ Threads # {} /\ late

DetachTurns(c) ==
  /\ Woken(c) \/ (pc[c] = "last" /\ ~Quiet)
  /\ IF Overdue THEN DetachRaises(c)
     ELSE Turn(c) /\ UNCHANGED <<started, guardVars, op, next, late>>
  /\ UNCHANGED <<runtime, generation, born, preVars>>

\* The calling task is cancelled at an await of _detach_bot.
DetachCancelled(c) ==
  /\ Woken(c) \/ pc[c] \in {"drain", "last"}
     \/ (pc[c] = "gather" /\ \A w \in awaited : kind[w] = "ended")
  /\ DetachRaises(c)
  /\ UNCHANGED <<runtime, generation, born, preVars>>

DeadlinePasses ==
  /\ next # "none" /\ ~late /\ late' = TRUE
  /\ UNCHANGED <<envVars, workVars, guardVars, callVars, next, awaited, preVars>>

\* cancel_callbacks and _restore_loop.
Restored == kind' = [w \in Works |-> IF kind[w] = "callback" THEN "ended" ELSE kind[w]]

\* Nothing is left: the hooks go, and the caller of _detach_bot continues.
DetachDone(c) ==
  /\ pc[c] = "last" /\ Quiet /\ Restored
  /\ CASE next = "attach" ->
            /\ generation' = generation + 1
            /\ \/ /\ runtime' = generation'
                  /\ Await(c, "attach") /\ next' = "none" /\ late' = FALSE
               \/ \* the new bot's shards are refused before the hooks
                  /\ runtime' = 0
                  /\ Await(c, "last") /\ next' = "failed" /\ late' = FALSE
            /\ UNCHANGED <<started, guardVars, op, awaited>>
       [] next = "attach_failed" ->
            /\ runtime' = 0 /\ next' = "failed" /\ late' = FALSE
            /\ UNCHANGED <<started, generation, guardVars, callVars, awaited>>
       [] OTHER -> runtime' = 0 /\ started' = FALSE /\ Leaves(c) /\ UNCHANGED generation
  /\ UNCHANGED <<born, preVars>>

-----------------------------------------------------------------------------
(* start, restart_bot and verbs                                            *)

Enters(c, m) == Free(c) /\ Began(c) /\ op' = Becomes(op, c, m)

\* _attach_bot installs its hooks and logs in, or fails before them.
Start(c) ==
  /\ pc[c] = "idle" /\ ~started /\ generation < MaxGeneration
  /\ Enters(c, "start")
  /\ started' = TRUE /\ generation' = generation + 1
  /\ \/ runtime' = generation' /\ Await(c, "attach") /\ UNCHANGED <<kind, detachVars>>
     \/ UNCHANGED runtime /\ Detach(c, "failed")
  /\ UNCHANGED <<born, preVars>>

\* The bot is ready and settled, or _attach_bot detaches it again.
Attached(c) ==
  /\ pc[c] = "attach"
  /\ \/ Leaves(c) /\ UNCHANGED kind
     \/ Detach(c, "attach_failed") /\ UNCHANGED <<guardVars, op>>
  /\ UNCHANGED <<envVars, born, preVars>>

\* Of an Env that is not started it raises, and detaches nothing.
Restart(c) ==
  /\ pc[c] = "idle" /\ Enters(c, "restart_bot")
  /\ IF started
     THEN generation < MaxGeneration /\ Await(c, "settle") /\ UNCHANGED <<kind, detachVars>>
     ELSE Detach(c, "failed")
  /\ UNCHANGED <<envVars, born, preVars>>

\* The old generation settled, or did not.
RestartSettled(c) ==
  /\ pc[c] = "settle"
  /\ \/ Detach(c, "attach") /\ UNCHANGED <<guardVars, op>>
     \/ ~KeepsHooks(c) /\ Detach(c, "failed") /\ UNCHANGED <<guardVars, op>>
     \/ KeepsHooks(c) /\ Leaves(c) /\ UNCHANGED kind
  /\ UNCHANGED <<envVars, born, preVars>>

\* A verb changes the backend and settles; it may call another verb.
Verb(c) ==
  /\ pc[c] \in {"idle", "verb"} /\ depth < 2
  /\ Enters(c, "verb") /\ Await(c, "verb")
  /\ UNCHANGED <<envVars, workVars, detachVars, preVars>>

VerbEnds(c) ==
  /\ pc[c] = "verb" /\ EndedOperation(c)
  /\ IF depth = 1 THEN Returned(c) ELSE UNCHANGED callVars
  /\ UNCHANGED <<envVars, workVars, detachVars, preVars>>

-----------------------------------------------------------------------------
(* shutdown, and the Preview cleanup it runs before it takes the guard     *)

\* preview() and entering it; one Preview at a time.
OpenPreview(c) ==
  /\ pc[c] = "idle" /\ Free(c) /\ started /\ preview = "none"
  /\ preview' = "open"
  /\ UNCHANGED <<envVars, workVars, guardVars, callVars, detachVars, cleanup, joined, complete>>

ClosePreview(c) ==
  /\ pc[c] = "idle" /\ preview # "none"
  /\ preview' = "none"
  /\ UNCHANGED <<envVars, workVars, guardVars, callVars, detachVars, cleanup, joined, complete>>

\* _begin_operation and _detach_bot, unless another task operates.
ShutdownDetaches(c) ==
  IF Free(c) THEN Enters(c, "shutdown") /\ Detach(c, "stop")
  ELSE Returned(c) /\ UNCHANGED <<guardVars, detachVars, kind>>

\* _run_pre_shutdown: it is over, or its task is there, or it is created.
Shutdown(c) ==
  /\ pc[c] = "idle"
  /\ IF complete THEN ShutdownDetaches(c) /\ UNCHANGED <<cleanup, joined>>
     ELSE /\ op' = Becomes(op, c, "shutdown")
          /\ Await(c, IF cleanup = "failed" THEN "uncleaned" ELSE "pre")
          /\ cleanup' = IF cleanup = "none" THEN "created" ELSE cleanup
          /\ joined' = IF cleanup = "none" THEN {c} ELSE joined \cup {c}
          /\ UNCHANGED <<guardVars, detachVars, kind>>
  /\ UNCHANGED <<envVars, born, preview, complete>>

\* drain calls the close of the Preview that is registered now ...
CleanupRuns ==
  /\ cleanup = "created" /\ cleanup' = "running"
  /\ preview' = IF preview = "open" THEN "none" ELSE preview
  /\ UNCHANGED <<envVars, workVars, guardVars, callVars, detachVars, joined, complete>>

\* ... and once it returned forgets every registration; or it raised, or was
\* cancelled with a caller that was cancelled twice.
CleanupEnds ==
  /\ cleanup = "running"
  /\ \E ok \in BOOLEAN :
       /\ cleanup' = IF ok THEN "finished" ELSE "failed"
       /\ complete' = ok
       /\ preview' = IF ok /\ preview = "open" THEN "forgotten" ELSE preview
       /\ pc' = [c \in Callers |-> IF pc[c] = "pre" /\ ok THEN "cleaned"
                                   ELSE IF pc[c] \in {"pre", "kept"} THEN "uncleaned" ELSE pc[c]]
  /\ UNCHANGED <<envVars, workVars, guardVars, op, detachVars, joined>>

\* A caller is cancelled while it waits: it waits on, to raise afterwards.
PreCancelled(c) ==
  /\ pc[c] = "pre" /\ Await(c, "kept")
  /\ UNCHANGED <<envVars, workVars, guardVars, op, detachVars, preVars>>

\* The finally clause forgets the task it awaited if that is done.
Forgets(c) ==
  IF c \in joined /\ cleanup \in {"failed", "finished"}
  THEN cleanup' = "none" /\ joined' = {} ELSE UNCHANGED <<cleanup, joined>>

Cleaned(c) ==
  /\ pc[c] = "cleaned" /\ Forgets(c) /\ ShutdownDetaches(c)
  /\ UNCHANGED <<envVars, born, preview, complete>>

\* It failed, or the caller is cancelled as it wakes: shutdown raises.
PreRaises(c) ==
  /\ pc[c] \in {"cleaned", "uncleaned"} /\ Forgets(c) /\ Returned(c)
  /\ UNCHANGED <<envVars, workVars, guardVars, detachVars, preview, complete>>

-----------------------------------------------------------------------------
Bot(w) == Spawn(w) \/ Called(w) \/ EndWork(w)

DetachStep(c) == Gathered(c) \/ DetachTurns(c) \/ DetachDone(c)

PreStep(c) == Cleaned(c) \/ PreRaises(c)

EnvNext ==
  \/ DeadlinePasses \/ CleanupRuns \/ CleanupEnds
  \/ \E w \in Works : Bot(w)
  \/ \E c \in Callers :
       \/ Dispatch(c) \/ DetachStep(c) \/ DetachCancelled(c)
       \/ Start(c) \/ Attached(c) \/ Restart(c) \/ RestartSettled(c)
       \/ Verb(c) \/ VerbEnds(c) \/ OpenPreview(c) \/ ClosePreview(c)
       \/ Shutdown(c) \/ PreCancelled(c) \/ PreStep(c)

EnvSpec == EnvInit /\ [][EnvNext]_lifeVars

\* The loop and its clock run on and every task gets its turns; a cancelled
\* task of the bot ends. Nothing makes a thread end.
EnvFairness ==
  /\ WF_lifeVars(DeadlinePasses) /\ WF_lifeVars(CleanupRuns) /\ WF_lifeVars(CleanupEnds)
  /\ \A w \in Works : WF_lifeVars(kind[w] = "cancelled" /\ EndWork(w))
  /\ \A c \in Callers : /\ WF_lifeVars(DetachStep(c)) /\ WF_lifeVars(PreStep(c))
                        /\ WF_lifeVars(Attached(c)) /\ WF_lifeVars(RestartSettled(c))

-----------------------------------------------------------------------------
\* Every variable keeps to the values the code gives it (env.py:60).
EnvTypeOK ==
  /\ started \in BOOLEAN /\ generation \in 0..MaxGeneration /\ runtime \in {0, generation}
  /\ kind \in [Works -> {"unborn", "task", "cancelled", "callback", "thread", "ended"}]
  /\ born \in [Works -> 0..MaxGeneration]
  /\ holder \in Callers \cup {Nobody} /\ depth \in 0..2
  /\ op \in [Callers -> {"none", "start", "restart_bot", "shutdown", "verb"}]
  /\ pc \in [Callers -> Operating \cup {"idle", "pre", "kept", "cleaned", "uncleaned"}]
  /\ next \in {"none", "attach", "attach_failed", "failed", "stop"}
  /\ awaited \subseteq Works /\ late \in BOOLEAN
  /\ preview \in {"none", "open", "forgotten"} /\ joined \subseteq Callers
  /\ cleanup \in {"none", "created", "running", "failed", "finished"} /\ complete \in BOOLEAN

\* Whatever methods call each other, raise or are cancelled, the guard is held
\* by the one task that operates and by none when none does: no overlap, and no
\* Env locked for ever by a failed start (env.py:207, 221).
GuardMatches ==
  /\ \A c \in Callers : pc[c] \in Operating <=> holder = c
  /\ (depth = 0) = (holder = Nobody)

\* No work of a bot outlives the hooks that track it, through restarts that
\* fail or are cancelled half way: what is alive belongs to the generation
\* whose hooks are installed, and an Env that counts as stopped has none left:
\* what could not be detached keeps it started, to be shut down again
\* (env.py:260-271, 423-428, 441-492).
OneGeneration ==
  /\ \A w \in Alive : runtime # 0 /\ born[w] = runtime
  /\ ~started => runtime = 0

\* Cleanup in progress has a task of the test waiting for it, cancelled or not:
\* an event loop that ends with its last task does not cut it off (env.py:200).
CleanupAwaited ==
  cleanup \in {"created", "running"} => \E c \in joined : pc[c] \in {"pre", "kept"}

\* The cleanup task is not forgotten before it is done, by a caller that had
\* joined an earlier one either; a second would run beside it (env.py:204).
CleanupKept == [][(cleanup \in {"created", "running"}) => cleanup' # "none"]_lifeVars

\* The guard, the generation and the cleanup are kept through every interleaving
\* of callers (_begin_operation, _detach_bot, _run_pre_shutdown).
EnvKept ==
  [](EnvTypeOK /\ GuardMatches /\ OneGeneration /\ CleanupAwaited) /\ CleanupKept

\* start, restart_bot and shutdown end, with an exception if need be, though
\* a thread of the bot never does (env.py:452).
OperationsEnd ==
  \A c \in Callers : op[c] \in {"start", "restart_bot", "shutdown"} ~> op[c] = "none"
=============================================================================
