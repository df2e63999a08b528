------------------------------ MODULE Executor ------------------------------
(***************************************************************************)
(* _runtime.py: ownership of work the bot hands to executors.              *)
(*                                                                         *)
(* The patched loop.run_in_executor registers a record, passes it to the   *)
(* saved hook, and keeps it in _work.executors until no native work of it  *)
(* can run any more, whatever happens to the Future the bot was given.     *)
(* Three kinds of threads interleave: the event loop, the pool's workers,  *)
(* and threads of custom adapters the hooks cannot see.                    *)
(***************************************************************************)
EXTENDS Integers

CONSTANT Records   \* calls of run_in_executor

VARIABLES
  nativeHook, \* the saved hook is asyncio's own, not a custom one
  step,       \* where the loop is in run_in_executor for the record
  state,      \* record.state
  native,     \* the native Future a patched pool submit returned
  isolated,   \* it is a process or interpreter pool's
  tracked,    \* the Future is in record.native_pending
  rejected,   \* record.native_rejected
  user,       \* where the thread that calls the record is
  raised,     \* the bot's function raised
  error,      \* record.error is set
  caller,     \* the Future run_in_executor returned
  notes,      \* finish() calls queued on the loop
  completed,  \* record.completed is done: the record left _work.executors
  owner,      \* the task that called run_in_executor is alive
  retrieved,  \* it awaited the caller and got the exception
  inspect,    \* progress of _inspect_executor
  recorded    \* the error was reported to env.errors

loopVars   == <<nativeHook, step, caller>>
nativeVars == <<native, isolated, tracked, rejected>>
userVars   == <<user, raised>>
errorVars  == <<owner, retrieved, inspect, recorded>>
vars == <<loopVars, nativeVars, userVars, errorVars, state, error, notes, completed>>

Submitting == {"submitting", "accepted", "tracked"}
Ended      == {"done", "cancelled"}

Init ==
  /\ nativeHook \in BOOLEAN
  /\ step = [r \in Records |-> "idle"]
  /\ state = [r \in Records |-> "pending"]
  /\ native = [r \in Records |-> "none"]
  /\ isolated = [r \in Records |-> FALSE]
  /\ tracked = [r \in Records |-> FALSE]
  /\ rejected = [r \in Records |-> FALSE]
  /\ user = [r \in Records |-> "none"]
  /\ raised = [r \in Records |-> FALSE]
  /\ error = [r \in Records |-> FALSE]
  /\ caller = [r \in Records |-> "none"]
  /\ notes = [r \in Records |-> 0]
  /\ completed = [r \in Records |-> FALSE]
  /\ owner = [r \in Records |-> TRUE]
  /\ retrieved = [r \in Records |-> FALSE]
  /\ inspect = [r \in Records |-> "none"]
  /\ recorded = [r \in Records |-> FALSE]

Put(f, r, x) == [f EXCEPT ![r] = x]

\* run_in_executor is synchronous: while one call is being submitted the loop
\* runs nothing else.
LoopFree == \A r \in Records : step[r] \notin Submitting

Notify(r) == notes' = Put(notes, r, notes[r] + 1)

-----------------------------------------------------------------------------
(* run_in_executor and the patched submit, on the loop's thread.           *)

Create(r) ==
  /\ LoopFree /\ step[r] = "idle"
  /\ step' = Put(step, r, "submitting")
  /\ UNCHANGED <<nativeHook, caller, nativeVars, userVars, errorVars, state, error, notes, completed>>

\* original submit queued the record; its worker may run before the rest.
PoolAccepts(r) ==
  /\ step[r] = "submitting" /\ user[r] = "none"
  /\ step' = Put(step, r, "accepted")
  /\ native' = Put(native, r, "queued")
  /\ \E isolate \in BOOLEAN : isolated' = Put(isolated, r, isolate)
  /\ UNCHANGED <<nativeHook, caller, tracked, rejected, userVars, errorVars, state, error, notes, completed>>

\* original submit raised; a queued item may still reach a live worker.
PoolRejects(r) ==
  /\ step[r] = "submitting" /\ ~rejected[r]
  /\ rejected' = Put(rejected, r, TRUE)
  /\ \E leftover \in {"none", "ready"} :
       user' = IF user[r] = "none" THEN Put(user, r, leftover) ELSE user
  /\ UNCHANGED <<loopVars, native, isolated, tracked, raised, errorVars, state, error, notes, completed>>

\* A custom executor or hook hands the record to a thread of its own.
HiddenLaunch(r) ==
  /\ step[r] \in {"submitting", "open"} /\ user[r] = "none" /\ native[r] = "none"
  /\ user' = Put(user, r, "ready")
  /\ UNCHANGED <<loopVars, nativeVars, raised, errorVars, state, error, notes, completed>>

\* submitted(): native_pending first, then the done callback.
Submitted(r) ==
  /\ step[r] = "accepted"
  /\ step' = Put(step, r, "tracked")
  /\ rejected' = Put(rejected, r, FALSE)
  /\ tracked' = Put(tracked, r, TRUE)
  /\ UNCHANGED <<nativeHook, caller, native, isolated, userVars, errorVars, state, error, notes, completed>>

\* The hook returns a Future; a custom executor may not have started the
\* record when it does.
Returns(r) ==
  /\ step[r] \in {"tracked", "submitting"}
  /\ step' = Put(step, r, "open")
  /\ caller' = Put(caller, r, "waiting")
  /\ UNCHANGED <<nativeHook, nativeVars, userVars, errorVars, state, error, notes, completed>>

\* Mutant: the Future given to the bot decides when the work is over.
TerminalByCaller(r, st, sub, trk, call) ==
  /\ ~trk
  /\ st = "abandoned" \/ sub = "refused" \/ call \in {"done", "failed", "cancelled"}

Terminal(r, st, sub, trk, call) ==
  /\ ~trk
  /\ \/ st = "abandoned"
     \/ st = "completed" /\ (sub = "refused" \/ call \in {"done", "failed", "cancelled"})

\* The hook raises: the record is abandoned only if nothing native of it can
\* exist, otherwise its worker ends it.
Refuses(r) ==
  /\ step[r] \in {"tracked", "submitting"}
  /\ step' = Put(step, r, "refused")
  /\ state' = IF state[r] = "pending" /\ ~tracked[r] /\ (rejected[r] \/ nativeHook)
              THEN Put(state, r, "abandoned")
              ELSE state
  /\ LET over == Terminal(r, state'[r], "refused", tracked[r], caller[r])
     IN /\ completed' = Put(completed, r, over)
        /\ inspect' = IF over THEN Put(inspect, r, "queued") ELSE inspect
  /\ UNCHANGED <<nativeHook, caller, nativeVars, userVars, owner, retrieved, recorded, error, notes>>

-----------------------------------------------------------------------------
(* Worker threads.                                                         *)

WorkerTakes(r) ==
  /\ native[r] = "queued"
  /\ native' = Put(native, r, "working")
  /\ user' = Put(user, r, IF isolated[r] THEN "inside" ELSE "ready")
  /\ UNCHANGED <<loopVars, isolated, tracked, rejected, raised, errorVars, state, error, notes, completed>>

\* record.__call__: an abandoned record returns at once.
Enter(r) ==
  /\ user[r] = "ready"
  /\ IF state[r] = "abandoned"
     THEN user' = Put(user, r, "gone") /\ UNCHANGED state
     ELSE user' = Put(user, r, "inside") /\ state' = Put(state, r, "running")
  /\ UNCHANGED <<loopVars, nativeVars, raised, errorVars, error, notes, completed>>

Leave(r) ==
  /\ user[r] = "inside"
  /\ \E fails \in BOOLEAN :
       /\ raised' = Put(raised, r, fails)
       /\ error' = Put(error, r, fails /\ ~isolated[r])
  /\ user' = Put(user, r, IF isolated[r] THEN "gone" ELSE "left")
  /\ state' = IF isolated[r] THEN state ELSE Put(state, r, "completed")
  /\ UNCHANGED <<loopVars, nativeVars, errorVars, notes, completed>>

Tell(r) ==
  /\ user[r] = "left"
  /\ user' = Put(user, r, "gone")
  /\ Notify(r)
  /\ UNCHANGED <<loopVars, nativeVars, raised, errorVars, state, error, completed>>

\* The worker sets the result of the native Future.
NativeEnds(r) ==
  /\ native[r] = "working" /\ user[r] = "gone"
  /\ native' = Put(native, r, "done")
  /\ UNCHANGED <<loopVars, isolated, tracked, rejected, userVars, errorVars, state, error, notes, completed>>

\* Mutant: the end of the native Future is not notified.
NativeDoneSilent(r) ==
  /\ native[r] \in Ended /\ tracked[r]
  /\ tracked' = Put(tracked, r, FALSE)
  /\ error' = Put(error, r, error[r] \/ (native[r] = "done" /\ raised[r]))
  /\ state' = IF state[r] # "pending" THEN state
              ELSE Put(state, r, IF native[r] = "cancelled" THEN "abandoned" ELSE "completed")
  /\ UNCHANGED <<loopVars, native, isolated, rejected, userVars, errorVars, notes, completed>>

\* done(): the callback submitted() added, run by whoever ended the Future or
\* at once if it had ended before.
NativeDone(r) ==
  /\ native[r] \in Ended /\ tracked[r]
  /\ tracked' = Put(tracked, r, FALSE)
  /\ error' = Put(error, r, error[r] \/ (native[r] = "done" /\ raised[r]))
  /\ state' = IF state[r] # "pending" THEN state
              ELSE Put(state, r, IF native[r] = "cancelled" THEN "abandoned" ELSE "completed")
  /\ Notify(r)
  /\ UNCHANGED <<loopVars, native, isolated, rejected, userVars, errorVars, completed>>

-----------------------------------------------------------------------------
(* The Future the bot holds, and what the loop runs for it.                *)

\* asyncio's hook copies the outcome of the native Future; the Future of a
\* custom hook or a custom executor follows no rule.
Wrapped(r) == nativeHook /\ native[r] # "none"

CallerSettles(r) ==
  /\ LoopFree /\ caller[r] = "waiting"
  /\ \/ /\ ~Wrapped(r)
        /\ \E outcome \in {"done", "failed"} : caller' = Put(caller, r, outcome)
     \/ /\ Wrapped(r) /\ native[r] \in Ended
        /\ caller' = Put(caller, r, IF native[r] = "cancelled" THEN "cancelled"
                                    ELSE IF raised[r] THEN "failed" ELSE "done")
  /\ Notify(r)
  /\ UNCHANGED <<nativeHook, step, nativeVars, userVars, errorVars, state, error, completed>>

CallerCancelled(r) ==
  /\ LoopFree /\ caller[r] = "waiting"
  /\ caller' = Put(caller, r, "cancelled")
  /\ Notify(r)
  /\ UNCHANGED <<nativeHook, step, nativeVars, userVars, errorVars, state, error, completed>>

\* A native Future that has not started is cancelled with its caller.
CancelForwarded(r) ==
  /\ caller[r] = "cancelled" /\ native[r] = "queued" /\ step[r] = "open"
  /\ native' = Put(native, r, "cancelled")
  /\ UNCHANGED <<loopVars, isolated, tracked, rejected, userVars, errorVars, state, error, notes, completed>>

\* finish(), queued by a notification.
Finish(r) ==
  /\ LoopFree /\ notes[r] > 0
  /\ notes' = Put(notes, r, notes[r] - 1)
  /\ IF ~completed[r] /\ Terminal(r, state[r], step[r], tracked[r], caller[r])
     THEN completed' = Put(completed, r, TRUE) /\ inspect' = Put(inspect, r, "queued")
     ELSE UNCHANGED <<completed, inspect>>
  /\ UNCHANGED <<loopVars, nativeVars, userVars, owner, retrieved, recorded, state, error>>

\* _inspect_executor: report an error nobody else will.
InspectExecutor(r) ==
  /\ LoopFree
  /\ \/ inspect[r] = "queued"
     \/ inspect[r] = "on_caller" /\ caller[r] # "waiting"
     \/ inspect[r] = "on_owner" /\ ~owner[r]
  /\ LET refused == step[r] = "refused" \/ caller[r] = "cancelled"
         unretrieved == caller[r] = "failed" /\ ~retrieved[r]
     IN \/ /\ caller[r] = "waiting"
           /\ inspect' = Put(inspect, r, "on_caller") /\ UNCHANGED recorded
        \/ /\ caller[r] # "waiting" /\ refused
           /\ inspect' = Put(inspect, r, "over")
           /\ recorded' = Put(recorded, r, error[r])
        \/ /\ caller[r] # "waiting" /\ ~refused /\ unretrieved /\ owner[r]
           /\ inspect' = Put(inspect, r, "on_owner") /\ UNCHANGED recorded
        \/ /\ caller[r] # "waiting" /\ ~refused /\ ~(unretrieved /\ owner[r])
           /\ inspect' = Put(inspect, r, "over")
           /\ recorded' = Put(recorded, r, unretrieved)
  /\ UNCHANGED <<loopVars, nativeVars, userVars, owner, retrieved, state, error, notes, completed>>

\* The owning task awaits the caller and handles its exception, or ends.
OwnerRetrieves(r) ==
  /\ LoopFree /\ owner[r] /\ caller[r] = "failed" /\ ~retrieved[r]
  /\ retrieved' = Put(retrieved, r, TRUE)
  /\ UNCHANGED <<loopVars, nativeVars, userVars, owner, inspect, recorded, state, error, notes, completed>>

OwnerEnds(r) ==
  /\ LoopFree /\ owner[r] /\ step[r] \in {"open", "refused"}
  /\ owner' = Put(owner, r, FALSE)
  /\ UNCHANGED <<loopVars, nativeVars, userVars, retrieved, inspect, recorded, state, error, notes, completed>>

-----------------------------------------------------------------------------

Submission(r) == Create(r) \/ PoolAccepts(r) \/ PoolRejects(r) \/ HiddenLaunch(r)

\* Steps that threads and the loop do not put off for ever: pools run what
\* they queue, bot functions return, callbacks queued on the loop run, and
\* the Future given to the bot settles.
Progress(r) ==
  \/ Submitted(r) \/ Returns(r) \/ WorkerTakes(r) \/ Enter(r) \/ Leave(r) \/ Tell(r)
  \/ NativeEnds(r) \/ NativeDone(r) \/ CallerSettles(r)
  \/ Finish(r) \/ InspectExecutor(r) \/ OwnerEnds(r)

Choice(r) == Refuses(r) \/ CallerCancelled(r) \/ CancelForwarded(r) \/ OwnerRetrieves(r)

Next == \E r \in Records : Submission(r) \/ Progress(r) \/ Choice(r)

Spec == Init /\ [][Next]_vars

Fairness ==
  \A r \in Records :
    /\ WF_vars(Submitted(r) \/ Returns(r) \/ Refuses(r))
    /\ WF_vars(WorkerTakes(r)) /\ WF_vars(Enter(r)) /\ WF_vars(Leave(r)) /\ WF_vars(Tell(r))
    /\ WF_vars(NativeEnds(r)) /\ WF_vars(NativeDone(r)) /\ WF_vars(CallerSettles(r))
    /\ WF_vars(Finish(r)) /\ WF_vars(InspectExecutor(r)) /\ WF_vars(OwnerEnds(r))

FairSpec == Spec /\ Fairness
-----------------------------------------------------------------------------
(* Properties                                                              *)

TypeOK ==
  /\ nativeHook \in BOOLEAN
  /\ step \in [Records -> {"idle", "open", "refused"} \cup Submitting]
  /\ state \in [Records -> {"pending", "running", "completed", "abandoned"}]
  /\ native \in [Records -> {"none", "queued", "working"} \cup Ended]
  /\ isolated \in [Records -> BOOLEAN]
  /\ tracked \in [Records -> BOOLEAN]
  /\ rejected \in [Records -> BOOLEAN]
  /\ user \in [Records -> {"none", "ready", "inside", "left", "gone"}]
  /\ raised \in [Records -> BOOLEAN]
  /\ error \in [Records -> BOOLEAN]
  /\ caller \in [Records -> {"none", "waiting", "done", "failed", "cancelled"}]
  /\ notes \in [Records -> 0..3]
  /\ completed \in [Records -> BOOLEAN]
  /\ owner \in [Records -> BOOLEAN]
  /\ retrieved \in [Records -> BOOLEAN]
  /\ inspect \in [Records -> {"none", "queued", "on_caller", "on_owner", "over"}]
  /\ recorded \in [Records -> BOOLEAN]

\* A record that left _work.executors never runs bot code again: settlement,
\* restart and shutdown never pass while a worker is inside the bot's
\* function, or before one that will still enter it.
NoWorkAfterRelease == \A r \in Records : completed[r] => user[r] # "inside"

\* An exception is left to the task that owns the call or reported, not both.
HandledOrReported == \A r \in Records : ~(recorded[r] /\ retrieved[r])

RecordsSound == TypeOK /\ NoWorkAfterRelease /\ HandledOrReported

\* Work a pool accepted, or a thread took, is released in the end: neither a
\* cancelled caller nor a refused submission can leave it tracked for ever.
WorkReleased ==
  \A r \in Records : (native[r] # "none" \/ user[r] # "none") ~> completed[r]

\* With asyncio's own hook an exception of a function a pool ran reaches the
\* owner of the call or env.errors, however caller, owner and worker end.
ErrorSurfaces ==
  \A r \in Records :
    (raised[r] /\ Wrapped(r)) ~> (recorded[r] \/ retrieved[r])
=============================================================================
