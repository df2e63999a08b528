----------------------------- MODULE WorkProofs -----------------------------
(***************************************************************************)
(* A record released by finish() never runs bot code again, and no work of *)
(* the bot outlives the hooks that own it.                                 *)
(***************************************************************************)
EXTENDS Executor, Lifecycle, TLAPS


\* What the states of record, native Future and worker say of each other.
\* Either the worker is still owed to the record - the record is running, or
\* a native Future that can run it is tracked or about to be - or no thread
\* can enter the bot's function any more.
Handshake(r) ==
  /\ native[r] # "none" => step[r] \notin {"idle", "submitting"}
  /\ native[r] \in {"queued", "cancelled"} => user[r] = "none"
  /\ native[r] \in {"queued", "working"} => tracked[r] \/ step[r] = "accepted"
  /\ native[r] # "none" /\ step[r] # "accepted" /\ ~tracked[r] => state[r] # "pending"
  /\ native[r] = "done" => user[r] = "gone"
  /\ tracked[r] => native[r] # "none" /\ step[r] # "accepted"
  /\ step[r] \in {"accepted", "tracked"} => native[r] # "none"
  /\ caller[r] # "none" <=> step[r] = "open"
  /\ native[r] = "cancelled" => step[r] = "open"
  /\ isolated[r] => native[r] # "none" /\ user[r] \in {"none", "inside", "gone"}
  /\ user[r] = "inside" => IF isolated[r]
                           THEN state[r] = "pending" /\ native[r] = "working"
                           ELSE state[r] = "running"
  /\ user[r] = "none" => state[r] \in {"pending", "abandoned"}
  /\ user[r] = "left" => state[r] = "completed"
  /\ state[r] = "running" => user[r] = "inside"
  /\ state[r] = "completed" => user[r] \in {"left", "gone"}
  /\ state[r] = "abandoned" => /\ user[r] \in {"none", "ready", "gone"}
                               /\ IF native[r] = "none"
                                  THEN step[r] = "refused"
                                  ELSE native[r] = "cancelled"
  /\ completed[r] => /\ state[r] \in {"completed", "abandoned"}
                     /\ ~tracked[r] /\ step[r] \in {"open", "refused"}

\* Each of the three callers of Notify runs once for a record.
NotesBound(r) ==
  /\ notes[r] \in Nat
  /\ notes[r] + (IF caller[r] \in {"none", "waiting"} THEN 1 ELSE 0)
              + (IF user[r] # "gone" THEN 1 ELSE 0)
              + (IF tracked[r] \/ step[r] \in {"idle", "submitting", "accepted"} THEN 1 ELSE 0)
       <= 3

ReleaseInv == TypeOK /\ \A r \in Records : Handshake(r) /\ NotesBound(r)

-----------------------------------------------------------------------------

LEMMA InitRelease == Init => ReleaseInv
  BY DEF Init, ReleaseInv, TypeOK, Handshake, NotesBound, Submitting, Ended

\* A step of one record keeps the state well typed.
LEMMA TypesKept ==
  ASSUME ReleaseInv, NEW r \in Records, Submission(r) \/ Progress(r) \/ Choice(r)
  PROVE  TypeOK'
<1> USE DEF Put, Submitting, Ended, TypeOK, loopVars, nativeVars, userVars, errorVars
<1>0. TypeOK /\ Handshake(r) /\ NotesBound(r)
  BY DEF ReleaseInv
<1>1. CASE Create(r)
  BY <1>0, <1>1 DEF Create
<1>2. CASE PoolAccepts(r)
  BY <1>0, <1>2 DEF PoolAccepts
<1>3. CASE PoolRejects(r)
  BY <1>0, <1>3 DEF PoolRejects
<1>4. CASE HiddenLaunch(r)
  BY <1>0, <1>4 DEF HiddenLaunch
<1>5. CASE Submitted(r)
  BY <1>0, <1>5 DEF Submitted
<1>6. CASE Returns(r)
  BY <1>0, <1>6 DEF Returns
<1>7. CASE WorkerTakes(r)
  BY <1>0, <1>7 DEF WorkerTakes
<1>8. CASE Enter(r)
  BY <1>0, <1>8 DEF Enter
<1>9. CASE Leave(r)
  BY <1>0, <1>9 DEF Leave
<1>10. CASE Tell(r)
  BY <1>0, <1>10 DEF Tell, Notify, NotesBound, Handshake
<1>11. CASE NativeEnds(r)
  BY <1>0, <1>11 DEF NativeEnds
<1>12. CASE NativeDone(r)
  BY <1>0, <1>12 DEF NativeDone, Notify, NotesBound
<1>13. CASE CallerSettles(r)
  BY <1>0, <1>13 DEF CallerSettles, Notify, Wrapped, NotesBound
<1>14. CASE Finish(r)
  <2>1. notes' \in [Records -> 0..3]
    BY <1>0, <1>14 DEF Finish, NotesBound
  <2>2. completed' \in [Records -> BOOLEAN]
    BY ZenonT(60), <1>0, <1>14 DEF Finish
  <2>3. inspect' \in [Records -> {"none", "queued", "on_caller", "on_owner", "over"}]
    BY <1>0, <1>14 DEF Finish
  <2> QED
    BY SMTT(30), <1>0, <1>14, <2>1, <2>2, <2>3 DEF Finish
<1>15. CASE InspectExecutor(r)
  <2>1. inspect' \in [Records -> {"none", "queued", "on_caller", "on_owner", "over"}]
    BY <1>0, <1>15 DEF InspectExecutor
  <2>2. recorded' \in [Records -> BOOLEAN]
    <3> DEFINE unretrieved == caller[r] = "failed" /\ ~retrieved[r]
    <3>1. /\ recorded \in [Records -> BOOLEAN]
          /\ error[r] \in BOOLEAN /\ unretrieved \in BOOLEAN
      BY <1>0
    <3>2. \/ recorded' = recorded
          \/ recorded' = [recorded EXCEPT ![r] = error[r]]
          \/ recorded' = [recorded EXCEPT ![r] = unretrieved]
      BY <1>15, Zenon DEF InspectExecutor
    <3> HIDE DEF unretrieved
    <3> QED
      BY <3>1, <3>2
  <2> QED
    BY <1>0, <1>15, <2>1, <2>2 DEF InspectExecutor
<1>16. CASE OwnerEnds(r)
  BY <1>0, <1>16 DEF OwnerEnds
<1>17. CASE Refuses(r)
  BY <1>0, <1>17 DEF Refuses, Terminal
<1>18. CASE CallerCancelled(r)
  BY <1>0, <1>18 DEF CallerCancelled, Notify, NotesBound
<1>19. CASE CancelForwarded(r)
  BY <1>0, <1>19 DEF CancelForwarded
<1>20. CASE OwnerRetrieves(r)
  BY <1>0, <1>20 DEF OwnerRetrieves
<1> QED
  BY <1>1, <1>2, <1>3, <1>4, <1>5, <1>6, <1>7, <1>8, <1>9, <1>10, <1>11, <1>12, <1>13, <1>14, <1>15, <1>16, <1>17, <1>18, <1>19, <1>20 DEF Submission, Progress, Choice

\* It leaves the other records alone.
LEMMA OthersKept ==
  ASSUME ReleaseInv, NEW r \in Records, NEW s \in Records \ {r},
         Submission(r) \/ Progress(r) \/ Choice(r)
  PROVE  Handshake(s)' /\ NotesBound(s)'
<1> USE DEF Put, TypeOK, Handshake, NotesBound, loopVars, nativeVars, userVars, errorVars
<1>0. TypeOK /\ Handshake(s) /\ NotesBound(s)
  BY DEF ReleaseInv
<1>1. CASE Create(r)
  BY <1>0, <1>1 DEF Create
<1>2. CASE PoolAccepts(r)
  BY <1>0, <1>2 DEF PoolAccepts
<1>3. CASE PoolRejects(r)
  BY <1>0, <1>3 DEF PoolRejects
<1>4. CASE HiddenLaunch(r)
  BY <1>0, <1>4 DEF HiddenLaunch
<1>5. CASE Submitted(r)
  BY <1>0, <1>5 DEF Submitted
<1>6. CASE Returns(r)
  BY <1>0, <1>6 DEF Returns
<1>7. CASE WorkerTakes(r)
  BY <1>0, <1>7 DEF WorkerTakes
<1>8. CASE Enter(r)
  BY <1>0, <1>8 DEF Enter
<1>9. CASE Leave(r)
  BY <1>0, <1>9 DEF Leave
<1>10. CASE Tell(r)
  BY <1>0, <1>10 DEF Tell, Notify
<1>11. CASE NativeEnds(r)
  BY <1>0, <1>11 DEF NativeEnds
<1>12. CASE NativeDone(r)
  BY <1>0, <1>12 DEF NativeDone, Notify
<1>13. CASE CallerSettles(r)
  BY <1>0, <1>13 DEF CallerSettles, Notify, Wrapped
<1>14. CASE Finish(r)
  BY <1>0, <1>14 DEF Finish, Terminal
<1>15. CASE InspectExecutor(r)
  BY <1>0, <1>15 DEF InspectExecutor
<1>16. CASE OwnerEnds(r)
  BY <1>0, <1>16 DEF OwnerEnds
<1>17. CASE Refuses(r)
  BY <1>0, <1>17 DEF Refuses, Terminal
<1>18. CASE CallerCancelled(r)
  BY <1>0, <1>18 DEF CallerCancelled, Notify
<1>19. CASE CancelForwarded(r)
  BY <1>0, <1>19 DEF CancelForwarded
<1>20. CASE OwnerRetrieves(r)
  BY <1>0, <1>20 DEF OwnerRetrieves
<1> QED
  BY <1>1, <1>2, <1>3, <1>4, <1>5, <1>6, <1>7, <1>8, <1>9, <1>10, <1>11, <1>12, <1>13, <1>14, <1>15, <1>16, <1>17, <1>18, <1>19, <1>20 DEF Submission, Progress, Choice

\* And it keeps its own handshake.
LEMMA OwnKept ==
  ASSUME ReleaseInv, NEW r \in Records, Submission(r) \/ Progress(r) \/ Choice(r)
  PROVE  Handshake(r)' /\ NotesBound(r)'
<1> USE DEF Put, TypeOK, Handshake, NotesBound, Ended, Submitting, loopVars, nativeVars, userVars, errorVars
<1>0. TypeOK /\ Handshake(r) /\ NotesBound(r)
  BY DEF ReleaseInv
<1>1. CASE Create(r)
  BY <1>0, <1>1 DEF Create
<1>2. CASE PoolAccepts(r)
  BY <1>0, <1>2 DEF PoolAccepts
<1>3. CASE PoolRejects(r)
  BY <1>0, <1>3 DEF PoolRejects
<1>4. CASE HiddenLaunch(r)
  BY <1>0, <1>4 DEF HiddenLaunch
<1>5. CASE Submitted(r)
  <2>1. Handshake(r)'
    BY <1>0, <1>5 DEF Submitted
  <2>2. NotesBound(r)'
    BY <1>0, <1>5 DEF Submitted
  <2> QED
    BY <2>1, <2>2
<1>6. CASE Returns(r)
  <2>1. Handshake(r)'
    BY <1>0, <1>6 DEF Returns
  <2>2. NotesBound(r)'
    BY <1>0, <1>6 DEF Returns
  <2> QED
    BY <2>1, <2>2
<1>7. CASE WorkerTakes(r)
  BY <1>0, <1>7 DEF WorkerTakes
<1>8. CASE Enter(r)
  BY <1>0, <1>8 DEF Enter
<1>9. CASE Leave(r)
  BY <1>0, <1>9 DEF Leave
<1>10. CASE Tell(r)
  BY <1>0, <1>10 DEF Tell, Notify
<1>11. CASE NativeEnds(r)
  BY <1>0, <1>11 DEF NativeEnds
<1>12. CASE NativeDone(r)
  BY <1>0, <1>12 DEF NativeDone, Notify
<1>13. CASE CallerSettles(r)
  BY <1>0, <1>13 DEF CallerSettles, Notify, Wrapped
<1>14. CASE Finish(r)
  BY <1>0, <1>14 DEF Finish, Terminal
<1>15. CASE InspectExecutor(r)
  BY <1>0, <1>15 DEF InspectExecutor
<1>16. CASE OwnerEnds(r)
  BY <1>0, <1>16 DEF OwnerEnds
<1>17. CASE Refuses(r)
  <2>1. /\ step'[r] = "refused"
        /\ state'[r] = IF state[r] = "pending" /\ ~tracked[r] /\ (rejected[r] \/ nativeHook)
                        THEN "abandoned" ELSE state[r]
        /\ completed'[r] => state'[r] \in {"completed", "abandoned"} /\ ~tracked[r]
    BY <1>0, <1>17 DEF Refuses, Terminal
  <2>2. UNCHANGED <<native, isolated, tracked, user, caller, notes>>
    BY <1>17 DEF Refuses
  <2>3. step[r] \in {"tracked", "submitting"} /\ (step[r] = "tracked" => native[r] # "none")
    BY <1>0, <1>17 DEF Refuses
  <2> HIDE DEF Put
  <2>4. Handshake(r)'
    BY <1>0, <2>1, <2>2, <2>3
  <2>5. NotesBound(r)'
    BY <1>0, <2>1, <2>2, <2>3
  <2> QED
    BY <2>4, <2>5
<1>18. CASE CallerCancelled(r)
  BY <1>0, <1>18 DEF CallerCancelled, Notify
<1>19. CASE CancelForwarded(r)
  BY <1>0, <1>19 DEF CancelForwarded
<1>20. CASE OwnerRetrieves(r)
  BY <1>0, <1>20 DEF OwnerRetrieves
<1> QED
  BY <1>1, <1>2, <1>3, <1>4, <1>5, <1>6, <1>7, <1>8, <1>9, <1>10, <1>11, <1>12, <1>13, <1>14, <1>15, <1>16, <1>17, <1>18, <1>19, <1>20 DEF Submission, Progress, Choice

LEMMA StepRelease == ReleaseInv /\ [Next]_vars => ReleaseInv'
<1> SUFFICES ASSUME ReleaseInv, [Next]_vars PROVE ReleaseInv'
  OBVIOUS
<1>1. CASE UNCHANGED vars
  BY <1>1 DEF ReleaseInv, TypeOK, Handshake, NotesBound, vars, loopVars, nativeVars, userVars, errorVars
<1>2. CASE Next
  <2> PICK r \in Records : Submission(r) \/ Progress(r) \/ Choice(r)
    BY <1>2 DEF Next
  <2> QED
    BY TypesKept, OthersKept, OwnKept DEF ReleaseInv
<1> QED
  BY <1>1, <1>2

LEMMA ReleaseInvariant == Spec => []ReleaseInv
  BY InitRelease, StepRelease, PTL DEF Spec

\* The state of a record is well typed, and no record is notified more often
\* than worker, native Future and caller can end.
THEOREM RecordTypes == Spec => []TypeOK
  BY ReleaseInvariant, PTL DEF ReleaseInv

\* For any number of calls: a record finish() released never runs the bot's
\* function again.
THEOREM ReleasedIsQuiet == Spec => []NoWorkAfterRelease
<1> ReleaseInv => NoWorkAfterRelease
  BY DEF ReleaseInv, TypeOK, Handshake, NoWorkAfterRelease
<1> QED
  BY ReleaseInvariant, PTL

-----------------------------------------------------------------------------
(* Errors are left to the owner or reported, never both.  That a report    *)
(* comes after the owner had its chance shows in what the record looks     *)
(* like once it is reported.                                               *)

Handled(r) ==
  /\ retrieved[r] => caller[r] = "failed"
  /\ recorded[r] => /\ ~retrieved[r]
                    /\ \/ step[r] = "refused"
                       \/ caller[r] = "cancelled"
                       \/ caller[r] = "failed" /\ ~owner[r]

\* Steps that neither report an error nor hand it out.
LEMMA OtherStepsHandled ==
  ASSUME ReleaseInv, NEW r \in Records, NEW s \in Records, Handled(s),
         Submission(r) \/ Progress(r) \/ Choice(r),
         ~InspectExecutor(r), ~OwnerRetrieves(r)
  PROVE  Handled(s)'
<1> USE DEF Handled, Put, loopVars, nativeVars, userVars, errorVars
<1>0. TypeOK /\ Handshake(s) /\ (caller[s] # "none" <=> step[s] = "open")
  BY DEF ReleaseInv, Handshake
<1>1. recorded'[s] = recorded[s] /\ retrieved'[s] = retrieved[s]
  BY DEF Submission, Progress, Choice, Create, PoolAccepts, PoolRejects, HiddenLaunch, Submitted, Returns,
         WorkerTakes, Enter, Leave, Tell, NativeEnds, NativeDone, CallerSettles, Finish, OwnerEnds, Refuses,
         CallerCancelled, CancelForwarded
<1>2. step[s] = "refused" => step'[s] = "refused"
  BY <1>0 DEF TypeOK, Submission, Progress, Choice, Create, PoolAccepts, PoolRejects, HiddenLaunch, Submitted, Returns,
         WorkerTakes, Enter, Leave, Tell, NativeEnds, NativeDone, CallerSettles, Finish, OwnerEnds, Refuses,
         CallerCancelled, CancelForwarded
<1>3. caller[s] \in {"failed", "cancelled"} => caller'[s] = caller[s]
  BY <1>0 DEF TypeOK, Submission, Progress, Choice, Create, PoolAccepts, PoolRejects, HiddenLaunch, Submitted, Returns,
         WorkerTakes, Enter, Leave, Tell, NativeEnds, NativeDone, CallerSettles, Finish, OwnerEnds, Refuses,
         CallerCancelled, CancelForwarded
<1>4. ~owner[s] => ~owner'[s]
  BY <1>0 DEF TypeOK, Submission, Progress, Choice, Create, PoolAccepts, PoolRejects, HiddenLaunch, Submitted, Returns,
         WorkerTakes, Enter, Leave, Tell, NativeEnds, NativeDone, CallerSettles, Finish, OwnerEnds, Refuses,
         CallerCancelled, CancelForwarded
<1> QED
  BY <1>1, <1>2, <1>3, <1>4

\* The inspection reports what the owner did not take and cannot take any more.
LEMMA InspectHandled ==
  ASSUME ReleaseInv, NEW r \in Records, NEW s \in Records, Handled(s), InspectExecutor(r)
  PROVE  Handled(s)'
<1>0. TypeOK /\ (caller[s] # "none" <=> step[s] = "open")
  BY DEF ReleaseInv, Handshake
<1>1. UNCHANGED <<step, caller, owner, retrieved>>
  BY DEF InspectExecutor, loopVars
<1>2. CASE recorded' = recorded
  BY <1>1, <1>2 DEF Handled
<1>3. CASE s # r
  <2>1. recorded'[s] = recorded[s]
    <3>1. recorded' = recorded \/ \E v : recorded' = [recorded EXCEPT ![r] = v]
      BY ZenonT(30) DEF InspectExecutor, Put
    <3> QED
      BY <1>0, <1>3, <3>1 DEF TypeOK
  <2> QED
    BY <1>1, <2>1 DEF Handled
<1>4. CASE s = r /\ recorded' # recorded
  <2>1. \/ step[r] = "refused" \/ caller[r] = "cancelled"
        \/ /\ ~(caller[r] = "failed" /\ ~retrieved[r] /\ owner[r])
           /\ recorded' = [recorded EXCEPT ![r] = caller[r] = "failed" /\ ~retrieved[r]]
    BY <1>4, Zenon DEF InspectExecutor, Put
  <2>2. CASE step[r] = "refused" \/ caller[r] = "cancelled"
    BY <1>0, <1>1, <1>4, <2>2 DEF Handled
  <2>3. CASE /\ ~(caller[r] = "failed" /\ ~retrieved[r] /\ owner[r])
             /\ recorded' = [recorded EXCEPT ![r] = caller[r] = "failed" /\ ~retrieved[r]]
    <3>1. recorded'[r] = (caller[r] = "failed" /\ ~retrieved[r])
      BY <1>0, <2>3, Zenon DEF TypeOK
    <3> QED
      BY <1>1, <1>4, <2>3, <3>1 DEF Handled
  <2> QED
    BY <2>1, <2>2, <2>3
<1> QED
  BY <1>2, <1>3, <1>4

\* The owner takes only what was not reported: a report meant it was gone.
LEMMA RetrieveHandled ==
  ASSUME ReleaseInv, NEW r \in Records, NEW s \in Records, Handled(s), OwnerRetrieves(r)
  PROVE  Handled(s)'
<1>0. TypeOK /\ (caller[s] # "none" <=> step[s] = "open")
  BY DEF ReleaseInv, Handshake
<1>1. UNCHANGED <<step, caller, owner, recorded>>
  BY DEF OwnerRetrieves, loopVars
<1>2. CASE s # r
  BY <1>0, <1>1, <1>2 DEF OwnerRetrieves, Handled, Put, TypeOK
<1>3. CASE s = r
  <2>1. ~recorded[r]
    BY <1>0, <1>3 DEF OwnerRetrieves, Handled
  <2> QED
    BY <1>1, <1>3, <2>1 DEF OwnerRetrieves, Handled
<1> QED
  BY <1>2, <1>3

\* An exception of the bot's function is left to the task that owns the call
\* or reported to the test, never both, for any number of calls.
THEOREM ErrorsOnce == Spec => []HandledOrReported
<1>1. Init => \A s \in Records : Handled(s)
  BY DEF Init, Handled
<1>2. ReleaseInv /\ (\A s \in Records : Handled(s)) /\ [Next]_vars => (\A s \in Records : Handled(s))'
  <2> SUFFICES ASSUME ReleaseInv, \A s \in Records : Handled(s), [Next]_vars
               PROVE  (\A s \in Records : Handled(s))'
    OBVIOUS
  <2>1. CASE UNCHANGED vars
    BY <2>1 DEF Handled, vars, loopVars, errorVars
  <2>2. CASE Next
    <3> PICK r \in Records : Submission(r) \/ Progress(r) \/ Choice(r)
      BY <2>2 DEF Next
    <3> QED
      BY OtherStepsHandled, InspectHandled, RetrieveHandled
  <2> QED
    BY <2>1, <2>2
<1>3. (\A s \in Records : Handled(s)) => HandledOrReported
  BY DEF Handled, HandledOrReported
<1> QED
  BY <1>1, <1>2, <1>3, ReleaseInvariant, PTL DEF Spec

\* What the run checks of the records, together.
THEOREM RecordsAreSound == Spec => []RecordsSound
  BY RecordTypes, ReleasedIsQuiet, ErrorsOnce, PTL DEF RecordsSound

-----------------------------------------------------------------------------
(* The Env.  What the states of guard, work, call and cleanup say of each   *)
(* other: the step to come is still possible, and a detached bot is dead.   *)


Kinds == {"unborn", "task", "cancelled", "callback", "thread", "ended"}
Places == Operating \cup {"idle", "pre", "kept", "cleaned", "uncleaned"}

\* Where the one operation is.
Where == IF holder = Nobody THEN "idle" ELSE pc[holder]

GuardInv ==
  /\ holder \in Callers \cup {Nobody} /\ depth \in 0..2 /\ pc \in [Callers -> Places]
  /\ GuardMatches
  /\ Where # "verb" => depth \in {0, 1}
WorkInv ==
  /\ started \in BOOLEAN /\ generation \in 0..MaxGeneration /\ runtime \in {0, generation}
  /\ kind \in [Works -> Kinds] /\ born \in [Works -> 0..MaxGeneration]
  /\ OneGeneration
CallInv ==
  /\ op \in [Callers -> {"none", "start", "restart_bot", "shutdown", "verb"}]
  /\ next \in {"none", "attach", "attach_failed", "failed", "stop"}
  /\ awaited \subseteq Works /\ late \in BOOLEAN
\* What the operation will do is still possible when it comes to it.
NextInv ==
  /\ next # "none" <=> Where \in Detaching
  /\ Where \in {"attach", "settle"} \/ next \in {"attach", "attach_failed"} => started
  /\ Where = "settle" \/ next = "attach" => generation < MaxGeneration
CleanupInv ==
  /\ preview \in {"none", "open", "forgotten"} /\ joined \subseteq Callers
  /\ cleanup \in {"none", "created", "running", "failed", "finished"} /\ complete \in BOOLEAN
  /\ CleanupAwaited
EnvInv == GuardInv /\ WorkInv /\ CallInv /\ NextInv /\ CleanupInv

-----------------------------------------------------------------------------
(* The guard: an operation enters, goes on, or leaves.                     *)

Goes(c, l) == pc' = [pc EXCEPT ![c] = l]
Entering(c, l) ==
  pc[c] \notin Operating /\ l \in Operating /\ Free(c) /\ Began(c) /\ Goes(c, l)
Staying(c, l) ==
  /\ pc[c] \in Operating \ {"verb"} /\ l \in Operating \ {"verb"}
  /\ Goes(c, l) /\ UNCHANGED guardVars
Leaving(c) == pc[c] \in Operating \ {"verb"} /\ Goes(c, "idle") /\ EndedOperation(c)
Waiting(c, l) ==
  /\ pc[c] \notin Operating /\ l \in Places \ Operating
  /\ Goes(c, l) /\ UNCHANGED guardVars

LEMMA GuardSteps ==
  ASSUME GuardInv, NEW c \in Callers
  PROVE  /\ \A l : Entering(c, l) => GuardInv' /\ Where' = l
         /\ \A l : Staying(c, l) => GuardInv' /\ Where = pc[c] /\ Where' = l
         /\ Leaving(c) => GuardInv' /\ Where = pc[c] /\ Where' = "idle"
         /\ \A l : Waiting(c, l) => GuardInv' /\ Where' = Where
         /\ pc[c] \in Operating <=> holder = c
         /\ c # Nobody
<1>1. c # Nobody /\ Nobody \notin Callers
  BY GenerationAssumption
<1>2. pc[c] \in Operating <=> holder = c
  BY DEF GuardInv, GuardMatches
<1>3. ASSUME NEW l, Entering(c, l)
      PROVE  GuardInv' /\ Where' = l
  <2>1. holder = Nobody /\ depth = 0 /\ holder' = c /\ depth' = 1
    BY <1>2, <1>3 DEF Entering, Free, Began, GuardInv, GuardMatches
  <2>2. pc' \in [Callers -> Places] /\ pc'[c] = l /\ \A d \in Callers \ {c} : pc'[d] = pc[d]
    BY <1>3 DEF Entering, Goes, GuardInv, Places
  <2>3. Where' = l
    BY <1>1, <2>1, <2>2 DEF Where
  <2>4. GuardMatches'
    BY <1>1, <1>3, <2>1, <2>2 DEF Entering, GuardInv, GuardMatches
  <2> QED BY <2>1, <2>2, <2>3, <2>4 DEF GuardInv
<1>4. ASSUME NEW l, Staying(c, l)
      PROVE  GuardInv' /\ Where = pc[c] /\ Where' = l
  <2>1. holder = c /\ holder' = c /\ depth' = depth
    BY <1>2, <1>4 DEF Staying, guardVars
  <2>2. pc' \in [Callers -> Places] /\ pc'[c] = l /\ \A d \in Callers \ {c} : pc'[d] = pc[d]
    BY <1>4 DEF Staying, Goes, GuardInv, Places
  <2>3. Where = pc[c] /\ Where' = l
    BY <1>1, <2>1, <2>2 DEF Where
  <2>4. GuardMatches'
    BY <1>4, <2>1, <2>2 DEF Staying, GuardInv, GuardMatches
  <2> QED BY <1>4, <2>1, <2>2, <2>3, <2>4 DEF GuardInv, Staying
<1>5. ASSUME Leaving(c)
      PROVE  GuardInv' /\ Where = pc[c] /\ Where' = "idle"
  <2>1. holder = c /\ Where = pc[c]
    BY <1>1, <1>2, <1>5 DEF Leaving, Where
  <2>2. depth = 1 /\ depth' = 0 /\ holder' = Nobody
    BY <1>1, <1>5, <2>1 DEF Leaving, EndedOperation, GuardInv, GuardMatches
  <2>3. pc' \in [Callers -> Places] /\ pc'[c] = "idle" /\ \A d \in Callers \ {c} : pc'[d] = pc[d]
    BY <1>5 DEF Leaving, Goes, GuardInv, Places
  <2>4. GuardMatches'
    BY <1>1, <2>1, <2>2, <2>3 DEF GuardInv, GuardMatches, Operating, Detaching
  <2> QED BY <2>1, <2>2, <2>3, <2>4 DEF GuardInv, Where
<1>6. ASSUME NEW l, Waiting(c, l)
      PROVE  GuardInv' /\ Where' = Where
  <2>1. holder # c /\ holder' = holder /\ depth' = depth
    BY <1>2, <1>6 DEF Waiting, guardVars
  <2>2. pc' \in [Callers -> Places] /\ pc'[c] = l /\ \A d \in Callers \ {c} : pc'[d] = pc[d]
    BY <1>6 DEF Waiting, Goes, GuardInv, Places
  <2>3. Where' = Where
    BY <2>1, <2>2 DEF Where, GuardInv
  <2>4. GuardMatches'
    BY <1>6, <2>1, <2>2 DEF Waiting, GuardInv, GuardMatches
  <2> QED BY <2>1, <2>2, <2>3, <2>4 DEF GuardInv
<1> QED BY <1>1, <1>2, <1>3, <1>4, <1>5, <1>6

\* Nothing of the guard or of the callers' places changes.
LEMMA GuardSame ==
  ASSUME GuardInv, UNCHANGED <<guardVars, pc>>
  PROVE  GuardInv' /\ Where' = Where
BY DEF GuardInv, GuardMatches, Where, guardVars

-----------------------------------------------------------------------------
(* The bot's work. *)

\* Work ends, is cancelled, or goes on: none is new.
WorkShrinks ==
  /\ kind' \in [Works -> Kinds] /\ Alive' \subseteq Alive
  /\ UNCHANGED <<started, runtime, generation, born>>

LEMMA ShrinkKeeps ==
  ASSUME WorkInv, WorkShrinks
  PROVE  WorkInv'
BY DEF WorkInv, WorkShrinks, OneGeneration, Alive, Tasks, Threads, Kind

\* A turn of _detach_bot changes only where its caller waits, and cancels tasks.
TurnPlaces == {"gather", "drain", "last"}
Turned(c) ==
  /\ \E l \in TurnPlaces : Goes(c, l)
  /\ awaited' \subseteq Works /\ kind' \in [Works -> Kinds] /\ Alive' \subseteq Alive

LEMMA TurnFacts ==
  ASSUME WorkInv, NEW c \in Callers, Turn(c)
  PROVE  Turned(c)
<1>1. kind \in [Works -> Kinds]
  BY DEF WorkInv
<1>2. CASE CancelTasks(c)
  BY <1>1, <1>2 DEF CancelTasks, Turned, TurnPlaces, Goes, Await, Becomes, Alive, Tasks, Threads, Kind, Kinds
<1>3. CASE WaitForThread(c)
  BY <1>1, <1>3 DEF WaitForThread, Turned, TurnPlaces, Goes, Await, Becomes, Alive, Tasks, Threads, Kind, Kinds
<1>4. CASE YieldOnce(c)
  BY <1>1, <1>4 DEF YieldOnce, Turned, TurnPlaces, Goes, Await, Becomes, Alive, Tasks, Threads, Kind, Kinds
<1> QED BY <1>2, <1>3, <1>4 DEF Turn

\* A task starts under the hooks that are installed.
LEMMA StartsKeeps ==
  ASSUME WorkInv, NEW w \in Kind("unborn"), NEW k \in Kinds, Starts(w, k), runtime # 0,
         UNCHANGED envVars
  PROVE  WorkInv'
<1>1. w \in Works /\ kind' = [kind EXCEPT ![w] = k] /\ born' = [born EXCEPT ![w] = runtime]
  BY DEF Kind, Starts, Becomes
<1>2. runtime \in 0..MaxGeneration
  BY GenerationAssumption DEF WorkInv
<1>3. kind' \in [Works -> Kinds] /\ born' \in [Works -> 0..MaxGeneration]
  BY <1>1, <1>2 DEF WorkInv
<1>4. OneGeneration'
  BY <1>1 DEF WorkInv, OneGeneration, envVars, Alive, Tasks, Threads, Kind
<1> QED BY <1>3, <1>4 DEF WorkInv, envVars

-----------------------------------------------------------------------------
(* The parts of an operation. *)

Methods == {"none", "start", "restart_bot", "shutdown", "verb"}
Afters == {"attach", "attach_failed", "failed", "stop"}

LEMMA CleanupSame ==
  ASSUME CleanupInv, GuardInv, UNCHANGED preVars,
         UNCHANGED pc \/ \E c \in Callers, l \in Places : pc[c] \notin {"pre", "kept"} /\ Goes(c, l)
  PROVE  CleanupInv'
<1>1. CASE UNCHANGED pc
  BY <1>1 DEF CleanupInv, CleanupAwaited, preVars
<1>2. CASE \E c \in Callers, l \in Places : pc[c] \notin {"pre", "kept"} /\ Goes(c, l)
  BY <1>2 DEF CleanupInv, CleanupAwaited, preVars, Goes, GuardInv
<1> QED BY <1>1, <1>2

LEMMA LeavesKeeps ==
  ASSUME EnvInv, NEW c \in Callers, pc[c] \in Operating \ {"verb"}, Leaves(c)
  PROVE  GuardInv' /\ CallInv' /\ NextInv' /\ Goes(c, "idle")
<1>1. Leaving(c) /\ next' = "none" /\ awaited' = {} /\ late' = FALSE
      /\ op' = [op EXCEPT ![c] = "none"]
  BY DEF Leaves, Leaving, Returned, Await, Becomes, Goes
<1>2. GuardInv' /\ Where' = "idle"
  BY <1>1, GuardSteps DEF EnvInv
<1>3. CallInv'
  BY <1>1 DEF EnvInv, CallInv
<1>4. NextInv'
  BY <1>1, <1>2 DEF NextInv, Detaching
<1> QED BY <1>1, <1>2, <1>3, <1>4 DEF Leaving

\* A caller inside an operation begins to detach the bot.
LEMMA StayDetaches ==
  ASSUME EnvInv, NEW c \in Callers, pc[c] \in Operating \ {"verb"},
         NEW n \in Afters, Detach(c, n), UNCHANGED <<guardVars, op>>,
         n \in {"attach", "attach_failed"} => started',
         n = "attach" => generation' < MaxGeneration
  PROVE  GuardInv' /\ CallInv' /\ NextInv' /\ Turned(c)
<1>1. Turned(c) /\ next' = n /\ late' = FALSE
  BY TurnFacts DEF EnvInv, Detach
<1>2. PICK l \in TurnPlaces : Goes(c, l)
  BY <1>1 DEF Turned
<1>3. Staying(c, l)
  BY <1>2 DEF Staying, TurnPlaces, Operating, Detaching
<1>4. GuardInv' /\ Where' = l
  BY <1>3, GuardSteps DEF EnvInv
<1>5. CallInv'
  BY <1>1 DEF EnvInv, CallInv, Afters, Turned
<1>6. NextInv'
  BY <1>1, <1>4 DEF NextInv, TurnPlaces, Detaching, Afters
<1> QED BY <1>1, <1>4, <1>5, <1>6

\* A caller enters an operation and begins to detach the bot.
LEMMA EnterDetaches ==
  ASSUME EnvInv, NEW c \in Callers, pc[c] \notin Operating, NEW m \in Methods, Enters(c, m),
         NEW n \in {"failed", "stop"}, Detach(c, n)
  PROVE  GuardInv' /\ CallInv' /\ NextInv' /\ Turned(c)
<1>1. Turned(c) /\ next' = n /\ late' = FALSE /\ op' = [op EXCEPT ![c] = m]
  BY TurnFacts DEF EnvInv, Detach, Enters, Becomes
<1>2. PICK l \in TurnPlaces : Goes(c, l)
  BY <1>1 DEF Turned
<1>3. Entering(c, l)
  BY <1>2 DEF Entering, Enters, TurnPlaces, Operating, Detaching
<1>4. GuardInv' /\ Where' = l
  BY <1>3, GuardSteps DEF EnvInv
<1>5. CallInv'
  BY <1>1 DEF EnvInv, CallInv, Turned, Methods
<1>6. NextInv'
  BY <1>1, <1>4 DEF NextInv, TurnPlaces, Detaching
<1> QED BY <1>1, <1>4, <1>5, <1>6

\* While it detaches there is an operation that has something to do next.
LEMMA DetachingFacts ==
  ASSUME EnvInv, NEW c \in Callers, pc[c] \in Operating
  PROVE  Where = pc[c] /\ holder = c /\ (pc[c] \in Detaching <=> next \in Afters)
BY GuardSteps DEF EnvInv, GuardInv, GuardMatches, Where, NextInv, CallInv, Afters

LEMMA DetachRaisesKeeps ==
  ASSUME EnvInv, NEW c \in Callers, pc[c] \in Detaching, DetachRaises(c),
         UNCHANGED <<runtime, generation, born, preVars>>
  PROVE  EnvInv'
<1>1. pc[c] \in Operating \ {"verb"} /\ pc[c] \notin {"pre", "kept"}
  BY DEF Operating, Detaching
<1>2. /\ GuardInv' /\ CallInv' /\ NextInv'
      /\ \E l \in Places : Goes(c, l)
      /\ kind' \in [Works -> Kinds] /\ Alive' \subseteq Alive
  <2>1. CASE Leaves(c) /\ UNCHANGED kind
    BY <1>1, <2>1, LeavesKeeps
       DEF EnvInv, WorkInv, Places, Alive, Tasks, Threads, Kind
  <2>2. CASE Detach(c, "failed") /\ UNCHANGED guardVars /\ UNCHANGED op
    BY <1>1, <2>2, StayDetaches
       DEF EnvInv, Afters, Turned, TurnPlaces, Places, Operating, Detaching
  <2> QED BY <2>1, <2>2 DEF DetachRaises
<1>3. WorkInv'
  BY <1>2, ShrinkKeeps DEF EnvInv, WorkShrinks, DetachRaises
<1>4. CleanupInv'
  BY <1>1, <1>2, CleanupSame DEF EnvInv
<1> QED BY <1>2, <1>3, <1>4 DEF EnvInv

-----------------------------------------------------------------------------
(* The steps. *)

LEMMA BotKeeps ==
  ASSUME EnvInv, NEW w \in Works, Bot(w)
  PROVE  EnvInv'
<1>1. UNCHANGED <<envVars, guardVars, callVars, detachVars, preVars>>
  BY DEF Bot, Spawn, Called, EndWork
<1>2. GuardInv' /\ CallInv' /\ NextInv' /\ CleanupInv'
  BY <1>1, GuardSame, CleanupSame
     DEF EnvInv, CallInv, NextInv, envVars, callVars, detachVars, guardVars
<1>3. WorkInv'
  <2>1. CASE Spawn(w)
    <3>1. runtime # 0
      BY <2>1 DEF Spawn, EnvInv, WorkInv, OneGeneration, Alive
    <3>2. PICK v \in Kind("unborn"), k \in {"task", "thread", "callback"} : Starts(v, k)
      BY <2>1 DEF Spawn
    <3> QED BY <1>1, <3>1, <3>2, StartsKeeps DEF EnvInv, Kinds
  <2>2. CASE Called(w)
    <3>1. kind' \in [Works -> Kinds] /\ Alive' \subseteq Alive
      BY <2>2 DEF Called, Becomes, EnvInv, WorkInv, Kinds, Alive, Tasks, Threads, Kind
    <3> QED BY <1>1, <2>2, <3>1, ShrinkKeeps DEF EnvInv, WorkShrinks, Called, envVars
  <2>3. CASE EndWork(w)
    <3>1. kind' \in [Works -> Kinds] /\ Alive' \subseteq Alive
      BY <2>3 DEF EndWork, Becomes, EnvInv, WorkInv, Kinds, Alive, Tasks, Threads, Kind
    <3> QED BY <1>1, <2>3, <3>1, ShrinkKeeps DEF EnvInv, WorkShrinks, EndWork, envVars
  <2> QED BY <2>1, <2>2, <2>3 DEF Bot
<1> QED BY <1>2, <1>3 DEF EnvInv

LEMMA DispatchKeeps ==
  ASSUME EnvInv, NEW c \in Callers, Dispatch(c)
  PROVE  EnvInv'
<1>1. UNCHANGED <<envVars, guardVars, callVars, detachVars, preVars>>
  BY DEF Dispatch
<1>2. GuardInv' /\ CallInv' /\ NextInv' /\ CleanupInv'
  BY <1>1, GuardSame, CleanupSame
     DEF EnvInv, CallInv, NextInv, envVars, callVars, detachVars, guardVars
<1>3. WorkInv'
  BY <1>1, StartsKeeps DEF Dispatch, EnvInv, Kinds
<1> QED BY <1>2, <1>3 DEF EnvInv

\* Steps that leave the bot's work alone.
WorkSame == UNCHANGED <<envVars, workVars>>
LEMMA WorkSameKeeps ==
  ASSUME WorkInv, WorkSame
  PROVE  WorkInv'
BY DEF WorkInv, WorkSame, envVars, workVars, OneGeneration, Alive, Tasks, Threads, Kind

LEMMA GatheredKeeps ==
  ASSUME EnvInv, NEW c \in Callers, Gathered(c)
  PROVE  EnvInv'
<1>1. Staying(c, "swept") /\ pc[c] \notin {"pre", "kept"}
  BY DEF Gathered, Staying, Await, Becomes, Goes, Operating, Detaching
<1>2. GuardInv' /\ Where' = "swept" /\ Where = pc[c]
  BY <1>1, GuardSteps DEF EnvInv
<1>3. CallInv' /\ NextInv'
  BY <1>2 DEF Gathered, EnvInv, CallInv, NextInv, envVars, Detaching
<1>4. CleanupInv'
  BY <1>1, CleanupSame DEF Gathered, EnvInv, Staying, Places, Operating, Detaching
<1> QED BY <1>2, <1>3, <1>4, WorkSameKeeps DEF Gathered, EnvInv, WorkSame

LEMMA DetachTurnsKeeps ==
  ASSUME EnvInv, NEW c \in Callers, DetachTurns(c)
  PROVE  EnvInv'
<1>1. pc[c] \in Detaching
  BY DEF DetachTurns, Woken, Detaching
<1>2. CASE Overdue
  BY <1>1, <1>2, DetachRaisesKeeps DEF DetachTurns
<1>3. CASE ~Overdue
  <2>1. /\ Turn(c) /\ UNCHANGED <<started, guardVars, op, next, late>>
        /\ UNCHANGED <<runtime, generation, born, preVars>>
    BY <1>3 DEF DetachTurns
  <2>2. Turned(c)
    BY <2>1, TurnFacts DEF EnvInv
  <2>3. PICK l \in TurnPlaces : Goes(c, l)
    BY <2>2 DEF Turned
  <2>4. Staying(c, l) /\ l \in Places /\ pc[c] \notin {"pre", "kept"}
    BY <1>1, <2>1, <2>3 DEF Staying, TurnPlaces, Places, Operating, Detaching
  <2>5. GuardInv' /\ Where' = l /\ Where = pc[c]
    BY <2>4, GuardSteps DEF EnvInv
  <2>6. CallInv' /\ NextInv'
    BY <1>1, <2>1, <2>2, <2>5 DEF EnvInv, CallInv, NextInv, Turned, TurnPlaces, Detaching
  <2>7. CleanupInv'
    BY <2>1, <2>3, <2>4, CleanupSame DEF EnvInv
  <2>8. WorkInv'
    BY <2>1, <2>2, ShrinkKeeps DEF EnvInv, WorkShrinks, Turned
  <2> QED BY <2>5, <2>6, <2>7, <2>8 DEF EnvInv
<1> QED BY <1>2, <1>3

LEMMA DetachCancelledKeeps ==
  ASSUME EnvInv, NEW c \in Callers, DetachCancelled(c)
  PROVE  EnvInv'
BY DetachRaisesKeeps DEF DetachCancelled, Woken, Detaching

LEMMA DeadlineKeeps ==
  ASSUME EnvInv, DeadlinePasses
  PROVE  EnvInv'
<1>1. GuardInv' /\ Where' = Where
  BY GuardSame DEF DeadlinePasses, EnvInv, callVars
<1>2. CallInv' /\ NextInv'
  BY <1>1 DEF DeadlinePasses, EnvInv, CallInv, NextInv, envVars, callVars
<1> QED BY <1>1, <1>2, WorkSameKeeps, CleanupSame DEF DeadlinePasses, EnvInv, WorkSame, callVars

\* Once _detach_bot returns nothing of the old bot is alive.
LEMMA DetachDoneKeeps ==
  ASSUME EnvInv, NEW c \in Callers, DetachDone(c)
  PROVE  EnvInv'
<1>1. /\ kind' \in [Works -> Kinds] /\ Alive' = {}
      /\ born' = born
  BY DEF DetachDone, Restored, Quiet, EnvInv, WorkInv, Kinds, Alive, Tasks, Threads, Kind
<1>2. pc[c] = "last" /\ pc[c] \in Detaching /\ pc[c] \in Operating \ {"verb"} /\ Where = pc[c]
  BY DetachingFacts DEF DetachDone, Detaching, Operating
<1>3. CASE next = "attach"
  <2>1. /\ generation' = generation + 1 /\ generation + 1 \in 0..MaxGeneration
        /\ started /\ started' /\ UNCHANGED <<guardVars, op, awaited>>
        /\ late' = FALSE /\ UNCHANGED preVars
    BY <1>3, GenerationAssumption DEF DetachDone, EnvInv, NextInv, WorkInv
  <2>2. \/ runtime' = generation' /\ Goes(c, "attach") /\ next' = "none"
        \/ runtime' = 0 /\ Goes(c, "last") /\ next' = "failed"
    BY <1>3 DEF DetachDone, Await, Becomes, Goes
  <2>3. PICK l \in {"attach", "last"} :
          Goes(c, l) /\ (l = "attach" <=> next' = "none") /\ next' \in {"none", "failed"}
    BY <2>2
  <2>4. Staying(c, l)
    BY <1>2, <2>1, <2>3 DEF Staying, Operating, Detaching
  <2>5. GuardInv' /\ Where' = l
    BY <2>4, GuardSteps DEF EnvInv
  <2>6. CallInv' /\ NextInv'
    BY <2>1, <2>3, <2>5 DEF EnvInv, CallInv, NextInv, Detaching
  <2>7. WorkInv'
    BY <1>1, <2>1, <2>2 DEF EnvInv, WorkInv, OneGeneration
  <2>8. CleanupInv'
    BY <1>2, <2>1, <2>3, CleanupSame DEF EnvInv, Places, Operating, Detaching
  <2> QED BY <2>5, <2>6, <2>7, <2>8 DEF EnvInv
<1>4. CASE next = "attach_failed"
  <2>1. /\ runtime' = 0 /\ next' = "failed" /\ late' = FALSE
        /\ UNCHANGED <<started, generation, guardVars, callVars, awaited, preVars>>
    BY <1>4 DEF DetachDone
  <2>2. GuardInv' /\ Where' = Where
    BY <2>1, GuardSame DEF EnvInv, callVars
  <2>3. CallInv' /\ NextInv'
    BY <1>2, <2>1, <2>2 DEF EnvInv, CallInv, NextInv, callVars, Detaching
  <2>4. WorkInv'
    BY <1>1, <2>1 DEF EnvInv, WorkInv, OneGeneration
  <2>5. CleanupInv'
    BY <2>1, CleanupSame DEF EnvInv, callVars
  <2> QED BY <2>2, <2>3, <2>4, <2>5 DEF EnvInv
<1>5. CASE next \notin {"attach", "attach_failed"}
  <2>1. /\ runtime' = 0 /\ started' = FALSE /\ Leaves(c) /\ generation' = generation
        /\ UNCHANGED preVars
    BY <1>5 DEF DetachDone
  <2>2. GuardInv' /\ CallInv' /\ NextInv' /\ Goes(c, "idle")
    BY <1>2, <2>1, LeavesKeeps
  <2>3. WorkInv'
    BY <1>1, <2>1 DEF EnvInv, WorkInv, OneGeneration
  <2>4. CleanupInv'
    BY <1>2, <2>1, <2>2, CleanupSame DEF EnvInv, Places
  <2> QED BY <2>2, <2>3, <2>4 DEF EnvInv
<1> QED BY <1>3, <1>4, <1>5

LEMMA StartKeeps ==
  ASSUME EnvInv, NEW c \in Callers, Start(c)
  PROVE  EnvInv'
<1>1. /\ pc[c] = "idle" /\ pc[c] \notin Operating /\ Enters(c, "start")
      /\ started' = TRUE /\ generation' = generation + 1 /\ UNCHANGED <<born, preVars>>
      /\ generation + 1 \in 0..MaxGeneration
  BY GenerationAssumption DEF Start, EnvInv, WorkInv, Operating, Detaching
<1>2. runtime = 0 /\ Alive = {}
  BY DEF Start, EnvInv, WorkInv, OneGeneration
<1>3. CASE runtime' = generation' /\ Await(c, "attach") /\ UNCHANGED <<kind, detachVars>>
  <2>1. Entering(c, "attach") /\ op' = [op EXCEPT ![c] = "start"]
    BY <1>1, <1>3 DEF Entering, Enters, Await, Becomes, Goes, Operating
  <2>2. GuardInv' /\ Where' = "attach"
    BY <2>1, GuardSteps DEF EnvInv
  <2>3. holder = Nobody
    BY <2>1, GuardSteps DEF Entering, Free, EnvInv
  <2>4. CallInv' /\ NextInv'
    BY <1>1, <1>3, <2>1, <2>2, <2>3
       DEF EnvInv, CallInv, NextInv, detachVars, Where, Detaching
  <2>5. WorkInv'
    BY <1>1, <1>2, <1>3 DEF EnvInv, WorkInv, OneGeneration, Alive, Tasks, Threads, Kind
  <2>6. CleanupInv'
    BY <1>1, <2>1, CleanupSame DEF EnvInv, Entering, Places
  <2> QED BY <2>2, <2>4, <2>5, <2>6 DEF EnvInv
<1>4. CASE UNCHANGED runtime /\ Detach(c, "failed")
  <2>1. GuardInv' /\ CallInv' /\ NextInv' /\ Turned(c)
    BY <1>1, <1>4, EnterDetaches DEF Methods
  <2>2. WorkInv'
    BY <1>1, <1>2, <1>4, <2>1 DEF EnvInv, WorkInv, OneGeneration, Turned
  <2>3. CleanupInv'
    BY <1>1, <2>1, CleanupSame DEF EnvInv, Turned, TurnPlaces, Places, Operating, Detaching
  <2> QED BY <2>1, <2>2, <2>3 DEF EnvInv
<1> QED BY <1>3, <1>4 DEF Start

LEMMA AttachedKeeps ==
  ASSUME EnvInv, NEW c \in Callers, Attached(c)
  PROVE  EnvInv'
<1>1. /\ pc[c] = "attach" /\ pc[c] \in Operating \ {"verb"} /\ Where = pc[c]
      /\ UNCHANGED <<envVars, born, preVars>>
  BY DetachingFacts DEF Attached, Operating
<1>2. /\ GuardInv' /\ CallInv' /\ NextInv' /\ \E l \in Places : Goes(c, l)
      /\ kind' \in [Works -> Kinds] /\ Alive' \subseteq Alive
  <2>1. CASE Leaves(c) /\ UNCHANGED kind
    BY <1>1, <2>1, LeavesKeeps DEF EnvInv, WorkInv, Places, Alive, Tasks, Threads, Kind
  <2>2. CASE Detach(c, "attach_failed") /\ UNCHANGED <<guardVars, op>>
    <3>1. started'
      BY <1>1 DEF EnvInv, NextInv, envVars
    <3> QED BY <1>1, <2>2, <3>1, StayDetaches
            DEF Afters, Turned, TurnPlaces, Places, Operating, Detaching
  <2> QED BY <2>1, <2>2 DEF Attached
<1>3. WorkInv'
  BY <1>1, <1>2, ShrinkKeeps DEF EnvInv, WorkShrinks, envVars
<1>4. CleanupInv'
  BY <1>1, <1>2, CleanupSame DEF EnvInv
<1> QED BY <1>2, <1>3, <1>4 DEF EnvInv

LEMMA RestartKeeps ==
  ASSUME EnvInv, NEW c \in Callers, Restart(c)
  PROVE  EnvInv'
<1>1. /\ pc[c] = "idle" /\ pc[c] \notin Operating /\ Enters(c, "restart_bot")
      /\ UNCHANGED <<envVars, born, preVars>>
  BY DEF Restart, Operating, Detaching
<1>2. CASE started
  <2>1. generation < MaxGeneration /\ Await(c, "settle") /\ UNCHANGED <<kind, detachVars>>
    BY <1>2 DEF Restart
  <2>2. Entering(c, "settle") /\ op' = [op EXCEPT ![c] = "restart_bot"]
    BY <1>1, <2>1 DEF Entering, Enters, Await, Becomes, Goes, Operating
  <2>3. GuardInv' /\ Where' = "settle"
    BY <2>2, GuardSteps DEF EnvInv
  <2>4. holder = Nobody
    BY <2>2, GuardSteps DEF Entering, Free, EnvInv
  <2>5. CallInv' /\ NextInv'
    BY <1>1, <1>2, <2>1, <2>2, <2>3, <2>4
       DEF EnvInv, CallInv, NextInv, detachVars, envVars, Where, Detaching
  <2>6. CleanupInv'
    BY <1>1, <2>2, CleanupSame DEF EnvInv, Entering, Places
  <2> QED BY <1>1, <2>1, <2>3, <2>5, <2>6, WorkSameKeeps DEF EnvInv, WorkSame, workVars
<1>3. CASE ~started
  <2>1. Detach(c, "failed")
    BY <1>3 DEF Restart
  <2>2. GuardInv' /\ CallInv' /\ NextInv' /\ Turned(c)
    BY <1>1, <2>1, EnterDetaches DEF Methods
  <2>3. WorkInv'
    BY <1>1, <2>2, ShrinkKeeps DEF EnvInv, WorkShrinks, Turned, envVars
  <2>4. CleanupInv'
    BY <1>1, <2>2, CleanupSame DEF EnvInv, Turned, TurnPlaces, Places, Operating, Detaching
  <2> QED BY <2>2, <2>3, <2>4 DEF EnvInv
<1> QED BY <1>2, <1>3

LEMMA RestartSettledKeeps ==
  ASSUME EnvInv, NEW c \in Callers, RestartSettled(c)
  PROVE  EnvInv'
<1>1. /\ pc[c] = "settle" /\ pc[c] \in Operating \ {"verb"} /\ Where = pc[c]
      /\ UNCHANGED <<envVars, born, preVars>>
  BY DetachingFacts DEF RestartSettled, Operating
<1>2. /\ GuardInv' /\ CallInv' /\ NextInv' /\ \E l \in Places : Goes(c, l)
      /\ kind' \in [Works -> Kinds] /\ Alive' \subseteq Alive
  <2>1. CASE Leaves(c) /\ UNCHANGED kind
    BY <1>1, <2>1, LeavesKeeps DEF EnvInv, WorkInv, Places, Alive, Tasks, Threads, Kind
  <2>2. CASE \E n \in {"attach", "failed"} : Detach(c, n) /\ UNCHANGED <<guardVars, op>>
    <3>1. started' /\ generation' < MaxGeneration
      BY <1>1 DEF EnvInv, NextInv, envVars
    <3> QED BY <1>1, <2>2, <3>1, StayDetaches
            DEF Afters, Turned, TurnPlaces, Places, Operating, Detaching
  <2> QED BY <2>1, <2>2 DEF RestartSettled
<1>3. WorkInv'
  BY <1>1, <1>2, ShrinkKeeps DEF EnvInv, WorkShrinks, envVars
<1>4. CleanupInv'
  BY <1>1, <1>2, CleanupSame DEF EnvInv
<1> QED BY <1>2, <1>3, <1>4 DEF EnvInv

\* A verb inside a verb of the same task only counts.
LEMMA VerbKeeps ==
  ASSUME EnvInv, NEW c \in Callers, Verb(c)
  PROVE  EnvInv'
<1>1. /\ Goes(c, "verb") /\ op' = [op EXCEPT ![c] = "verb"] /\ Free(c) /\ Began(c) /\ depth < 2
      /\ UNCHANGED <<envVars, workVars, detachVars, preVars>>
  BY DEF Verb, Enters, Await, Becomes, Goes
<1>2. GuardInv' /\ Where' = "verb" /\ Where \in {"idle", "verb"}
  <2>1. CASE pc[c] = "idle"
    <3>1. Entering(c, "verb")
      BY <1>1, <2>1 DEF Entering, Operating, Detaching
    <3> QED BY <1>1, <2>1, <3>1, GuardSteps DEF EnvInv, Where, Free, Operating, Detaching
  <2>2. CASE pc[c] = "verb"
    <3>1. holder = c /\ holder' = c /\ depth' = depth + 1 /\ c # Nobody /\ pc' = pc
      BY <1>1, <2>2, GuardSteps DEF EnvInv, GuardInv, Began, Goes, Operating
    <3>2. Where = "verb" /\ Where' = "verb"
      BY <2>2, <3>1 DEF Where
    <3>3. depth' \in 0..2 /\ depth' # 0
      BY <1>1, <3>1 DEF EnvInv, GuardInv
    <3> QED BY <3>1, <3>2, <3>3 DEF EnvInv, GuardInv, GuardMatches
  <2> QED BY <2>1, <2>2 DEF Verb
<1>3. CallInv' /\ NextInv'
  BY <1>1, <1>2 DEF EnvInv, CallInv, NextInv, detachVars, Detaching
<1>4. CleanupInv'
  BY <1>1, CleanupSame DEF Verb, EnvInv, Places, Operating
<1> QED BY <1>1, <1>2, <1>3, <1>4, WorkSameKeeps DEF EnvInv, WorkSame

LEMMA VerbEndsKeeps ==
  ASSUME EnvInv, NEW c \in Callers, VerbEnds(c)
  PROVE  EnvInv'
<1>1. /\ pc[c] = "verb" /\ holder = c /\ c # Nobody /\ Where = "verb" /\ depth \in {1, 2}
      /\ UNCHANGED <<envVars, workVars, detachVars, preVars>>
  BY GuardSteps DEF VerbEnds, EnvInv, GuardInv, GuardMatches, Where, Operating
<1>2. CASE depth = 1
  <2>1. depth' = 0 /\ holder' = Nobody /\ Goes(c, "idle") /\ op' = [op EXCEPT ![c] = "none"]
    BY <1>2 DEF VerbEnds, EndedOperation, Returned, Await, Becomes, Goes
  <2>2. pc' \in [Callers -> Places] /\ pc'[c] = "idle" /\ \A d \in Callers \ {c} : pc'[d] = pc[d]
    BY <2>1 DEF Goes, EnvInv, GuardInv, Places
  <2>3. GuardInv' /\ Where' = "idle"
    <3>1. GuardMatches'
      BY <1>1, <2>1, <2>2, GenerationAssumption
         DEF EnvInv, GuardInv, GuardMatches, Operating, Detaching
    <3> QED BY <2>1, <2>2, <3>1 DEF GuardInv, Where
  <2>4. CallInv' /\ NextInv'
    BY <1>1, <2>1, <2>3 DEF EnvInv, CallInv, NextInv, detachVars, Detaching
  <2>5. CleanupInv'
    BY <1>1, <2>1, CleanupSame DEF EnvInv, Places
  <2> QED BY <1>1, <2>3, <2>4, <2>5, WorkSameKeeps DEF EnvInv, WorkSame
<1>3. CASE depth = 2
  <2>1. depth' = 1 /\ holder' = holder /\ UNCHANGED callVars
    BY <1>3 DEF VerbEnds, EndedOperation
  <2>2. GuardInv' /\ Where' = Where
    BY <1>1, <1>3, <2>1 DEF EnvInv, GuardInv, GuardMatches, Where, callVars
  <2>3. CallInv' /\ NextInv'
    BY <1>1, <2>1, <2>2 DEF EnvInv, CallInv, NextInv, detachVars, callVars, envVars
  <2>4. CleanupInv'
    BY <1>1, <2>1, CleanupSame DEF EnvInv, callVars
  <2> QED BY <1>1, <2>2, <2>3, <2>4, WorkSameKeeps DEF EnvInv, WorkSame
<1> QED BY <1>1, <1>2, <1>3

LEMMA PreviewKeeps ==
  ASSUME EnvInv, NEW c \in Callers, OpenPreview(c) \/ ClosePreview(c)
  PROVE  EnvInv'
<1>1. /\ UNCHANGED <<envVars, workVars, guardVars, callVars, detachVars>>
      /\ UNCHANGED <<cleanup, joined, complete>> /\ preview' \in {"none", "open"}
  BY DEF OpenPreview, ClosePreview
<1>2. GuardInv' /\ Where' = Where
  BY <1>1, GuardSame DEF EnvInv, callVars
<1>3. CallInv' /\ NextInv'
  BY <1>1, <1>2 DEF EnvInv, CallInv, NextInv, detachVars, callVars, envVars
<1>4. CleanupInv'
  BY <1>1 DEF EnvInv, CleanupInv, CleanupAwaited, callVars
<1> QED BY <1>1, <1>2, <1>3, <1>4, WorkSameKeeps DEF EnvInv, WorkSame

LEMMA CleanupStepsKeep ==
  ASSUME EnvInv, CleanupRuns
  PROVE  EnvInv'
<1>1. GuardInv' /\ Where' = Where
  BY GuardSame DEF CleanupRuns, EnvInv, callVars
<1>2. CallInv' /\ NextInv'
  BY <1>1 DEF CleanupRuns, EnvInv, CallInv, NextInv, detachVars, callVars, envVars
<1>3. CleanupInv'
  BY DEF CleanupRuns, EnvInv, CleanupInv, CleanupAwaited, callVars
<1> QED BY <1>1, <1>2, <1>3, WorkSameKeeps DEF CleanupRuns, EnvInv, WorkSame

\* The cleanup ends for all who wait for it at once.
LEMMA CleanupEndsKeeps ==
  ASSUME EnvInv, CleanupEnds
  PROVE  EnvInv'
<1>1. /\ UNCHANGED <<envVars, workVars, guardVars, op, detachVars, joined>>
      /\ cleanup' \in {"finished", "failed"} /\ complete' \in BOOLEAN
      /\ preview' \in {preview, "forgotten"}
  BY DEF CleanupEnds
<1>2. /\ pc' \in [Callers -> Places]
      /\ \A c \in Callers : \/ pc'[c] = pc[c]
                            \/ pc[c] \notin Operating /\ pc'[c] \notin Operating
  BY DEF CleanupEnds, EnvInv, GuardInv, Places, Operating, Detaching
<1>3. Where' = Where
  BY <1>1, <1>2 DEF EnvInv, GuardInv, GuardMatches, Where, guardVars
<1>4. GuardMatches'
  BY <1>1, <1>2 DEF EnvInv, GuardInv, GuardMatches, guardVars
<1>5. GuardInv'
  BY <1>1, <1>2, <1>3, <1>4 DEF EnvInv, GuardInv, guardVars
<1>6. CallInv' /\ NextInv'
  BY <1>1, <1>3 DEF EnvInv, CallInv, NextInv, detachVars, envVars
<1>7. CleanupInv'
  BY <1>1 DEF EnvInv, CleanupInv, CleanupAwaited
<1> QED BY <1>1, <1>5, <1>6, <1>7, WorkSameKeeps DEF EnvInv, WorkSame

LEMMA PreCancelledKeeps ==
  ASSUME EnvInv, NEW c \in Callers, PreCancelled(c)
  PROVE  EnvInv'
<1>1. Waiting(c, "kept") /\ UNCHANGED <<envVars, workVars, op, detachVars, preVars>>
  BY DEF PreCancelled, Waiting, Await, Becomes, Goes, Places, Operating, Detaching
<1>2. GuardInv' /\ Where' = Where
  BY <1>1, GuardSteps DEF EnvInv
<1>3. CallInv' /\ NextInv'
  BY <1>1, <1>2 DEF EnvInv, CallInv, NextInv, detachVars, envVars
<1>4. CleanupInv'
  BY <1>1 DEF EnvInv, CleanupInv, CleanupAwaited, preVars, Waiting, Goes, GuardInv
<1> QED BY <1>1, <1>2, <1>3, <1>4, WorkSameKeeps DEF EnvInv, WorkSame

\* A shutdown takes the guard and detaches, or finds another at work.
LEMMA ShutdownDetachesKeeps ==
  ASSUME EnvInv, NEW c \in Callers, pc[c] \notin Operating, ShutdownDetaches(c),
         UNCHANGED <<envVars, born>>
  PROVE  GuardInv' /\ CallInv' /\ NextInv' /\ WorkInv' /\ \E l \in Places : Goes(c, l)
<1>1. CASE Free(c)
  <2>1. Enters(c, "shutdown") /\ Detach(c, "stop")
    BY <1>1 DEF ShutdownDetaches
  <2>2. GuardInv' /\ CallInv' /\ NextInv' /\ Turned(c)
    BY <2>1, EnterDetaches DEF Methods
  <2>3. WorkInv'
    BY <2>2, ShrinkKeeps DEF EnvInv, WorkShrinks, Turned, envVars
  <2> QED BY <2>2, <2>3 DEF Turned, TurnPlaces, Places, Operating, Detaching
<1>2. CASE ~Free(c)
  <2>1. /\ Goes(c, "idle") /\ op' = [op EXCEPT ![c] = "none"]
        /\ UNCHANGED <<guardVars, detachVars, kind>>
    BY <1>2 DEF ShutdownDetaches, Returned, Await, Becomes, Goes
  <2>2. Waiting(c, "idle")
    BY <2>1 DEF Waiting, Places, Operating, Detaching
  <2>3. GuardInv' /\ Where' = Where
    BY <2>2, GuardSteps DEF EnvInv
  <2>4. CallInv' /\ NextInv'
    BY <2>1, <2>3 DEF EnvInv, CallInv, NextInv, detachVars, envVars
  <2> QED BY <2>1, <2>3, <2>4, WorkSameKeeps DEF EnvInv, WorkSame, workVars, Places
<1> QED BY <1>1, <1>2

LEMMA ShutdownKeeps ==
  ASSUME EnvInv, NEW c \in Callers, Shutdown(c)
  PROVE  EnvInv'
<1>1. pc[c] = "idle" /\ pc[c] \notin Operating /\ UNCHANGED <<envVars, born, preview, complete>>
  BY DEF Shutdown, Operating, Detaching
<1>2. CASE complete
  <2>1. ShutdownDetaches(c) /\ UNCHANGED <<cleanup, joined>>
    BY <1>2 DEF Shutdown
  <2>2. GuardInv' /\ CallInv' /\ NextInv' /\ WorkInv' /\ \E l \in Places : Goes(c, l)
    BY <1>1, <2>1, ShutdownDetachesKeeps
  <2>3. CleanupInv'
    BY <1>1, <2>1, <2>2, CleanupSame DEF EnvInv, preVars
  <2> QED BY <2>2, <2>3 DEF EnvInv
<1>3. CASE ~complete
  <2> DEFINE l == IF cleanup = "failed" THEN "uncleaned" ELSE "pre"
  <2>1. /\ op' = [op EXCEPT ![c] = "shutdown"] /\ Goes(c, l)
        /\ cleanup' = IF cleanup = "none" THEN "created" ELSE cleanup
        /\ joined' = IF cleanup = "none" THEN {c} ELSE joined \cup {c}
        /\ UNCHANGED <<guardVars, detachVars, kind>>
    BY <1>3 DEF Shutdown, Await, Becomes, Goes
  <2>2. Waiting(c, l)
    BY <1>1, <2>1 DEF Waiting, Places, Operating, Detaching
  <2>3. GuardInv' /\ Where' = Where
    BY <2>2, GuardSteps DEF EnvInv
  <2>4. CallInv' /\ NextInv'
    BY <1>1, <2>1, <2>3 DEF EnvInv, CallInv, NextInv, detachVars, envVars
  <2>5. CleanupInv'
    <3>1. pc'[c] = l /\ \A d \in Callers \ {c} : pc'[d] = pc[d]
      BY <2>1 DEF Goes, EnvInv, GuardInv
    <3> QED BY <1>1, <2>1, <3>1 DEF EnvInv, CleanupInv, CleanupAwaited
  <2> QED BY <1>1, <2>1, <2>3, <2>4, <2>5, WorkSameKeeps DEF EnvInv, WorkSame, workVars
<1> QED BY <1>2, <1>3

\* The task of a cleanup is forgotten once it is done.
LEMMA ForgetsKeeps ==
  ASSUME EnvInv, NEW c \in Callers, pc[c] \notin {"pre", "kept"}, Forgets(c),
         NEW l \in Places, Goes(c, l), UNCHANGED <<preview, complete>>
  PROVE  CleanupInv'
<1>1. CASE UNCHANGED <<cleanup, joined>>
  BY <1>1, CleanupSame DEF EnvInv, preVars
<1>2. CASE cleanup' = "none" /\ joined' = {}
  BY <1>2 DEF EnvInv, CleanupInv, CleanupAwaited
<1> QED BY <1>1, <1>2 DEF Forgets

LEMMA CleanedKeeps ==
  ASSUME EnvInv, NEW c \in Callers, Cleaned(c)
  PROVE  EnvInv'
<1>1. /\ pc[c] = "cleaned" /\ pc[c] \notin Operating /\ Forgets(c) /\ ShutdownDetaches(c)
      /\ UNCHANGED <<envVars, born, preview, complete>>
  BY DEF Cleaned, Operating, Detaching
<1>2. GuardInv' /\ CallInv' /\ NextInv' /\ WorkInv' /\ \E l \in Places : Goes(c, l)
  BY <1>1, ShutdownDetachesKeeps
<1>3. CleanupInv'
  BY <1>1, <1>2, ForgetsKeeps
<1> QED BY <1>2, <1>3 DEF EnvInv

LEMMA PreRaisesKeeps ==
  ASSUME EnvInv, NEW c \in Callers, PreRaises(c)
  PROVE  EnvInv'
<1>1. /\ Waiting(c, "idle") /\ op' = [op EXCEPT ![c] = "none"] /\ Forgets(c)
      /\ pc[c] \notin {"pre", "kept"}
      /\ UNCHANGED <<envVars, workVars, detachVars, preview, complete>>
  BY DEF PreRaises, Returned, Waiting, Await, Becomes, Goes, Places, Operating, Detaching
<1>2. GuardInv' /\ Where' = Where
  BY <1>1, GuardSteps DEF EnvInv
<1>3. CallInv' /\ NextInv'
  BY <1>1, <1>2 DEF EnvInv, CallInv, NextInv, detachVars, envVars
<1>4. CleanupInv'
  BY <1>1, ForgetsKeeps DEF Waiting
<1> QED BY <1>1, <1>2, <1>3, <1>4, WorkSameKeeps DEF EnvInv, WorkSame

LEMMA InitEnv == EnvInit => EnvInv
<1> SUFFICES ASSUME EnvInit
             PROVE  EnvInv
  OBVIOUS
<1>1. GuardInv
  BY GenerationAssumption
     DEF EnvInit, GuardInv, GuardMatches, Where, Places, Operating, Detaching
<1>2. WorkInv
  <2>1. /\ \A w \in Works : kind[w] = "unborn"
        /\ kind \in [Works -> Kinds] /\ born \in [Works -> 0..MaxGeneration]
    BY GenerationAssumption DEF EnvInit, Kinds
  <2>2. Alive = {}
    BY <2>1 DEF Alive, Tasks, Threads, Kind
  <2>3. OneGeneration
    BY <2>2 DEF EnvInit, OneGeneration
  <2>4. started \in BOOLEAN
    BY DEF EnvInit
  <2>5. generation \in 0..MaxGeneration /\ runtime \in {0, generation}
    BY GenerationAssumption DEF EnvInit
  <2> QED
    BY <2>1, <2>3, <2>4, <2>5 DEF WorkInv
<1>3. CallInv /\ NextInv /\ CleanupInv
  BY DEF EnvInit, CallInv, NextInv, CleanupInv, CleanupAwaited, Where, Detaching
<1> QED BY <1>1, <1>2, <1>3 DEF EnvInv

LEMMA EnvStep == EnvInv /\ [EnvNext]_lifeVars => EnvInv'
<1> SUFFICES ASSUME EnvInv, [EnvNext]_lifeVars
             PROVE  EnvInv'
  OBVIOUS
<1>1. CASE UNCHANGED lifeVars
  <2>1. GuardInv' /\ Where' = Where
    BY <1>1, GuardSame DEF EnvInv, lifeVars, callVars
  <2>2. CallInv' /\ NextInv' /\ CleanupInv'
    BY <1>1, <2>1, CleanupSame
       DEF EnvInv, CallInv, NextInv, lifeVars, detachVars, callVars, envVars
  <2> QED BY <1>1, <2>1, <2>2, WorkSameKeeps DEF EnvInv, WorkSame, lifeVars
<1>2. CASE DeadlinePasses \/ CleanupRuns \/ CleanupEnds \/ \E w \in Works : Bot(w)
  BY <1>2, DeadlineKeeps, CleanupStepsKeep, CleanupEndsKeeps, BotKeeps
<1>3. ASSUME NEW c \in Callers, Dispatch(c) \/ DetachStep(c) \/ DetachCancelled(c)
      PROVE  EnvInv'
  BY <1>3, DispatchKeeps, GatheredKeeps, DetachTurnsKeeps, DetachDoneKeeps, DetachCancelledKeeps
     DEF DetachStep
<1>4. ASSUME NEW c \in Callers, Start(c) \/ Attached(c) \/ Restart(c) \/ RestartSettled(c)
      PROVE  EnvInv'
  BY <1>4, StartKeeps, AttachedKeeps, RestartKeeps, RestartSettledKeeps
<1>5. ASSUME NEW c \in Callers, Verb(c) \/ VerbEnds(c) \/ OpenPreview(c) \/ ClosePreview(c)
      PROVE  EnvInv'
  BY <1>5, VerbKeeps, VerbEndsKeeps, PreviewKeeps
<1>6. ASSUME NEW c \in Callers, Shutdown(c) \/ PreCancelled(c) \/ PreStep(c)
      PROVE  EnvInv'
  BY <1>6, ShutdownKeeps, PreCancelledKeeps, CleanedKeeps, PreRaisesKeeps DEF PreStep
<1> QED BY <1>1, <1>2, <1>3, <1>4, <1>5, <1>6 DEF EnvNext

\* No step makes a cleanup that is not done forgotten.
LEMMA CleanupStays ==
  ASSUME [EnvNext]_lifeVars, cleanup \in {"created", "running"}
  PROVE  cleanup' # "none"
<1>1. CASE UNCHANGED preVars
  BY <1>1 DEF preVars
<1>2. CASE CleanupRuns \/ CleanupEnds
  BY <1>2 DEF CleanupRuns, CleanupEnds
<1>3. ASSUME NEW c \in Callers, OpenPreview(c) \/ ClosePreview(c) \/ Shutdown(c) \/ PreStep(c)
      PROVE  cleanup' # "none"
  BY <1>3 DEF OpenPreview, ClosePreview, Shutdown, PreStep, Cleaned, PreRaises, Forgets
<1>4. CASE UNCHANGED lifeVars \/ DeadlinePasses \/ \E w \in Works : Bot(w)
  BY <1>1, <1>4 DEF lifeVars, DeadlinePasses, Bot, Spawn, Called, EndWork
<1>5. ASSUME NEW c \in Callers, Dispatch(c) \/ DetachStep(c) \/ DetachCancelled(c)
      PROVE  UNCHANGED preVars
  BY <1>5 DEF Dispatch, DetachStep, Gathered, DetachTurns, DetachDone, DetachCancelled
<1>6. ASSUME NEW c \in Callers, Start(c) \/ Attached(c) \/ Restart(c) \/ RestartSettled(c)
                                  \/ Verb(c) \/ VerbEnds(c) \/ PreCancelled(c)
      PROVE  UNCHANGED preVars
  BY <1>6 DEF Start, Attached, Restart, RestartSettled, Verb, VerbEnds, PreCancelled
<1> QED BY <1>1, <1>2, <1>3, <1>4, <1>5, <1>6 DEF EnvNext

-----------------------------------------------------------------------------

\* For any number of callers, pieces of work and generations: the guard has the
\* one task that operates, no work outlives its hooks, and a cleanup in progress
\* is awaited and kept (_begin_operation, _detach_bot, _run_pre_shutdown).
THEOREM EnvIsKept == EnvSpec => EnvKept
<1>1. EnvInv => EnvTypeOK /\ GuardMatches /\ OneGeneration /\ CleanupAwaited
  BY DEF EnvInv, GuardInv, WorkInv, CallInv, CleanupInv, EnvTypeOK, Kinds, Places
<1>2. [EnvNext]_lifeVars => [(cleanup \in {"created", "running"}) => cleanup' # "none"]_lifeVars
  BY CleanupStays
<1> QED BY <1>1, <1>2, InitEnv, EnvStep, PTL DEF EnvSpec, EnvKept, CleanupKept

=============================================================================
