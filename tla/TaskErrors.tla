------------------------------ MODULE TaskErrors ------------------------------
(***************************************************************************)
(* _runtime.track_task and inspect_task, env._record_error, errors,        *)
(* raise_errors and the drain of _detach_bot: how an exception of a task   *)
(* the bot created comes to the test. The task that created it may still   *)
(* await it and handle it, so its inspection waits for that task; what     *)
(* nobody retrieved is recorded, once, and the test that did not look at   *)
(* the record fails at its end.                                            *)
(***************************************************************************)
EXTENDS Naturals, FiniteSets, Sequences, Functions

CONSTANTS
  MaxTasks,  \* bound on the tasks of the bot
  MaxBots    \* bound on its generations

ASSUME TaskErrorsAssumption == MaxTasks \in Nat /\ MaxBots \in Nat

\* tasks are numbered as they are created; an exception has the number of the task
\* that raised it first
Tasks == 1 .. MaxTasks
Driver == 0    \* the task of the test
Nothing == 0
Nobody == MaxTasks + 1

VARIABLES
  phase,     \* live, or the step of _detach_bot, or told: the test has ended
  bots,      \* generations so far
  status,    \* per task: none, running, ended, failed; the driver: running, ended
  raised,    \* per task: the exception it failed with
  log,       \* _log_traceback: nobody has retrieved it
  owner,     \* the task that created it, as long as that runs
  tracked,   \* _work.tasks
  waiting,   \* those with inspection_waiting
  queue,     \* inspections scheduled on the loop
  gathered,  \* to_cancel
  errors,    \* _errors
  acknowledged,
  failed,    \* what the end of the test raised
  excused,   \* exceptions that some task handled
  handled    \* those that were handled by their owner, nobody else having them, while
             \* the bot was live

taskVars  == <<status, raised, log>>
handledVars == <<excused, handled>>
trackVars == <<owner, tracked, waiting, queue>>
errorVars == <<errors, acknowledged, failed>>
taskErrorVars == <<phase, bots, taskVars, trackVars, gathered, errorVars, handledVars>>

Done(t) == status[t] \in {"ended", "failed"}
Accepting == phase \in {"live", "draining"}

\* _record_error: by identity
Recorded(seq, e) == IF e \in Range(seq) THEN seq ELSE Append(seq, e)

\* the records whose inspection a task's end sets off: its own, and those that wait for it
RetriedNever(t) == {}
Retried(t) == {u \in waiting : owner[u] = t}
Ends(t) ==
  /\ queue' = queue \cup ({t} \cap tracked) \cup Retried(t)
  /\ owner' = [u \in Tasks |-> IF owner[u] = t THEN Nobody ELSE owner[u]]

------------------------------------------------------------------------------
\* Tasks of the bot; the test creates some when it feeds an event

\* tracking_create_task, track_task
Create(t, o) ==
  /\ Accepting /\ status[t] = "none" /\ (t > 1 => status[t - 1] # "none")
  /\ status[o] = "running" /\ (o = Driver => phase = "live")
  /\ status' = [status EXCEPT ![t] = "running"]
  /\ owner' = [owner EXCEPT ![t] = o]
  /\ tracked' = tracked \cup {t}
  /\ UNCHANGED <<phase, bots, raised, log, waiting, queue, gathered, errorVars, handledVars>>

Fails(t, e) ==
  /\ status' = [status EXCEPT ![t] = "failed"]
  /\ raised' = [raised EXCEPT ![t] = e]

Fail(t) ==
  /\ status[t] = "running"
  /\ Fails(t, t) /\ log' = [log EXCEPT ![t] = TRUE]
  /\ Ends(t)
  /\ UNCHANGED <<phase, bots, tracked, waiting, gathered, errorVars, handledVars>>

\* it returns, or is cancelled
Finish(t) ==
  /\ status[t] = "running"
  /\ t = Driver => phase = "live" /\ gathered = {}
  /\ status' = [status EXCEPT ![t] = "ended"]
  /\ Ends(t)
  /\ UNCHANGED <<phase, bots, raised, log, tracked, waiting, gathered, errorVars, handledVars>>

Carriers(e) == {t \in Tasks : status[t] = "failed" /\ raised[t] = e}

\* a task awaits another that failed, and handles the exception or fails with it
Handle(o, t) ==
  /\ o # Driver /\ status[o] = "running" /\ status[t] = "failed"
  /\ log' = [log EXCEPT ![t] = FALSE]
  /\ excused' = excused \cup {raised[t]}
  /\ handled' = IF phase = "live" /\ Carriers(raised[t]) = {t} /\ o = owner[t]
                THEN handled \cup {raised[t]} ELSE handled
  /\ UNCHANGED <<phase, bots, status, raised, trackVars, gathered, errorVars>>

Propagate(o, t) ==
  /\ o # Driver /\ status[o] = "running" /\ status[t] = "failed"
  /\ Fails(o, raised[t])
  /\ log' = [log EXCEPT ![t] = FALSE, ![o] = TRUE]
  /\ Ends(o)
  /\ handled' = handled \ {raised[t]}
  /\ UNCHANGED <<phase, bots, tracked, waiting, gathered, errorVars, excused>>

------------------------------------------------------------------------------
\* Inspection

OwnerIgnored(t) == FALSE
OwnerBusy(t) == owner[t] # Nobody
Untracked(ts) == tracked' = tracked \ ts /\ waiting' = waiting \ ts

\* inspect_task, called by the loop
Inspect(t) ==
  /\ t \in queue
  /\ queue' = queue \ {t}
  /\ UNCHANGED <<phase, bots, status, raised, owner, gathered, acknowledged, failed, handledVars>>
  /\ IF t \notin tracked THEN UNCHANGED <<log, tracked, waiting, errors>>
     ELSE IF ~log[t] THEN Untracked({t}) /\ UNCHANGED <<log, errors>>
     ELSE IF OwnerBusy(t)
          THEN waiting' = waiting \cup {t} /\ UNCHANGED <<log, tracked, errors>>
     ELSE /\ errors' = Recorded(errors, raised[t])
          /\ log' = [log EXCEPT ![t] = FALSE]
          /\ Untracked({t})

------------------------------------------------------------------------------
\* _detach_bot

BeginDetach ==
  /\ phase = "live" /\ phase' = "draining"
  /\ UNCHANGED <<bots, taskVars, trackVars, gathered, errorVars, handledVars>>

Running == {t \in tracked : ~Done(t)}

\* cancels what runs and awaits it
Gather ==
  /\ phase = "draining" /\ gathered = {} /\ Running # {}
  /\ gathered' = Running
  /\ UNCHANGED <<phase, bots, taskVars, trackVars, errorVars, handledVars>>

\* _record_error for one task after the other, as they were created: an exception is
\* recorded for the first of the tasks that have it.
Firsts(ts, new) ==
  {f \in [1 .. Cardinality(new) -> ts] :
     /\ {raised[f[i]] : i \in DOMAIN f} = new
     /\ \A i, j \in DOMAIN f : i < j => f[i] < f[j]
     /\ \A i \in DOMAIN f, u \in ts : raised[u] = raised[f[i]] => f[i] <= u}
RecordedAll(seq, ts) ==
  {seq \o [i \in DOMAIN f |-> raised[f[i]]] :
     f \in Firsts(ts, {raised[t] : t \in ts} \ Range(seq))}

Gathered ==
  /\ gathered # {} /\ \A t \in gathered : Done(t)
  /\ LET bad == {t \in gathered : status[t] = "failed"} IN
       /\ errors' \in RecordedAll(errors, bad)
       /\ log' = [t \in DOMAIN log |-> log[t] /\ t \notin bad]
  /\ gathered' = {}
  /\ UNCHANGED <<phase, bots, status, raised, trackVars, acknowledged, failed, handledVars>>

\* what is left is inspected, whatever its owner does
Unretrieved == {t \in tracked : log[t]}
InspectRest ==
  /\ phase = "draining" /\ gathered = {} /\ Running = {}
  /\ phase' = "detached"
  /\ errors' \in RecordedAll(errors, Unretrieved)
  /\ log' = [t \in DOMAIN log |-> log[t] /\ t \notin Unretrieved]
  /\ Untracked(tracked)
  /\ UNCHANGED <<bots, status, raised, owner, queue, gathered, acknowledged, failed, handledVars>>

\* restart_bot
Reattach ==
  /\ phase = "detached" /\ bots < MaxBots
  /\ phase' = "live" /\ bots' = bots + 1
  /\ UNCHANGED <<taskVars, trackVars, gathered, errorVars, handledVars>>

------------------------------------------------------------------------------
\* The test reads env.errors, or has them raised
Acknowledge ==
  /\ phase = "live" /\ acknowledged < Len(errors)
  /\ acknowledged' = Len(errors)
  /\ UNCHANGED <<phase, bots, taskVars, trackVars, gathered, errors, failed, handledVars>>

\* run.__aexit__ and the fixture, after the shutdown
EndOfTest ==
  /\ phase = "detached" /\ phase' = "told"
  /\ failed' = SubSeq(errors, acknowledged + 1, Len(errors))
  /\ UNCHANGED <<bots, taskVars, trackVars, gathered, errors, acknowledged, handledVars>>

------------------------------------------------------------------------------
All == Tasks \cup {Driver}

ErrorsInit ==
  /\ phase = "live" /\ bots = 1
  /\ status = [t \in All |-> IF t = Driver THEN "running" ELSE "none"]
  /\ raised = [t \in All |-> Nothing] /\ log = [t \in All |-> FALSE]
  /\ owner = [t \in Tasks |-> Nobody] /\ tracked = {} /\ waiting = {} /\ queue = {}
  /\ gathered = {} /\ errors = <<>> /\ acknowledged = 0 /\ failed = <<>> /\ excused = {} /\ handled = {}

ErrorsNext ==
  \/ \E t \in Tasks : Fail(t) \/ Inspect(t) \/ (\E o \in All \ {t} : Create(t, o) \/ Handle(o, t) \/ Propagate(o, t))
  \/ \E t \in All : Finish(t)
  \/ BeginDetach \/ Gather \/ Gathered \/ InspectRest \/ Reattach \/ Acknowledge \/ EndOfTest

\* the loop runs what is scheduled; tasks and the test may take for ever
ErrorsSpec ==
  /\ ErrorsInit /\ [][ErrorsNext]_taskErrorVars
  /\ \A t \in Tasks : WF_taskErrorVars(Inspect(t))

------------------------------------------------------------------------------
Raised == {raised[t] : t \in {u \in Tasks : status[u] = "failed"}}

(***************************************************************************)
(* Every error is told truly: recorded at most once however many tasks it  *)
(* passed through, never when the task that made its task handled it       *)
(* while the bot was live, and always, once the bot is detached, when no   *)
(* task handled it. The end of the test fails with exactly what had not    *)
(* been acknowledged.                                                      *)
(***************************************************************************)
ErrorsTold ==
  /\ IsInjective(errors)
  /\ handled \cap Range(errors) = {}
  /\ phase \in {"detached", "told"} => Raised \subseteq Range(errors) \cup excused
  /\ phase = "told" => errors = SubSeq(errors, 1, acknowledged) \o failed

(***************************************************************************)
(* An error nobody can retrieve any more comes to the record by itself,    *)
(* without waiting for the bot to be detached.                             *)
(***************************************************************************)
ErrorsSurface ==
  \A t \in Tasks :
    (t \in tracked /\ log[t] /\ ~OwnerBusy(t)) ~> ~log[t]
=============================================================================
