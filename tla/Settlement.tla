----------------------------- MODULE Settlement -----------------------------
(***************************************************************************)
(* env.py and _settlement.py: settlement and virtual time.                 *)
(*                                                                         *)
(* Two coroutines settle the bot's work on one event loop: a public        *)
(* operation ("op": settle, an actor verb or advance_time), and the        *)
(* automatic coordinator ("auto": advance_real) that a timer's wall-clock  *)
(* fallback starts. Between their awaits run the bot's tasks, fallbacks    *)
(* and external input; worker threads may wake a task at any step.         *)
(*                                                                         *)
(* now is virtual time, absolute. Wall-clock time is counted down: left[p] *)
(* is what remains to p's deadline, real[w] to the fallback of w's timer.  *)
(***************************************************************************)
EXTENDS Integers, FiniteSets, FiniteSetsExt

CONSTANTS
  Tasks,     \* tasks of the bot, each with at most one timer
  MaxTime,   \* bound on virtual time
  Timeout,   \* Env.settle_timeout
  Batch      \* _DUE_CALLBACK_BATCH

ASSUME BoundsAssumption ==
  MaxTime \in Nat \ {0} /\ Timeout \in Nat \ {0} /\ Batch \in Nat \ {0}

Settlers == {"op", "auto"}
Never    == -1

VARIABLES
  now,         \* backend.clock.elapsed
  status,      \* what a task is doing
  when,        \* virtual time its timer fires
  real,        \* wall-clock time to the fallback of its timer, or Never
  resources,   \* deadlines of polls, events and entitlements not processed yet
  pc,          \* where a settler is; "none", "done", "failed": _real_advance_task
  stage,       \* which settle of _advance_to it runs
  target,      \* target of _advance_to
  left,        \* wall-clock time to its deadline
  stable,      \* stable_empty
  dirty,       \* _work.revision differs from the one it read last
  ahead,       \* handles the loop runs before it resumes from sleep(0)
  progress,    \* whose future _work.progress is
  notifying,   \* _work.notify_scheduled
  poked,       \* the future a settler waits on is set
  horizon,     \* _real_due_target
  advancing,   \* _advancing
  advanceTask, \* _advance_task
  received     \* operations that were given the failure of auto

botVars  == <<status, when, real>>
timeVars == <<now, resources>>
waitVars == <<progress, notifying, poked>>
advVars  == <<horizon, advancing, advanceTask>>
ownVars  == <<stage, target, left, stable, ahead>>
vars == <<botVars, timeVars, waitVars, advVars, ownVars, pc, dirty, received>>

\* The loop's thread is inside a settler, between two awaits.
Busy == {"enter", "top", "scan", "arming", "check", "returned", "failing"}
LoopFree == \A p \in Settlers : pc[p] \notin Busy

AutoEnded == {"none", "done", "failed"}
AutoLive  == pc["auto"] \notin AutoEnded

Put(f, x, v) == [f EXCEPT ![x] = v]
Goto(p, l)   == pc' = Put(pc, p, l)

Idle     == {w \in Tasks : status[w] = "idle"}
Pending  == Tasks \ Idle
Timed    == {w \in Tasks : status[w] \in {"sleep", "listen"}}
Due      == {w \in Timed : when[w] <= now}
Woken(W) == [w \in Tasks |-> IF w \in W THEN "ready" ELSE status[w]]

\* The loop runs its handles in the order they were queued.
Handles == {w \in Tasks : status[w] = "ready"}
             \cup (IF notifying THEN {"_notify"} ELSE {})
             \cup (IF pc["auto"] = "created" THEN {"advance_real"} ELSE {})
Ran(h)  == ahead' = [p \in Settlers |-> ahead[p] \ {h}]

\* _WorkState.changed: the revision moves, an armed settler is notified.
Revised == [p \in Settlers |-> pc[p] \in {"yield", "scan", "arming", "check", "armed"}]
Changed == dirty' = Revised /\ notifying' = (notifying \/ progress # "none")

Init ==
  /\ now = 0 /\ resources = {}
  /\ status = [w \in Tasks |-> "idle"]
  /\ when = [w \in Tasks |-> 0]
  /\ real = [w \in Tasks |-> Never]
  /\ pc = [p \in Settlers |-> IF p = "op" THEN "idle" ELSE "none"]
  /\ stage = [p \in Settlers |-> "none"]
  /\ target = [p \in Settlers |-> 0]
  /\ left = [p \in Settlers |-> 0]
  /\ stable = [p \in Settlers |-> 0]
  /\ dirty = [p \in Settlers |-> FALSE]
  /\ ahead = [p \in Settlers |-> {}]
  /\ progress = "none" /\ notifying = FALSE
  /\ poked = [p \in Settlers |-> FALSE]
  /\ horizon = Never /\ advancing = FALSE /\ advanceTask = "none"
  /\ received = 0

-----------------------------------------------------------------------------
(* The bot, and the world around it.                                       *)

\* One step of a task: it ends, or awaits a timer, a recognized wait with or
\* without a real fallback, or something settlement does not know; it may
\* start another task or create a resource with a deadline.
RunTask(w) ==
  /\ LoopFree /\ status[w] = "ready"
  /\ \E spawned \in SUBSET Idle, next \in {"idle", "blocked", "sleep", "listen"},
        at \in now..MaxTime :
       /\ Cardinality(spawned) <= 1
       /\ next \in {"sleep", "listen"} <=> at > now
       /\ status' = Put(Woken(spawned), w, next)
       /\ when' = Put(when, w, IF at > now THEN at ELSE 0)
       /\ \E fallback \in {Never, at - now} :
            /\ at = now => fallback = Never
            /\ next = "sleep" => fallback # Never
            /\ real' = Put(real, w, fallback)
  /\ \E created \in SUBSET ((now + 1)..MaxTime) :
       Cardinality(created) <= 1 /\ resources' = resources \cup created
  /\ Ran(w) /\ Changed
  /\ UNCHANGED <<now, stage, target, left, stable, advVars, pc, progress, poked, received>>

\* Input resolves a wait: an event of the gateway, or test code.
ExternalInput(w) ==
  /\ status[w] \in {"listen", "blocked"}
  /\ LoopFree \/ status[w] = "blocked"
  /\ status' = Woken({w})
  /\ when' = Put(when, w, 0)
  /\ real' = Put(real, w, Never)
  /\ Changed
  /\ UNCHANGED <<timeVars, ownVars, advVars, pc, progress, poked, received>>

\* Wall-clock time passes, for the loop and for what waits on it.
Less(n) == IF n > 0 THEN n - 1 ELSE n
Tick ==
  /\ real' = [w \in Tasks |-> Less(real[w])]
  /\ left' = [p \in Settlers |-> Less(left[p])]
  /\ <<real', left'>> # <<real, left>>
  /\ UNCHANGED <<timeVars, status, when, waitVars, advVars, stage, target, stable, ahead, pc, dirty, received>>

-----------------------------------------------------------------------------
(* Resource deadlines.                                                     *)

\* Processing what is due at t hands its events to the bot, which may start
\* tasks for them.
ProcessResources(t) ==
  /\ resources' = {d \in resources : d > t}
  /\ \E started \in SUBSET Idle :
       /\ resources' = resources => started = {}
       /\ status' = Woken(started)

\* Mutant: only timers are looked at for the next instant.
NextTimer(limit) ==
  Min({limit} \cup {IF i > now THEN i ELSE now : i \in {when[w] : w \in Timed}})

NextInstant(limit) ==
  Min({limit} \cup {IF i > now THEN i ELSE now : i \in resources \cup {when[w] : w \in Timed}})

\* _move_clock
MoveClock(limit) == now' = NextInstant(limit) /\ ProcessResources(now')

-----------------------------------------------------------------------------
(* _settle_internal                                                        *)

\* _run_due_virtual_callbacks: all that is due, unless the batch is full or
\* the deadline passed after the first.
Top(p) ==
  /\ pc[p] = "top"
  /\ \E ran \in SUBSET Due :
       /\ ran = Due \/ Cardinality(ran) = Batch \/ (left[p] = 0 /\ ran # {})
       /\ Cardinality(ran) <= Batch
       /\ status' = Woken(ran)
       /\ when' = [w \in Tasks |-> IF w \in ran THEN 0 ELSE when[w]]
       /\ real' = [w \in Tasks |-> IF w \in ran THEN Never ELSE real[w]]
       /\ IF ran = {} THEN dirty' = Put(dirty, p, FALSE) /\ UNCHANGED notifying
          ELSE dirty' = Put(Revised, p, FALSE) /\ notifying' = (notifying \/ progress # "none")
  /\ Goto(p, "yield")
  /\ ahead' = Put(ahead, p, Handles')
  /\ UNCHANGED <<timeVars, stage, target, left, stable, advVars, progress, poked, received>>

\* After sleep(0): join a coordinator that runs or left its result; drain
\* what moved in the meantime; or classify what is left.
Resume(p) ==
  /\ LoopFree /\ pc[p] = "yield" /\ ahead[p] = {}
  /\ \/ /\ p = "op" /\ pc["auto"] # "none"
        /\ Goto(p, IF AutoLive THEN "join" ELSE "joined")
        /\ UNCHANGED <<stable, dirty>>
     \/ /\ p = "auto" \/ pc["auto"] = "none"
        /\ dirty[p] /\ left[p] > 0
        /\ stable' = Put(stable, p, 0)
        /\ Goto(p, "top") /\ UNCHANGED dirty
     \/ /\ p = "auto" \/ pc["auto"] = "none"
        /\ ~dirty[p] \/ left[p] = 0
        /\ dirty' = Put(dirty, p, FALSE)
        /\ Goto(p, "scan") /\ UNCHANGED stable
  /\ UNCHANGED <<botVars, timeVars, waitVars, advVars, stage, target, left, ahead, received>>

\* _callback_is_parked for a timer whose task sleeps: neither due nor within
\* reach of its real fallback before the deadline.
Beyond(p, w) == when[w] > now /\ (advancing \/ real[w] = Never \/ real[w] > left[p])

Parked(p, w) == status[w] = "listen" \/ (status[w] = "sleep" /\ Beyond(p, w))

\* _active_callbacks, once recognized waits lost their fallbacks.
Active(p) == {w \in Tasks : \/ status[w] = "ready"
                            \/ w \in Due
                            \/ (status[w] = "sleep" /\ ~Beyond(p, w))}

\* _virtualize_recognized_waits
Virtualized == [w \in Tasks |-> IF status[w] = "listen" THEN Never ELSE real[w]]

\* The coordinator steps to the next instant up to its horizon, even when
\* something is blocked.
Steps(p) ==
  /\ p = "auto" /\ AutoLive /\ horizon > now
  /\ left[p] > 0 /\ Active(p) = {}

Quiet(p) == Active(p) = {} /\ \A w \in Pending : Parked(p, w)

StepHorizon(p) ==
  /\ pc[p] = "scan" /\ Steps(p)
  /\ MoveClock(horizon)
  /\ real' = Virtualized
  /\ stable' = Put(stable, p, 0)
  /\ Goto(p, "top")
  /\ IF status' = status THEN UNCHANGED <<dirty, notifying>> ELSE Changed
  /\ UNCHANGED <<when, advVars, stage, target, left, ahead, progress, poked, received>>

\* Two quiet passes in a row end the settle.
QuietPass(p) ==
  /\ pc[p] = "scan" /\ ~Steps(p) /\ Quiet(p)
  /\ real' = Virtualized
  /\ stable' = Put(stable, p, (stable[p] + 1) % 2)
  /\ Goto(p, IF stable[p] = 1 THEN "returned" ELSE "top")
  /\ UNCHANGED <<status, when, timeVars, waitVars, advVars, stage, target, left, ahead, dirty, received>>

BusyPass(p) ==
  /\ pc[p] = "scan" /\ ~Steps(p) /\ ~Quiet(p)
  /\ real' = Virtualized
  /\ stable' = Put(stable, p, 0)
  /\ Goto(p, IF left[p] = 0 THEN "failing" ELSE IF Due # {} THEN "top" ELSE "arming")
  /\ UNCHANGED <<status, when, timeVars, waitVars, advVars, stage, target, left, ahead, dirty, received>>

\* self._work.progress = progress, then the revision is read again.
Arm(p) ==
  /\ pc[p] = "arming"
  /\ progress' = p /\ poked' = Put(poked, p, FALSE)
  /\ Goto(p, "check")
  /\ UNCHANGED <<botVars, timeVars, ownVars, advVars, notifying, dirty, received>>

\* Mutant: the revision is not read again once the future is armed.
CheckNothing(p) ==
  /\ pc[p] = "check"
  /\ Goto(p, "armed")
  /\ UNCHANGED <<botVars, timeVars, ownVars, waitVars, advVars, dirty, received>>

Check(p) ==
  /\ pc[p] = "check"
  /\ IF dirty[p] THEN Goto(p, "top") /\ progress' = "none"
     ELSE Goto(p, "armed") /\ UNCHANGED progress
  /\ UNCHANGED <<botVars, timeVars, ownVars, advVars, notifying, poked, dirty, received>>

\* _notify, queued on the loop by changed.
Notify ==
  /\ LoopFree /\ notifying
  /\ notifying' = FALSE
  /\ poked' = IF progress = "none" THEN poked ELSE Put(poked, progress, TRUE)
  /\ Ran("_notify")
  /\ UNCHANGED <<botVars, timeVars, stage, target, left, stable, advVars, progress, pc, dirty, received>>

\* The future is set, or the idle interval passed.
Wake(p) ==
  /\ LoopFree /\ pc[p] = "armed"
  /\ progress' = "none"
  /\ poked' = Put(poked, p, FALSE)
  /\ Goto(p, "top")
  /\ UNCHANGED <<botVars, timeVars, ownVars, advVars, notifying, dirty, received>>

\* asyncio.wait((advancing,)) ended: the result of the coordinator is taken,
\* a failure is the operation's.
Joined(p) ==
  /\ LoopFree /\ pc[p] = "joined"
  /\ pc' = [pc EXCEPT !["auto"] = IF AutoLive THEN @ ELSE "none",
                      ![p] = IF pc["auto"] = "failed" THEN "failing" ELSE "top"]
  /\ received' = IF pc["auto"] = "failed" THEN received + 1 ELSE received
  /\ UNCHANGED <<botVars, timeVars, ownVars, waitVars, advVars, dirty>>

JoinTimesOut(p) ==
  /\ LoopFree /\ pc[p] = "join" /\ left[p] = 0
  /\ Goto(p, "failing")
  /\ UNCHANGED <<botVars, timeVars, ownVars, waitVars, advVars, dirty, received>>

-----------------------------------------------------------------------------
(* _advance_to                                                             *)

\* Becomes the one that advances, and processes what is due before its first
\* settle.
Takes(p) ==
  /\ advanceTask' = p /\ advancing' = TRUE
  /\ ProcessResources(now)
  /\ stage' = Put(stage, p, "loop") /\ stable' = Put(stable, p, 0)
  /\ Goto(p, "top")
  /\ IF status' = status THEN UNCHANGED <<dirty, notifying>> ELSE Changed
  /\ UNCHANGED <<now, when, real, horizon, target, left, ahead, progress, poked, received>>

Enter(p) ==
  /\ pc[p] = "enter"
  /\ IF advanceTask = "none" THEN Takes(p)
     ELSE /\ Goto(p, "shield")
          /\ UNCHANGED <<botVars, timeVars, ownVars, waitVars, advVars, dirty, received>>

\* The task it waited for ended; its failure is raised here too.
Shielded(p) ==
  /\ LoopFree /\ pc[p] = "shielded"
  /\ IF pc["auto"] = "failed"
     THEN /\ Goto(p, "failing")
          /\ received' = received + 1
          /\ UNCHANGED <<botVars, timeVars, ownVars, waitVars, advVars, dirty>>
     ELSE Takes(p)

ShieldTimesOut(p) ==
  /\ LoopFree /\ pc[p] = "shield" /\ left[p] = 0
  /\ Goto(p, "failing")
  /\ UNCHANGED <<botVars, timeVars, ownVars, waitVars, advVars, dirty, received>>

\* A settle of the loop returned: step to the next instant, or, at the
\* target, process what is due and settle once more.
Advances(p) ==
  /\ pc[p] = "returned" /\ stage[p] = "loop"
  /\ IF now < target[p] /\ left[p] = 0
     THEN /\ Goto(p, "failing")
          /\ UNCHANGED <<status, timeVars, stage, waitVars, dirty>>
     ELSE /\ IF now < target[p]
             THEN MoveClock(target[p]) /\ UNCHANGED stage
             ELSE ProcessResources(now) /\ stage' = Put(stage, p, "last") /\ UNCHANGED now
          /\ Goto(p, "top")
          /\ IF status' = status THEN UNCHANGED <<dirty, notifying>> ELSE Changed
          /\ UNCHANGED <<progress, poked>>
  /\ UNCHANGED <<when, real, target, left, stable, ahead, advVars, received>>

\* The finally of _advance_to and, for the coordinator, of advance_real; a
\* task that waits for the coordinator goes on.
Ends(p, outcome) ==
  /\ IF stage[p] \in {"loop", "last"}
     THEN advancing' = FALSE /\ advanceTask' = "none"
     ELSE UNCHANGED <<advancing, advanceTask>>
  /\ horizon' = IF p = "auto" THEN Never ELSE horizon
  /\ pc' = IF p = "op" THEN Put(pc, p, "idle")
           ELSE [auto |-> outcome,
                 op |-> IF pc["op"] = "join" THEN "joined"
                        ELSE IF pc["op"] = "shield" THEN "shielded" ELSE pc["op"]]
  /\ stage' = Put(stage, p, "none") /\ target' = Put(target, p, 0)
  /\ left' = Put(left, p, 0) /\ stable' = Put(stable, p, 0) /\ UNCHANGED ahead
  /\ dirty' = Put(dirty, p, FALSE)
  /\ UNCHANGED <<botVars, timeVars, waitVars, received>>

Succeeds(p) == pc[p] = "returned" /\ stage[p] \in {"plain", "last"} /\ Ends(p, "done")
Fails(p)    == pc[p] = "failing" /\ Ends(p, "failed")

-----------------------------------------------------------------------------
(* What starts settlers: public operations and fallbacks of timers.        *)

\* A verb hands the bot an event, then settles; settle() only settles.
BeginSettle ==
  /\ LoopFree /\ pc["op"] = "idle"
  /\ \E started \in SUBSET Idle : status' = Woken(started)
  /\ stage' = Put(stage, "op", "plain") /\ left' = Put(left, "op", Timeout)
  /\ Goto("op", "top")
  /\ IF status' = status THEN UNCHANGED <<dirty, notifying>> ELSE Changed
  /\ UNCHANGED <<when, real, timeVars, target, stable, ahead, advVars, progress, poked, received>>

BeginAdvance ==
  /\ LoopFree /\ pc["op"] = "idle"
  /\ \E to \in now..MaxTime : target' = Put(target, "op", to)
  /\ left' = Put(left, "op", Timeout)
  /\ Goto("op", "enter")
  /\ UNCHANGED <<botVars, timeVars, stage, stable, ahead, waitVars, advVars, dirty, received>>

StartsCoordinator == ~advancing /\ ~AutoLive /\ pc["auto"] # "failed"

\* Mutant: the fallback of a timer is not armed again.
RearmedNever(w) == Never

Rearmed(w) == IF when[w] > now THEN when[w] - now ELSE Never

\* run_real, for a timer that only resumes a recognized wait: the timer is
\* the virtual clock's alone.
FallbackStripped(w) == status[w] = "listen" /\ real' = Put(real, w, Never)

\* run_real: the fallback is armed again while its instant is not reached,
\* extends a running coordinator, or starts one.
Fallback(w) ==
  /\ LoopFree /\ w \in Timed /\ real[w] = 0
  /\ \/ /\ FallbackStripped(w)
        /\ UNCHANGED <<horizon, pc, target, dirty, notifying, received>>
     \/ /\ status[w] = "sleep"
        /\ real' = Put(real, w, Rearmed(w))
        /\ LET extends == AutoLive /\ when[w] > horizon
               starts  == StartsCoordinator
           IN /\ IF extends THEN Changed ELSE UNCHANGED <<dirty, notifying>>
              /\ horizon' = IF extends THEN when[w]
                            ELSE IF starts THEN IF when[w] > now THEN when[w] ELSE now
                            ELSE horizon
              /\ IF starts
                 THEN /\ target' = Put(target, "auto", when[w])
                      /\ Goto("auto", "created") /\ received' = 0
                 ELSE UNCHANGED <<target, pc, received>>
  /\ UNCHANGED <<status, when, timeVars, stage, left, stable, ahead, progress, poked, advancing, advanceTask>>

\* advance_real takes its first step.
AutoStarts ==
  /\ LoopFree /\ pc["auto"] = "created"
  /\ target' = Put(target, "auto", IF target["auto"] > now THEN target["auto"] ELSE now)
  /\ left' = Put(left, "auto", Timeout)
  /\ Goto("auto", "enter") /\ Ran("advance_real")
  /\ UNCHANGED <<botVars, timeVars, stage, stable, waitVars, advVars, dirty, received>>

-----------------------------------------------------------------------------

Settle(p) ==
  \/ Top(p) \/ Resume(p) \/ StepHorizon(p) \/ QuietPass(p) \/ BusyPass(p)
  \/ Arm(p) \/ Check(p) \/ Wake(p) \/ Joined(p) \/ JoinTimesOut(p)

Advance(p) ==
  \/ Enter(p) \/ Shielded(p) \/ ShieldTimesOut(p) \/ Advances(p)
  \/ Succeeds(p) \/ Fails(p)

BotSteps == \E w \in Tasks : RunTask(w) \/ ExternalInput(w) \/ Fallback(w)

Next ==
  \/ \E p \in Settlers : Settle(p) \/ Advance(p)
  \/ BotSteps \/ Notify \/ BeginSettle \/ BeginAdvance \/ AutoStarts \/ Tick

Spec == Init /\ [][Next]_vars

\* The loop runs what is queued, and wall-clock time passes. Nothing obliges a
\* test to begin an operation or to send input.
Fairness ==
  /\ \A p \in Settlers : WF_vars(Settle(p) \/ Advance(p))
  /\ \A w \in Tasks : WF_vars(RunTask(w)) /\ WF_vars(Fallback(w))
  /\ WF_vars(Notify) /\ WF_vars(AutoStarts) /\ WF_vars(Tick)

FairSpec == Spec /\ Fairness

-----------------------------------------------------------------------------
(* Properties                                                              *)

TypeOK ==
  /\ now \in 0..MaxTime /\ resources \subseteq 0..MaxTime
  /\ status \in [Tasks -> {"idle", "ready", "blocked", "sleep", "listen"}]
  /\ when \in [Tasks -> 0..MaxTime] /\ real \in [Tasks -> Never..MaxTime]
  /\ pc \in [Settlers -> Busy \cup {"idle", "none", "done", "failed", "created", "yield",
                                    "join", "joined", "armed", "shield", "shielded"}]
  /\ stage \in [Settlers -> {"none", "plain", "loop", "last"}]
  /\ target \in [Settlers -> 0..MaxTime] /\ left \in [Settlers -> 0..Timeout]
  /\ ahead \in [Settlers -> SUBSET (Tasks \cup {"_notify", "advance_real"})]
  /\ stable \in [Settlers -> 0..1] /\ dirty \in [Settlers -> BOOLEAN]
  /\ progress \in Settlers \cup {"none"} /\ notifying \in BOOLEAN
  /\ poked \in [Settlers -> BOOLEAN]
  /\ horizon \in Never..MaxTime /\ advancing \in BOOLEAN
  /\ advanceTask \in Settlers \cup {"none"} /\ received \in 0..2

\* A step of the clock passes neither a timer nor a resource's deadline: each
\* is run at its own instant, and those of one instant before the next.
PassesNothing ==
  now' > now => /\ \A w \in Timed : when[w] >= now'
                /\ \A d \in resources : d >= now'

\* A change after the revision was read wakes the settler whose future
\* _work.progress still is.
HolderNotified ==
  \A p \in Settlers :
    pc[p] = "armed" /\ progress = p /\ dirty[p] => poked[p] \/ notifying

\* An operation returns without an error only when nothing of the bot is due,
\* runs or waits for what settlement does not know, no coordinator is at work
\* or kept a failure, and advance_time got to its target.
SettlesAll ==
  pc["op"] = "returned" /\ pc'["op"] = "idle" =>
    /\ pc["auto"] = "none" /\ Due = {}
    /\ \A w \in Tasks : status[w] \notin {"ready", "blocked"}
    /\ stage["op"] = "last" => now >= target["op"]

\* A coordinator's failure stays until an operation received it.
RetainsFailure ==
  pc["auto"] = "failed" /\ pc'["auto"] # "failed" => received > 0 \/ received' > 0

\* A step of the clock passes neither a timer nor a deadline (_advance_to), an
\* operation returns when nothing is due, and a coordinator's failure stays
\* until an operation received it (_settle, _advance_real_time).
ClockHonest == [][PassesNothing /\ SettlesAll /\ RetainsFailure]_vars

\* The state is well typed, and a change after the revision was read wakes the
\* settler that waits for it (_WorkState.notify).
SettlementSound == TypeOK /\ HolderNotified

\* Once no more operation comes, the clock gets to the instant of a timer that
\* sleeps on the real clock, unless the coordinator's failure waits for an
\* operation: a settle that failed before that instant did not end recovery.
RecoveryLive ==
  <>[](pc["op"] = "idle") =>
    \A w \in Tasks :
      status[w] = "sleep" ~> (status[w] # "sleep" \/ w \in Due \/ pc["auto"] = "failed")

=============================================================================
