-------------------------- MODULE SettlementProofs --------------------------
(***************************************************************************)
(* Proofs about settlement, for any tasks, times and batches: a settler    *)
(* that waits is woken by what changed, the clock passes nothing, and an   *)
(* operation returns only when nothing is left to do.  And, further down,  *)
(* about what the clock ends, for any catalogue, owners and instants.      *)
(***************************************************************************)
EXTENDS Settlement, Resources, WellFoundedInduction, TLAPS

Places == Busy \cup {"idle", "none", "done", "failed", "created", "yield", "join", "joined",
                     "armed", "shield", "shielded"}

\* An operation waits for the coordinator, and not the other way round.
Control ==
  /\ pc \in [Settlers -> Places] /\ stage \in [Settlers -> {"none", "plain", "loop", "last"}]
  /\ pc["auto"] \notin {"idle", "join", "joined", "shielded"}
  /\ pc["op"] \notin {"none", "done", "failed", "created"}
BotTypes ==
  /\ status \in [Tasks -> {"idle", "ready", "blocked", "sleep", "listen"}]
  /\ when \in [Tasks -> 0..MaxTime] /\ real \in [Tasks -> Never..MaxTime]
TimeTypes ==
  /\ now \in 0..MaxTime /\ resources \subseteq 0..MaxTime /\ horizon \in Never..MaxTime
CounterTypes ==
  /\ target \in [Settlers -> 0..MaxTime] /\ left \in [Settlers -> 0..Timeout]
  /\ stable \in [Settlers -> 0..1]
WaitTypes ==
  /\ ahead \in [Settlers -> SUBSET (Tasks \cup {"_notify", "advance_real"})]
  /\ progress \in Settlers \cup {"none"} /\ advanceTask \in Settlers \cup {"none"}
FlagTypes ==
  /\ dirty \in [Settlers -> BOOLEAN] /\ notifying \in BOOLEAN
  /\ poked \in [Settlers -> BOOLEAN] /\ advancing \in BOOLEAN

\* One settler at a time is between two awaits; an operation that classifies
\* what is left has no coordinator beside it; and who advances is under way.
Turns ==
  /\ pc["op"] \notin Busy \/ pc["auto"] \notin Busy
  /\ pc["op"] \in {"scan", "arming", "check", "returned"} => pc["auto"] = "none"
  /\ stage["op"] = "last" => now >= target["op"]
  /\ \A p \in Settlers :
       /\ pc[p] \in AutoEnded \cup {"idle", "created", "enter", "shield", "shielded"}
            => stage[p] = "none"
       /\ advanceTask = p => stage[p] \in {"loop", "last"}

\* What the second quiet pass saw is still so when the settle returns.
Settled ==
  pc["op"] = "returned" =>
    Due = {} /\ \A w \in Tasks : status[w] \notin {"ready", "blocked"}

\* A failure is received at most twice: by the operation that waited for the
\* coordinator to advance, and by the one that takes its result away.
Failures ==
  /\ received \in 0..2
  /\ AutoLive => received = 0
  /\ pc["auto"] = "failed" => received <= (IF pc["op"] = "shielded" THEN 0 ELSE 1)
  /\ pc["op"] = "shield" => AutoLive

SettleInv ==
  /\ Control /\ BotTypes /\ TimeTypes /\ CounterTypes
  /\ WaitTypes /\ FlagTypes
  /\ Turns /\ Settled /\ Failures /\ HolderNotified

-----------------------------------------------------------------------------
(* The clock and the flags.                                                *)

LEMMA InitSettle == Init => SettleInv
<1> SUFFICES ASSUME Init PROVE SettleInv
  OBVIOUS
<1> USE DEF Init, Settlers, Never
<1>1. Control
  BY DEF Control, Places, Busy
<1>2. BotTypes /\ TimeTypes /\ CounterTypes
  BY BoundsAssumption DEF BotTypes, TimeTypes, CounterTypes
<1>3. WaitTypes
  BY DEF WaitTypes
<1>4. FlagTypes
  BY DEF FlagTypes
<1>5. Turns /\ Settled /\ Failures
  BY DEF Turns, Settled, Failures, AutoLive, AutoEnded, Busy
<1>6. HolderNotified
  BY DEF HolderNotified
<1> QED
  BY <1>1, <1>2, <1>3, <1>4, <1>5, <1>6 DEF SettleInv

\* The least element of a set of instants.
LEMMA NatMin ==
  ASSUME NEW T, T \subseteq Nat, T # {}
  PROVE  \E m \in T : \A k \in T : m <= k
<1>1. PICK m \in T : \A k \in T : ~ (<<k, m>> \in OpToRel(<, Nat))
  BY NatLessThanWellFounded, WFMin
<1>2. ASSUME NEW k \in T
      PROVE  m <= k
  <2>1. ~(<<k, m>> \in OpToRel(<, Nat))
    BY <1>1
  <2>2. <<k, m>> \in Nat \X Nat
    OBVIOUS
  <2>3. ~(k < m)
    BY <2>1, <2>2 DEF OpToRel
  <2> QED BY <2>3
<1> QED BY <1>2

LEMMA NextInstantIsNext ==
  ASSUME BotTypes, TimeTypes, NEW limit \in now..MaxTime
  PROVE  /\ NextInstant(limit) \in now..limit
         /\ NextInstant(limit) > now =>
              /\ \A w \in Timed : when[w] >= NextInstant(limit)
              /\ \A d \in resources : d >= NextInstant(limit)
<1> DEFINE candidates == resources \cup {when[w] : w \in Timed}
           T == {limit} \cup {IF i > now THEN i ELSE now : i \in candidates}
<1>1. candidates \subseteq 0..MaxTime /\ now \in 0..MaxTime /\ MaxTime \in Nat
  BY BoundsAssumption DEF BotTypes, TimeTypes, Timed
<1>2. T \subseteq Nat /\ limit \in T /\ \A x \in T : now <= x
  <2> HIDE DEF candidates
  <2> QED BY <1>1
<1>3. NextInstant(limit) \in T /\ \A x \in T : NextInstant(limit) <= x
  <2>1. NextInstant(limit) = CHOOSE x \in T : \A y \in T : x <= y
    BY DEF NextInstant, Min
  <2> HIDE DEF T
  <2>2. \E x \in T : \A y \in T : x <= y
    BY <1>2, NatMin
  <2> QED BY <2>1, <2>2
<1>4. ASSUME NEW i \in candidates, NextInstant(limit) > now
      PROVE  i >= NextInstant(limit)
  <2>1. NextInstant(limit) <= IF i > now THEN i ELSE now
    BY <1>3
  <2> HIDE DEF candidates, T
  <2>2. i \in Nat /\ now \in Nat
    BY <1>1
  <2>3. NextInstant(limit) \in Nat
    BY <1>2, <1>3
  <2> QED BY <1>4, <2>1, <2>2, <2>3
<1>5. NextInstant(limit) \in now..limit
  <2> HIDE DEF candidates, T
  <2>1. NextInstant(limit) \in Nat /\ now <= NextInstant(limit) /\ NextInstant(limit) <= limit
    BY <1>2, <1>3
  <2> QED BY <1>1, <2>1
<1> QED BY <1>4, <1>5

LEMMA ClockGoesOn ==
  ASSUME SettleInv, [Next]_vars
  PROVE  now' \in now..MaxTime /\ PassesNothing
<1>1. ASSUME NEW limit \in now..MaxTime, MoveClock(limit)
      PROVE  now' \in now..MaxTime /\ PassesNothing
  <2>1. BotTypes /\ TimeTypes /\ now' = NextInstant(limit)
    BY <1>1 DEF SettleInv, MoveClock
  <2>2. now' \in now..limit /\ limit \in Nat /\ now \in Nat /\ limit <= MaxTime
    BY <2>1, NextInstantIsNext, BoundsAssumption DEF TimeTypes
  <2>3. PassesNothing
    BY <2>1, NextInstantIsNext DEF PassesNothing
  <2> QED BY <2>2, <2>3, BoundsAssumption
<1>2. ASSUME NEW p \in Settlers, StepHorizon(p)
      PROVE  MoveClock(horizon) /\ horizon \in now..MaxTime
  BY <1>2 DEF StepHorizon, Steps, SettleInv, TimeTypes, Never
<1>3. ASSUME NEW p \in Settlers, Advances(p), now' # now
      PROVE  MoveClock(target[p]) /\ target[p] \in now..MaxTime
  BY <1>3 DEF Advances, SettleInv, TimeTypes, CounterTypes, timeVars
<1>4. CASE now' = now
  BY <1>4 DEF SettleInv, TimeTypes, PassesNothing
<1>5. CASE now' # now
  <2>1. \E p \in Settlers : StepHorizon(p) \/ Advances(p)
    BY ZenonT(200), <1>5 DEF Next, Settle, Advance, BotSteps, vars, timeVars, botVars, waitVars,
      advVars, ownVars, Top, QuietPass, BusyPass, Resume, Arm, Check, Wake, Joined,
      JoinTimesOut, Enter, Takes, Shielded, ShieldTimesOut, Succeeds, Fails, Ends,
      RunTask, ExternalInput, Fallback, Notify, BeginSettle, BeginAdvance, AutoStarts,
      Tick
  <2> QED BY <1>1, <1>2, <1>3, <1>5, <2>1
<1> QED BY <1>4, <1>5

LEMMA FlagTypesKept ==
  ASSUME SettleInv, [Next]_vars
  PROVE  FlagTypes'
<1>1. Revised \in [Settlers -> BOOLEAN] /\ (notifying \/ progress # "none") \in BOOLEAN
  BY DEF Revised
<1>2. notifying' = notifying \/ notifying' = FALSE \/ notifying' = (notifying \/ progress # "none")
  BY ZenonT(200) DEF Next, Settle, Advance, BotSteps, vars, timeVars, botVars, waitVars,
    advVars, ownVars, Changed, Top, QuietPass, BusyPass, Resume, Arm, Check, Wake,
    Joined, JoinTimesOut, StepHorizon, Advances, Enter, Takes, Shielded, ShieldTimesOut,
    Succeeds, Fails, Ends, RunTask, ExternalInput, Fallback, Notify, BeginSettle,
    BeginAdvance, AutoStarts, Tick
<1>3. \/ dirty' = dirty \/ dirty' = Revised
      \/ \E p \in Settlers : dirty' = [dirty EXCEPT ![p] = FALSE] \/ dirty' = [Revised EXCEPT ![p] = FALSE]
  BY ZenonT(200) DEF Next, Settle, Advance, BotSteps, vars, timeVars, botVars, waitVars,
    advVars, ownVars, Changed, Put, Top, QuietPass, BusyPass, Resume, Arm, Check, Wake,
    Joined, JoinTimesOut, StepHorizon, Advances, Enter, Takes, Shielded, ShieldTimesOut,
    Succeeds, Fails, Ends, RunTask, ExternalInput, Fallback, Notify, BeginSettle,
    BeginAdvance, AutoStarts, Tick
<1>4. \/ poked' = poked
      \/ \E p \in Settlers : \E b \in BOOLEAN : poked' = [poked EXCEPT ![p] = b]
  BY ZenonT(200) DEF SettleInv, WaitTypes, Next, Settle, Advance, BotSteps, vars, timeVars,
    botVars, waitVars, advVars, ownVars, Changed, Put, Top, QuietPass, BusyPass, Resume,
    Arm, Check, Wake, Joined, JoinTimesOut, StepHorizon, Advances, Enter, Takes,
    Shielded, ShieldTimesOut, Succeeds, Fails, Ends, RunTask, ExternalInput, Fallback,
    Notify, BeginSettle, BeginAdvance, AutoStarts, Tick
<1>5. advancing' = advancing \/ advancing' = TRUE \/ advancing' = FALSE
  BY ZenonT(200) DEF Next, Settle, Advance, BotSteps, vars, timeVars, botVars, waitVars,
    advVars, ownVars, Changed, Put, Top, QuietPass, BusyPass, Resume, Arm, Check, Wake,
    Joined, JoinTimesOut, StepHorizon, Advances, Enter, Takes, Shielded, ShieldTimesOut,
    Succeeds, Fails, Ends, RunTask, ExternalInput, Fallback, Notify, BeginSettle,
    BeginAdvance, AutoStarts, Tick
<1>6. dirty' \in [Settlers -> BOOLEAN]
  BY <1>1, <1>3 DEF SettleInv, FlagTypes
<1>7. poked' \in [Settlers -> BOOLEAN]
  BY <1>4 DEF SettleInv, FlagTypes
<1>8. notifying' \in BOOLEAN
  BY <1>1, <1>2 DEF SettleInv, FlagTypes
<1>9. advancing' \in BOOLEAN
  BY <1>5 DEF SettleInv, FlagTypes
<1> QED BY <1>6, <1>7, <1>8, <1>9 DEF FlagTypes

-----------------------------------------------------------------------------
(* The parts of the invariant, each kept by every step.                    *)

\* The clock.
LEMMA TimeTypesKept ==
  ASSUME SettleInv, [Next]_vars
  PROVE  TimeTypes'
<1>1. now' \in 0..MaxTime
  BY ClockGoesOn DEF SettleInv, TimeTypes
<1>2. resources' \subseteq 0..MaxTime
  <2>1. resources' \subseteq resources \/ \E w \in Tasks : RunTask(w)
    BY ZenonT(60) DEF Next, Settle, Advance, BotSteps, vars, timeVars, botVars, waitVars, advVars,
         ownVars, ProcessResources, MoveClock, Top, QuietPass, BusyPass, Resume, Arm,
         Check, Wake, Joined, JoinTimesOut, StepHorizon, Advances, Enter, Takes,
         Shielded, ShieldTimesOut, Succeeds, Fails, Ends, ExternalInput, Notify,
         BeginSettle, BeginAdvance, AutoStarts, Tick, Fallback
  <2>2. ASSUME NEW w \in Tasks, RunTask(w)
        PROVE  resources' \subseteq 0..MaxTime
    <3>1. PICK created \in SUBSET ((now + 1)..MaxTime) : resources' = resources \cup created
      BY <2>2 DEF RunTask
    <3> QED
      BY <3>1, BoundsAssumption DEF SettleInv, TimeTypes
  <2> QED
    BY <2>1, <2>2 DEF SettleInv, TimeTypes
<1>3. horizon' \in Never..MaxTime
  <2>1. horizon' \in {horizon, Never} \/ \E w \in Tasks : Fallback(w)
    BY ZenonT(60) DEF Next, Settle, Advance, BotSteps, vars, timeVars, botVars, waitVars, advVars,
         ownVars, ProcessResources, MoveClock, Top, QuietPass, BusyPass, Resume, Arm,
         Check, Wake, Joined, JoinTimesOut, StepHorizon, Advances, Enter, Takes,
         Shielded, ShieldTimesOut, Succeeds, Fails, Ends, ExternalInput, Notify,
         BeginSettle, BeginAdvance, AutoStarts, Tick, RunTask
  <2>2. ASSUME NEW w \in Tasks, Fallback(w)
        PROVE  horizon' \in {horizon, when[w], now}
    BY <2>2 DEF Fallback
  <2> QED
    BY <2>1, <2>2, BoundsAssumption DEF SettleInv, TimeTypes, BotTypes, Never
<1> QED
  BY <1>1, <1>2, <1>3 DEF TimeTypes

\* Where the settlers are.
LEMMA ControlKept ==
  ASSUME SettleInv, [Next]_vars
  PROVE  Control'
<1> USE DEF SettleInv, Control, Settlers, Places, Busy, AutoEnded, AutoLive, Put, Goto,
  Ran, Changed, Revised, Woken, Idle, Virtualized, botVars, timeVars, 
       waitVars, advVars, ownVars
<1>1. ASSUME NEW p \in Settlers, Top(p) \/ StepHorizon(p)
      PROVE  Control'
  BY <1>1 DEF Top, StepHorizon, MoveClock, ProcessResources
<1>2. ASSUME NEW p \in Settlers, QuietPass(p) \/ BusyPass(p)
      PROVE  Control'
  BY <1>2 DEF QuietPass, BusyPass
<1>3. ASSUME NEW p \in Settlers, Resume(p) \/ Arm(p) \/ Check(p) \/ Wake(p)
      PROVE  Control'
  BY <1>3 DEF Resume, Arm, Check, Wake
<1>4. ASSUME NEW p \in Settlers, Joined(p) \/ JoinTimesOut(p) \/ ShieldTimesOut(p)
      PROVE  Control'
  BY <1>4 DEF Joined, JoinTimesOut, ShieldTimesOut
<1>5. ASSUME NEW p \in Settlers, Enter(p) \/ Shielded(p) \/ Advances(p)
      PROVE  Control'
  BY <1>5 DEF Enter, Takes, ProcessResources, Shielded, Advances, MoveClock
<1>6. ASSUME NEW p \in Settlers, Succeeds(p) \/ Fails(p)
      PROVE  Control'
  BY <1>6 DEF Succeeds, Ends, Fails
<1>7. ASSUME NEW w \in Tasks, RunTask(w) \/ ExternalInput(w) \/ Fallback(w)
      PROVE  Control'
  BY <1>7 DEF RunTask, ExternalInput, Fallback, FallbackStripped, Rearmed,
    StartsCoordinator
<1>8. CASE Notify \/ BeginSettle \/ BeginAdvance
  BY <1>8 DEF Notify, BeginSettle, BeginAdvance
<1>9. CASE AutoStarts \/ Tick
  BY <1>9 DEF AutoStarts, Tick, Less
<1>10. CASE UNCHANGED vars
  BY <1>10 DEF vars
<1> QED
  BY <1>1, <1>2, <1>3, <1>4, <1>5, <1>6, <1>7, <1>8, <1>9, <1>10 DEF Next, Settle,
    Advance, BotSteps

\* The bot's tasks.
LEMMA BotTypesKept ==
  ASSUME SettleInv, [Next]_vars
  PROVE  BotTypes'
<1> USE DEF SettleInv, Control, BotTypes, Never, Less, TimeTypes, Put, Goto, Ran,
  Changed, Revised, Woken, Idle, Virtualized, botVars, timeVars, waitVars, 
       advVars, ownVars
<1>1. ASSUME NEW p \in Settlers, Top(p) \/ StepHorizon(p)
      PROVE  BotTypes'
  BY <1>1, BoundsAssumption DEF Top, StepHorizon, MoveClock, ProcessResources
<1>2. ASSUME NEW p \in Settlers, QuietPass(p) \/ BusyPass(p)
      PROVE  BotTypes'
  BY <1>2, BoundsAssumption DEF QuietPass, BusyPass
<1>3. ASSUME NEW p \in Settlers, Resume(p) \/ Arm(p) \/ Check(p) \/ Wake(p)
      PROVE  BotTypes'
  BY <1>3, BoundsAssumption DEF Resume, Arm, Check, Wake
<1>4. ASSUME NEW p \in Settlers, Joined(p) \/ JoinTimesOut(p) \/ ShieldTimesOut(p)
      PROVE  BotTypes'
  BY <1>4, BoundsAssumption DEF Joined, JoinTimesOut, ShieldTimesOut
<1>5. ASSUME NEW p \in Settlers, Enter(p) \/ Shielded(p) \/ Advances(p)
      PROVE  BotTypes'
  BY <1>5, BoundsAssumption DEF Enter, Takes, ProcessResources, Shielded, Advances,
    MoveClock
<1>6. ASSUME NEW p \in Settlers, Succeeds(p) \/ Fails(p)
      PROVE  BotTypes'
  BY <1>6, BoundsAssumption DEF Succeeds, Ends, Fails
<1>7. ASSUME NEW w \in Tasks, RunTask(w)
      PROVE  BotTypes'
  BY <1>7, BoundsAssumption DEF RunTask
<1>8. ASSUME NEW w \in Tasks, ExternalInput(w)
      PROVE  BotTypes'
  BY <1>8, BoundsAssumption DEF ExternalInput
<1>9. ASSUME NEW w \in Tasks, Fallback(w)
      PROVE  BotTypes'
  BY <1>9, BoundsAssumption DEF Fallback, FallbackStripped, Rearmed, StartsCoordinator
<1>10. CASE Notify \/ BeginSettle \/ BeginAdvance
  BY <1>10, BoundsAssumption DEF Notify, BeginSettle, BeginAdvance
<1>11. CASE AutoStarts \/ Tick
  BY <1>11, BoundsAssumption DEF AutoStarts, Tick, Less
<1>12. CASE UNCHANGED vars
  BY <1>12 DEF vars
<1> QED
  BY <1>1, <1>2, <1>3, <1>4, <1>5, <1>6, <1>7, <1>8, <1>9, <1>10, <1>11, <1>12 DEF Next,
    Settle, Advance, BotSteps

\* Targets and deadlines of the settlers.
LEMMA CounterTypesKept ==
  ASSUME SettleInv, [Next]_vars
  PROVE  CounterTypes'
<1> USE DEF SettleInv, Control, CounterTypes, Settlers, Never, Less, TimeTypes, Put,
  Goto, Ran, Changed, Revised, Woken, Idle, Virtualized, botVars, timeVars, 
       waitVars, advVars, ownVars
<1>1. ASSUME NEW p \in Settlers, Top(p)
      PROVE  CounterTypes'
  BY <1>1, BoundsAssumption DEF Top
<1>2. ASSUME NEW p \in Settlers, StepHorizon(p)
      PROVE  CounterTypes'
  BY <1>2, BoundsAssumption DEF StepHorizon, MoveClock, ProcessResources
<1>3. ASSUME NEW p \in Settlers, QuietPass(p) \/ BusyPass(p)
      PROVE  CounterTypes'
  BY <1>3, BoundsAssumption DEF QuietPass, BusyPass
<1>4. ASSUME NEW p \in Settlers, Resume(p) \/ Arm(p) \/ Check(p) \/ Wake(p)
      PROVE  CounterTypes'
  BY <1>4, BoundsAssumption DEF Resume, Arm, Check, Wake
<1>5. ASSUME NEW p \in Settlers, Joined(p) \/ JoinTimesOut(p) \/ ShieldTimesOut(p)
      PROVE  CounterTypes'
  BY <1>5, BoundsAssumption DEF Joined, JoinTimesOut, ShieldTimesOut
<1>6. ASSUME NEW p \in Settlers, Enter(p)
      PROVE  CounterTypes'
  BY <1>6, BoundsAssumption DEF Enter, Takes, ProcessResources
<1>7. ASSUME NEW p \in Settlers, Shielded(p)
      PROVE  CounterTypes'
  BY <1>7, BoundsAssumption DEF Shielded, Takes, ProcessResources
<1>8. ASSUME NEW p \in Settlers, Advances(p)
      PROVE  CounterTypes'
  BY <1>8, BoundsAssumption DEF Advances, MoveClock, ProcessResources
<1>9. ASSUME NEW p \in Settlers, Succeeds(p) \/ Fails(p)
      PROVE  CounterTypes'
  BY <1>9, BoundsAssumption DEF Succeeds, Ends, Fails
<1>10. ASSUME NEW w \in Tasks, RunTask(w) \/ ExternalInput(w) \/ Fallback(w)
      PROVE  CounterTypes'
  BY <1>10, BoundsAssumption DEF RunTask, ExternalInput, Fallback, FallbackStripped,
    Rearmed, StartsCoordinator, BotTypes
<1>11. CASE Notify \/ BeginSettle \/ BeginAdvance
  BY <1>11, BoundsAssumption DEF Notify, BeginSettle, BeginAdvance
<1>12. CASE AutoStarts \/ Tick
  BY <1>12, BoundsAssumption DEF AutoStarts, Tick, Less
<1>13. CASE UNCHANGED vars
  BY <1>13 DEF vars
<1> QED
  BY <1>1, <1>2, <1>3, <1>4, <1>5, <1>6, <1>7, <1>8, <1>9, <1>10, <1>11, <1>12, <1>13
    DEF Next, Settle, Advance, BotSteps

\* Who waits.
LEMMA WaitTypesKept ==
  ASSUME SettleInv, [Next]_vars
  PROVE  WaitTypes'
<1> USE DEF SettleInv, Control, WaitTypes, Settlers, Handles, Put, Goto, Ran, Changed,
  Revised, Woken, Idle, Virtualized, botVars, timeVars, waitVars, advVars, 
       ownVars
<1>1. ASSUME NEW p \in Settlers, Top(p) \/ StepHorizon(p)
      PROVE  WaitTypes'
  BY <1>1 DEF Top, StepHorizon, MoveClock, ProcessResources
<1>2. ASSUME NEW p \in Settlers, QuietPass(p) \/ BusyPass(p)
      PROVE  WaitTypes'
  BY <1>2 DEF QuietPass, BusyPass
<1>3. ASSUME NEW p \in Settlers, Resume(p) \/ Arm(p) \/ Check(p) \/ Wake(p)
      PROVE  WaitTypes'
  BY <1>3 DEF Resume, Arm, Check, Wake
<1>4. ASSUME NEW p \in Settlers, Joined(p) \/ JoinTimesOut(p) \/ ShieldTimesOut(p)
      PROVE  WaitTypes'
  BY <1>4 DEF Joined, JoinTimesOut, ShieldTimesOut
<1>5. ASSUME NEW p \in Settlers, Enter(p) \/ Shielded(p) \/ Advances(p)
      PROVE  WaitTypes'
  BY <1>5 DEF Enter, Takes, ProcessResources, Shielded, Advances, MoveClock
<1>6. ASSUME NEW p \in Settlers, Succeeds(p) \/ Fails(p)
      PROVE  WaitTypes'
  BY <1>6 DEF Succeeds, Ends, Fails
<1>7. ASSUME NEW w \in Tasks, RunTask(w) \/ ExternalInput(w) \/ Fallback(w)
      PROVE  WaitTypes'
  BY <1>7 DEF RunTask, ExternalInput, Fallback, FallbackStripped, Rearmed,
    StartsCoordinator
<1>8. CASE Notify \/ BeginSettle \/ BeginAdvance
  BY <1>8 DEF Notify, BeginSettle, BeginAdvance
<1>9. CASE AutoStarts \/ Tick
  BY <1>9 DEF AutoStarts, Tick, Less
<1>10. CASE UNCHANGED vars
  BY <1>10 DEF vars
<1> QED
  BY <1>1, <1>2, <1>3, <1>4, <1>5, <1>6, <1>7, <1>8, <1>9, <1>10 DEF Next, Settle,
    Advance, BotSteps

\* A settler that becomes busy finds the loop free.
LEMMA TurnsKept ==
  ASSUME SettleInv, [Next]_vars
  PROVE  Turns'
<1> USE DEF SettleInv, Control, Turns, Settlers, Busy, AutoEnded, LoopFree, AutoLive,
  TimeTypes, CounterTypes, Put, Goto, Ran, Changed, Revised, Woken, Idle, Virtualized,
  botVars, timeVars, waitVars, advVars, ownVars
<1>0. now' \in now..MaxTime
  BY ClockGoesOn
<1>1. ASSUME NEW p \in Settlers, Top(p) \/ StepHorizon(p)
      PROVE  Turns'
  BY <1>1, <1>0 DEF Top, StepHorizon, MoveClock, ProcessResources
<1>2. ASSUME NEW p \in Settlers, QuietPass(p) \/ BusyPass(p)
      PROVE  Turns'
  BY <1>2, <1>0 DEF QuietPass, BusyPass
<1>3. ASSUME NEW p \in Settlers, Resume(p) \/ Arm(p) \/ Check(p) \/ Wake(p)
      PROVE  Turns'
  BY <1>3, <1>0 DEF Resume, Arm, Check, Wake
<1>4. ASSUME NEW p \in Settlers, Joined(p) \/ JoinTimesOut(p) \/ ShieldTimesOut(p)
      PROVE  Turns'
  BY <1>4, <1>0 DEF Joined, JoinTimesOut, ShieldTimesOut
<1>5. ASSUME NEW p \in Settlers, Enter(p) \/ Shielded(p) \/ Advances(p)
      PROVE  Turns'
  BY <1>5, <1>0 DEF Enter, Takes, ProcessResources, Shielded, Advances, MoveClock
<1>6. ASSUME NEW p \in Settlers, Succeeds(p) \/ Fails(p)
      PROVE  Turns'
  BY <1>6, <1>0 DEF Succeeds, Ends, Fails
<1>7. ASSUME NEW w \in Tasks, RunTask(w) \/ ExternalInput(w) \/ Fallback(w)
      PROVE  Turns'
  BY <1>7, <1>0 DEF RunTask, ExternalInput, Fallback, FallbackStripped, Rearmed,
    StartsCoordinator
<1>8. CASE Notify \/ BeginSettle \/ BeginAdvance
  BY <1>8, <1>0 DEF Notify, BeginSettle, BeginAdvance
<1>9. CASE AutoStarts \/ Tick
  BY <1>9, <1>0 DEF AutoStarts, Tick, Less
<1>10. CASE UNCHANGED vars
  BY <1>10 DEF vars
<1> QED
  BY <1>1, <1>2, <1>3, <1>4, <1>5, <1>6, <1>7, <1>8, <1>9, <1>10 DEF Next, Settle,
    Advance, BotSteps

\* While an operation returns, the loop runs nothing else, and no thread wakes
\* what is not blocked.
LEMMA SettledKept ==
  ASSUME SettleInv, [Next]_vars
  PROVE  Settled'
<1> USE DEF SettleInv, Control, Settled, BotTypes, Due, Timed, Active, Parked, Beyond,
  Quiet, Pending, Turns, Settlers, Busy, TimeTypes, CounterTypes, LoopFree, Put, Goto,
  Ran, Changed, Revised, Woken, Idle, Virtualized, botVars, timeVars, 
       waitVars, advVars, ownVars
<1>1. ASSUME NEW p \in Settlers, Top(p) \/ StepHorizon(p)
      PROVE  Settled'
  BY <1>1 DEF Top, StepHorizon, MoveClock, ProcessResources
<1>2. ASSUME NEW p \in Settlers, QuietPass(p) \/ BusyPass(p)
      PROVE  Settled'
  BY <1>2 DEF QuietPass, BusyPass
<1>3. ASSUME NEW p \in Settlers, Resume(p) \/ Arm(p) \/ Check(p) \/ Wake(p)
      PROVE  Settled'
  BY <1>3 DEF Resume, Arm, Check, Wake
<1>4. ASSUME NEW p \in Settlers, Joined(p) \/ JoinTimesOut(p) \/ ShieldTimesOut(p)
      PROVE  Settled'
  BY <1>4 DEF Joined, JoinTimesOut, ShieldTimesOut
<1>5. ASSUME NEW p \in Settlers, Enter(p) \/ Shielded(p) \/ Advances(p)
      PROVE  Settled'
  BY <1>5 DEF Enter, Takes, ProcessResources, Shielded, Advances, MoveClock
<1>6. ASSUME NEW p \in Settlers, Succeeds(p) \/ Fails(p)
      PROVE  Settled'
  BY <1>6 DEF Succeeds, Ends, Fails
<1>7. ASSUME NEW w \in Tasks, RunTask(w) \/ ExternalInput(w) \/ Fallback(w)
      PROVE  Settled'
  BY <1>7 DEF RunTask, ExternalInput, Fallback, FallbackStripped, Rearmed,
    StartsCoordinator
<1>8. CASE Notify \/ BeginSettle \/ BeginAdvance
  BY <1>8 DEF Notify, BeginSettle, BeginAdvance
<1>9. CASE AutoStarts \/ Tick
  BY <1>9 DEF AutoStarts, Tick, Less
<1>10. CASE UNCHANGED vars
  BY <1>10 DEF vars
<1> QED
  BY <1>1, <1>2, <1>3, <1>4, <1>5, <1>6, <1>7, <1>8, <1>9, <1>10 DEF Next, Settle,
    Advance, BotSteps

\* A coordinator that starts was received by nobody; one that fails is
\* received by who waits for it, and then by who settles next.
LEMMA FailuresKept ==
  ASSUME SettleInv, [Next]_vars
  PROVE  Failures'
<1> USE DEF SettleInv, Control, Failures, AutoLive, AutoEnded, Settlers, Turns,
  WaitTypes, Places, Busy, Put, Goto, Ran, Changed, Revised, Woken, Idle, Virtualized,
  botVars, timeVars, waitVars, advVars, ownVars
<1>1. ASSUME NEW p \in Settlers, Top(p) \/ StepHorizon(p)
      PROVE  Failures'
  BY <1>1 DEF Top, StepHorizon, MoveClock, ProcessResources
<1>2. ASSUME NEW p \in Settlers, QuietPass(p) \/ BusyPass(p)
      PROVE  Failures'
  BY <1>2 DEF QuietPass, BusyPass
<1>3. ASSUME NEW p \in Settlers, Resume(p) \/ Arm(p) \/ Check(p) \/ Wake(p)
      PROVE  Failures'
  BY <1>3 DEF Resume, Arm, Check, Wake
<1>4. ASSUME NEW p \in Settlers, Joined(p) \/ JoinTimesOut(p) \/ ShieldTimesOut(p)
      PROVE  Failures'
  BY <1>4 DEF Joined, JoinTimesOut, ShieldTimesOut
<1>5. ASSUME NEW p \in Settlers, Enter(p) \/ Shielded(p) \/ Advances(p)
      PROVE  Failures'
  BY <1>5 DEF Enter, Takes, ProcessResources, Shielded, Advances, MoveClock
<1>6. ASSUME NEW p \in Settlers, Succeeds(p) \/ Fails(p)
      PROVE  Failures'
  BY <1>6 DEF Succeeds, Ends, Fails
<1>7. ASSUME NEW w \in Tasks, RunTask(w) \/ ExternalInput(w) \/ Fallback(w)
      PROVE  Failures'
  BY <1>7 DEF RunTask, ExternalInput, Fallback, FallbackStripped, Rearmed,
    StartsCoordinator
<1>8. CASE Notify \/ BeginSettle \/ BeginAdvance
  BY <1>8 DEF Notify, BeginSettle, BeginAdvance
<1>9. CASE AutoStarts \/ Tick
  BY <1>9 DEF AutoStarts, Tick, Less
<1>10. CASE UNCHANGED vars
  BY <1>10 DEF vars
<1> QED
  BY <1>1, <1>2, <1>3, <1>4, <1>5, <1>6, <1>7, <1>8, <1>9, <1>10 DEF Next, Settle,
    Advance, BotSteps

\* The revision moves only with a notification, which reaches the future that
\* is armed; and a future is armed only if the revision has not moved.
LEMMA HolderNotifiedKept ==
  ASSUME SettleInv, [Next]_vars
  PROVE  HolderNotified'
<1> USE DEF SettleInv, Control, HolderNotified, Settlers, WaitTypes, FlagTypes, Busy,
  Put, Goto, Ran, Changed, Revised, Woken, Idle, Virtualized, botVars, timeVars, 
       waitVars, advVars, ownVars
<1>1. ASSUME NEW p \in Settlers, Top(p)
      PROVE  HolderNotified'
  BY <1>1 DEF Top
<1>2. ASSUME NEW p \in Settlers, StepHorizon(p)
      PROVE  HolderNotified'
  BY <1>2 DEF StepHorizon, MoveClock, ProcessResources
<1>3. ASSUME NEW p \in Settlers, QuietPass(p) \/ BusyPass(p)
      PROVE  HolderNotified'
  BY <1>3 DEF QuietPass, BusyPass
<1>4. ASSUME NEW p \in Settlers, Resume(p) \/ Arm(p) \/ Check(p) \/ Wake(p)
      PROVE  HolderNotified'
  BY <1>4 DEF Resume, Arm, Check, Wake
<1>5. ASSUME NEW p \in Settlers, Joined(p) \/ JoinTimesOut(p) \/ ShieldTimesOut(p)
      PROVE  HolderNotified'
  BY <1>5 DEF Joined, JoinTimesOut, ShieldTimesOut
<1>6. ASSUME NEW p \in Settlers, Enter(p) \/ Shielded(p) \/ Advances(p)
      PROVE  HolderNotified'
  BY <1>6 DEF Enter, Takes, ProcessResources, Shielded, Advances, MoveClock
<1>7. ASSUME NEW p \in Settlers, Succeeds(p) \/ Fails(p)
      PROVE  HolderNotified'
  BY <1>7 DEF Succeeds, Ends, Fails
<1>8. ASSUME NEW w \in Tasks, RunTask(w) \/ ExternalInput(w) \/ Fallback(w)
      PROVE  HolderNotified'
  BY <1>8 DEF RunTask, ExternalInput, Fallback, FallbackStripped, Rearmed,
    StartsCoordinator
<1>9. CASE Notify \/ BeginSettle \/ BeginAdvance
  BY <1>9 DEF Notify, BeginSettle, BeginAdvance
<1>10. CASE AutoStarts \/ Tick
  BY <1>10 DEF AutoStarts, Tick, Less
<1>11. CASE UNCHANGED vars
  BY <1>11 DEF vars
<1> QED
  BY <1>1, <1>2, <1>3, <1>4, <1>5, <1>6, <1>7, <1>8, <1>9, <1>10, <1>11 DEF Next,
    Settle, Advance, BotSteps

LEMMA SettleStep == SettleInv /\ [Next]_vars => SettleInv'
  BY ControlKept, BotTypesKept, TimeTypesKept, CounterTypesKept, WaitTypesKept,
    FlagTypesKept, TurnsKept, SettledKept, FailuresKept, HolderNotifiedKept DEF
    SettleInv

LEMMA SettleInvariant == Spec => []SettleInv
  BY InitSettle, SettleStep, PTL DEF Spec

-----------------------------------------------------------------------------

\* For any tasks, times and timeouts: every variable keeps to its values, and a
\* settler whose future is armed is woken by every change since it looked.
THEOREM SettlementIsSound == Spec => []SettlementSound
<1>1. SettleInv => TypeOK
  BY DEF SettleInv, TypeOK, Control, Places, BotTypes, TimeTypes, CounterTypes,
    WaitTypes, FlagTypes, Failures
<1>2. SettleInv => SettlementSound
  BY <1>1 DEF SettlementSound, SettleInv
<1> QED
  BY <1>2, SettleInvariant, PTL

\* An operation returns when everything is settled.
LEMMA ReturnsSettled ==
  ASSUME SettleInv, [Next]_vars
  PROVE  SettlesAll
<1> SUFFICES ASSUME pc["op"] = "returned", pc'["op"] = "idle"
             PROVE  /\ pc["auto"] = "none" /\ Due = {}
                    /\ \A w \in Tasks : status[w] \notin {"ready", "blocked"}
                    /\ stage["op"] = "last" => now >= target["op"]
  BY DEF SettlesAll
<1> QED
  BY DEF SettleInv, Turns, Settled

\* The coordinator's failure goes to who takes its result.
LEMMA FailureRetained ==
  ASSUME SettleInv, [Next]_vars
  PROVE  RetainsFailure
<1> SUFFICES ASSUME pc["auto"] = "failed", pc'["auto"] # "failed"
             PROVE  received' > 0
  BY DEF RetainsFailure
<1> USE DEF SettleInv, Control, Settlers, AutoLive, AutoEnded, Put, Goto
<1>1. ASSUME NEW p \in Settlers, Top(p) \/ StepHorizon(p)
      PROVE  FALSE
  BY <1>1 DEF Top, StepHorizon, MoveClock, ProcessResources
<1>2. ASSUME NEW p \in Settlers, QuietPass(p) \/ BusyPass(p)
      PROVE  FALSE
  BY <1>2 DEF QuietPass, BusyPass
<1>3. ASSUME NEW p \in Settlers, Resume(p) \/ Arm(p) \/ Check(p) \/ Wake(p)
      PROVE  FALSE
  BY <1>3 DEF Resume, Arm, Check, Wake
<1>4. ASSUME NEW p \in Settlers, JoinTimesOut(p) \/ ShieldTimesOut(p)
      PROVE  FALSE
  BY <1>4 DEF JoinTimesOut, ShieldTimesOut
<1>5. ASSUME NEW p \in Settlers, Enter(p) \/ Shielded(p) \/ Advances(p)
      PROVE  FALSE
  BY <1>5 DEF Enter, Takes, ProcessResources, Shielded, Advances, MoveClock, Turns
<1>6. ASSUME NEW p \in Settlers, Succeeds(p) \/ Fails(p)
      PROVE  FALSE
  BY <1>6 DEF Succeeds, Ends, Fails, Turns
<1>7. ASSUME NEW w \in Tasks, RunTask(w) \/ ExternalInput(w) \/ Fallback(w)
      PROVE  FALSE
  BY <1>7 DEF RunTask, ExternalInput, Fallback, FallbackStripped, Rearmed,
    StartsCoordinator
<1>8. CASE Notify \/ BeginSettle \/ BeginAdvance
  BY <1>8 DEF Notify, BeginSettle, BeginAdvance
<1>9. CASE AutoStarts \/ Tick
  BY <1>9 DEF AutoStarts, Tick, Less
<1>10. ASSUME NEW p \in Settlers, Joined(p)
      PROVE  received' > 0
  BY <1>10 DEF Joined, Failures
<1>11. CASE UNCHANGED vars
  BY <1>11 DEF vars
<1> QED
  BY <1>1, <1>2, <1>3, <1>4, <1>5, <1>6, <1>7, <1>8, <1>9, <1>10, <1>11 DEF Next,
    Settle, Advance, BotSteps

\* For any tasks, times and timeouts: a step of the clock passes no timer and no
\* deadline, an operation that returns left nothing to do and came to its
\* target, and the failure of a coordinator stays until an operation has it.
THEOREM ClockIsHonest == Spec => ClockHonest
<1>1. SettleInv /\ [Next]_vars => [PassesNothing /\ SettlesAll /\ RetainsFailure]_vars
  BY ClockGoesOn, ReturnsSettled, FailureRetained
<1> QED
  BY <1>1, SettleInvariant, PTL DEF Spec, ClockHonest

-----------------------------------------------------------------------------
(* Resources: the invariant *)

\* The ends that are scheduled lie ahead and can be carried out.
EndsAhead ==
  \A id \in DOMAIN entitlements :
    entitlements[id].scheduled # Unset =>
      entitlements[id].scheduled > clock /\ MayEnd(entitlements[id], entitlements[id].scheduled)

\* What the test route created is a subscription.
TestsSubscribe ==
  \A id \in DOMAIN entitlements :
    entitlements[id].origin = "test" => TypeOf(entitlements[id]) = "subscription"

EndingsFollow ==
  endings = [id \in {i \in DOMAIN entitlements : entitlements[i].scheduled # Unset} |->
               entitlements[id].scheduled]

EntitlementsInv ==
  /\ entitlements \in Seq(Entitlement) /\ clock \in 0..LastInstant
  /\ EndingsFollow /\ EndsAhead /\ TestsSubscribe /\ OneTrial

TransitionsFollow ==
  transitions = [id \in {i \in DOMAIN events : DeadlineOf(events[i]) # Unset} |->
                   DeadlineOf(events[id])]

EventsInv ==
  /\ DOMAIN events \subseteq 1..issued /\ events \in [DOMAIN events -> Event]
  /\ guilds \subseteq Guilds /\ issued \in Nat
  /\ TransitionsFollow
  /\ \A id \in DOMAIN events : events[id].guild \in guilds

ResourcesInv == EntitlementsInv /\ EventsInv

ResourceSteps == SettlesAllDue /\ RestoresNothing

LEMMA InvTells ==
  ASSUME ResourcesInv
  PROVE  TablesFollow
<1>1. ResourcesTypeOK
  BY DEF ResourcesInv, EntitlementsInv, EventsInv, EndingsFollow, TransitionsFollow, ResourcesTypeOK
<1>2. Scheduled
  BY DEF ResourcesInv, EntitlementsInv, EventsInv, EndingsFollow, TransitionsFollow, EndsAhead, Scheduled
<1> QED
  BY <1>1, <1>2 DEF TablesFollow, ResourcesInv, EntitlementsInv

LEMMA ResourcesInitKeeps ==
  ASSUME ResourcesInit
  PROVE  ResourcesInv
<1>1. EntitlementsInv
  BY ResourcesAssumption DEF ResourcesInit, EntitlementsInv, EndingsFollow, EndsAhead, TestsSubscribe, OneTrial
<1>2. EventsInv
  BY DEF ResourcesInit, EventsInv, TransitionsFollow
<1> QED
  BY <1>1, <1>2 DEF ResourcesInv

-----------------------------------------------------------------------------
(* Resources: entitlements *)

LEMMA EventsRest ==
  ASSUME EventsInv, UNCHANGED <<guilds, events, transitions, issued>>
  PROVE  EventsInv'
  BY DEF EventsInv, TransitionsFollow

\* The clock stands still, and what is there keeps its access.
LEMMA InsertKeeps ==
  ASSUME ResourcesInv, NEW e \in Entitlement, Insert(e),
         told' = {} \/ told' = {Created},
         e.origin = "test" =>
           /\ TypeOf(e) = "subscription"
           /\ \A id \in DOMAIN entitlements :
                LET d == entitlements[id]
                IN  ~(/\ d.origin = "test" /\ ~Gone(d, clock)
                      /\ d.guild = e.guild /\ (d.guild = None => d.user = e.user))
  PROVE  ResourcesInv' /\ ResourceSteps
<1> DEFINE id == Len(entitlements) + 1
<1>1. /\ entitlements \in Seq(Entitlement) /\ clock \in 0..LastInstant /\ Len(entitlements) \in Nat
      /\ DOMAIN entitlements = 1..Len(entitlements)
      /\ \A i \in DOMAIN entitlements : entitlements[i] \in Entitlement
  BY DEF ResourcesInv, EntitlementsInv
<1>2. /\ entitlements' \in Seq(Entitlement) /\ clock' = clock
      /\ DOMAIN entitlements' = DOMAIN entitlements \cup {id} /\ id \notin DOMAIN entitlements
      /\ entitlements'[id] = e
      /\ \A i \in DOMAIN entitlements : entitlements'[i] = entitlements[i]
  BY <1>1 DEF Insert
<1>3. /\ endings' = IF e.scheduled = Unset THEN Without(endings, id) ELSE With(endings, id, e.scheduled)
      /\ e.scheduled # Unset => MaySchedule(e, e.scheduled)
      /\ UNCHANGED <<guilds, events, transitions, issued, clock>>
  BY DEF Insert, ScheduleEntitlement
<1> HIDE DEF id
<1>4. EventsInv'
  BY <1>3, EventsRest DEF ResourcesInv
<1>5. EndingsFollow'
  BY <1>2, <1>3 DEF ResourcesInv, EntitlementsInv, EndingsFollow, With, Without
<1>6. EndsAhead'
  <2>1. e.scheduled # Unset => e.scheduled > clock /\ MayEnd(e, e.scheduled)
    BY <1>1, <1>3, ResourcesAssumption DEF MaySchedule, MayEnd, Started, Entitlement, Times, Unset
  <2> QED
    BY <1>2, <2>1 DEF ResourcesInv, EntitlementsInv, EndsAhead
<1>7. TestsSubscribe'
  BY <1>2 DEF ResourcesInv, EntitlementsInv, TestsSubscribe
<1>8. OneTrial'
  BY <1>2 DEF ResourcesInv, EntitlementsInv, OneTrial
<1>9. ResourcesInv'
  BY <1>1, <1>2, <1>4, <1>5, <1>6, <1>7, <1>8 DEF ResourcesInv, EntitlementsInv
<1>10. SettlesAllDue
  BY <1>1, <1>3 DEF SettlesAllDue
<1>11. \A i \in DOMAIN entitlements :
         <<"delete", i>> \notin told' /\ <<"update", i>> \notin told'
  BY DEF Created
<1>12. RestoresNothing
  BY <1>2, <1>3, <1>11 DEF RestoresNothing, InteractionEntitlements, Gone
<1> QED
  BY <1>9, <1>10, <1>12 DEF ResourceSteps

LEMMA BecomesKeeps ==
  ASSUME ResourcesInv, NEW id \in DOMAIN entitlements, NEW f \in Entitlement, NEW news,
         Becomes(id, f, news),
         LET e == entitlements[id]
         IN  /\ f.sku = e.sku /\ f.user = e.user /\ f.guild = e.guild
             /\ f.starts = e.starts /\ f.origin = e.origin
             /\ Gone(e, clock) => Gone(f, clock)
             /\ f.scheduled # Unset => f.scheduled > clock /\ MayEnd(f, f.scheduled)
             /\ <<"delete", id>> \in news <=> e.deleted # f.deleted
             /\ <<"update", id>> \in news <=> (e.consumed # f.consumed \/ e.ends # f.ends),
         \A i \in DOMAIN entitlements : i # id => <<"delete", i>> \notin news /\ <<"update", i>> \notin news
  PROVE  ResourcesInv' /\ ResourceSteps
<1>1. /\ entitlements \in Seq(Entitlement) /\ clock \in 0..LastInstant
      /\ \A i \in DOMAIN entitlements : entitlements[i] \in Entitlement
  BY DEF ResourcesInv, EntitlementsInv
<1>2. /\ entitlements' \in Seq(Entitlement) /\ clock' = clock
      /\ DOMAIN entitlements' = DOMAIN entitlements
      /\ entitlements'[id] = f
      /\ \A i \in DOMAIN entitlements : i # id => entitlements'[i] = entitlements[i]
  BY <1>1 DEF Becomes
<1>3. /\ endings' = IF f.scheduled = Unset THEN Without(endings, id) ELSE With(endings, id, f.scheduled)
      /\ told' = news
      /\ UNCHANGED <<guilds, events, transitions, issued, clock>>
  BY DEF Becomes, ScheduleEntitlement
<1>4. EventsInv'
  BY <1>3, EventsRest DEF ResourcesInv
<1>5. EndingsFollow'
  <2>1. EndingsFollow
    BY DEF ResourcesInv, EntitlementsInv
  <2>2. CASE f.scheduled = Unset
    <3>1. endings' = [j \in DOMAIN endings \ {id} |-> endings[j]]
      BY <1>3, <2>2 DEF Without
    <3> QED
      BY <1>2, <2>1, <2>2, <3>1 DEF EndingsFollow
  <2>3. CASE f.scheduled # Unset
    <3>1. endings' = [j \in DOMAIN endings \cup {id} |-> IF j = id THEN f.scheduled ELSE endings[j]]
      BY <1>3, <2>3 DEF With
    <3> QED
      BY <1>2, <2>1, <2>3, <3>1 DEF EndingsFollow
  <2> QED
    BY <2>2, <2>3
<1>6. EndsAhead'
  BY <1>2 DEF ResourcesInv, EntitlementsInv, EndsAhead
<1>7. TestsSubscribe'
  BY <1>2 DEF ResourcesInv, EntitlementsInv, TestsSubscribe, TypeOf
<1>8. OneTrial'
  BY <1>2 DEF ResourcesInv, EntitlementsInv, OneTrial
<1>9. ResourcesInv'
  BY <1>1, <1>2, <1>4, <1>5, <1>6, <1>7, <1>8 DEF ResourcesInv, EntitlementsInv
<1>10. SettlesAllDue
  BY <1>1, <1>3 DEF SettlesAllDue
<1>11. ASSUME NEW i \in DOMAIN entitlements
       PROVE  LET e == entitlements[i]
                  g == entitlements'[i]
                  update == e.consumed # g.consumed \/ e.ends # g.ends
              IN  /\ Gone(e, clock) => Gone(g, clock')
                  /\ <<"delete", i>> \in told' <=> e.deleted # g.deleted
                  /\ <<"update", i>> \in told' <=> update
  <2>1. CASE i = id
    BY <1>2, <1>3, <2>1
  <2>2. CASE i # id
    BY <1>2, <1>3, <2>2
  <2> QED
    BY <2>1, <2>2
<1>12. ASSUME NEW u \in Users, NEW g \in Guilds \cup {None},
              NEW i \in InteractionEntitlements(u, g)' \cap DOMAIN entitlements
       PROVE  i \in InteractionEntitlements(u, g) \/ ~Started(entitlements[i], clock)
  <2>1. CASE i = id
    BY <1>2, <1>12, <2>1 DEF InteractionEntitlements, Gone
  <2>2. CASE i # id
    BY <1>2, <1>12, <2>2 DEF InteractionEntitlements, Gone
  <2> QED
    BY <2>1, <2>2
<1>13. RestoresNothing
  BY <1>11, <1>12 DEF RestoresNothing
<1> QED
  BY <1>9, <1>10, <1>13 DEF ResourceSteps
LEMMA HistoryIs ==
  ASSUME NEW origin \in {"seeded", "sandbox"}, NEW starts \in Times, NEW ends \in Times,
         NEW deleted \in BOOLEAN, NEW consumed \in BOOLEAN
  PROVE  History(origin, starts, ends, deleted, consumed)
           \in [origin : {"seeded", "sandbox"}, starts : Times, ends : Times,
                deleted : BOOLEAN, consumed : BOOLEAN]
  BY DEF History

\* No new history and no purchase is of the test route.
LEMMA ArrangedKeeps ==
  ASSUME ResourcesInv,
         NEW sku \in DOMAIN Catalogue, NEW o \in Owners, NEW at \in Schedules \cup {Unset},
         \/ \E h \in Histories : Seed(sku, o[1], o[2], h, at)
         \/ \E origin \in Granted, starts \in StartTimes \cup {Unset} :
              Grant(sku, o[1], o[2], origin, starts, at)
  PROVE  ResourcesInv' /\ ResourceSteps
<1>1. /\ LastInstant \in Nat /\ Unset \in Times /\ at \in Times
      /\ StartTimes \cup {Unset} \subseteq Times /\ EndTimes \subseteq Times
  BY ResourcesAssumption DEF Times, Unset
<1>2. o[1] \in Users \cup {None} /\ o[2] \in Guilds \cup {None}
  BY DEF Owners
<1>3. ASSUME NEW h \in Histories, Seed(sku, o[1], o[2], h, at)
      PROVE  ResourcesInv' /\ ResourceSteps
  <2> DEFINE e == [sku |-> sku, user |-> o[1], guild |-> o[2], starts |-> h.starts, ends |-> h.ends,
                   deleted |-> h.deleted, consumed |-> h.consumed, origin |-> h.origin, scheduled |-> at]
  <2>1. h \in [origin : {"seeded", "sandbox"}, starts : Times, ends : Times,
                deleted : BOOLEAN, consumed : BOOLEAN]
    <3>1. \/ \E start \in StartTimes \cup {Unset} : h = History("seeded", start, Unset, FALSE, FALSE)
          \/ \E end \in EndTimes : h = History("seeded", Unset, end, FALSE, FALSE)
          \/ \E start \in StartTimes : h = History("sandbox", start, Unset, TRUE, FALSE)
          \/ h = History("seeded", Unset, Unset, FALSE, TRUE)
          \/ h = History("sandbox", Unset, Unset, FALSE, FALSE)
      BY Zenon DEF Histories
    <3> DEFINE H == [origin : {"seeded", "sandbox"}, starts : Times, ends : Times,
                     deleted : BOOLEAN, consumed : BOOLEAN]
    <3>2. \A origin \in {"seeded", "sandbox"} : \A start, end \in Times : \A deleted, consumed \in BOOLEAN :
            History(origin, start, end, deleted, consumed) \in H
      BY HistoryIs, Zenon
    <3>3. TRUE \in BOOLEAN /\ FALSE \in BOOLEAN
      BY Zenon
    <3> HIDE DEF H
    <3>4. ASSUME \E start \in StartTimes \cup {Unset} : h = History("seeded", start, Unset, FALSE, FALSE)
         PROVE  h \in H
      BY <1>1, <3>2, <3>3, <3>4, Zenon
    <3>5. ASSUME \E end \in EndTimes : h = History("seeded", Unset, end, FALSE, FALSE)
         PROVE  h \in H
      BY <1>1, <3>2, <3>3, <3>5, Zenon
    <3>6. ASSUME \E start \in StartTimes : h = History("sandbox", start, Unset, TRUE, FALSE)
         PROVE  h \in H
      BY <1>1, <3>2, <3>3, <3>6, Zenon
    <3>7. ASSUME h = History("seeded", Unset, Unset, FALSE, TRUE)
         PROVE  h \in H
      BY <1>1, <3>2, <3>3, <3>7, Zenon
    <3>8. ASSUME h = History("sandbox", Unset, Unset, FALSE, FALSE)
         PROVE  h \in H
      BY <1>1, <3>2, <3>3, <3>8, Zenon
    <3> QED
      BY <3>1, <3>4, <3>5, <3>6, <3>7, <3>8, Zenon DEF H
  <2>3. e \in Entitlement
    BY <1>1, <1>2, <2>1 DEF Entitlement
  <2>4. Insert(e) /\ told' = {}
    BY <1>3 DEF Seed
  <2>5. e.origin # "test"
    BY <2>1
  <2> HIDE DEF e
  <2> QED
    BY <2>3, <2>4, <2>5, InsertKeeps
<1>4. ASSUME NEW origin \in Granted, NEW starts \in StartTimes \cup {Unset},
             Grant(sku, o[1], o[2], origin, starts, at)
      PROVE  ResourcesInv' /\ ResourceSteps
  <2> DEFINE e == [sku |-> sku, user |-> o[1], guild |-> o[2], starts |-> starts, ends |-> Unset,
                   deleted |-> FALSE, consumed |-> FALSE, origin |-> origin, scheduled |-> at]
  <2>1. e \in Entitlement
    BY <1>1, <1>2 DEF Entitlement, Granted
  <2>2. Insert(e) /\ told' = {Created} /\ e.origin # "test"
    BY <1>4 DEF Grant, Granted
  <2> HIDE DEF e
  <2> QED
    BY <2>1, <2>2, InsertKeeps
<1> QED
  BY <1>3, <1>4

\* An owner without a test subscription gets one.
LEMMA CreateTestKeeps ==
  ASSUME ResourcesInv, NEW sku \in DOMAIN Catalogue, NEW owner \in Users \cup Guilds \cup {Bot},
         CreateTest(sku, owner)
  PROVE  ResourcesInv' /\ ResourceSteps
<1> DEFINE type == IF owner \in Guilds THEN "guild" ELSE "user"
           e == [sku |-> sku, user |-> IF type = "user" THEN owner ELSE Bot,
                 guild |-> IF type = "guild" THEN owner ELSE None,
                 starts |-> Unset, ends |-> Unset, deleted |-> FALSE, consumed |-> FALSE,
                 origin |-> "test", scheduled |-> Unset]
<1>1. /\ Catalogue[sku] = [type |-> "subscription", scope |-> type]
      /\ ~Holds(type, owner) /\ Insert(e) /\ told' = {Created}
  BY DEF CreateTest
<1>2. Unset \in Times
  BY ResourcesAssumption DEF Times, Unset
<1>3. /\ e.sku = sku /\ e.starts = Unset /\ e.ends = Unset /\ e.origin = "test" /\ e.scheduled = Unset
      /\ e.user \in Users \cup {Bot} /\ e.guild \in Guilds \cup {None}
      /\ IF type = "guild" THEN e.guild = owner /\ e.guild # None
         ELSE e.guild = None /\ e.user = owner
  BY ResourcesAssumption
<1>4. e \in Entitlement
  BY <1>2, <1>3 DEF Entitlement
<1>5. TypeOf(e) = "subscription"
  BY <1>1, <1>3 DEF TypeOf
<1> HIDE DEF e
<1>6. ASSUME NEW id \in DOMAIN entitlements,
             entitlements[id].origin = "test", ~Gone(entitlements[id], clock),
             entitlements[id].guild = e.guild,
             e.guild = None => entitlements[id].user = e.user
      PROVE  FALSE
  <2>1. TypeOf(entitlements[id]) = "subscription"
    BY <1>6 DEF ResourcesInv, EntitlementsInv, TestsSubscribe
  <2>2. ~entitlements[id].deleted /\ ~Ended(entitlements[id], clock)
    BY <1>6 DEF Gone
  <2>3. IF type = "guild" THEN entitlements[id].guild = owner
        ELSE entitlements[id].guild = None /\ entitlements[id].user = owner
    BY <1>3, <1>6
  <2> QED
    BY <1>1, <2>1, <2>2, <2>3 DEF Holds
<1>7. \A id \in DOMAIN entitlements :
        LET d == entitlements[id]
        IN  ~(/\ d.origin = "test" /\ ~Gone(d, clock)
              /\ d.guild = e.guild /\ (d.guild = None => d.user = e.user))
  BY <1>6
<1> QED
  BY <1>1, <1>4, <1>5, <1>7, InsertKeeps

LEMMA QuietKeeps ==
  ASSUME ResourcesInv, NEW id \in DOMAIN entitlements, NEW f \in Entitlement, NEW news, Becomes(id, f, news),
         \A i : <<"delete", i>> \notin news /\ <<"update", i>> \notin news,
         f.sku = entitlements[id].sku, f.user = entitlements[id].user,
         f.guild = entitlements[id].guild, f.starts = entitlements[id].starts,
         f.origin = entitlements[id].origin, f.ends = entitlements[id].ends,
         f.deleted = entitlements[id].deleted, f.consumed = entitlements[id].consumed,
         f.scheduled # Unset => f.scheduled > clock /\ MayEnd(f, f.scheduled)
  PROVE  ResourcesInv' /\ ResourceSteps
<1>1. Gone(entitlements[id], clock) => Gone(f, clock)
  BY DEF Gone, Ended
<1>2. /\ ~(entitlements[id].deleted # f.deleted)
      /\ ~(entitlements[id].consumed # f.consumed \/ entitlements[id].ends # f.ends)
  OBVIOUS
<1> QED
  BY <1>1, <1>2, BecomesKeeps

LEMMA StatesKeep ==
  ASSUME ResourcesInv, NEW id \in DOMAIN entitlements,
         \/ \E at \in Schedules \cup {Unset} : ScheduleEnd(id, at)
         \/ End(id) \/ Revoke(id) \/ DeleteTest(id) \/ Consume(id) \/ ReplayCreate(id)
  PROVE  ResourcesInv' /\ ResourceSteps
<1> DEFINE e == entitlements[id]
<1>1. /\ e \in Entitlement /\ clock \in Nat /\ clock <= LastInstant /\ LastInstant \in Nat
      /\ e.scheduled # Unset => e.scheduled > clock /\ MayEnd(e, e.scheduled)
  BY ResourcesAssumption DEF ResourcesInv, EntitlementsInv, EndsAhead
<1>2. Unset \in Times /\ Schedules \subseteq Times /\ clock \in Times
  BY <1>1, ResourcesAssumption DEF Times, Unset
<1>3. ASSUME NEW at \in Schedules \cup {Unset}, ScheduleEnd(id, at)
      PROVE  ResourcesInv' /\ ResourceSteps
  <2> DEFINE f == [e EXCEPT !.scheduled = at]
  <2>1. Becomes(id, f, {}) /\ (at # Unset => MaySchedule(e, at))
    BY <1>3 DEF ScheduleEnd
  <2>2. f \in Entitlement
    BY <1>1, <1>2 DEF Entitlement
  <2>3. /\ f.sku = e.sku /\ f.user = e.user /\ f.guild = e.guild /\ f.starts = e.starts
        /\ f.ends = e.ends /\ f.deleted = e.deleted /\ f.consumed = e.consumed
        /\ f.origin = e.origin /\ f.scheduled = at
    BY <1>1 DEF Entitlement
  <2> HIDE DEF f, e
  <2>4. f.scheduled # Unset => f.scheduled > clock /\ MayEnd(f, f.scheduled)
    BY <1>1, <2>1, <2>3, ResourcesAssumption
    DEF MaySchedule, MayEnd, Started, TypeOf, Entitlement, Times, Unset
  <2> QED
    BY <2>1, <2>2, <2>3, <2>4, QuietKeeps, Zenon DEF e
<1>4. ASSUME End(id)
      PROVE  ResourcesInv' /\ ResourceSteps
  <2> DEFINE f == Over(e, clock)
             news == IF Ended(e, clock) THEN {} ELSE {<<"update", id>>}
  <2>1. Becomes(id, f, news)
    BY <1>4 DEF End
  <2>2. /\ f \in Entitlement
        /\ f.sku = e.sku /\ f.user = e.user /\ f.guild = e.guild /\ f.starts = e.starts
        /\ f.ends = (IF e.ends <= clock THEN e.ends ELSE clock)
        /\ f.deleted = e.deleted /\ f.consumed = e.consumed
        /\ f.origin = e.origin /\ f.scheduled = Unset
    BY <1>1, <1>2 DEF Entitlement, Over, Ended
  <2> HIDE DEF f, e
  <2>3. Gone(e, clock) => Gone(f, clock)
    BY <1>1, <2>2 DEF Gone, Ended
  <2>4. <<"update", id>> \in news <=> e.ends # f.ends
    BY <1>1, <2>2 DEF Ended, Entitlement, Times
  <2>5. \A i : <<"delete", i>> \notin news /\ (i # id => <<"update", i>> \notin news)
    OBVIOUS
  <2> HIDE DEF news
  <2> QED
    BY <2>1, <2>2, <2>3, <2>4, <2>5, BecomesKeeps DEF e
<1>5. ASSUME Revoke(id)
      PROVE  ResourcesInv' /\ ResourceSteps
  <2> DEFINE f == [e EXCEPT !.scheduled = Unset, !.deleted = TRUE]
             news == IF e.deleted THEN {} ELSE {<<"delete", id>>}
  <2>1. Becomes(id, f, news)
    BY <1>5 DEF Revoke
  <2>2. /\ f \in Entitlement
        /\ f.sku = e.sku /\ f.user = e.user /\ f.guild = e.guild /\ f.starts = e.starts
        /\ f.ends = e.ends /\ f.deleted /\ f.consumed = e.consumed
        /\ f.origin = e.origin /\ f.scheduled = Unset
    BY <1>1, <1>2 DEF Entitlement
  <2> HIDE DEF f, e
  <2>3. Gone(f, clock)
    BY <2>2 DEF Gone
  <2>4. <<"delete", id>> \in news <=> ~e.deleted
    OBVIOUS
  <2>5. e.deleted \in BOOLEAN /\ f.deleted \in BOOLEAN
    BY <1>1, <2>2 DEF Entitlement
  <2>6. <<"delete", id>> \in news <=> e.deleted # f.deleted
    BY <2>2, <2>4, <2>5
  <2>7. \A i : <<"update", i>> \notin news /\ (i # id => <<"delete", i>> \notin news)
    OBVIOUS
  <2> HIDE DEF news
  <2> QED
    BY <2>1, <2>2, <2>3, <2>6, <2>7, BecomesKeeps DEF e
<1>6. ASSUME Consume(id)
      PROVE  ResourcesInv' /\ ResourceSteps
  <2> DEFINE f == [e EXCEPT !.consumed = TRUE]
  <2>1. Becomes(id, f, {<<"update", id>>}) /\ ~e.consumed /\ TypeOf(e) = "consumable"
    BY <1>6 DEF Consume
  <2>2. /\ f \in Entitlement
        /\ f.sku = e.sku /\ f.user = e.user /\ f.guild = e.guild /\ f.starts = e.starts
        /\ f.ends = e.ends /\ f.deleted = e.deleted /\ f.consumed
        /\ f.origin = e.origin /\ f.scheduled = e.scheduled
    BY <1>1 DEF Entitlement
  <2> HIDE DEF f, e
  <2>3. e.scheduled = Unset
    BY <1>1, <2>1 DEF MayEnd
  <2>4. Gone(f, clock)
    BY <2>2 DEF Gone
  <2>5. e.consumed # f.consumed
    BY <2>1, <2>2
  <2> QED
    BY <2>1, <2>2, <2>3, <2>4, <2>5, BecomesKeeps DEF e
<1>7. ASSUME ReplayCreate(id)
      PROVE  ResourcesInv' /\ ResourceSteps
  <2>1. Becomes(id, e, {<<"create", id>>})
    BY <1>7 DEF ReplayCreate
  <2>2. \A i : <<"delete", i>> \notin {<<"create", id>>} /\ <<"update", i>> \notin {<<"create", id>>}
    OBVIOUS
  <2> QED
    BY <1>1, <2>1, <2>2, QuietKeeps
<1> QED
  BY <1>3, <1>4, <1>5, <1>6, <1>7 DEF DeleteTest

-----------------------------------------------------------------------------
(* Resources: scheduled events *)

LEMMA EntitlementsRest ==
  ASSUME ResourcesInv, UNCHANGED <<entitlements, endings, clock>>, told' = {}
  PROVE  EntitlementsInv' /\ ResourceSteps
<1>1. EntitlementsInv'
  BY DEF ResourcesInv, EntitlementsInv, EndingsFollow, EndsAhead, TestsSubscribe, OneTrial
<1>2. SettlesAllDue
  BY DEF SettlesAllDue, ResourcesInv, EntitlementsInv
<1>3. RestoresNothing
  BY DEF RestoresNothing, InteractionEntitlements, Gone
<1> QED
  BY <1>1, <1>2, <1>3 DEF ResourceSteps

LEMMA StoreKeeps ==
  ASSUME ResourcesInv, NEW id \in Nat \ {0}, NEW e \in Event, e.guild \in guilds, Store(id, e),
         issued' \in Nat, issued' >= issued, id <= issued'
  PROVE  ResourcesInv' /\ ResourceSteps
<1>1. /\ EventsInv /\ TransitionsFollow /\ issued \in Nat
      /\ UNCHANGED <<entitlements, endings, guilds, clock>> /\ told' = {}
  BY DEF ResourcesInv, EventsInv, Store
<1>2. /\ events' = [j \in DOMAIN events \cup {id} |-> IF j = id THEN e ELSE events[j]]
      /\ transitions' = IF DeadlineOf(e) = Unset THEN Without(transitions, id)
                                                 ELSE With(transitions, id, DeadlineOf(e))
  BY DEF Store, ScheduleEvent, With
<1>3. TransitionsFollow'
  <2>1. CASE DeadlineOf(e) = Unset
    <3>1. transitions' = [j \in DOMAIN transitions \ {id} |-> transitions[j]]
      BY <1>2, <2>1 DEF Without
    <3> QED
      BY <1>1, <1>2, <2>1, <3>1 DEF TransitionsFollow
  <2>2. CASE DeadlineOf(e) # Unset
    <3>1. transitions' = [j \in DOMAIN transitions \cup {id} |-> IF j = id THEN DeadlineOf(e) ELSE transitions[j]]
      BY <1>2, <2>2 DEF With
    <3> QED
      BY <1>1, <1>2, <2>2, <3>1 DEF TransitionsFollow
  <2> QED
    BY <2>1, <2>2
<1>4. DOMAIN events' \subseteq 1..issued' /\ events' \in [DOMAIN events' -> Event]
  BY <1>1, <1>2 DEF EventsInv
<1>5. \A j \in DOMAIN events' : events'[j].guild \in guilds'
  BY <1>1, <1>2 DEF EventsInv
<1>6. EventsInv'
  BY <1>1, <1>3, <1>4, <1>5 DEF EventsInv
<1> QED
  BY <1>1, <1>6, EntitlementsRest DEF ResourcesInv

LEMMA SubscribeKeeps ==
  ASSUME ResourcesInv, NEW id \in DOMAIN events, NEW u \in Users, NEW subscribed \in BOOLEAN,
         Subscribe(id, u, subscribed)
  PROVE  ResourcesInv' /\ ResourceSteps
<1> DEFINE users == IF subscribed THEN events[id].users \cup {u} ELSE events[id].users \ {u}
           e == [events[id] EXCEPT !.users = users]
<1>1. /\ EventsInv /\ TransitionsFollow /\ issued \in Nat /\ events[id] \in Event
      /\ UNCHANGED <<entitlements, endings, guilds, transitions, issued, clock>> /\ told' = {}
  BY DEF ResourcesInv, EventsInv, Subscribe
<1>2. events' = [events EXCEPT ![id] = e]
  BY DEF Subscribe
<1>3. users \in SUBSET Users
  BY <1>1 DEF Event
<1> HIDE DEF users
<1>4. /\ e \in Event /\ e.guild = events[id].guild /\ e.status = events[id].status
      /\ e.start = events[id].start /\ e.end = events[id].end
  BY <1>1, <1>3 DEF Event
<1> HIDE DEF e
<1>5. DeadlineOf(e) = DeadlineOf(events[id])
  BY <1>4 DEF DeadlineOf
<1>6. /\ DOMAIN events' = DOMAIN events
      /\ \A j \in DOMAIN events : events'[j] \in Event /\ events'[j].guild = events[j].guild
                                 /\ DeadlineOf(events'[j]) = DeadlineOf(events[j])
      /\ events' \in [DOMAIN events' -> Event]
  BY <1>1, <1>2, <1>4, <1>5 DEF EventsInv
<1>7. TransitionsFollow'
  BY <1>1, <1>6 DEF TransitionsFollow
<1>8. EventsInv'
  BY <1>1, <1>6, <1>7 DEF EventsInv
<1> QED
  BY <1>1, <1>8, EntitlementsRest DEF ResourcesInv

LEMMA DropKeeps ==
  ASSUME ResourcesInv, NEW ids, Drop(ids), guilds' \subseteq guilds,
         \A id \in DOMAIN events \ ids : events[id].guild \in guilds'
  PROVE  ResourcesInv' /\ ResourceSteps
<1>1. /\ EventsInv /\ TransitionsFollow
      /\ UNCHANGED <<entitlements, endings, issued, clock>> /\ told' = {}
      /\ events' = [id \in DOMAIN events \ ids |-> events[id]]
      /\ transitions' = [id \in DOMAIN transitions \ ids |-> transitions[id]]
  BY DEF ResourcesInv, EventsInv, Drop
<1>2. TransitionsFollow'
  BY <1>1 DEF TransitionsFollow
<1>3. /\ DOMAIN events' \subseteq 1..issued' /\ events' \in [DOMAIN events' -> Event]
      /\ \A id \in DOMAIN events' : events'[id].guild \in guilds'
      /\ guilds' \subseteq Guilds
  BY <1>1 DEF EventsInv
<1>4. EventsInv'
  BY <1>1, <1>2, <1>3 DEF EventsInv
<1> QED
  BY <1>1, <1>4, EntitlementsRest DEF ResourcesInv

LEMMA EventCallsKeep ==
  ASSUME ResourcesInv,
         \/ \E g \in Guilds, start \in StartTimes, end \in EndTimes \cup {Unset} : CreateEvent(g, start, end)
         \/ \E id \in DOMAIN events, to \in 1..4, start \in StartTimes, end \in EndTimes \cup {Unset} :
              EditEvent(id, to, start, end)
         \/ \E id \in DOMAIN events, u \in Users, subscribed \in BOOLEAN : Subscribe(id, u, subscribed)
         \/ \E id \in DOMAIN events : DeleteEvent(id)
         \/ \E g \in Guilds : DeleteGuild(g)
  PROVE  ResourcesInv' /\ ResourceSteps
<1>1. /\ EventsInv /\ issued \in Nat /\ DOMAIN events \subseteq 1..issued
      /\ \A id \in DOMAIN events : events[id] \in Event /\ events[id].guild \in guilds
  BY DEF ResourcesInv, EventsInv
<1>2. StartTimes \subseteq Times /\ EndTimes \cup {Unset} \subseteq Times
  BY ResourcesAssumption DEF Times, Unset
<1>3. ASSUME NEW g \in Guilds, NEW start \in StartTimes, NEW end \in EndTimes \cup {Unset},
             CreateEvent(g, start, end)
      PROVE  ResourcesInv' /\ ResourceSteps
  <2> DEFINE e == [guild |-> g, status |-> 1, start |-> start, end |-> end, users |-> {}]
  <2>1. g \in guilds /\ issued' = issued + 1 /\ Store(issued + 1, e)
    BY <1>3 DEF CreateEvent
  <2>2. e \in Event /\ e.guild = g
    BY <1>2 DEF Event
  <2> HIDE DEF e
  <2>3. issued + 1 \in Nat \ {0} /\ issued' \in Nat /\ issued' >= issued /\ issued + 1 <= issued'
    BY <1>1, <2>1
  <2> QED
    BY <2>1, <2>2, <2>3, StoreKeeps
<1>4. ASSUME NEW id \in DOMAIN events, NEW to \in 1..4, NEW start \in StartTimes,
             NEW end \in EndTimes \cup {Unset}, EditEvent(id, to, start, end)
      PROVE  ResourcesInv' /\ ResourceSteps
  <2> DEFINE e == [events[id] EXCEPT !.status = to, !.start = start, !.end = end]
  <2>1. Store(id, e) /\ issued' = issued
    BY <1>4 DEF EditEvent
  <2>2. e \in Event /\ e.guild = events[id].guild
    BY <1>1, <1>2 DEF Event
  <2> HIDE DEF e
  <2>3. id \in Nat \ {0} /\ issued' \in Nat /\ issued' >= issued /\ id <= issued'
    BY <1>1, <2>1
  <2>4. e.guild \in guilds
    BY <1>1, <2>2
  <2> QED
    BY <2>1, <2>2, <2>3, <2>4, StoreKeeps
<1>5. ASSUME NEW id \in DOMAIN events, DeleteEvent(id)
      PROVE  ResourcesInv' /\ ResourceSteps
  <2>1. Drop({id}) /\ guilds' = guilds
    BY <1>5 DEF DeleteEvent
  <2> QED
    BY <1>1, <2>1, DropKeeps
<1>6. ASSUME NEW g \in Guilds, DeleteGuild(g)
      PROVE  ResourcesInv' /\ ResourceSteps
  <2> DEFINE ids == {id \in DOMAIN events : events[id].guild = g}
  <2>1. Drop(ids) /\ guilds' = guilds \ {g}
    BY <1>6 DEF DeleteGuild
  <2>2. \A id \in DOMAIN events \ ids : events[id].guild \in guilds'
    BY <1>1, <2>1
  <2> HIDE DEF ids
  <2> QED
    BY <2>1, <2>2, DropKeeps
<1> QED
  BY <1>3, <1>4, <1>5, <1>6, SubscribeKeeps

-----------------------------------------------------------------------------
(* Resources: the clock *)

LEMMA AdvancedFacts ==
  ASSUME NEW e \in Event, NEW at \in 0..LastInstant
  PROVE  LET f == Advanced(e, at) IN
         /\ f \in Event /\ f.guild = e.guild /\ f.status >= e.status
         /\ f.status = 2 => f.end > at
         /\ f.status = 1 => f.start > at
         /\ DeadlineOf(f) # Unset => DeadlineOf(f) > at
<1> DEFINE begun == IF e.status = 1 /\ e.start <= at THEN [e EXCEPT !.status = 2] ELSE e
           f == IF begun.status = 2 /\ begun.end <= at THEN [begun EXCEPT !.status = 3] ELSE begun
<1>1. at \in Nat /\ Times \subseteq Nat
  BY ResourcesAssumption DEF Times, Unset
<1>2. f = Advanced(e, at)
  BY DEF Advanced
<1>3. /\ begun \in Event /\ begun.guild = e.guild /\ begun.status >= e.status
      /\ begun.status = 1 => begun.start > at
  BY <1>1 DEF Event
<1> HIDE DEF begun
<1>4. /\ f \in Event /\ f.guild = begun.guild /\ f.status >= begun.status
      /\ f.status = 1 => f.start > at
      /\ f.status = 2 => f.end > at
  BY <1>1, <1>3 DEF Event
<1> HIDE DEF f
<1>5. f.status >= e.status
  BY <1>3, <1>4 DEF Event
<1>6. DeadlineOf(f) # Unset => DeadlineOf(f) > at
  BY <1>4 DEF DeadlineOf
<1> QED
  BY <1>2, <1>3, <1>4, <1>5, <1>6

\* What a pass leaves of the events, and of their table.
LEMMA SettleEventsKeeps ==
  ASSUME ResourcesInv, NEW at \in 0..LastInstant, SettleEvents(at), UNCHANGED <<guilds, issued>>
  PROVE  /\ EventsInv' /\ DueIn(transitions', at) = {}
         /\ \A id \in DOMAIN events :
              /\ events'[id].status >= events[id].status
              /\ events'[id].status = 2 => events'[id].end > at
<1> DEFINE due == DueIn(transitions, at)
           after == [id \in DOMAIN events |-> IF id \in due THEN Advanced(events[id], at) ELSE events[id]]
           moved == {id \in DOMAIN events : after[id] # events[id]}
<1>1. /\ EventsInv /\ TransitionsFollow /\ at \in Nat /\ at < Unset /\ Unset \in Nat
      /\ \A id \in DOMAIN events : events[id] \in Event
  BY ResourcesAssumption DEF ResourcesInv, EventsInv, Unset
<1>2. /\ events' = after
      /\ transitions' =
           [id \in {i \in DOMAIN transitions : i \in moved => DeadlineOf(after[i]) # Unset} |->
              IF id \in moved THEN DeadlineOf(after[id]) ELSE transitions[id]]
  BY DEF SettleEvents
<1>3. /\ DOMAIN transitions = {i \in DOMAIN events : DeadlineOf(events[i]) # Unset}
      /\ \A i \in DOMAIN transitions : transitions[i] = DeadlineOf(events[i])
  BY <1>1 DEF TransitionsFollow
<1>4. due = {i \in DOMAIN transitions : transitions[i] <= at}
  BY DEF DueIn
<1>5. ASSUME NEW id \in DOMAIN events
      PROVE  /\ after[id] \in Event /\ after[id].guild = events[id].guild
             /\ after[id].status >= events[id].status
             /\ after[id].status = 2 => after[id].end > at
             /\ DeadlineOf(after[id]) # Unset => DeadlineOf(after[id]) > at
  <2>1. CASE id \in due
    BY <1>1, <2>1, AdvancedFacts
  <2>2. CASE id \notin due
    <3>1. after[id] = events[id] /\ events[id] \in Event
      BY <1>1, <2>2
    <3>2. DeadlineOf(events[id]) \in Times /\ Times \subseteq Nat
      BY <1>1, ResourcesAssumption DEF DeadlineOf, Event, Times, Unset
    <3>3. DeadlineOf(events[id]) # Unset => DeadlineOf(events[id]) > at
      <4>1. ASSUME DeadlineOf(events[id]) # Unset PROVE ~(DeadlineOf(events[id]) <= at)
        <5>1. id \in DOMAIN transitions /\ transitions[id] = DeadlineOf(events[id])
          BY <1>3, <4>1
        <5> QED
          BY <1>4, <2>2, <5>1, Zenon
      <4>2. DeadlineOf(events[id]) \in Nat /\ at \in Nat
        BY <1>1, <3>2, Zenon
      <4>3. \A d \in Nat : ~(d <= at) => d > at
        BY <4>2
      <4> QED
        BY <4>1, <4>2, <4>3, Zenon
    <3>4. events[id].status = 2 => events[id].end > at
      BY <1>1, <3>2, <3>3 DEF DeadlineOf
    <3>5. events[id].status >= events[id].status
      BY <3>1 DEF Event
    <3> QED
      BY <3>1, <3>3, <3>4, <3>5
  <2> QED
    BY <2>1, <2>2
<1>6. \A id \in DOMAIN events : id \notin due => after[id] = events[id]
  OBVIOUS
<1>7. DOMAIN after = DOMAIN events /\ after \in [DOMAIN events -> Event]
  BY <1>5
<1>8. \A id \in DOMAIN events : id \in moved <=> after[id] # events[id]
  OBVIOUS
<1> HIDE DEF after, moved, due
<1>9. transitions' = [id \in {i \in DOMAIN after : DeadlineOf(after[i]) # Unset} |-> DeadlineOf(after[id])]
  <2>1. \A i \in moved : i \in DOMAIN events
    BY DEF moved
  <2>2. {i \in DOMAIN transitions : i \in moved => DeadlineOf(after[i]) # Unset}
          = {i \in DOMAIN after : DeadlineOf(after[i]) # Unset}
    BY <1>3, <1>4, <1>6, <1>7, <1>8
  <2>3. \A i \in DOMAIN transitions : i \notin moved => transitions[i] = DeadlineOf(after[i])
    BY <1>3, <1>8
  <2> QED
    BY <1>2, <2>2, <2>3
<1>10. TransitionsFollow'
  BY <1>2, <1>9 DEF TransitionsFollow
<1>11. EventsInv'
  BY <1>1, <1>2, <1>5, <1>7, <1>10 DEF EventsInv
<1>12. DueIn(transitions', at) = {}
  <2>1. ASSUME NEW k \in DOMAIN transitions' PROVE ~(transitions'[k] <= at)
    <3>1. k \in DOMAIN events /\ DeadlineOf(after[k]) # Unset /\ transitions'[k] = DeadlineOf(after[k])
      BY <1>7, <1>9, <2>1
    <3>2. DeadlineOf(after[k]) > at
      BY <1>5, <3>1
    <3>3. DeadlineOf(after[k]) \in Nat
      BY <1>1, <1>5, <3>1, ResourcesAssumption DEF DeadlineOf, Event, Times, Unset
    <3> QED
      BY <1>1, <3>1, <3>2, <3>3
  <2> QED
    BY <2>1 DEF DueIn
<1> QED
  BY <1>2, <1>5, <1>11, <1>12

\* What the clock ends, and when: a scheduled end lies ahead, so what is due
\* is due at this instant, and it can be ended.
LEMMA SettleEntitlementsKeeps ==
  ASSUME ResourcesInv, NEW at \in {clock, clock + 1}, at \in 0..LastInstant, clock' = at,
         SettleEntitlements(at)
  PROVE  /\ EntitlementsInv' /\ RestoresNothing
         /\ DueIn(endings', at) = {}
         /\ \A id \in DOMAIN entitlements :
              entitlements'[id].ends # entitlements[id].ends => entitlements[id].scheduled = at
<1> DEFINE due == {id \in DueIn(endings, at) : entitlements[id].scheduled <= at}
           fails == {id \in due : ~MayEnd(entitlements[id], at)}
           reached == {id \in due : \A f \in fails : id < f}
<1>1. /\ entitlements \in Seq(Entitlement) /\ clock \in Nat /\ at \in Nat /\ clock <= at /\ at < Unset
      /\ Unset \in Nat /\ Unset \in Times /\ at \in Times /\ Times \subseteq Nat
      /\ EndingsFollow /\ EndsAhead /\ TestsSubscribe /\ OneTrial
  BY ResourcesAssumption DEF ResourcesInv, EntitlementsInv, Times, Unset
<1>2. ASSUME NEW id \in DOMAIN entitlements
      PROVE  /\ entitlements[id] \in Entitlement
             /\ entitlements[id].scheduled \in Nat /\ entitlements[id].starts \in Nat
             /\ entitlements[id].ends \in Nat
  <2>1. entitlements[id] \in Entitlement
    BY <1>1
  <2> QED
    BY <1>1, <2>1 DEF Entitlement
<1>3. /\ entitlements' = [id \in DOMAIN entitlements |->
                            IF id \in reached THEN Over(entitlements[id], at) ELSE entitlements[id]]
      /\ endings' = [id \in DOMAIN endings \ reached |-> endings[id]]
      /\ told' = {<<"update", id>> : id \in {i \in reached : ~Ended(entitlements[i], at)}}
  BY DEF SettleEntitlements
<1>4. /\ DOMAIN endings = {i \in DOMAIN entitlements : entitlements[i].scheduled # Unset}
      /\ \A i \in DOMAIN endings : endings[i] = entitlements[i].scheduled
  BY <1>1 DEF EndingsFollow
<1>5. \A i : i \in due <=> i \in DOMAIN entitlements /\ entitlements[i].scheduled # Unset
                            /\ entitlements[i].scheduled <= at
  BY <1>4 DEF DueIn
<1> HIDE DEF due
<1>6. ASSUME NEW i \in due
      PROVE  /\ i \in DOMAIN entitlements /\ entitlements[i].scheduled = at /\ MayEnd(entitlements[i], at)
  <2>1. i \in DOMAIN entitlements /\ entitlements[i].scheduled # Unset /\ entitlements[i].scheduled <= at
    BY <1>5
  <2>2. entitlements[i].scheduled > clock /\ MayEnd(entitlements[i], entitlements[i].scheduled)
    BY <1>1, <2>1 DEF EndsAhead
  <2>3. entitlements[i].scheduled = at
    BY <1>1, <1>2, <2>1, <2>2
  <2> QED
    BY <2>1, <2>2, <2>3
<1>7. reached = due
  BY <1>6
<1> HIDE DEF fails, reached
<1>8. /\ DOMAIN entitlements' = DOMAIN entitlements
      /\ \A i \in due : entitlements'[i] = Over(entitlements[i], at)
      /\ \A i \in DOMAIN entitlements : i \notin due => entitlements'[i] = entitlements[i]
  BY <1>3, <1>6, <1>7
<1>9. ASSUME NEW i \in due
      PROVE  LET e == entitlements[i]
                 f == entitlements'[i]
             IN  /\ f \in Entitlement
                 /\ f.sku = e.sku /\ f.user = e.user /\ f.guild = e.guild /\ f.starts = e.starts
                 /\ f.deleted = e.deleted /\ f.consumed = e.consumed /\ f.origin = e.origin
                 /\ f.scheduled = Unset /\ f.ends = (IF e.ends <= at THEN e.ends ELSE at)
  <2>1. entitlements[i] \in Entitlement /\ entitlements'[i] = Over(entitlements[i], at)
    BY <1>2, <1>6, <1>8
  <2> QED
    BY <1>1, <2>1 DEF Over, Ended, Entitlement
<1>10. ASSUME NEW i \in DOMAIN entitlements
       PROVE  LET e == entitlements[i]
                  f == entitlements'[i]
              IN  /\ f \in Entitlement
                  /\ f.sku = e.sku /\ f.user = e.user /\ f.guild = e.guild /\ f.starts = e.starts
                  /\ f.deleted = e.deleted /\ f.consumed = e.consumed /\ f.origin = e.origin
                  /\ f.scheduled = (IF i \in due THEN Unset ELSE e.scheduled)
                  /\ f.ends = (IF i \in due /\ ~(e.ends <= at) THEN at ELSE e.ends)
  <2>1. CASE i \in due
    BY <1>9, <2>1
  <2>2. CASE i \notin due
    BY <1>2, <1>8, <2>2
  <2> QED
    BY <2>1, <2>2
<1>11. entitlements' \in Seq(Entitlement)
  <2>1. /\ Len(entitlements) \in Nat
        /\ entitlements' = [i \in 1..Len(entitlements) |-> entitlements'[i]]
    BY <1>1, <1>3
  <2> QED
    BY <1>1, <1>10, <2>1
<1>12. EndingsFollow'
  <2>1. endings' = [i \in DOMAIN endings \ due |-> endings[i]]
    BY <1>3, <1>7
  <2>2. {i \in DOMAIN entitlements' : entitlements'[i].scheduled # Unset} = DOMAIN endings \ due
    BY <1>4, <1>8, <1>10
  <2>3. \A i \in DOMAIN endings \ due : endings[i] = entitlements'[i].scheduled
    BY <1>4, <1>8
  <2> QED
    BY <2>1, <2>2, <2>3 DEF EndingsFollow
<1>13. EndsAhead'
  <2>1. ASSUME NEW i \in DOMAIN entitlements', entitlements'[i].scheduled # Unset
        PROVE  entitlements'[i].scheduled > at /\ MayEnd(entitlements'[i], entitlements'[i].scheduled)
    <3>1. i \in DOMAIN entitlements /\ i \notin due
      BY <1>8, <1>10, <2>1
    <3>2. entitlements'[i] = entitlements[i]
      BY <1>8, <3>1
    <3>3. MayEnd(entitlements[i], entitlements[i].scheduled)
      BY <1>1, <2>1, <3>1, <3>2 DEF EndsAhead
    <3>4. ~(entitlements[i].scheduled <= at)
      BY <1>5, <2>1, <3>1, <3>2
    <3>5. entitlements[i].scheduled \in Nat
      BY <1>2, <3>1
    <3>6. entitlements[i].scheduled > at
      BY <1>1, <3>4, <3>5
    <3> QED
      BY <3>2, <3>3, <3>6
  <2> QED
    BY <2>1 DEF EndsAhead
<1>14. TestsSubscribe'
  BY <1>1, <1>8, <1>10 DEF TestsSubscribe, TypeOf
<1>15. ASSUME NEW i \in DOMAIN entitlements
       PROVE  Gone(entitlements[i], clock) => Gone(entitlements'[i], at)
  BY <1>1, <1>2, <1>10 DEF Gone, Ended
<1>16. OneTrial'
  <2>1. ASSUME NEW i \in DOMAIN entitlements, NEW j \in DOMAIN entitlements,
               entitlements'[i].origin = "test", entitlements'[j].origin = "test",
               ~Gone(entitlements'[i], at), ~Gone(entitlements'[j], at),
               entitlements'[i].guild = entitlements'[j].guild,
               entitlements'[i].guild = None => entitlements'[i].user = entitlements'[j].user
        PROVE  i = j
    <3>1. ~Gone(entitlements[i], clock) /\ ~Gone(entitlements[j], clock)
      BY <1>15, <2>1
    <3> QED
      BY <1>1, <1>10, <2>1, <3>1 DEF OneTrial
  <2> QED
    BY <1>8, <2>1 DEF OneTrial
<1>17. EntitlementsInv'
  BY <1>11, <1>12, <1>13, <1>14, <1>16 DEF EntitlementsInv
<1>18. ASSUME NEW i \in DOMAIN entitlements
       PROVE  /\ entitlements'[i].ends # entitlements[i].ends <=> i \in due /\ ~Ended(entitlements[i], at)
              /\ <<"update", i>> \in told' <=> i \in due /\ ~Ended(entitlements[i], at)
              /\ <<"delete", i>> \notin told'
  <2>1. entitlements'[i].ends # entitlements[i].ends <=> i \in due /\ ~Ended(entitlements[i], at)
    BY <1>1, <1>2, <1>10 DEF Ended
  <2>2. /\ <<"update", i>> \in told' <=> i \in due /\ ~Ended(entitlements[i], at)
        /\ <<"delete", i>> \notin told'
    BY <1>3, <1>7
  <2> QED
    BY <2>1, <2>2
<1>19. ASSUME NEW u \in Users, NEW g \in Guilds \cup {None},
              NEW i \in InteractionEntitlements(u, g)' \cap DOMAIN entitlements
       PROVE  i \in InteractionEntitlements(u, g) \/ ~Started(entitlements[i], clock)
  <2> DEFINE e == entitlements[i]
             f == entitlements'[i]
  <2>1. /\ IF f.guild # None THEN f.guild = g ELSE f.user = u
        /\ ~f.deleted /\ ~f.consumed /\ ~Ended(f, at)
    BY <1>19 DEF InteractionEntitlements
  <2>2. i \in DOMAIN entitlements
    BY <1>19
  <2>3. /\ IF e.guild # None THEN e.guild = g ELSE e.user = u
        /\ ~e.deleted /\ ~e.consumed
    BY <1>10, <2>1, <2>2
  <2>4. ~Ended(e, clock)
    <3>1. ~Gone(f, at)
      BY <2>1 DEF Gone
    <3> QED
      BY <1>15, <2>2, <3>1 DEF Gone
  <2> QED
    BY <2>2, <2>3, <2>4 DEF InteractionEntitlements
<1>20. RestoresNothing
  <2>1. ASSUME NEW i \in DOMAIN entitlements
        PROVE  LET e == entitlements[i]
                   f == entitlements'[i]
                   update == e.consumed # f.consumed \/ e.ends # f.ends
               IN  /\ Gone(e, clock) => Gone(f, clock')
                   /\ <<"delete", i>> \in told' <=> e.deleted # f.deleted
                   /\ <<"update", i>> \in told' <=> update
    <3>1. /\ entitlements'[i].deleted = entitlements[i].deleted
          /\ entitlements'[i].consumed = entitlements[i].consumed
      BY <1>10
    <3> QED
      BY <1>15, <1>18, <3>1
  <2> QED
    BY <1>19, <2>1 DEF RestoresNothing
<1>21. DueIn(endings', at) = {}
  <2>1. ASSUME NEW k \in DOMAIN endings', endings'[k] <= at
        PROVE  FALSE
    <3>1. k \in DOMAIN endings /\ k \notin due /\ endings'[k] = endings[k]
      BY <1>3, <1>7, <2>1
    <3> QED
      BY <1>4, <1>5, <2>1, <3>1
  <2> QED
    BY <2>1 DEF DueIn
<1>22. \A i \in DOMAIN entitlements :
         entitlements'[i].ends # entitlements[i].ends => entitlements[i].scheduled = at
  BY <1>6, <1>18
<1> QED
  BY <1>17, <1>20, <1>21, <1>22

LEMMA MoveKeeps ==
  ASSUME ResourcesInv, NEW at \in 0..LastInstant, Move(at)
  PROVE  ResourcesInv' /\ ResourceSteps
<1>1. /\ at \in {clock, clock + 1} /\ clock' = at /\ SettleEvents(at) /\ SettleEntitlements(at)
      /\ UNCHANGED <<guilds, issued>>
  BY DEF Move
<1>2. /\ EventsInv' /\ DueIn(transitions', at) = {}
      /\ \A id \in DOMAIN events :
           /\ events'[id].status >= events[id].status
           /\ events'[id].status = 2 => events'[id].end > at
  BY <1>1, SettleEventsKeeps
<1>3. /\ EntitlementsInv' /\ RestoresNothing
      /\ DueIn(endings', at) = {}
      /\ \A id \in DOMAIN entitlements :
           entitlements'[id].ends # entitlements[id].ends => entitlements[id].scheduled = at
  BY <1>1, SettleEntitlementsKeeps
<1>4. SettlesAllDue
  BY <1>1, <1>2, <1>3 DEF SettlesAllDue
<1> QED
  BY <1>2, <1>3, <1>4 DEF ResourcesInv, ResourceSteps

-----------------------------------------------------------------------------
(* Resources: the theorems *)

LEMMA ResourcesNextKeeps ==
  ASSUME ResourcesInv, ResourcesNext
  PROVE  ResourcesInv' /\ ResourceSteps
<1>1. ASSUME NEW sku \in DOMAIN Catalogue, NEW o \in Owners, NEW h \in Histories,
             NEW at \in Schedules \cup {Unset}, Seed(sku, o[1], o[2], h, at)
      PROVE  ResourcesInv' /\ ResourceSteps
  BY <1>1, ArrangedKeeps
<1>2. ASSUME NEW sku \in DOMAIN Catalogue, NEW o \in Owners, NEW origin \in Granted,
             NEW starts \in StartTimes \cup {Unset}, NEW at \in Schedules \cup {Unset},
             Grant(sku, o[1], o[2], origin, starts, at)
      PROVE  ResourcesInv' /\ ResourceSteps
  BY <1>2, ArrangedKeeps
<1>3. ASSUME NEW id \in DOMAIN entitlements, NEW at \in Schedules \cup {Unset}, ScheduleEnd(id, at)
      PROVE  ResourcesInv' /\ ResourceSteps
  BY <1>3, StatesKeep
<1>4. ASSUME NEW id \in DOMAIN entitlements,
             End(id) \/ Revoke(id) \/ DeleteTest(id) \/ Consume(id) \/ ReplayCreate(id)
      PROVE  ResourcesInv' /\ ResourceSteps
  BY <1>4, StatesKeep
<1>5. ASSUME \/ \E g \in Guilds, start \in StartTimes, end \in EndTimes \cup {Unset} : CreateEvent(g, start, end)
             \/ \E id \in DOMAIN events, to \in 1..4, start \in StartTimes, end \in EndTimes \cup {Unset} :
                  EditEvent(id, to, start, end)
             \/ \E id \in DOMAIN events, u \in Users, subscribed \in BOOLEAN : Subscribe(id, u, subscribed)
             \/ \E id \in DOMAIN events : DeleteEvent(id)
             \/ \E g \in Guilds : DeleteGuild(g)
      PROVE  ResourcesInv' /\ ResourceSteps
  BY <1>5, EventCallsKeep, Zenon
<1> QED
  BY <1>1, <1>2, <1>3, <1>4, <1>5, CreateTestKeeps, MoveKeeps, Zenon DEF ResourcesNext

LEMMA ResourcesInvHolds == ResourcesSpec => []ResourcesInv
<1>1. ResourcesInv /\ UNCHANGED resourceVars => ResourcesInv'
  <2> SUFFICES ASSUME ResourcesInv, UNCHANGED resourceVars
               PROVE  ResourcesInv'
    OBVIOUS
  <2>1. UNCHANGED <<entitlements, endings, guilds, events, transitions, issued, clock>>
    BY DEF resourceVars
  <2>2. EntitlementsInv'
    BY <2>1 DEF ResourcesInv, EntitlementsInv, EndingsFollow, EndsAhead, TestsSubscribe, OneTrial
  <2> QED
    BY <2>1, <2>2, EventsRest DEF ResourcesInv
<1>2. ResourcesInv /\ [ResourcesNext]_resourceVars => ResourcesInv'
  BY <1>1, ResourcesNextKeeps
<1> QED
  BY <1>2, ResourcesInitKeeps, PTL DEF ResourcesSpec

\* The tables of deadlines are those of the entitlements and events that
\* exist, and the test route gives an owner one subscription at a time.
THEOREM TablesAlwaysFollow == ResourcesSpec => []TablesFollow
  BY ResourcesInvHolds, InvTells, PTL

\* Whatever is due is settled by the move of the clock that reaches it, and
\* no step gives back what was lost or keeps quiet about a loss.
THEOREM DueAlwaysSettles == ResourcesSpec => DueSettles
<1>1. ResourcesInv /\ [ResourcesNext]_resourceVars => [SettlesAllDue /\ RestoresNothing]_resourceVars
  BY ResourcesNextKeeps DEF ResourceSteps
<1> QED
  BY <1>1, ResourcesInvHolds, PTL DEF ResourcesSpec, DueSettles

=============================================================================
