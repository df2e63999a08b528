------------------------------ MODULE Callbacks ------------------------------
(***************************************************************************)
(* The index of the callbacks a bot has scheduled (_WorkState, and the       *)
(* hooks' _track_callback): the loop runs and drops handles on its own, a    *)
(* worker thread schedules while the loop runs, and a cancelled handle tells *)
(* nobody.  Timers run on the virtual clock.                                 *)
(***************************************************************************)
EXTENDS Naturals, FiniteSets, FiniteSetsExt, Functions

CONSTANTS
  Soon, Timer,  \* callbacks to schedule: at once, or for a later time
  Futures,      \* what the timers wake
  Woken,        \* timer -> the future it wakes
  MaxTime,      \* bound of the virtual clock
  Spare         \* stale entries the heap may keep, 64 in the code

ASSUME CallbacksAssumption ==
  Soon \cap Timer = {} /\ Woken \in [Timer -> Futures] /\ MaxTime \in Nat /\ Spare \in Nat

VARIABLES
  handle,   \* callback -> what became of its handle
  fires,    \* timer -> its instant
  native,   \* call_soon handles the loop holds
  half,     \* scheduled by a thread that has yet to register it
  index, timers, wakes,  \* callbacks, timers and wakes of _WorkState
  ready,    \* callback -> its place in ready of _WorkState, 0 where it is not there
  elapsed

callbackVars == <<handle, fires, native, half, index, timers, wakes, ready, elapsed>>

Handles == Soon \cup Timer
Stale(c) == handle[c] # "live"

(***************************************************************************)
(* The index.  A record that is retired leaves every table but the heap,    *)
(* which is compacted when it keeps too many entries for what is left.      *)
(***************************************************************************)
Ready == {c \in Handles : ready[c] > 0}
End == Max({0} \cup Range(ready))

Deletes(gone, line) ==
  /\ index' = index \ gone
  /\ ready' = [c \in Handles |-> IF c \in gone THEN 0 ELSE line[c]]
  /\ wakes' = [f \in Futures |-> wakes[f] \ gone]

Crowded(entries, records) == Cardinality(entries) > 2 * Cardinality(records) + Spare

HeapBecomes(crowded, rest) ==
  timers' = IF crowded THEN {c \in index' \cap Timer : ready'[c] = 0} ELSE rest

Retired(c) ==
  /\ Deletes({c}, ready)
  /\ HeapBecomes(c \in index /\ Crowded(timers, index \ {c}), timers)

Registered(c) ==
  /\ index' = index \cup {c}
  /\ ready' = IF c \in Soon THEN [ready EXCEPT ![c] = End + 1] ELSE ready
  /\ timers' = IF c \in Timer THEN timers \cup {c} ELSE timers
  /\ wakes' = IF c \in Timer THEN [wakes EXCEPT ![Woken[c]] = @ \cup {c}] ELSE wakes

Unindexed == UNCHANGED <<index, timers, wakes, ready>>

(***************************************************************************)
(* Scheduling.  On the loop's own thread a callback is registered before it *)
(* can run; a thread hands it to the loop first.                            *)
(***************************************************************************)
CallSoon(c) ==
  /\ c \in Soon /\ handle[c] = "none"
  /\ handle' = [handle EXCEPT ![c] = "live"] /\ native' = native \cup {c} /\ Registered(c)
  /\ UNCHANGED <<fires, half, elapsed>>

CallAt(c, t) ==
  /\ c \in Timer /\ handle[c] = "none" /\ t > elapsed
  /\ handle' = [handle EXCEPT ![c] = "live"] /\ fires' = [fires EXCEPT ![c] = t] /\ Registered(c)
  /\ UNCHANGED <<native, half, elapsed>>

CallThreadsafe(c) ==
  /\ c \in Soon /\ handle[c] = "none"
  /\ handle' = [handle EXCEPT ![c] = "live"] /\ native' = native \cup {c} /\ half' = half \cup {c}
  /\ Unindexed /\ UNCHANGED <<fires, elapsed>>

Uncalled(c) == handle[c] # "ran"

Register(c) ==
  /\ c \in half /\ half' = half \ {c}
  /\ IF Uncalled(c) THEN Registered(c) ELSE Unindexed
  /\ UNCHANGED <<handle, fires, native, elapsed>>

(***************************************************************************)
(* Running and cancelling.                                                  *)
(***************************************************************************)
Invoke(cs) ==
  /\ handle' = [c \in Handles |-> IF c \in cs THEN "ran" ELSE handle[c]]
  /\ native' = native \ cs

LoopRuns(c) ==
  /\ c \in native /\ ~Stale(c)
  /\ Invoke({c}) /\ Retired(c) /\ UNCHANGED <<fires, half, elapsed>>

LoopDrops(c) ==
  /\ c \in native /\ handle[c] = "cancelled" /\ native' = native \ {c}
  /\ Unindexed /\ UNCHANGED <<handle, fires, half, elapsed>>

\* a caller has the handle once it is registered
Cancel(c) ==
  /\ ~Stale(c) /\ c \notin half /\ handle' = [handle EXCEPT ![c] = "cancelled"]
  /\ Unindexed /\ UNCHANGED <<fires, native, half, elapsed>>

\* reconcile and _active_callbacks look at every record
Reconcile(c) ==
  /\ c \in index /\ Stale(c) /\ Retired(c)
  /\ UNCHANGED <<handle, fires, native, half, elapsed>>

(***************************************************************************)
(* The heap is popped in the order of the instants; timers of one instant   *)
(* come in the order they were registered in, which is any order here.      *)
(* Each stale record that is met is retired there and then.                 *)
(***************************************************************************)
Orders(popped) ==
  {pos \in Injection(popped, 1 .. Cardinality(popped)) :
     \A c, d \in popped : fires[c] < fires[d] => pos[c] < pos[d]}

Overflows(popped, pos) ==
  \E c \in popped \cap index :
    LET taken == {d \in popped : pos[d] <= pos[c]}
    IN  Stale(c) /\ Crowded(timers \ taken, index \ {d \in taken : Stale(d)})

\* what a mutant does: the last that came due is taken first
FirstLast(wanted, line) == {c \in wanted : \A d \in wanted : line[d] <= line[c]}
First(wanted, line) == {c \in wanted : \A d \in wanted : line[c] <= line[d]}

\* next_due_callback: due timers become ready in the order of their instants;
\* the first of the ready timers that is still wanted runs, and what is not, of
\* the due ones and of those before it, is retired.
RunDue ==
  LET due == {c \in timers : fires[c] <= elapsed}
      stale == {c \in due \cap index : Stale(c)}
      kept == (due \cap index) \ stale
  IN  \E pos \in Orders(due) :
        LET line == [c \in Handles |-> IF c \in kept THEN End + pos[c] ELSE ready[c]]
            queued == {c \in Handles : line[c] > 0}
            first == First({c \in queued \cap Timer : ~Stale(c)}, line)
            before == {c \in queued : Stale(c) /\ \A d \in first : line[c] < line[d]}
            gone == stale \cup before \cup first
        IN  /\ due \cup gone # {}
            /\ Invoke(first) /\ Deletes(gone, line)
            /\ HeapBecomes(\/ Overflows(due, pos)
                           \/ before \cup first # {} /\ Crowded(timers \ due, index \ gone),
                           timers \ due)
            /\ UNCHANGED <<fires, half, elapsed>>

\* The clock goes to a target, or as far as next_timer finds a timer; what
\* next_timer finds unwanted before it is popped and retired.
Move(target) ==
  LET live == {c \in timers \cap index : ~Stale(c)}
  IN  /\ elapsed' = Min({target} \cup {fires[c] : c \in live}) /\ elapsed' > elapsed
      /\ \E pos \in Orders(timers) :
           LET passed == {c \in timers : \A d \in live : pos[c] < pos[d]}
           IN  Deletes(passed, ready) /\ HeapBecomes(Overflows(passed, pos), timers \ passed)
      /\ UNCHANGED <<handle, fires, native, half>>

\* the bot is detached
CancelCallbacks ==
  /\ index # {}
  /\ handle' = [c \in Handles |-> IF c \in index /\ ~Stale(c) THEN "cancelled" ELSE handle[c]]
  /\ index' = {} /\ timers' = {} /\ wakes' = [f \in Futures |-> {}] /\ ready' = [c \in Handles |-> 0]
  /\ UNCHANGED <<fires, native, half, elapsed>>

CallbacksInit ==
  /\ handle = [c \in Handles |-> "none"] /\ fires = [c \in Timer |-> 0]
  /\ native = {} /\ half = {} /\ index = {} /\ timers = {}
  /\ wakes = [f \in Futures |-> {}] /\ ready = [c \in Handles |-> 0] /\ elapsed = 0

CallbacksNext ==
  \/ \E c \in Soon : CallSoon(c) \/ CallThreadsafe(c) \/ Register(c) \/ LoopRuns(c) \/ LoopDrops(c)
  \/ \E c \in Timer, t \in 1 .. MaxTime : CallAt(c, t)
  \/ \E c \in Handles : Cancel(c) \/ Reconcile(c)
  \/ RunDue \/ CancelCallbacks
  \/ \E t \in 1 .. MaxTime : Move(t)

CallbacksSpec == CallbacksInit /\ [][CallbacksNext]_callbackVars

(***************************************************************************)
(* Properties                                                              *)
(***************************************************************************)

\* The index never holds a callback that has run, also one the loop ran before
\* the thread that scheduled it had registered it; every live timer it holds
\* can be found in the heap or among the ready ones, and by what it wakes; and
\* the heap keeps no more stale entries than compaction allows.
IndexSound ==
  /\ \A c \in index : handle[c] # "ran"
  /\ \A c \in index \cap Timer : ~Stale(c) => c \in timers \/ c \in Ready
  /\ \A c \in index \cap Timer : c \in wakes[Woken[c]]
  /\ Ready \subseteq index /\ \A f \in Futures : wakes[f] \subseteq index
  /\ Cardinality(timers) <= 2 * Cardinality(index) + Spare

\* A timer that runs is among the earliest of those that are due.
RunsEarliest ==
  \A c \in Timer : handle[c] = "live" /\ handle'[c] = "ran" =>
    /\ fires[c] <= elapsed
    /\ \A d \in Timer \cap index : handle[d] = "live" => fires[c] <= fires[d]

\* The index is sound, and due timers run in the order of their instants
\* (_WorkState.register, retire, next_due_callback, next_timer).
IndexKept == []IndexSound /\ [][RunsEarliest]_callbackVars

=============================================================================
