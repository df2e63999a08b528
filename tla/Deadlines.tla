------------------------------ MODULE Deadlines ------------------------------
(***************************************************************************)
(* backend/_deadlines.py: the revisioned deadline queue behind polls,      *)
(* scheduled events and entitlements.                                      *)
(*                                                                         *)
(* Every write gets a fresh revision and pushes an entry; entries of older *)
(* revisions stay in the heap and in open passes until they are trimmed or *)
(* compacted. Subscribers run synchronously between two keys of a pass, so *)
(* writes and nested passes may come between any two steps of a pass.      *)
(* Heaps are sets: revisions make their entries distinct.                  *)
(***************************************************************************)
EXTENDS DeadlineValues, FiniteSets

CONSTANTS
  MaxNesting,    \* bound: passes open at once
  MaxRevision,   \* bound: writes in a behaviour
  Slack          \* stale entries tolerated before a compaction (64 in the code)

ASSUME BoundsAssumption == MaxNesting \in Nat /\ MaxRevision \in Nat /\ Slack \in Nat

VARIABLES
  value,      \* _live: the value of every key (Absent when it has none)
  rev,        \* _live: the revision of every key (0 when it has none)
  revision,   \* _revision
  heap,       \* _heap: [at, rev, key] entries, stale ones included
  depth,      \* len(_batches)
  passes,     \* _batches: now, eligible (the orders admitted) and cursor
  pending,    \* _batches: pending, [rev, key] entries ordered by Order[key]
  answer      \* what the last call returned, raised or yielded

vars == <<value, rev, revision, heap, depth, passes, pending, answer>>

Table == INSTANCE DeadlineTable

HeapEntry    == [at : Times, rev : 1..MaxRevision, key : Keys]
PendingEntry == [rev : 1..MaxRevision, key : Keys]

LiveKeys(val) == {k \in Keys : IsLive(val[k])}

Init ==
  /\ value = [k \in Keys |-> Absent]
  /\ rev = [k \in Keys |-> 0]
  /\ revision = 0
  /\ heap = {}
  /\ depth = 0
  /\ passes = [i \in 1..MaxNesting |-> Table!Idle]
  /\ pending = [i \in 1..MaxNesting |-> {}]
  /\ answer = <<"start">>

-----------------------------------------------------------------------------
(* set(): one write, every open pass told, both compactions.               *)

Tolerated(val) == 2 * Cardinality(LiveKeys(val)) + Slack

CurrentDates(val, rv) ==
  {[at |-> val[k].at, rev |-> rv[k], key |-> k] :
     k \in {l \in Keys : IsDate(val[l])}}

Pushed(h, val, rv, k) ==
  h \cup {e \in CurrentDates(val, rv) : e.key = k}

\* Mutant: the heap is never compacted.
CompactedNever(h, val, rv) == h

Compacted(h, val, rv) ==
  IF Cardinality(h) > Tolerated(val) THEN CurrentDates(val, rv) ELSE h

CurrentPending(p, rv) == {e \in p : e.rev = rv[e.key]}

\* Mutant: compaction runs before the new entry is pushed, in its place.
NotifiedLossy(pass, p, k, val, rv) ==
  IF Order[k] > pass.cursor /\ IsDue(val[k], pass.now)
  THEN IF Cardinality(p) >= Tolerated(val)
       THEN CurrentPending(p, rv)
       ELSE p \cup {[rev |-> rv[k], key |-> k]}
  ELSE p

\* What a write of k leaves pending in an open pass.
Notified(pass, p, k, val, rv) ==
  IF Order[k] > pass.cursor /\ IsDue(val[k], pass.now)
  THEN LET grown == p \cup {[rev |-> rv[k], key |-> k]}
       IN IF Cardinality(grown) > Tolerated(val)
          THEN CurrentPending(grown, rv)
          ELSE grown
  ELSE p

Set(k, v) ==
  /\ revision < MaxRevision
  /\ revision' = revision + 1
  /\ value' = [value EXCEPT ![k] = v]
  /\ rev' = [rev EXCEPT ![k] = IF IsLive(v) THEN revision + 1 ELSE 0]
  /\ pending' = [i \in 1..MaxNesting |->
                   IF i <= depth
                   THEN Notified(passes[i], pending[i], k, value', rev')
                   ELSE pending[i]]
  /\ heap' = Compacted(Pushed(heap, value', rev', k), value', rev')
  /\ answer' = <<"set">>
  /\ UNCHANGED <<depth, passes>>

-----------------------------------------------------------------------------
(* next(): stale entries are popped off the top, the top is the answer.    *)

IsCurrent(e) == e.rev = rev[e.key]

Before(e, f) == e.at < f.at \/ (e.at = f.at /\ e.rev <= f.rev)

\* _trim: what is left once the stale entries on top are gone.
Trimmed(h) == {e \in h : \E f \in h : IsCurrent(f) /\ Before(f, e)}

Lookup ==
  /\ \/ /\ LookupRaises(value)
        /\ heap' = heap
        /\ answer' = <<"raised">>
     \/ /\ ~LookupRaises(value)
        /\ heap' = Trimmed(heap)
        /\ heap' = {}
        /\ answer' = <<"none">>
     \/ /\ ~LookupRaises(value)
        /\ heap' = Trimmed(heap)
        /\ \E e \in heap' :
             /\ \A f \in heap' : Before(e, f)
             /\ answer' = <<"next", value[e.key].at>>
  /\ UNCHANGED <<value, rev, revision, depth, passes, pending>>

-----------------------------------------------------------------------------
(* due(): a pass over the due keys, opened inside the body of another.     *)

\* _due_keys: errors, naive dates, and the current entries up to now.
DueKeys(now) ==
  {k \in Keys : IsError(value[k]) \/ value[k].kind = "naive"}
    \cup {e.key : e \in {f \in heap : f.at <= now /\ IsCurrent(f)}}

\* Current entries are pushed back, what was trimmed on the way is gone.
HeapAfterDueKeys(now) ==
  {e \in heap : e.at <= now /\ IsCurrent(e)}
    \cup Trimmed({e \in heap : e.at > now})

Open(now, admit) ==
  /\ depth < MaxNesting
  /\ depth' = depth + 1
  /\ passes' = [passes EXCEPT ![depth + 1] =
                  [now |-> now, admit |-> admit, cursor |-> 0]]
  /\ pending' = [pending EXCEPT ![depth + 1] =
                   {[rev |-> rev[k], key |-> k] : k \in DueKeys(now)}]
  /\ heap' = HeapAfterDueKeys(now)
  /\ answer' = <<"opened">>
  /\ UNCHANGED <<value, rev, revision>>

\* Mutant: a popped entry is not compared with the revision of its key.
DeliverableStale(i) ==
  {e \in pending[i] : /\ Order[e.key] > passes[i].cursor
                      /\ e.key \in passes[i].admit}

\* _drain: the pending entries a pass does not discard when it pops them.
Deliverable(i) ==
  {e \in pending[i] : /\ IsCurrent(e)
                      /\ Order[e.key] > passes[i].cursor
                      /\ e.key \in passes[i].admit}

PopsBefore(e, f) ==
  Order[e.key] < Order[f.key] \/ (e.key = f.key /\ e.rev <= f.rev)

\* Entries are popped and discarded up to the first deliverable one.
HandOut ==
  /\ depth > 0
  /\ \E e \in Deliverable(depth) :
       /\ \A f \in Deliverable(depth) : PopsBefore(e, f)
       /\ pending' = [pending EXCEPT ![depth] =
                        {f \in @ : ~PopsBefore(f, e)}]
       /\ passes' = [passes EXCEPT ![depth].cursor = Order[e.key]]
       /\ answer' = <<"due", e.key>>
  /\ UNCHANGED <<value, rev, revision, heap, depth>>

Close(why) ==
  /\ depth' = depth - 1
  /\ passes' = [passes EXCEPT ![depth] = Table!Idle]
  /\ pending' = [pending EXCEPT ![depth] = {}]
  /\ answer' = <<why>>
  /\ UNCHANGED <<value, rev, revision, heap>>

\* The generator runs dry and the with block ends.
Exhaust == depth > 0 /\ Deliverable(depth) = {} /\ Close("exhausted")

\* The body of the with block raises.
Abort == depth > 0 /\ Close("aborted")

Next ==
  \/ \E k \in Keys, v \in Values : Set(k, v)
  \/ Lookup
  \/ \E now \in Times, admit \in SUBSET Keys : Open(now, admit)
  \/ HandOut
  \/ Exhaust
  \/ Abort

Spec == Init /\ [][Next]_vars

-----------------------------------------------------------------------------
(* Properties                                                              *)

\* Every variable has its type; revisions never run ahead of the counter.
TypeOK ==
  /\ value \in [Keys -> Values]
  /\ rev \in [Keys -> 0..MaxRevision]
  /\ revision \in 0..MaxRevision
  /\ heap \subseteq HeapEntry
  /\ depth \in 0..MaxNesting
  /\ passes \in [1..MaxNesting -> [now : Times \cup {0}, admit : SUBSET Keys, cursor : Nat]]
  /\ pending \in [1..MaxNesting -> SUBSET PendingEntry]

\* No write, lookup, pass, trim or compaction loses a live date: its current
\* entry is in the heap until the date itself is replaced or withdrawn.
HeapCoversLive == CurrentDates(value, rev) \subseteq heap

\* An open pass still holds every key it owes its caller, whatever writes,
\* nested passes and compactions came since it was opened.
PassCoversOwed ==
  \A i \in 1..depth :
    \A k \in Table!Owed(passes[i]) : [rev |-> rev[k], key |-> k] \in pending[i]

\* No deadline is lost, neither on the heap nor on the way to a caller.
NothingLost == HeapCoversLive /\ PassCoversOwed

\* A pass never keeps a key for an earlier write of it that was due: what is
\* current and pending is due now.
PendingIsDue ==
  \A i \in 1..depth :
    \A e \in pending[i] : IsCurrent(e) => IsDue(value[e.key], passes[i].now)

\* What the queue keeps through every interleaving of writes, lookups and
\* passes: no deadline is lost, and none is handed out that is not due.
QueueSound == TypeOK /\ NothingLost /\ PendingIsDue

\* Rescheduling one key again and again never grows the heap past the
\* compaction threshold.
HeapBounded == Cardinality(heap) <= Tolerated(value)

\* The queue answers every call as the plain table would.
ImplementsTable == Table!Spec
=============================================================================
