---------------------------- MODULE RuntimeProofs ----------------------------
(***************************************************************************)
(* Proofs about what an Env rests on.  The deadline queue: its types, that  *)
(* neither the heap nor an open pass ever loses a deadline, and that it     *)
(* implements the table.  The hooks: that they follow the Envs.  The errors *)
(* of tasks: that each is told once.  The index of callbacks: that it keeps *)
(* what it must, and that due timers run in their order.                    *)
(***************************************************************************)
EXTENDS Deadlines, Hooks, TaskErrors, Callbacks, FiniteSetTheorems, FunctionTheorems,
        WellFoundedInduction, TLAPS

\* Revisions tell writes apart, and an entry whose revision is the key's own
\* describes the value the key has now.
EntriesTell ==
  /\ \A k \in Keys : rev[k] <= revision /\ (IsLive(value[k]) <=> rev[k] > 0)
  /\ \A e \in heap : /\ e.rev <= revision
                     /\ IsCurrent(e) => /\ IsDate(value[e.key])
                                        /\ e.at = value[e.key].at
  /\ \A e, f \in heap : e.rev = f.rev => e = f
  /\ \A i \in 1..MaxNesting : \A e \in pending[i] : e.rev <= revision

QueueInv ==
  /\ TypeOK
  /\ EntriesTell
  /\ HeapCoversLive
  /\ PassCoversOwed
  /\ PendingIsDue

\* What the kinds of values exclude.
LEMMA ValueKinds ==
  ASSUME NEW v \in Values
  PROVE  /\ IsDate(v) => IsLive(v) /\ v.at \in Times
         /\ IsLive(v) => IsDate(v) \/ IsError(v)
         /\ \A now : IsDue(v, now) => IsLive(v)
  BY DEF Values, Dates, Errors, Absent, IsDate, IsLive, IsError, IsDue

\* Trimming and selecting only drop entries, and never a current one.
LEMMA TrimmedKeeps ==
  ASSUME NEW h \in SUBSET HeapEntry
  PROVE  /\ Trimmed(h) \subseteq h
         /\ \A e \in h : IsCurrent(e) => e \in Trimmed(h)
  <1>1. \A e \in h : Before(e, e)
    BY TimesAssumption DEF HeapEntry, Before
  <1> QED BY <1>1 DEF Trimmed

\* The fields of the entries of the heap.
LEMMA HeapTyped ==
  ASSUME TypeOK, NEW e \in heap
  PROVE  e.at \in Times /\ e.at \in Nat /\ e.rev \in Nat /\ e.rev > 0 /\ e.key \in Keys
  <1>1. e \in HeapEntry
    BY DEF TypeOK
  <1>2. e.at \in Times /\ e.rev \in 1..MaxRevision /\ e.key \in Keys
    BY <1>1 DEF HeapEntry
  <1>3. e.at \in Nat
    BY <1>2, TimesAssumption
  <1>4. e.rev \in Nat /\ e.rev > 0
    BY <1>2, BoundsAssumption
  <1> QED BY <1>2, <1>3, <1>4

LEMMA DueKeysKeep ==
  ASSUME NEW now \in Times, TypeOK
  PROVE  /\ HeapAfterDueKeys(now) \subseteq heap
         /\ \A e \in heap : IsCurrent(e) => e \in HeapAfterDueKeys(now)
  <1> DEFINE late == {e \in heap : e.at > now}
  <1>1. late \in SUBSET HeapEntry
    BY DEF TypeOK
  <1>2. Trimmed(late) \subseteq late /\ \A e \in late : IsCurrent(e) => e \in Trimmed(late)
    BY <1>1, TrimmedKeeps
  <1>3. \A e \in heap : e.at > now \/ e.at <= now
    BY HeapTyped, TimesAssumption
  <1> QED BY <1>2, <1>3 DEF HeapAfterDueKeys

LEMMA InitInv == Init => QueueInv
  <1> SUFFICES ASSUME Init PROVE QueueInv
    OBVIOUS
  <1>1. TypeOK
    BY BoundsAssumption DEF Init, TypeOK, Values, Absent, Table!Idle
  <1>2. EntriesTell /\ HeapCoversLive
    BY DEF Init, EntriesTell, HeapCoversLive, CurrentDates, IsLive, IsDate, Absent
  <1>3. PassCoversOwed /\ PendingIsDue
    BY DEF Init, PassCoversOwed, PendingIsDue
  <1> QED BY <1>1, <1>2, <1>3 DEF QueueInv

\* A write: the new value has a revision of its own, every other key keeps
\* value, revision, heap entry and place in the open passes.
LEMMA SetInv ==
  ASSUME QueueInv, NEW k \in Keys, NEW v \in Values, Set(k, v)
  PROVE  QueueInv'
  <1> DEFINE pushed == Pushed(heap, value', rev', k)
             fresh  == [at |-> v.at, rev |-> revision + 1, key |-> k]
  <1>1. /\ TypeOK
        /\ revision' = revision + 1
        /\ revision' \in 1..MaxRevision
        /\ \A l \in Keys : l # k => value'[l] = value[l] /\ rev'[l] = rev[l]
        /\ value'[k] = v
        /\ rev'[k] = IF IsLive(v) THEN revision + 1 ELSE 0
        /\ value' \in [Keys -> Values]
        /\ rev' \in [Keys -> 0..MaxRevision]
    BY BoundsAssumption DEF QueueInv, TypeOK, Set
  <1>2. \A e \in pushed : e \in heap \/ (e = fresh /\ IsDate(v))
    BY <1>1 , ValueKinds DEF Pushed, CurrentDates
  <1>3. CurrentDates(value', rev') \subseteq pushed
    <2> SUFFICES ASSUME NEW l \in Keys, IsDate(value'[l])
                 PROVE  [at |-> value'[l].at, rev |-> rev'[l], key |-> l] \in pushed
      BY DEF CurrentDates
    <2>1. CASE l = k
      BY <2>1 DEF Pushed, CurrentDates
    <2>2. CASE l # k
      BY <1>1, <2>2 DEF Pushed, QueueInv, HeapCoversLive, CurrentDates
    <2> QED BY <2>1, <2>2
  <1>4. heap' = pushed \/ heap' = CurrentDates(value', rev')
    BY DEF Set, Compacted
  <1>5. HeapCoversLive' /\ heap' \subseteq pushed
    BY <1>3, <1>4 DEF HeapCoversLive
  <1>6. \A i \in 1..MaxNesting : \A e \in pending'[i] :
          e \in pending[i] \/ (e = [rev |-> rev'[k], key |-> k] /\ IsDue(v, passes[i].now))
    BY <1>1 DEF Set, Notified, CurrentPending
  <1>7. TypeOK'
    <2>1. heap' \subseteq HeapEntry
      <3>1. ASSUME NEW e \in pushed PROVE e \in HeapEntry
        <4>1. CASE e \in heap
          BY <1>1, <4>1 DEF TypeOK
        <4>2. CASE e = fresh /\ IsDate(v)
          <5>1. v.at \in Times
            BY <4>2, ValueKinds
          <5>2. revision + 1 \in 1..MaxRevision
            BY <1>1
          <5> QED BY <4>2, <5>1, <5>2 DEF HeapEntry
        <4> HIDE DEF pushed, fresh
        <4> QED BY <1>2, <4>1, <4>2
      <3> QED BY <1>5, <3>1
    <2>2. pending' \in [1..MaxNesting -> SUBSET PendingEntry]
      <3>1. ASSUME NEW i \in 1..MaxNesting, NEW e \in pending'[i]
            PROVE  e \in PendingEntry
        <4>1. CASE e \in pending[i]
          BY <1>1, <4>1 DEF TypeOK
        <4>2. CASE e = [rev |-> rev'[k], key |-> k] /\ IsDue(v, passes[i].now)
          <5>1. rev'[k] \in 1..MaxRevision
            BY <1>1, <4>2, ValueKinds
          <5> QED BY <4>2, <5>1 DEF PendingEntry
        <4> QED BY <1>6, <4>1, <4>2
      <3>2. pending' = [i \in 1..MaxNesting |-> pending'[i]]
        BY DEF Set
      <3> QED BY <3>1, <3>2
    <2>3. depth' = depth /\ passes' = passes /\ revision' \in 0..MaxRevision
      BY <1>1, BoundsAssumption DEF Set
    <2> QED BY <1>1, <2>1, <2>2, <2>3 DEF TypeOK
  <1>8. EntriesTell'
    <2>1. \A e \in heap : e.rev < revision'
      BY <1>1, HeapTyped DEF QueueInv, EntriesTell, TypeOK
    <2>2. \A l \in Keys : rev'[l] <= revision' /\ (IsLive(value'[l]) <=> rev'[l] > 0)
      <3> SUFFICES ASSUME NEW l \in Keys
                   PROVE  rev'[l] <= revision' /\ (IsLive(value'[l]) <=> rev'[l] > 0)
        OBVIOUS
      <3>1. revision \in Nat /\ revision' = revision + 1
        BY <1>1, BoundsAssumption DEF TypeOK
      <3>2. CASE l = k
        BY <1>1, <3>1, <3>2
      <3>3. CASE l # k
        <4>1. rev[l] \in Nat /\ rev[l] <= revision /\ (IsLive(value[l]) <=> rev[l] > 0)
          BY <1>1, BoundsAssumption DEF QueueInv, EntriesTell, TypeOK
        <4> QED BY <1>1, <3>1, <3>3, <4>1
      <3> QED BY <3>2, <3>3
    <2>3. \A e \in heap' : e.rev <= revision'
      BY <1>1, <1>2, <1>5, <2>1, HeapTyped DEF TypeOK
    <2>4. \A e \in heap' : IsCurrent(e)' => IsDate(value'[e.key]) /\ e.at = value'[e.key].at
      <3> SUFFICES ASSUME NEW e \in heap', e.rev = rev'[e.key]
                   PROVE  IsDate(value'[e.key]) /\ e.at = value'[e.key].at
        BY DEF IsCurrent
      <3>1. CASE e \in heap
        <4>1. e.key \in Keys /\ e.rev # rev'[k] 
          BY <1>1, <2>1, <3>1, HeapTyped DEF TypeOK
        <4>2. e.key # k
          BY <4>1
        <4> QED BY <1>1, <3>1, <4>1, <4>2 DEF QueueInv, EntriesTell, IsCurrent
      <3>2. CASE e = fresh /\ IsDate(v)
        BY <1>1, <3>2
      <3> QED BY <1>2, <1>5, <3>1, <3>2
    <2>5. \A e, f \in heap' : e.rev = f.rev => e = f
      BY <1>1, <1>2, <1>5, <2>1 DEF QueueInv, EntriesTell
    <2>6. \A i \in 1..MaxNesting : \A e \in pending'[i] : e.rev <= revision'
      <3> SUFFICES ASSUME NEW i \in 1..MaxNesting, NEW e \in pending'[i]
                   PROVE  e.rev <= revision'
        OBVIOUS
      <3>1. CASE e \in pending[i]
        <4>1. e \in PendingEntry
          BY <1>1, <3>1 DEF TypeOK
        <4>2. e.rev \in Nat /\ e.rev <= revision
          BY <3>1, <4>1, BoundsAssumption DEF QueueInv, EntriesTell, PendingEntry
        <4> QED BY <1>1, <4>2 DEF TypeOK
      <3>2. CASE e = [rev |-> rev'[k], key |-> k]
        BY <2>2, <3>2
      <3> QED BY <1>6, <3>1, <3>2
    <2> QED BY <2>2, <2>3, <2>4, <2>5, <2>6 DEF EntriesTell
  <1>9. PassCoversOwed'
    <2> SUFFICES ASSUME NEW i \in 1..depth, NEW l \in passes[i].admit,
                        IsDue(value'[l], passes[i].now), Order[l] > passes[i].cursor
                 PROVE  [rev |-> rev'[l], key |-> l] \in pending'[i]
      BY DEF PassCoversOwed, Table!Owed, Set, IsDue, Table!IsDue, IsError, Table!IsError
    <2>1. i \in 1..MaxNesting /\ l \in Keys
      BY <1>1, BoundsAssumption DEF TypeOK
    <2>2. pending'[i] = Notified(passes[i], pending[i], k, value', rev')
      BY <2>1 DEF Set
    <2>3. CASE l = k
      BY <1>1, <2>2, <2>3 DEF Notified, CurrentPending
    <2>4. CASE l # k
      <3>1. [rev |-> rev[l], key |-> l] \in pending[i]
        BY <1>1, <2>1, <2>4 DEF QueueInv, PassCoversOwed, Table!Owed, IsDue, Table!IsDue, IsError, Table!IsError
      <3> QED BY <1>1, <2>1, <2>2, <2>4, <3>1 DEF Notified, CurrentPending
    <2> QED BY <2>3, <2>4
  <1>10. PendingIsDue'
    <2> SUFFICES ASSUME NEW i \in 1..depth, NEW e \in pending'[i], e.rev = rev'[e.key]
                 PROVE  IsDue(value'[e.key], passes[i].now)
      BY DEF PendingIsDue, IsCurrent, Set
    <2>1. i \in 1..MaxNesting
      BY <1>1, BoundsAssumption DEF TypeOK
    <2>2. e \in PendingEntry
      BY <1>7, <2>1 DEF TypeOK
    <2>3. CASE e = [rev |-> rev'[k], key |-> k] /\ IsDue(v, passes[i].now)
      BY <1>1, <2>3
    <2>4. CASE e \in pending[i]
      <3>1. e.rev <= revision /\ e.rev > 0 /\ e.key \in Keys /\ e.rev \in Nat
        BY <2>1, <2>2, <2>4 DEF QueueInv, EntriesTell, PendingEntry
      <3>2. e.key # k
        BY <1>1, <3>1 DEF TypeOK
      <3> QED BY <1>1, <2>4, <3>1, <3>2 DEF QueueInv, PendingIsDue, IsCurrent
    <2> QED BY <1>6, <2>1, <2>3, <2>4
  <1> QED BY <1>5, <1>7, <1>8, <1>9, <1>10 DEF QueueInv

\* Dropping stale entries from the heap, and nothing else, keeps QueueInv.
LEMMA HeapShrinks ==
  ASSUME QueueInv, heap' \subseteq heap,
         \A e \in heap : IsCurrent(e) => e \in heap',
         UNCHANGED <<value, rev, revision, depth, passes, pending>>
  PROVE  QueueInv'
  <1>1. TypeOK' /\ EntriesTell'
    BY DEF QueueInv, TypeOK, EntriesTell, IsCurrent
  <1>2. HeapCoversLive'
    BY DEF QueueInv, HeapCoversLive, CurrentDates, IsCurrent
  <1>3. PassCoversOwed' /\ PendingIsDue'
    BY DEF QueueInv, PassCoversOwed, PendingIsDue, IsCurrent, Table!Owed, Table!IsDue, Table!IsError
  <1> QED BY <1>1, <1>2, <1>3 DEF QueueInv

\* A lookup only trims the heap.
LEMMA LookupInv == QueueInv /\ Lookup => QueueInv'
  <1> SUFFICES ASSUME QueueInv, Lookup PROVE QueueInv'
    OBVIOUS
  <1>1. /\ heap' \subseteq heap
        /\ \A e \in heap : IsCurrent(e) => e \in heap'
    BY TrimmedKeeps DEF QueueInv, TypeOK, Lookup
  <1>2. UNCHANGED <<value, rev, revision, depth, passes, pending>>
    BY DEF Lookup
  <1> QED BY <1>1, <1>2, HeapShrinks

\* Opening a pass puts every due key in it, whichever way it was selected.
LEMMA OpenInv ==
  ASSUME QueueInv, NEW now \in Times, NEW admit \in SUBSET Keys, Open(now, admit)
  PROVE  QueueInv'
  <1>1. /\ heap' \subseteq heap
        /\ \A e \in heap : IsCurrent(e) => e \in heap'
    BY DueKeysKeep DEF QueueInv, Open
  <1>2. /\ TypeOK /\ EntriesTell /\ HeapCoversLive
        /\ UNCHANGED <<value, rev, revision>>
        /\ depth' = depth + 1 /\ depth' \in 1..MaxNesting
    BY BoundsAssumption DEF QueueInv, TypeOK, Open
  <1>3. DueKeys(now) = {k \in Keys : IsDue(value[k], now)}
    <2>1. \A k \in DueKeys(now) : k \in Keys /\ IsDue(value[k], now)
      <3> SUFFICES ASSUME NEW e \in heap, e.at <= now, IsCurrent(e)
                   PROVE  e.key \in Keys /\ IsDue(value[e.key], now)
        BY DEF DueKeys, IsDue
      <3> QED BY <1>2, HeapTyped DEF EntriesTell, IsDue, IsDate
    <2>2. ASSUME NEW k \in Keys, IsDue(value[k], now)
          PROVE  k \in DueKeys(now)
      <3> DEFINE e == [at |-> value[k].at, rev |-> rev[k], key |-> k]
      <3>1. CASE value[k].kind = "aware" /\ value[k].at <= now
        <4>1. e \in heap
          BY <1>2, <3>1 DEF HeapCoversLive, CurrentDates, IsDate
        <4>2. IsCurrent(e) /\ e.at <= now /\ e.key = k
          BY <3>1 DEF IsCurrent
        <4> QED BY <4>1, <4>2 DEF DueKeys
      <3>2. CASE IsError(value[k]) \/ value[k].kind = "naive"
        BY <3>2 DEF DueKeys
      <3> QED BY <2>2, <3>1, <3>2 DEF IsDue
    <2> QED BY <2>1, <2>2
  <1>4. \A i \in 1..MaxNesting :
          IF i = depth + 1
          THEN /\ passes'[i] = [now |-> now, admit |-> admit, cursor |-> 0]
               /\ pending'[i] = {[rev |-> rev[k], key |-> k] : k \in DueKeys(now)}
          ELSE passes'[i] = passes[i] /\ pending'[i] = pending[i]
    BY <1>2 DEF Open, TypeOK
  <1>5. TypeOK'
    <2>1. ASSUME NEW k \in DueKeys(now)
          PROVE  [rev |-> rev[k], key |-> k] \in PendingEntry
      <3>1. rev[k] \in 1..MaxRevision
        BY <1>2, <1>3, ValueKinds, BoundsAssumption DEF TypeOK, EntriesTell
      <3> QED BY <1>3, <3>1 DEF PendingEntry
    <2>2. {[rev |-> rev[k], key |-> k] : k \in DueKeys(now)} \in SUBSET PendingEntry
      BY <2>1
    <2>3. pending' \in [1..MaxNesting -> SUBSET PendingEntry]
      BY <1>2, <2>2 DEF Open, TypeOK
    <2>4. passes' \in [1..MaxNesting -> [now : Times \cup {0}, admit : SUBSET Keys, cursor : Nat]]
      BY <1>2 DEF Open, TypeOK
    <2> QED BY <1>1, <1>2, <2>3, <2>4, BoundsAssumption DEF TypeOK
  <1>6. EntriesTell'
    <2>1. \A i \in 1..MaxNesting : \A e \in pending'[i] : e.rev <= revision
      BY <1>2, <1>3, <1>4 DEF EntriesTell
    <2> QED BY <1>1, <1>2, <2>1 DEF EntriesTell, IsCurrent
  <1>7. HeapCoversLive'
    BY <1>1, <1>2 DEF HeapCoversLive, CurrentDates, IsCurrent
  <1>8. PassCoversOwed'
    <2> SUFFICES ASSUME NEW i \in 1..depth', NEW k \in passes'[i].admit,
                        IsDue(value[k], passes'[i].now), Order[k] > passes'[i].cursor
                 PROVE  [rev |-> rev[k], key |-> k] \in pending'[i]
      BY <1>2 DEF PassCoversOwed, Table!Owed, IsDue, Table!IsDue, IsError, Table!IsError
    <2>1. i \in 1..MaxNesting
      BY <1>2, BoundsAssumption
    <2>2. CASE i = depth + 1
      BY <1>3, <1>4, <2>1, <2>2
    <2>3. CASE i # depth + 1
      <3>1. i \in 1..depth
        BY <1>2, <2>3 DEF TypeOK
      <3> QED BY <1>4, <2>1, <2>3, <3>1
              DEF QueueInv, PassCoversOwed, Table!Owed, IsDue, Table!IsDue, IsError, Table!IsError
    <2> QED BY <2>2, <2>3
  <1>9. PendingIsDue'
    <2> SUFFICES ASSUME NEW i \in 1..depth', NEW e \in pending'[i], e.rev = rev[e.key]
                 PROVE  IsDue(value[e.key], passes'[i].now)
      BY <1>2 DEF PendingIsDue, IsCurrent
    <2>1. i \in 1..MaxNesting
      BY <1>2, BoundsAssumption
    <2>2. CASE i = depth + 1
      BY <1>3, <1>4, <2>1, <2>2
    <2>3. CASE i # depth + 1
      <3>1. i \in 1..depth
        BY <1>2, <2>3 DEF TypeOK
      <3> QED BY <1>4, <2>1, <2>3, <3>1 DEF QueueInv, PendingIsDue, IsCurrent
    <2> QED BY <2>2, <2>3
  <1> QED BY <1>5, <1>6, <1>7, <1>8, <1>9 DEF QueueInv

\* Handing a key out discards what is ordered before it: entries that are
\* stale, not admitted, or not past the cursor.
LEMMA HandOutInv == QueueInv /\ HandOut => QueueInv'
  <1> SUFFICES ASSUME QueueInv, HandOut PROVE QueueInv'
    OBVIOUS
  <1>1. PICK e \in Deliverable(depth) :
          /\ \A f \in Deliverable(depth) : PopsBefore(e, f)
          /\ pending' = [pending EXCEPT ![depth] = {f \in @ : ~PopsBefore(f, e)}]
          /\ passes' = [passes EXCEPT ![depth].cursor = Order[e.key]]
    BY DEF HandOut
  <1>2. /\ TypeOK /\ EntriesTell /\ HeapCoversLive /\ PassCoversOwed /\ PendingIsDue
        /\ UNCHANGED <<value, rev, revision, heap, depth>>
        /\ depth \in 1..MaxNesting
    BY BoundsAssumption DEF QueueInv, HandOut, TypeOK
  <1>3. e \in PendingEntry /\ e.key \in Keys /\ Order[e.key] \in Nat
    BY <1>1, <1>2, OrderAssumption DEF Deliverable, TypeOK, PendingEntry
  <1>4. \A i \in 1..MaxNesting :
          /\ pending'[i] \subseteq pending[i]
          /\ passes'[i].now = passes[i].now /\ passes'[i].admit = passes[i].admit
          /\ i # depth => passes'[i] = passes[i] /\ pending'[i] = pending[i]
          /\ i = depth => /\ passes'[i].cursor = Order[e.key]
                          /\ pending'[i] = {f \in pending[i] : ~PopsBefore(f, e)}
    BY <1>1, <1>2 DEF TypeOK
  <1>5. TypeOK'
    <2>1. pending' \in [1..MaxNesting -> SUBSET PendingEntry]
      BY <1>1, <1>2 DEF TypeOK
    <2>2. passes' \in [1..MaxNesting -> [now : Times \cup {0}, admit : SUBSET Keys, cursor : Nat]]
      BY <1>1, <1>2, <1>3 DEF TypeOK
    <2>3. /\ value' \in [Keys -> Values] /\ rev' \in [Keys -> 0..MaxRevision]
          /\ revision' \in 0..MaxRevision /\ heap' \subseteq HeapEntry
          /\ depth' \in 0..MaxNesting
      BY <1>2 DEF TypeOK
    <2> QED BY <2>1, <2>2, <2>3 DEF TypeOK
  <1>6. EntriesTell' /\ HeapCoversLive'
    BY <1>2, <1>4 DEF EntriesTell, HeapCoversLive, CurrentDates, IsCurrent
  <1>7. PassCoversOwed'
    <2> SUFFICES ASSUME NEW i \in 1..depth, NEW k \in passes'[i].admit,
                        IsDue(value[k], passes'[i].now), Order[k] > passes'[i].cursor
                 PROVE  [rev |-> rev[k], key |-> k] \in pending'[i]
      BY <1>2 DEF PassCoversOwed, Table!Owed, IsDue, Table!IsDue, IsError, Table!IsError
    <2> DEFINE f == [rev |-> rev[k], key |-> k]
    <2>1. i \in 1..MaxNesting
      BY <1>2, BoundsAssumption
    <2>2. k \in passes[i].admit /\ k \in Keys /\ IsDue(value[k], passes[i].now)
      BY <1>2, <1>4, <2>1 DEF TypeOK
    <2>3. Order[k] > passes[i].cursor
      <3>1. CASE i = depth
        <4>1. Order[e.key] > passes[i].cursor
          BY <1>1, <3>1 DEF Deliverable
        <4>2. Order[k] \in Nat /\ passes[i].cursor \in Nat
          BY <1>2, <2>1, <2>2, OrderAssumption DEF TypeOK
        <4> QED BY <1>3, <1>4, <2>1, <3>1, <4>1, <4>2
      <3>2. CASE i # depth
        BY <1>4, <2>1, <3>2
      <3> QED BY <3>1, <3>2
    <2>4. f \in pending[i]
      BY <1>2, <2>2, <2>3 DEF PassCoversOwed, Table!Owed, IsDue, Table!IsDue, IsError, Table!IsError
    <2>5. CASE i = depth
      <3>1. Order[k] > Order[e.key] /\ Order[k] \in Nat
        BY <1>4, <2>1, <2>2, <2>5, OrderAssumption
      <3>2. ~PopsBefore(f, e)
        BY <1>3, <3>1 DEF PopsBefore
      <3> QED BY <1>4, <2>1, <2>4, <2>5, <3>2
    <2>6. CASE i # depth
      BY <1>4, <2>1, <2>4, <2>6
    <2> QED BY <2>5, <2>6
  <1>8. PendingIsDue'
    <2>1. \A i \in 1..depth : i \in 1..MaxNesting
      BY <1>2, BoundsAssumption
    <2> QED BY <1>2, <1>4, <2>1 DEF PendingIsDue, IsCurrent
  <1> QED BY <1>5, <1>6, <1>7, <1>8 DEF QueueInv

\* Closing a pass, exhausted or aborted, leaves the enclosing ones alone.
LEMMA CloseInv ==
  ASSUME QueueInv, NEW why, depth > 0, Close(why)
  PROVE  QueueInv'
  <1>1. /\ TypeOK /\ EntriesTell /\ HeapCoversLive
        /\ UNCHANGED <<value, rev, revision, heap>>
        /\ depth \in 1..MaxNesting /\ depth' = depth - 1
    BY BoundsAssumption DEF QueueInv, TypeOK, Close
  <1>2. \A i \in 1..MaxNesting :
          /\ pending'[i] \subseteq pending[i]
          /\ i # depth => passes'[i] = passes[i] /\ pending'[i] = pending[i]
    BY <1>1 DEF Close, TypeOK
  <1>3. \A i \in 1..depth' : i \in 1..MaxNesting /\ i \in 1..depth /\ i # depth
    BY <1>1, BoundsAssumption
  <1>4. TypeOK'
    BY <1>1, BoundsAssumption DEF TypeOK, Close, Table!Idle
  <1>5. EntriesTell' /\ HeapCoversLive'
    BY <1>1, <1>2 DEF EntriesTell, HeapCoversLive, CurrentDates, IsCurrent
  <1>6. PassCoversOwed' /\ PendingIsDue'
    BY <1>1, <1>2, <1>3
    DEF QueueInv, PassCoversOwed, PendingIsDue, IsCurrent, Table!Owed, Table!IsDue, Table!IsError
  <1> QED BY <1>4, <1>5, <1>6 DEF QueueInv

\* The queue keeps its types and never loses a deadline: QueueInv is the
\* inductive invariant behind every safety property of Deadlines.
THEOREM QueueSafe == Spec => []QueueInv
  <1>1. QueueInv /\ [Next]_vars => QueueInv'
    <2> SUFFICES ASSUME QueueInv, [Next]_vars PROVE QueueInv'
      OBVIOUS
    <2>1. CASE \E k \in Keys, v \in Values : Set(k, v)
      BY <2>1, SetInv
    <2>2. CASE Lookup
      BY <2>2, LookupInv
    <2>3. CASE \E now \in Times, admit \in SUBSET Keys : Open(now, admit)
      BY <2>3, OpenInv
    <2>4. CASE HandOut
      BY <2>4, HandOutInv
    <2>5. CASE Exhaust \/ Abort
      BY <2>5, CloseInv DEF Exhaust, Abort
    <2>6. CASE UNCHANGED vars
      BY <2>6 DEF vars, QueueInv, TypeOK, EntriesTell, HeapCoversLive, CurrentDates,
                  PassCoversOwed, PendingIsDue, IsCurrent, Table!Owed, Table!IsDue, Table!IsError
    <2> QED BY <2>1, <2>2, <2>3, <2>4, <2>5, <2>6 DEF Next
  <1> QED BY InitInv, <1>1, PTL DEF Spec

\* Types of the queue's state, for every instance.
THEOREM QueueTypes == Spec => []TypeOK
  BY QueueSafe, PTL DEF QueueInv

\* No deadline is ever lost: not from the heap (next() will report it), and
\* not from a pass that is open when it is written (due() will hand it out).
THEOREM DeadlinesKept == Spec => []NothingLost
<1>1. QueueInv => NothingLost
  BY DEF QueueInv, NothingLost
<1> QED BY <1>1, QueueSafe, PTL

\* No pass keeps a deadline that was moved away or withdrawn.
THEOREM NothingEarly == Spec => []PendingIsDue
  BY QueueSafe, PTL DEF QueueInv

\* The three together: what the queue keeps through every interleaving of
\* writes, lookups and nested passes.
THEOREM QueueKeeps == Spec => []QueueSound
  BY QueueTypes, DeadlinesKept, NothingEarly, PTL DEF QueueSound

-----------------------------------------------------------------------------
(* The heap stays small, though every write pushes and nothing is removed  *)
(* but at the top.  Tolerated depends on how many keys are live, and both  *)
(* counts need finite sets, of infinitely many keys also.                  *)

Counted ==
  /\ IsFiniteSet(heap) /\ IsFiniteSet(LiveKeys(value))
  /\ HeapBounded

\* There are no more current dates than live keys.
LEMMA DatesCounted ==
  ASSUME NEW val, NEW rv, IsFiniteSet(LiveKeys(val))
  PROVE  /\ IsFiniteSet(CurrentDates(val, rv))
         /\ Cardinality(CurrentDates(val, rv)) <= Cardinality(LiveKeys(val))
  <1> DEFINE D == {l \in Keys : IsDate(val[l])}
             f == [l \in D |-> [at |-> val[l].at, rev |-> rv[l], key |-> l]]
  <1>1. D \in SUBSET LiveKeys(val)
    BY DEF LiveKeys, IsDate, IsLive
  <1>2. IsFiniteSet(D) /\ Cardinality(D) <= Cardinality(LiveKeys(val))
    BY <1>1, FS_Subset
  <1>3. f \in Surjection(D, CurrentDates(val, rv))
    <2>1. f \in [D -> CurrentDates(val, rv)]
      BY DEF CurrentDates
    <2>2. \A e \in CurrentDates(val, rv) : \E l \in D : f[l] = e
      BY DEF CurrentDates
    <2> QED BY <2>1, <2>2, Fun_IsSurj
  <1>4. /\ IsFiniteSet(CurrentDates(val, rv))
        /\ Cardinality(CurrentDates(val, rv)) <= Cardinality(D)
    BY <1>2, <1>3, FS_Surjection
  <1>5. /\ Cardinality(CurrentDates(val, rv)) \in Nat /\ Cardinality(D) \in Nat
        /\ Cardinality(LiveKeys(val)) \in Nat
    BY <1>2, <1>4, FS_CardinalityType
  <1> QED BY <1>2, <1>4, <1>5

\* A write keeps the bound: either the heap is within it, or what it is
\* rebuilt from has an entry for a live key only.
LEMMA SetCounted ==
  ASSUME TypeOK, Counted, NEW k \in Keys, NEW v \in Values, Set(k, v)
  PROVE  Counted'
  <1> DEFINE alive == LiveKeys(value')
             pushed == Pushed(heap, value', rev', k)
             fresh == [at |-> value'[k].at, rev |-> rev'[k], key |-> k]
  <1>1. IsFiniteSet(alive)
    <2>1. IsFiniteSet(LiveKeys(value) \cup {k})
      BY FS_AddElement DEF Counted
    <2>2. alive \in SUBSET (LiveKeys(value) \cup {k})
      BY DEF Set, LiveKeys, TypeOK
    <2> QED BY <2>1, <2>2, FS_Subset
  <1>2. IsFiniteSet(pushed)
    <2>1. pushed \in SUBSET (heap \cup {fresh})
      BY DEF Pushed, CurrentDates
    <2>2. IsFiniteSet(heap \cup {fresh})
      BY FS_AddElement DEF Counted
    <2> QED BY <2>1, <2>2, FS_Subset
  <1>3. heap' = IF Cardinality(pushed) > Tolerated(value') THEN CurrentDates(value', rev') ELSE pushed
    BY DEF Set, Compacted
  <1>4. /\ IsFiniteSet(CurrentDates(value', rev'))
        /\ Cardinality(CurrentDates(value', rev')) <= Cardinality(alive)
    BY <1>1, DatesCounted
  <1>5. /\ Cardinality(alive) \in Nat /\ Cardinality(pushed) \in Nat
        /\ Cardinality(CurrentDates(value', rev')) \in Nat
    BY <1>1, <1>2, <1>4, FS_CardinalityType
  <1>6. Tolerated(value') = 2 * Cardinality(alive) + Slack
    BY DEF Tolerated
  <1>7. IsFiniteSet(heap') /\ Cardinality(heap') <= Tolerated(value')
    <2>1. CASE Cardinality(pushed) > Tolerated(value')
      BY <1>3, <1>4, <1>5, <1>6, <2>1, BoundsAssumption
    <2>2. CASE ~(Cardinality(pushed) > Tolerated(value'))
      BY <1>2, <1>3, <1>5, <1>6, <2>2, BoundsAssumption
    <2> QED BY <2>1, <2>2
  <1> QED BY <1>1, <1>7 DEF Counted, HeapBounded

\* Rescheduling grows the heap to at most twice the live keys and the slack,
\* for any number of keys, writes and passes.
THEOREM HeapStaysBounded == Spec => []HeapBounded
  <1>1. Init => Counted
    <2> SUFFICES ASSUME Init PROVE Counted
      OBVIOUS
    <2>1. heap = {} /\ LiveKeys(value) = {}
      BY DEF Init, LiveKeys, IsLive, Absent
    <2>2. Tolerated(value) = Slack
      BY <2>1, FS_EmptySet, BoundsAssumption DEF Tolerated
    <2> QED BY <2>1, <2>2, FS_EmptySet, BoundsAssumption DEF Counted, HeapBounded
  <1>2. QueueInv /\ Counted /\ [Next]_vars => Counted'
    <2> SUFFICES ASSUME QueueInv, Counted, [Next]_vars PROVE Counted'
      OBVIOUS
    <2>1. TypeOK
      BY DEF QueueInv
    <2>2. CASE \E k \in Keys, v \in Values : Set(k, v)
      BY <2>1, <2>2, SetCounted
    <2>3. ASSUME heap' \in SUBSET heap, value' = value PROVE Counted'
      <3>1. /\ IsFiniteSet(heap') /\ Cardinality(heap') <= Cardinality(heap)
            /\ Cardinality(heap) \in Nat /\ Cardinality(heap') \in Nat
        BY <2>3, FS_Subset, FS_CardinalityType DEF Counted
      <3>2. Cardinality(LiveKeys(value)) \in Nat
        BY FS_CardinalityType DEF Counted
      <3> QED BY <2>3, <3>1, <3>2, BoundsAssumption DEF Counted, HeapBounded, Tolerated
    <2>4. CASE Lookup
      BY <2>3, <2>4 DEF Lookup, Trimmed
    <2>5. CASE \E now \in Times, admit \in SUBSET Keys : Open(now, admit)
      BY <2>3, <2>5 DEF Open, HeapAfterDueKeys, Trimmed
    <2>6. CASE HandOut \/ Exhaust \/ Abort \/ UNCHANGED vars
      BY <2>3, <2>6 DEF HandOut, Exhaust, Abort, Close, vars
    <2> QED BY <2>2, <2>4, <2>5, <2>6 DEF Next
  <1>3. Counted => HeapBounded
    BY DEF Counted
  <1> QED BY <1>1, <1>2, <1>3, QueueSafe, PTL DEF Spec

-----------------------------------------------------------------------------
(* The queue implements the table.                                         *)

\* What the innermost pass can deliver is what the table says it owes.
LEMMA DeliverableIsOwed ==
  ASSUME QueueInv, depth > 0
  PROVE  Table!Owed(passes[depth]) = {e.key : e \in Deliverable(depth)}
  <1>1. TypeOK /\ PassCoversOwed /\ PendingIsDue /\ depth \in 1..MaxNesting /\ depth \in 1..depth
    BY BoundsAssumption DEF QueueInv, TypeOK
  <1>2. ASSUME NEW k \in Table!Owed(passes[depth])
        PROVE  \E e \in Deliverable(depth) : e.key = k
    <2>1. [rev |-> rev[k], key |-> k] \in pending[depth]
      BY <1>1 DEF PassCoversOwed
    <2> QED BY <2>1 DEF Deliverable, IsCurrent, Table!Owed
  <1>3. ASSUME NEW e \in Deliverable(depth)
        PROVE  e.key \in Table!Owed(passes[depth])
    BY <1>1 DEF Deliverable, PendingIsDue, Table!Owed, IsDue, Table!IsDue, IsError, Table!IsError
  <1> QED BY <1>2, <1>3

LEMMA LookupImplements == QueueInv /\ Lookup => Table!Lookup
  <1> SUFFICES ASSUME QueueInv, Lookup PROVE Table!Lookup
    OBVIOUS
  <1>1. TypeOK /\ EntriesTell /\ HeapCoversLive
    BY DEF QueueInv
  <1>2. LookupRaises(value) <=> Table!LookupRaises(value)
    BY DEF LookupRaises, Table!LookupRaises
  <1>3. \A k \in Keys : IsDate(value[k]) <=> Table!IsDate(value[k])
    BY DEF IsDate, Table!IsDate
  <1>4. \A k \in Keys : IsDate(value[k]) =>
           [at |-> value[k].at, rev |-> rev[k], key |-> k] \in Trimmed(heap)
    BY <1>1, TrimmedKeeps DEF TypeOK, HeapCoversLive, CurrentDates, IsCurrent
  <1>5. UNCHANGED <<value, depth, passes>>
    BY DEF Lookup
  <1>6. CASE LookupRaises(value)
    BY <1>2, <1>5, <1>6 DEF Lookup, Table!Lookup
  <1>7. CASE ~LookupRaises(value) /\ heap' = Trimmed(heap) /\ heap' = {} /\ answer' = <<"none">>
    BY <1>2, <1>3, <1>4, <1>5, <1>7 DEF Table!Lookup
  <1>8. CASE /\ ~LookupRaises(value)
             /\ heap' = Trimmed(heap)
             /\ \E e \in heap' : /\ \A f \in heap' : Before(e, f)
                                 /\ answer' = <<"next", value[e.key].at>>
    <2>1. PICK e \in Trimmed(heap) : /\ \A f \in Trimmed(heap) : Before(e, f)
                                     /\ answer' = <<"next", value[e.key].at>>
      BY <1>8
    <2>2. e \in heap /\ e.key \in Keys
      BY <1>1, <2>1, HeapTyped DEF Trimmed
    <2>3. PICK f \in heap : IsCurrent(f) /\ Before(f, e)
      BY <2>1 DEF Trimmed
    <2>4. f \in Trimmed(heap)
      BY <1>1, <2>3, TrimmedKeeps DEF TypeOK
    <2>5. e = f
      <3>1. e.rev \in Nat /\ f.rev \in Nat /\ e.at \in Nat /\ f.at \in Nat
        BY <1>1, <2>2, <2>3, HeapTyped
      <3>2. e.rev = f.rev
        BY <2>1, <2>3, <2>4, <3>1 DEF Before
      <3> QED BY <1>1, <2>2, <2>3, <3>2 DEF EntriesTell
    <2>6. IsDate(value[e.key]) /\ value[e.key].at = e.at
      BY <1>1, <2>2, <2>3, <2>5 DEF EntriesTell
    <2>7. ASSUME NEW l \in Keys, IsDate(value[l])
          PROVE  value[e.key].at <= value[l].at
      <3> DEFINE g == [at |-> value[l].at, rev |-> rev[l], key |-> l]
      <3>1. g \in heap /\ Before(e, g)
        BY <1>1, <1>4, <2>1, <2>7 DEF HeapCoversLive, CurrentDates
      <3>2. g.at \in Nat /\ e.at \in Nat
        BY <1>1, <2>2, <3>1, HeapTyped
      <3> QED BY <2>6, <3>1, <3>2 DEF Before
    <2> QED BY <1>2, <1>3, <1>5, <1>8, <2>1, <2>2, <2>6, <2>7 DEF Table!Lookup
  <1> QED BY <1>6, <1>7, <1>8 DEF Lookup

LEMMA HandOutImplements == QueueInv /\ HandOut => Table!HandOut
  <1> SUFFICES ASSUME QueueInv, HandOut PROVE Table!HandOut
    OBVIOUS
  <1>1. PICK e \in Deliverable(depth) :
          /\ \A f \in Deliverable(depth) : PopsBefore(e, f)
          /\ passes' = [passes EXCEPT ![depth].cursor = Order[e.key]]
          /\ answer' = <<"due", e.key>>
    BY DEF HandOut
  <1>2. depth > 0 /\ UNCHANGED <<value, depth>>
    BY DEF HandOut
  <1>3. Table!Owed(passes[depth]) = {f.key : f \in Deliverable(depth)}
    BY <1>2, DeliverableIsOwed
  <1>4. ASSUME NEW k \in Table!Owed(passes[depth])
        PROVE  Order[e.key] <= Order[k]
    <2>1. PICK f \in Deliverable(depth) : f.key = k
      BY <1>3
    <2>2. k \in Keys /\ e.key \in Keys
      <3>1. passes[depth].admit \subseteq Keys
        BY <1>2, BoundsAssumption DEF QueueInv, TypeOK
      <3> QED BY <1>1, <2>1, <3>1 DEF Deliverable
    <2> QED BY <1>1, <2>1, <2>2, OrderAssumption DEF PopsBefore
  <1> QED BY <1>1, <1>2, <1>3, <1>4 DEF Table!HandOut

\* The queue implements the table: each call returns what a plain map would
\* return, and each pass hands out exactly what it owes, in order.
THEOREM QueueImplementsTable == Spec => ImplementsTable
  <1>1. Init => Table!Init
    BY DEF Init, Table!Init, Absent, Table!Absent, Table!Idle
  <1>2. QueueInv /\ [Next]_vars => [Table!Next]_Table!vars
    <2> SUFFICES ASSUME QueueInv, [Next]_vars PROVE [Table!Next]_Table!vars
      OBVIOUS
    <2>1. CASE \E k \in Keys, v \in Values : Set(k, v)
      <3>1. PICK k \in Keys, v \in Values : Set(k, v)
        BY <2>1
      <3>2. Table!Set(k, v) /\ v \in Table!Values
        BY <3>1 DEF Set, Table!Set, Values, Dates, Errors, Absent,
                    Table!Values, Table!Dates, Table!Errors, Table!Absent
      <3> QED BY <3>2 DEF Table!Next
    <2>2. CASE Lookup
      BY <2>2, LookupImplements DEF Table!Next
    <2>3. CASE \E now \in Times, admit \in SUBSET Keys : Open(now, admit)
      <3>1. PICK now \in Times, admit \in SUBSET Keys : Open(now, admit)
        BY <2>3
      <3>2. Table!Open(now, admit)
        BY <3>1 DEF Open, Table!Open
      <3> QED BY <3>2 DEF Table!Next
    <2>4. CASE HandOut
      BY <2>4, HandOutImplements DEF Table!Next
    <2>5. CASE Exhaust
      BY <2>5, DeliverableIsOwed DEF Exhaust, Close, Table!Exhaust, Table!Close, Table!Next
    <2>6. CASE Abort
      BY <2>6 DEF Abort, Close, Table!Abort, Table!Close, Table!Next
    <2>7. CASE UNCHANGED vars
      BY <2>7 DEF vars, Table!vars
    <2> QED BY <2>1, <2>2, <2>3, <2>4, <2>5, <2>6, <2>7 DEF Next
  <1> QED BY <1>1, <1>2, QueueSafe, PTL DEF Spec, Table!Spec, ImplementsTable

-----------------------------------------------------------------------------
(* The hooks of the process                                                *)

Layers == {Foreign} \cup {Observed(e) : e \in Envs}

\* The hooks of its loop are the Env's: from there on, and those of submit.
Owning(e) == at[e] \in {"observed", "up", "leaving", "failed"}
Hooking(e) == at[e] = "hooked" \/ Owning(e)

HooksTypeOK ==
  /\ at \in [Envs -> {"off", "hooked", "observed", "up", "failed", "leaving",
                      "restored", "detached"}]
  /\ generation \in [Envs -> Nat]
  /\ DOMAIN runtime = Envs /\ DOMAIN loop = Envs /\ DOMAIN live = Loops /\ DOMAIN hooks = Loops
  /\ again \in [Envs -> BOOLEAN]
  /\ submit \in Seq(Layers) /\ submits \subseteq Seq(Layers)
  /\ owners \subseteq Envs /\ under \in Nat
  /\ clock \in BOOLEAN /\ clockOwners \subseteq Envs

\* A loop is of the one Env that lives on it, and its methods are those that
\* this Env installed over the original ones, or the original ones.
LoopsOwned ==
  /\ \A e \in Envs : at[e] # "off" => loop[e] \in Loops /\ live[loop[e]] = e
  /\ \A e \in Envs : runtime[e] = IF Hooking(e) THEN {<<>>} ELSE {}
  /\ \A e \in Envs : Hooking(e) => hooks[loop[e]] = <<<<e, generation[e]>>>>
  /\ \A l \in Loops : live[l] # NoEnv => live[l] \in Envs /\ at[live[l]] # "off" /\ loop[live[l]] = l
  /\ \A l \in Loops : hooks[l] # <<>> => live[l] # NoEnv /\ Hooking(live[l])

\* Over what was found there is the layer of the Envs and, if the test has put
\* one there since, its patch.
Over(found) ==
  \E e \in Envs : \/ submit = Append(found, Observed(e))
                  \/ submit = Append(Append(found, Observed(e)), Foreign)

PoolOwned ==
  /\ owners = {e \in Envs : Owning(e)}
  /\ submits = {} <=> owners = {}
  /\ \A found \in submits : Over(found) /\ Cardinality(Layered(found)) = under
  /\ submits = {} => Reports = under

ClocksOwned ==
  /\ clock <=> clockOwners # {}
  /\ \A e \in Envs : Attached(e) => e \in clockOwners
  /\ \A e \in clockOwners : at[e] \in {"up", "leaving", "restored"}

HooksInv == HooksTypeOK /\ LoopsOwned /\ PoolOwned /\ ClocksOwned

LEMMA LayerKinds ==
  ASSUME NEW e \in Envs
  PROVE  Observed(e) # Foreign /\ Observed(e) \in Layers /\ Foreign \in Layers
  BY DEF Observed, Foreign, Layers

\* A layer counts unless it is a patch of the test.
LEMMA LayeredAppend ==
  ASSUME NEW layers \in Seq(Layers), NEW x \in Layers
  PROVE  /\ IsFiniteSet(Layered(layers)) /\ Cardinality(Layered(layers)) \in Nat
         /\ Cardinality(Layered(Append(layers, x))) =
              Cardinality(Layered(layers)) + (IF x = Foreign THEN 0 ELSE 1)
  <1> DEFINE more == Append(layers, x)
             n == Len(layers) + 1
  <1>1. n \in Nat /\ DOMAIN layers = 1..Len(layers) /\ DOMAIN more = 1..n
    OBVIOUS
  <1>2. IsFiniteSet(DOMAIN layers)
    BY <1>1, FS_Interval
  <1>3. IsFiniteSet(Layered(layers)) /\ Cardinality(Layered(layers)) \in Nat
    BY <1>2, FS_Subset, FS_CardinalityType DEF Layered
  <1>4. \A i \in 1..Len(layers) : more[i] = layers[i]
    OBVIOUS
  <1>5. more[n] = x
    OBVIOUS
  <1>6. n \notin Layered(layers)
    BY <1>1 DEF Layered
  <1>7. 1..n = 1..Len(layers) \cup {n}
    BY <1>1
  <1>8. Layered(more) = IF x = Foreign THEN Layered(layers) ELSE Layered(layers) \cup {n}
    <2> HIDE DEF more, n
    <2> QED BY <1>1, <1>4, <1>5, <1>7 DEF Layered
  <1>9. Cardinality(Layered(layers) \cup {n}) = Cardinality(Layered(layers)) + 1
    BY <1>3, <1>6, FS_AddElement
  <1> HIDE DEF more, n
  <1>10. Cardinality(Layered(more)) =
           Cardinality(Layered(layers)) + (IF x = Foreign THEN 0 ELSE 1)
    <2>1. CASE x = Foreign
      BY <1>3, <1>8, <2>1
    <2>2. CASE x # Foreign
      BY <1>8, <1>9, <2>2
    <2> QED BY <2>1, <2>2
  <1> QED BY <1>3, <1>10 DEF more

\* What is observed is reported once more than what was found.
LEMMA ReportsOver ==
  ASSUME HooksTypeOK, NEW found \in Seq(Layers), Over(found)
  PROVE  Reports = Cardinality(Layered(found)) + 1
  <1>1. PICK e \in Envs : \/ submit = Append(found, Observed(e))
                          \/ submit = Append(Append(found, Observed(e)), Foreign)
    BY DEF Over
  <1> DEFINE seen == Append(found, Observed(e))
  <1>2. Observed(e) # Foreign /\ Observed(e) \in Layers /\ Foreign \in Layers
    BY LayerKinds
  <1>3. seen \in Seq(Layers)
    BY <1>2
  <1>4. Cardinality(Layered(found)) \in Nat
        /\ Cardinality(Layered(seen)) = Cardinality(Layered(found)) + 1
    BY <1>2, LayeredAppend
  <1>5. Cardinality(Layered(Append(seen, Foreign))) = Cardinality(Layered(seen)) + 0
    <2> HIDE DEF seen
    <2> QED BY <1>2, <1>3, LayeredAppend
  <1>6. CASE submit = seen
    BY <1>4, <1>6 DEF Reports
  <1>7. CASE submit = Append(seen, Foreign)
    BY <1>4, <1>5, <1>7 DEF Reports
  <1> QED BY <1>1, <1>6, <1>7

LEMMA HooksInvInit == HooksInit => HooksInv
  <1> SUFFICES ASSUME HooksInit PROVE HooksInv
    OBVIOUS
  <1> USE DEF HooksInit
  <1>1. HooksTypeOK
    <2>1. again \in [Envs -> BOOLEAN] /\ clock \in BOOLEAN
      OBVIOUS
    <2>2. submit \in Seq(Layers) /\ submits \subseteq Seq(Layers)
      OBVIOUS
    <2>3. /\ at \in [Envs -> {"off", "hooked", "observed", "up", "failed", "leaving",
                             "restored", "detached"}]
          /\ generation \in [Envs -> Nat]
      OBVIOUS
    <2> QED BY <2>1, <2>2, <2>3 DEF HooksTypeOK
  <1>2. LoopsOwned
    BY DEF LoopsOwned, Hooking, Owning
  <1>3. PoolOwned
    <2>1. Layered(submit) = {}
      BY DEF Layered
    <2>2. Reports = 0
      BY <2>1, FS_EmptySet DEF Reports
    <2> QED BY <2>2 DEF PoolOwned, Owning
  <1>4. ClocksOwned
    BY DEF ClocksOwned, Attached
  <1> QED BY <1>1, <1>2, <1>3, <1>4 DEF HooksInv

-----------------------------------------------------------------------------
(* Steps: the loops                                                        *)

\* Only where one Env is changes, between places where it has the hooks of its
\* loop, or between places where it has not.
LEMMA MovesKeepLoops ==
  ASSUME HooksTypeOK, LoopsOwned, NEW e \in Envs, NEW where, Goes(e, where),
         at[e] # "off", where # "off",
         Hooking(e) <=> where \in {"hooked", "observed", "up", "leaving", "failed"},
         UNCHANGED <<generation, runtime, loop, live, hooks>>
  PROVE  LoopsOwned'
  <1>1. at'[e] = where /\ \A d \in Envs : d # e => at'[d] = at[d]
    BY DEF Goes, HooksTypeOK
  <1>2. \A d \in Envs : Hooking(d)' <=> Hooking(d)
    BY <1>1 DEF Hooking, Owning
  <1>3. \A d \in Envs : at'[d] # "off" <=> at[d] # "off"
    BY <1>1
  <1> HIDE DEF Hooking
  <1> QED BY <1>2, <1>3 DEF LoopsOwned

\* An Env comes to a loop that is free, or comes back to its own.
LEMMA AttachesToLoop ==
  ASSUME HooksTypeOK, LoopsOwned, NEW e \in Envs, NEW l \in Loops, Attach(e, l),
         ~Hooking(e), hooks[l] = <<>>,
         live'[l] = e, \A m \in Loops : m # l => live'[m] = live[m],
         at[e] = "off" => live[l] = NoEnv, at[e] # "off" => loop[e] = l
  PROVE  LoopsOwned'
  <1>1. at'[e] = "hooked" /\ \A d \in Envs : d # e => at'[d] = at[d]
    BY DEF Attach, Goes, HooksTypeOK
  <1>2. loop'[e] = l /\ \A d \in Envs : d # e => loop'[d] = loop[d]
    BY DEF Attach, HooksTypeOK
  <1>3. runtime'[e] = {<<>>} /\ \A d \in Envs : d # e => runtime'[d] = runtime[d]
    BY DEF Attach, HooksTypeOK
  <1>4. \A d \in Envs : d # e => generation'[d] = generation[d]
    BY DEF Attach, HooksTypeOK
  <1>5. hooks'[l] = <<<<e, generation'[e]>>>> /\ \A m \in Loops : m # l => hooks'[m] = hooks[m]
    BY DEF Attach, HooksTypeOK
  <1>6. Hooking(e)' /\ \A d \in Envs : d # e => (Hooking(d)' <=> Hooking(d))
    BY <1>1 DEF Hooking, Owning
  <1>7. \A d \in Envs : d # e /\ at[d] # "off" => loop[d] # l
    BY HooksAssumption DEF LoopsOwned
  <1>8. \A d \in Envs : Hooking(d) => at[d] # "off"
    BY DEF Hooking, Owning
  <1>9. e # NoEnv
    BY HooksAssumption
  <1>10. \A m \in Loops : m # l /\ live[m] # NoEnv => live[m] # e
    BY DEF LoopsOwned
  <1> HIDE DEF Hooking
  <1>11. (\A d \in Envs : at[d] # "off" => loop[d] \in Loops /\ live[loop[d]] = d)'
    BY <1>1, <1>2, <1>7 DEF LoopsOwned
  <1>12. (\A d \in Envs : runtime[d] = IF Hooking(d) THEN {<<>>} ELSE {})'
    <2> SUFFICES ASSUME NEW d \in Envs
                 PROVE  runtime'[d] = IF Hooking(d)' THEN {<<>>} ELSE {}
      OBVIOUS
    <2>1. runtime[d] = IF Hooking(d) THEN {<<>>} ELSE {}
      BY DEF LoopsOwned
    <2>2. CASE d = e
      BY <1>3, <1>6, <2>2
    <2>3. CASE d # e
      BY <1>3, <1>6, <2>1, <2>3
    <2> QED BY <2>2, <2>3
  <1>13. (\A d \in Envs : Hooking(d) => hooks[loop[d]] = <<<<d, generation[d]>>>>)'
    <2> TAKE d \in Envs
    <2>1. CASE d = e
      BY <1>2, <1>5, <2>1
    <2>2. CASE d # e
      <3> SUFFICES ASSUME Hooking(d)
                   PROVE  hooks'[loop'[d]] = <<<<d, generation'[d]>>>>
        BY <1>6, <2>2
      <3>1. hooks[loop[d]] = <<<<d, generation[d]>>>> /\ loop[d] \in Loops /\ loop[d] # l
        BY <1>7, <1>8, <2>2 DEF LoopsOwned
      <3>2. loop'[d] = loop[d] /\ generation'[d] = generation[d]
        BY <1>2, <1>4, <2>2
      <3> QED BY <1>5, <3>1, <3>2
    <2> QED BY <2>1, <2>2
  <1>14. (\A m \in Loops : live[m] # NoEnv =>
             live[m] \in Envs /\ at[live[m]] # "off" /\ loop[live[m]] = m)'
    BY <1>1, <1>2, <1>10 DEF LoopsOwned
  <1>15. (\A m \in Loops : hooks[m] # <<>> => live[m] # NoEnv /\ Hooking(live[m]))'
    BY <1>5, <1>6, <1>9, <1>10 DEF LoopsOwned
  <1> QED BY <1>11, <1>12, <1>13, <1>14, <1>15 DEF LoopsOwned

\* The loop gets back what was found there.
LEMMA RestoresLoop ==
  ASSUME HooksTypeOK, LoopsOwned, NEW e \in Envs, RestoreLoop(e)
  PROVE  LoopsOwned'
  <1>1. at'[e] = "restored" /\ \A d \in Envs : d # e => at'[d] = at[d]
    BY DEF RestoreLoop, Goes, HooksTypeOK
  <1>2. Hooking(e) /\ at[e] # "off"
    BY DEF RestoreLoop, Hooking, Owning
  <1>3. ~Hooking(e)' /\ \A d \in Envs : d # e => (Hooking(d)' <=> Hooking(d))
    BY <1>1 DEF Hooking, Owning
  <1>4. runtime[e] = {<<>>}
    BY <1>2 DEF LoopsOwned
  <1>5. loop[e] \in Loops /\ live[loop[e]] = e
    BY <1>2 DEF LoopsOwned
  <1>6. hooks'[loop[e]] = <<>> /\ \A m \in Loops : m # loop[e] => hooks'[m] = hooks[m]
    BY <1>4, <1>5 DEF RestoreLoop, HooksTypeOK
  <1>7. runtime'[e] = {} /\ \A d \in Envs : d # e => runtime'[d] = runtime[d]
    BY DEF RestoreLoop, HooksTypeOK
  <1>8. UNCHANGED <<generation, loop, live>>
    BY DEF RestoreLoop
  <1>9. \A d \in Envs : Hooking(d) => at[d] # "off"
    BY DEF Hooking, Owning
  <1> HIDE DEF Hooking
  <1>10. \A d \in Envs : d # e /\ at[d] # "off" => loop[d] # loop[e]
    BY <1>5 DEF LoopsOwned
  <1>11. (\A d \in Envs : at[d] # "off" => loop[d] \in Loops /\ live[loop[d]] = d)'
    BY <1>1, <1>2, <1>8 DEF LoopsOwned
  <1>12. (\A d \in Envs : runtime[d] = IF Hooking(d) THEN {<<>>} ELSE {})'
    <2> SUFFICES ASSUME NEW d \in Envs
                 PROVE  runtime'[d] = IF Hooking(d)' THEN {<<>>} ELSE {}
      OBVIOUS
    <2>1. runtime[d] = IF Hooking(d) THEN {<<>>} ELSE {}
      BY DEF LoopsOwned
    <2>2. CASE d = e
      BY <1>3, <1>7, <2>2
    <2>3. CASE d # e
      BY <1>3, <1>7, <2>1, <2>3
    <2> QED BY <2>2, <2>3
  <1>13. (\A d \in Envs : Hooking(d) => hooks[loop[d]] = <<<<d, generation[d]>>>>)'
    BY <1>3, <1>6, <1>8, <1>9, <1>10 DEF LoopsOwned
  <1>14. (\A m \in Loops : live[m] # NoEnv =>
             live[m] \in Envs /\ at[live[m]] # "off" /\ loop[live[m]] = m)'
    BY <1>1, <1>8 DEF LoopsOwned
  <1>15. (\A m \in Loops : hooks[m] # <<>> => live[m] # NoEnv /\ Hooking(live[m]))'
    <2> SUFFICES ASSUME NEW m \in Loops, hooks'[m] # <<>>
                 PROVE  live[m] # NoEnv /\ Hooking(live[m])'
      BY <1>8
    <2>1. m # loop[e] /\ hooks[m] # <<>>
      BY <1>6
    <2>2. live[m] # NoEnv /\ Hooking(live[m]) /\ live[m] \in Envs /\ loop[live[m]] = m
      BY <2>1 DEF LoopsOwned
    <2> QED BY <1>3, <1>8, <2>1, <2>2
  <1> QED BY <1>11, <1>12, <1>13, <1>14, <1>15 DEF LoopsOwned

\* The Env leaves its loop, whose methods are the original ones.
LEMMA LeavesLoop ==
  ASSUME HooksTypeOK, LoopsOwned, NEW e \in Envs, Stopped(e)
  PROVE  LoopsOwned'
  <1>1. at'[e] = "off" /\ \A d \in Envs : d # e => at'[d] = at[d]
    BY DEF Stopped, Goes, HooksTypeOK
  <1>2. ~Hooking(e) /\ at[e] # "off"
    BY DEF Stopped, Hooking, Owning
  <1>3. \A d \in Envs : Hooking(d)' <=> Hooking(d)
    BY <1>1, <1>2 DEF Hooking, Owning
  <1>4. loop[e] \in Loops /\ live[loop[e]] = e
    BY <1>2 DEF LoopsOwned
  <1>5. live'[loop[e]] = NoEnv /\ \A m \in Loops : m # loop[e] => live'[m] = live[m]
    BY <1>4 DEF Stopped, HooksTypeOK
  <1>6. UNCHANGED <<generation, runtime, loop, hooks>>
    BY DEF Stopped
  <1> HIDE DEF Hooking
  <1>7. (\A d \in Envs : at[d] # "off" => loop[d] \in Loops /\ live[loop[d]] = d)'
    BY <1>1, <1>4, <1>5, <1>6 DEF LoopsOwned
  <1>8. (\A d \in Envs : runtime[d] = IF Hooking(d) THEN {<<>>} ELSE {})'
    BY <1>3, <1>6 DEF LoopsOwned
  <1>9. (\A d \in Envs : Hooking(d) => hooks[loop[d]] = <<<<d, generation[d]>>>>)'
    BY <1>3, <1>6 DEF LoopsOwned
  <1>10. (\A m \in Loops : live[m] # NoEnv =>
             live[m] \in Envs /\ at[live[m]] # "off" /\ loop[live[m]] = m)'
    BY <1>1, <1>4, <1>5, <1>6 DEF LoopsOwned
  <1>11. (\A m \in Loops : hooks[m] # <<>> => live[m] # NoEnv /\ Hooking(live[m]))'
    <2> SUFFICES ASSUME NEW m \in Loops, hooks[m] # <<>>
                 PROVE  (live[m] # NoEnv /\ Hooking(live[m]))'
      BY <1>6
    <2>1. live[m] # NoEnv /\ Hooking(live[m]) /\ live[m] \in Envs
      BY DEF LoopsOwned
    <2>2. m # loop[e]
      BY <1>2, <1>4, <2>1
    <2>3. live'[m] = live[m]
      BY <1>5, <2>2
    <2> QED BY <1>3, <2>1, <2>3
  <1> QED BY <1>7, <1>8, <1>9, <1>10, <1>11 DEF LoopsOwned

\* An Env starts on a loop of its own.
LEMMA StartsOnLoop ==
  ASSUME HooksTypeOK, LoopsOwned, NEW e \in Envs, NEW l \in Loops, Start(e, l)
  PROVE  LoopsOwned'
  <1>1. at[e] = "off" /\ live[l] = NoEnv /\ Attach(e, l)
    BY DEF Start, Free
  <1>2. live'[l] = e /\ \A m \in Loops : m # l => live'[m] = live[m]
    BY DEF Start, HooksTypeOK
  <1>3. hooks[l] = <<>>
    BY <1>1 DEF LoopsOwned
  <1>4. ~Hooking(e)
    BY <1>1 DEF Hooking, Owning
  <1> QED BY <1>1, <1>2, <1>3, <1>4, AttachesToLoop

\* A restarted Env finds its loop as it was.
LEMMA RestartsOnLoop ==
  ASSUME HooksTypeOK, LoopsOwned, NEW e \in Envs, Restart(e)
  PROVE  LoopsOwned'
  <1> DEFINE l == loop[e]
  <1>1. at[e] = "detached" /\ Attach(e, l) /\ UNCHANGED live
    BY DEF Restart
  <1>2. ~Hooking(e)
    BY <1>1 DEF Hooking, Owning
  <1>3. l \in Loops /\ live[l] = e
    BY <1>1 DEF LoopsOwned
  <1>4. hooks[l] = <<>>
    BY <1>2, <1>3 DEF LoopsOwned
  <1>5. live'[l] = e /\ \A m \in Loops : m # l => live'[m] = live[m]
    BY <1>1, <1>3
  <1>6. at[e] = "off" => live[l] = NoEnv
    BY <1>1
  <1>7. at[e] # "off" => loop[e] = l
    OBVIOUS
  <1> HIDE DEF l
  <1> QED BY <1>1, <1>2, <1>3, <1>4, <1>5, <1>6, <1>7, AttachesToLoop

LEMMA LoopsUntouched ==
  ASSUME LoopsOwned, UNCHANGED envVars
  PROVE  LoopsOwned'
  BY DEF LoopsOwned, Hooking, Owning, envVars

LEMMA LoopsKept ==
  ASSUME HooksTypeOK, LoopsOwned, [HooksNext]_hookVars
  PROVE  LoopsOwned'
  <1>1. ASSUME NEW e \in Envs, AcquireExecutorHooks(e) PROVE LoopsOwned'
    <2>1. Goes(e, "observed") /\ at[e] = "hooked" /\ Hooking(e)
      BY <1>1 DEF AcquireExecutorHooks, Hooking
    <2>2. UNCHANGED <<generation, runtime, loop, live, hooks>>
      BY <1>1 DEF AcquireExecutorHooks
    <2> QED BY <2>1, <2>2, MovesKeepLoops
  <1>2. ASSUME NEW e \in Envs, AcquireClocks(e) PROVE LoopsOwned'
    <2>1. PICK where \in {"failed", "up"} : Goes(e, where)
      BY <1>2 DEF AcquireClocks
    <2>2. at[e] = "observed" /\ Hooking(e)
      BY <1>2 DEF AcquireClocks, Hooking, Owning
    <2>3. UNCHANGED <<generation, runtime, loop, live, hooks>>
      BY <1>2 DEF AcquireClocks
    <2> QED BY <2>1, <2>2, <2>3, MovesKeepLoops
  <1>3. ASSUME NEW e \in Envs, Detach(e) PROVE LoopsOwned'
    <2>1. Goes(e, "leaving") /\ at[e] = "up" /\ Hooking(e)
      BY <1>3 DEF Detach, Hooking, Owning
    <2>2. UNCHANGED <<generation, runtime, loop, live, hooks>>
      BY <1>3 DEF Detach
    <2> QED BY <2>1, <2>2, MovesKeepLoops
  <1>4. ASSUME NEW e \in Envs, DetachTimesOut(e) PROVE LoopsOwned'
    <2>1. Goes(e, "up") /\ at[e] = "leaving" /\ Hooking(e)
      BY <1>4 DEF DetachTimesOut, Hooking, Owning
    <2>2. UNCHANGED <<generation, runtime, loop, live, hooks>>
      BY <1>4 DEF DetachTimesOut
    <2> QED BY <2>1, <2>2, MovesKeepLoops
  <1>5. ASSUME NEW e \in Envs, ReleaseClocks(e) PROVE LoopsOwned'
    <2>1. Goes(e, "detached") /\ at[e] = "restored" /\ ~Hooking(e)
      BY <1>5 DEF ReleaseClocks, Hooking, Owning
    <2>2. UNCHANGED <<generation, runtime, loop, live, hooks>>
      BY <1>5 DEF ReleaseClocks
    <2> QED BY <2>1, <2>2, MovesKeepLoops
  <1>6. ASSUME NEW e \in Envs, NEW l \in Loops, Refused(e, l) PROVE LoopsOwned'
    BY <1>6, LoopsUntouched DEF Refused
  <1>7. CASE Patch
    BY <1>7, LoopsUntouched DEF Patch
  <1>8. CASE Unpatch
    BY <1>8, LoopsUntouched DEF Unpatch
  <1>9. CASE OtherTime
    BY <1>9, LoopsUntouched DEF OtherTime
  <1>10. CASE UNCHANGED hookVars
    BY <1>10, LoopsUntouched DEF hookVars
  <1> QED BY <1>1, <1>2, <1>3, <1>4, <1>5, <1>6, <1>7, <1>8, <1>9, <1>10, StartsOnLoop,
             RestartsOnLoop, RestoresLoop, LeavesLoop DEF HooksNext

-----------------------------------------------------------------------------
(* Steps: the executors                                                    *)

\* The layers stay, and so do those who own them.
LEMMA PoolUntouched ==
  ASSUME PoolOwned, UNCHANGED <<submit, submits, owners, under>>,
         \A d \in Envs : Owning(d)' <=> Owning(d)
  PROVE  PoolOwned'
  BY DEF PoolOwned, Over, Reports

\* An Env that moves keeps what it owns.
LEMMA MovesKeepPool ==
  ASSUME HooksTypeOK, PoolOwned, NEW e \in Envs, NEW where, Goes(e, where),
         Owning(e) <=> where \in {"observed", "up", "leaving", "failed"},
         UNCHANGED <<submit, submits, owners, under>>
  PROVE  PoolOwned'
  <1>1. at'[e] = where /\ \A d \in Envs : d # e => at'[d] = at[d]
    BY DEF Goes, HooksTypeOK
  <1>2. \A d \in Envs : Owning(d)' <=> Owning(d)
    BY <1>1 DEF Owning
  <1> QED BY <1>2, PoolUntouched

LEMMA AcquiresPool ==
  ASSUME HooksTypeOK, PoolOwned, NEW e \in Envs, AcquireExecutorHooks(e)
  PROVE  PoolOwned'
  <1>1. at'[e] = "observed" /\ \A d \in Envs : d # e => at'[d] = at[d]
    BY DEF AcquireExecutorHooks, Goes, HooksTypeOK
  <1>2. Owning(e)' /\ \A d \in Envs : d # e => (Owning(d)' <=> Owning(d))
    BY <1>1 DEF Owning
  <1>3. owners' = owners \cup {e} /\ UNCHANGED under
    BY DEF AcquireExecutorHooks
  <1>4. owners' = {d \in Envs : Owning(d)'}
    BY <1>2, <1>3 DEF PoolOwned
  <1>5. CASE submits # {}
    <2>1. UNCHANGED <<submit, submits>>
      BY <1>5 DEF AcquireExecutorHooks
    <2> QED BY <1>3, <1>4, <1>5, <2>1 DEF PoolOwned, Over, Reports
  <1>6. CASE submits = {}
    <2>1. submits' = {submit} /\ submit' = Append(submit, Observed(e))
      BY <1>6 DEF AcquireExecutorHooks
    <2>2. Cardinality(Layered(submit)) = under
      BY <1>6 DEF PoolOwned, Reports
    <2>3. \A found \in submits' : Over(found)' /\ Cardinality(Layered(found)) = under'
      BY <1>3, <2>1, <2>2 DEF Over
    <2> QED BY <1>3, <1>4, <2>1, <2>3 DEF PoolOwned
  <1> QED BY <1>5, <1>6

LEMMA RestoresPool ==
  ASSUME HooksTypeOK, PoolOwned, NEW e \in Envs, RestoreLoop(e)
  PROVE  PoolOwned'
  <1>1. at'[e] = "restored" /\ \A d \in Envs : d # e => at'[d] = at[d]
    BY DEF RestoreLoop, Goes, HooksTypeOK
  <1>2. Owning(e) /\ ~Owning(e)' /\ \A d \in Envs : d # e => (Owning(d)' <=> Owning(d))
    BY <1>1 DEF RestoreLoop, Owning
  <1>3. owners' = owners \ {e} /\ ReleaseExecutorHooks(e)
    BY DEF RestoreLoop, ReleaseExecutorHooks
  <1>4. owners' = {d \in Envs : Owning(d)'}
    BY <1>2, <1>3 DEF PoolOwned
  <1>5. submits # {} /\ owners # {}
    BY <1>2 DEF PoolOwned
  <1>6. CASE owners' # {}
    <2>1. UNCHANGED <<submit, submits, under>>
      BY <1>3, <1>6 DEF ReleaseExecutorHooks, Released
    <2> QED BY <1>4, <1>5, <1>6, <2>1 DEF PoolOwned, Over, Reports
  <1>7. CASE owners' = {}
    <2>1. submits' = {}
      BY <1>3, <1>7 DEF ReleaseExecutorHooks, Released
    <2>2. Reports' = under'
      <3>1. CASE Top # Foreign
        <4>1. submit' \in submits /\ under' = under
          BY <1>3, <1>7, <3>1 DEF ReleaseExecutorHooks, Released
        <4> QED BY <4>1 DEF PoolOwned, Reports
      <3>2. CASE Top = Foreign
        <4>1. submit' = submit /\ under' = under + 1
          BY <1>3, <1>7, <3>2 DEF ReleaseExecutorHooks, Released
        <4>2. PICK found \in submits : Over(found) /\ Cardinality(Layered(found)) = under
          BY <1>5 DEF PoolOwned
        <4>3. found \in Seq(Layers)
          BY <4>2 DEF HooksTypeOK
        <4>4. Reports = under + 1
          BY <4>2, <4>3, ReportsOver
        <4> QED BY <4>1, <4>4 DEF Reports
      <3> QED BY <3>1, <3>2
    <2> QED BY <1>4, <1>7, <2>1, <2>2 DEF PoolOwned
  <1> QED BY <1>6, <1>7

LEMMA PatchesPool ==
  ASSUME HooksTypeOK, PoolOwned, Patch
  PROVE  PoolOwned'
  <1>1. submit' = Append(submit, Foreign) /\ submit \in Seq(Layers)
    BY DEF Patch, HooksTypeOK
  <1>2. UNCHANGED <<submits, owners, under>> /\ \A d \in Envs : Owning(d)' <=> Owning(d)
    BY DEF Patch, envVars, Owning
  <1>3. Foreign \in Layers
    BY DEF Layers
  <1>4. Cardinality(Layered(submit)) \in Nat
        /\ Cardinality(Layered(Append(submit, Foreign))) = Cardinality(Layered(submit)) + 0
    BY <1>1, <1>3, LayeredAppend
  <1>5. Reports' = Reports
    BY <1>1, <1>4 DEF Reports
  <1>6. ASSUME NEW found \in submits PROVE Over(found)'
    <2>1. Over(found)
      BY <1>6 DEF PoolOwned
    <2>2. PICK e \in Envs : \/ submit = Append(found, Observed(e))
                            \/ submit = Append(Append(found, Observed(e)), Foreign)
      BY <2>1 DEF Over
    <2>3. submit = Append(found, Observed(e))
      <3> SUFFICES ASSUME submit = Append(Append(found, Observed(e)), Foreign)
                   PROVE  FALSE
        BY <2>2
      <3>1. found \in Seq(Layers) /\ Observed(e) \in Layers
        BY <1>6, LayerKinds DEF HooksTypeOK
      <3>2. Append(found, Observed(e)) \in Seq(Layers)
        BY <3>1
      <3>3. Len(submit) \in DOMAIN submit /\ submit[Len(submit)] = Foreign
        <4> DEFINE seen == Append(found, Observed(e))
        <4> HIDE DEF seen
        <4> QED BY <3>2 DEF seen
      <3> QED BY <3>3 DEF Patch
    <2> QED BY <1>1, <2>3 DEF Over
  <1> QED BY <1>2, <1>5, <1>6 DEF PoolOwned

\* A sequence is what precedes its last place, and that.
LEMMA FrontOfAppend ==
  ASSUME NEW S, NEW s \in Seq(S), NEW x \in S
  PROVE  SubSeq(Append(s, x), 1, Len(Append(s, x)) - 1) = s
  OBVIOUS

LEMMA AppendOfFront ==
  ASSUME NEW S, NEW s \in Seq(S), s # <<>>
  PROVE  /\ SubSeq(s, 1, Len(s) - 1) \in Seq(S) /\ s[Len(s)] \in S
         /\ s = Append(SubSeq(s, 1, Len(s) - 1), s[Len(s)])
  OBVIOUS

LEMMA UnpatchesPool ==
  ASSUME HooksTypeOK, PoolOwned, Unpatch
  PROVE  PoolOwned'
  <1> DEFINE front == SubSeq(submit, 1, Len(submit) - 1)
  <1>1. submit' = front /\ submit \in Seq(Layers) /\ submit # <<>> /\ Top = Foreign
    BY DEF Unpatch, HooksTypeOK
  <1>2. UNCHANGED <<submits, owners, under>> /\ \A d \in Envs : Owning(d)' <=> Owning(d)
    BY DEF Unpatch, envVars, Owning
  <1>3. front \in Seq(Layers) /\ submit = Append(front, Foreign) /\ Foreign \in Layers
    BY <1>1, AppendOfFront DEF Top, Layers
  <1>4. Cardinality(Layered(front)) \in Nat
        /\ Cardinality(Layered(Append(front, Foreign))) = Cardinality(Layered(front)) + 0
    <2> HIDE DEF front
    <2> QED BY <1>3, LayeredAppend
  <1>5. Reports' = Reports
    <2> HIDE DEF front
    <2> QED BY <1>1, <1>3, <1>4 DEF Reports
  <1>6. ASSUME NEW found \in submits PROVE Over(found)'
    <2>1. Over(found)
      BY <1>6 DEF PoolOwned
    <2>2. PICK e \in Envs : \/ submit = Append(found, Observed(e))
                            \/ submit = Append(Append(found, Observed(e)), Foreign)
      BY <2>1 DEF Over
    <2> DEFINE seen == Append(found, Observed(e))
    <2>3. found \in Seq(Layers) /\ Observed(e) \in Layers /\ Observed(e) # Foreign
      BY <1>6, LayerKinds DEF HooksTypeOK
    <2>4. seen[Len(seen)] = Observed(e) /\ seen \in Seq(Layers)
      BY <2>3
    <2>5. submit # seen
      <3> HIDE DEF seen
      <3> QED BY <1>1, <2>3, <2>4 DEF Top
    <2>6. submit = Append(seen, Foreign)
      BY <2>2, <2>5
    <2>7. front = seen
      <3> HIDE DEF seen
      <3> QED BY <1>3, <2>4, <2>6, FrontOfAppend
    <2> QED BY <1>1, <2>7 DEF Over
  <1> HIDE DEF front
  <1> QED BY <1>2, <1>5, <1>6 DEF PoolOwned

LEMMA PoolKept ==
  ASSUME HooksTypeOK, PoolOwned, [HooksNext]_hookVars
  PROVE  PoolOwned'
  <1>1. ASSUME NEW e \in Envs, NEW l \in Loops, Start(e, l) PROVE PoolOwned'
    <2>1. Goes(e, "hooked") /\ ~Owning(e) /\ UNCHANGED poolVars
      BY <1>1 DEF Start, Attach, Owning
    <2> QED BY <2>1, MovesKeepPool DEF poolVars
  <1>2. ASSUME NEW e \in Envs, Restart(e) PROVE PoolOwned'
    <2>1. Goes(e, "hooked") /\ ~Owning(e) /\ UNCHANGED poolVars
      BY <1>2 DEF Restart, Attach, Owning
    <2> QED BY <2>1, MovesKeepPool DEF poolVars
  <1>3. ASSUME NEW e \in Envs, AcquireClocks(e) PROVE PoolOwned'
    <2>1. PICK where \in {"failed", "up"} : Goes(e, where)
      BY <1>3 DEF AcquireClocks
    <2>2. Owning(e) /\ UNCHANGED poolVars
      BY <1>3 DEF AcquireClocks, Owning
    <2> QED BY <2>1, <2>2, MovesKeepPool DEF poolVars
  <1>4. ASSUME NEW e \in Envs, Detach(e) PROVE PoolOwned'
    <2>1. Goes(e, "leaving") /\ Owning(e) /\ UNCHANGED poolVars
      BY <1>4 DEF Detach, Owning
    <2> QED BY <2>1, MovesKeepPool DEF poolVars
  <1>5. ASSUME NEW e \in Envs, DetachTimesOut(e) PROVE PoolOwned'
    <2>1. Goes(e, "up") /\ Owning(e) /\ UNCHANGED poolVars
      BY <1>5 DEF DetachTimesOut, Owning
    <2> QED BY <2>1, MovesKeepPool DEF poolVars
  <1>6. ASSUME NEW e \in Envs, ReleaseClocks(e) PROVE PoolOwned'
    <2>1. Goes(e, "detached") /\ ~Owning(e) /\ UNCHANGED poolVars
      BY <1>6 DEF ReleaseClocks, Owning
    <2> QED BY <2>1, MovesKeepPool DEF poolVars
  <1>7. ASSUME NEW e \in Envs, Stopped(e) PROVE PoolOwned'
    <2>1. Goes(e, "off") /\ ~Owning(e) /\ UNCHANGED poolVars
      BY <1>7 DEF Stopped, Owning
    <2> QED BY <2>1, MovesKeepPool DEF poolVars
  <1>8. ASSUME NEW e \in Envs, NEW l \in Loops, Refused(e, l) PROVE PoolOwned'
    BY <1>8, PoolUntouched DEF Refused, envVars, poolVars, Owning
  <1>9. CASE OtherTime
    BY <1>9, PoolUntouched DEF OtherTime, envVars, poolVars, Owning
  <1>10. CASE UNCHANGED hookVars
    BY <1>10, PoolUntouched DEF hookVars, envVars, poolVars, Owning
  <1> QED BY <1>1, <1>2, <1>3, <1>4, <1>5, <1>6, <1>7, <1>8, <1>9, <1>10, AcquiresPool,
             RestoresPool, PatchesPool, UnpatchesPool DEF HooksNext

-----------------------------------------------------------------------------
(* Steps: the clocks, and the types                                        *)

LEMMA ClocksUntouched ==
  ASSUME HooksTypeOK, ClocksOwned, NEW e \in Envs, NEW where, Goes(e, where),
         e \in clockOwners => where \in {"up", "leaving", "restored"},
         where \in {"up", "leaving"} => e \in clockOwners,
         UNCHANGED <<clock, clockOwners>>
  PROVE  ClocksOwned'
  <1>1. at'[e] = where /\ \A d \in Envs : d # e => at'[d] = at[d]
    BY DEF Goes, HooksTypeOK
  <1>2. clockOwners \subseteq Envs
    BY DEF HooksTypeOK
  <1> QED BY <1>1, <1>2 DEF ClocksOwned, Attached

\* The last Env that gives the clocks back restores them.
LEMMA ClocksReleased ==
  ASSUME HooksTypeOK, ClocksOwned, NEW e \in Envs,
         clockOwners' = clockOwners \ {e}, clock' = (clock /\ clockOwners' # {}),
         ~Attached(e)', \A d \in Envs : d # e => at'[d] = at[d]
  PROVE  ClocksOwned'
  <1>1. clockOwners' \subseteq Envs /\ (clockOwners' # {} => clockOwners # {})
    BY DEF HooksTypeOK
  <1>2. clock' <=> clockOwners' # {}
    BY <1>1 DEF ClocksOwned
  <1>3. \A d \in Envs : Attached(d)' => d \in clockOwners'
    BY DEF ClocksOwned, Attached
  <1>4. \A d \in clockOwners' : at'[d] \in {"up", "leaving", "restored"}
    BY <1>1 DEF ClocksOwned
  <1> QED BY <1>2, <1>3, <1>4 DEF ClocksOwned

LEMMA ClocksKept ==
  ASSUME HooksTypeOK, ClocksOwned, [HooksNext]_hookVars
  PROVE  ClocksOwned'
  <1>1. ASSUME NEW e \in Envs, NEW l \in Loops, Start(e, l) PROVE ClocksOwned'
    <2>1. Goes(e, "hooked") /\ e \notin clockOwners /\ UNCHANGED <<clock, clockOwners>>
      BY <1>1 DEF Start, Attach, clockVars, ClocksOwned
    <2> QED BY <2>1, ClocksUntouched
  <1>2. ASSUME NEW e \in Envs, Restart(e) PROVE ClocksOwned'
    <2>1. Goes(e, "hooked") /\ e \notin clockOwners /\ UNCHANGED <<clock, clockOwners>>
      BY <1>2 DEF Restart, Attach, clockVars, ClocksOwned
    <2> QED BY <2>1, ClocksUntouched
  <1>3. ASSUME NEW e \in Envs, AcquireExecutorHooks(e) PROVE ClocksOwned'
    <2>1. Goes(e, "observed") /\ e \notin clockOwners /\ UNCHANGED <<clock, clockOwners>>
      BY <1>3 DEF AcquireExecutorHooks, clockVars, ClocksOwned
    <2> QED BY <2>1, ClocksUntouched
  <1>4. ASSUME NEW e \in Envs, AcquireClocks(e) PROVE ClocksOwned'
    <2>1. CASE clockOwners = {} /\ foreignTime
      <3>1. Goes(e, "failed") /\ e \notin clockOwners /\ UNCHANGED <<clock, clockOwners>>
        BY <1>4, <2>1 DEF AcquireClocks
      <3> QED BY <3>1, ClocksUntouched
    <2>2. CASE ~(clockOwners = {} /\ foreignTime)
      <3>1. Goes(e, "up") /\ clock' = TRUE /\ clockOwners' = clockOwners \cup {e}
        BY <1>4, <2>2 DEF AcquireClocks
      <3>2. at'[e] = "up" /\ \A d \in Envs : d # e => at'[d] = at[d]
        BY <3>1 DEF Goes, HooksTypeOK
      <3>3. clock' <=> clockOwners' # {}
        BY <3>1
      <3>4. \A d \in Envs : Attached(d)' => d \in clockOwners'
        BY <3>1, <3>2 DEF ClocksOwned, Attached
      <3>5. \A d \in clockOwners' : at'[d] \in {"up", "leaving", "restored"}
        BY <3>1, <3>2 DEF ClocksOwned, HooksTypeOK
      <3> QED BY <3>3, <3>4, <3>5 DEF ClocksOwned
    <2> QED BY <2>1, <2>2
  <1>5. ASSUME NEW e \in Envs, Detach(e) PROVE ClocksOwned'
    <2>1. Goes(e, "leaving") /\ e \in clockOwners /\ UNCHANGED <<clock, clockOwners>>
      BY <1>5 DEF Detach, clockVars, ClocksOwned, Attached
    <2> QED BY <2>1, ClocksUntouched
  <1>6. ASSUME NEW e \in Envs, DetachTimesOut(e) PROVE ClocksOwned'
    <2>1. Goes(e, "up") /\ e \in clockOwners /\ UNCHANGED <<clock, clockOwners>>
      BY <1>6 DEF DetachTimesOut, clockVars, ClocksOwned, Attached
    <2> QED BY <2>1, ClocksUntouched
  <1>7. ASSUME NEW e \in Envs, RestoreLoop(e) PROVE ClocksOwned'
    <2>1. Goes(e, "restored") /\ UNCHANGED <<clock, clockOwners>>
      BY <1>7 DEF RestoreLoop, clockVars
    <2> QED BY <2>1, ClocksUntouched
  <1>8. ASSUME NEW e \in Envs, ReleaseClocks(e) PROVE ClocksOwned'
    <2>1. at'[e] = "detached" /\ \A d \in Envs : d # e => at'[d] = at[d]
      BY <1>8 DEF ReleaseClocks, Goes, HooksTypeOK
    <2>2. ~Attached(e)'
      BY <2>1 DEF Attached
    <2>3. clockOwners' = clockOwners \ {e} /\ clock' = (clock /\ clockOwners' # {})
      BY <1>8 DEF ReleaseClocks
    <2> QED BY <2>1, <2>2, <2>3, ClocksReleased
  <1>9. ASSUME NEW e \in Envs, Stopped(e) PROVE ClocksOwned'
    <2>1. Goes(e, "off") /\ e \notin clockOwners /\ UNCHANGED <<clock, clockOwners>>
      BY <1>9 DEF Stopped, clockVars, ClocksOwned
    <2> QED BY <2>1, ClocksUntouched
  <1>10. ASSUME NEW e \in Envs, NEW l \in Loops, Refused(e, l) PROVE ClocksOwned'
    <2>1. UNCHANGED at /\ ~Attached(e)
      BY <1>10 DEF Refused, envVars, Attached
    <2>2. clockOwners' = clockOwners \ {e} /\ clock' = (clock /\ clockOwners' # {})
      BY <1>10 DEF Refused
    <2>3. ~Attached(e)'
      BY <2>1 DEF Attached
    <2> QED BY <2>1, <2>2, <2>3, ClocksReleased
  <1>11. CASE Patch \/ Unpatch
    BY <1>11 DEF Patch, Unpatch, envVars, clockVars, ClocksOwned, Attached
  <1>12. CASE OtherTime
    BY <1>12 DEF OtherTime, envVars, ClocksOwned, Attached
  <1>13. CASE UNCHANGED hookVars
    BY <1>13 DEF hookVars, envVars, clockVars, ClocksOwned, Attached
  <1> QED BY <1>1, <1>2, <1>3, <1>4, <1>5, <1>6, <1>7, <1>8, <1>9, <1>10, <1>11, <1>12, <1>13
          DEF HooksNext

Places == {"off", "hooked", "observed", "up", "failed", "leaving", "restored", "detached"}

\* The types of where the Envs are, of the loops, and of what they share.
EnvsTyped ==
  /\ at \in [Envs -> Places] /\ generation \in [Envs -> Nat] /\ again \in [Envs -> BOOLEAN]
  /\ DOMAIN runtime = Envs /\ DOMAIN loop = Envs /\ DOMAIN live = Loops /\ DOMAIN hooks = Loops
SharedTyped ==
  /\ submit \in Seq(Layers) /\ submits \subseteq Seq(Layers)
  /\ owners \subseteq Envs /\ under \in Nat
  /\ clock \in BOOLEAN /\ clockOwners \subseteq Envs

LEMMA TypedInParts == HooksTypeOK <=> EnvsTyped /\ SharedTyped
  BY DEF HooksTypeOK, EnvsTyped, SharedTyped, Places

LEMMA GoesTyped ==
  ASSUME at \in [Envs -> Places], NEW e \in Envs, NEW where \in Places, Goes(e, where)
  PROVE  at' \in [Envs -> Places]
  BY DEF Goes

\* A boolean of one Env changes.
LEMMA AgainTyped ==
  ASSUME again \in [Envs -> BOOLEAN], NEW e \in Envs, NEW b \in BOOLEAN,
         again' = [again EXCEPT ![e] = b]
  PROVE  again' \in [Envs -> BOOLEAN]
  OBVIOUS

LEMMA EnvsStayTyped ==
  ASSUME EnvsTyped, [HooksNext]_hookVars
  PROVE  EnvsTyped'
  <1>1. ASSUME NEW e \in Envs, NEW l, Attach(e, l) PROVE
          /\ at' \in [Envs -> Places] /\ generation' \in [Envs -> Nat]
          /\ DOMAIN runtime' = Envs /\ DOMAIN loop' = Envs /\ DOMAIN hooks' = Loops
    <2>1. at' \in [Envs -> Places]
      BY <1>1, GoesTyped DEF Attach, EnvsTyped, Places
    <2>2. generation' \in [Envs -> Nat]
      BY <1>1 DEF Attach, EnvsTyped
    <2>3. DOMAIN runtime' = Envs /\ DOMAIN loop' = Envs /\ DOMAIN hooks' = Loops
      BY <1>1 DEF Attach, EnvsTyped
    <2> QED BY <2>1, <2>2, <2>3
  <1>2. ASSUME NEW e \in Envs, NEW l \in Loops, Start(e, l) PROVE EnvsTyped'
    <2>1. again' \in [Envs -> BOOLEAN]
      BY <1>2, AgainTyped DEF Start, EnvsTyped
    <2>2. DOMAIN live' = Loops
      BY <1>2 DEF Start, EnvsTyped
    <2> QED BY <1>1, <1>2, <2>1, <2>2 DEF Start, EnvsTyped
  <1>3. ASSUME NEW e \in Envs, Restart(e) PROVE EnvsTyped'
    <2>1. again' \in [Envs -> BOOLEAN]
      BY <1>3, AgainTyped DEF Restart, EnvsTyped
    <2> QED BY <1>1, <1>3, <2>1 DEF Restart, EnvsTyped
  <1>4. ASSUME NEW e \in Envs, AcquireExecutorHooks(e) \/ AcquireClocks(e) \/ DetachTimesOut(e)
                              \/ ReleaseClocks(e)
        PROVE  EnvsTyped'
    <2>1. at' \in [Envs -> Places]
      BY <1>4, GoesTyped DEF AcquireExecutorHooks, AcquireClocks, DetachTimesOut, ReleaseClocks,
                             EnvsTyped, Places
    <2>2. UNCHANGED <<generation, runtime, loop, again, live, hooks>>
      BY <1>4 DEF AcquireExecutorHooks, AcquireClocks, DetachTimesOut, ReleaseClocks
    <2> QED BY <2>1, <2>2 DEF EnvsTyped
  <1>5. ASSUME NEW e \in Envs, Detach(e) PROVE EnvsTyped'
    <2>1. at' \in [Envs -> Places]
      BY <1>5, GoesTyped DEF Detach, EnvsTyped, Places
    <2>2. again' \in [Envs -> BOOLEAN]
      BY <1>5, AgainTyped DEF Detach, EnvsTyped
    <2> QED BY <1>5, <2>1, <2>2 DEF Detach, EnvsTyped
  <1>6. ASSUME NEW e \in Envs, RestoreLoop(e) PROVE EnvsTyped'
    <2>1. at' \in [Envs -> Places]
      BY <1>6, GoesTyped DEF RestoreLoop, EnvsTyped, Places
    <2>2. again' = [again EXCEPT ![e] = again[e] /\ at[e] = "leaving"]
      BY <1>6 DEF RestoreLoop
    <2>3. (again[e] /\ at[e] = "leaving") \in BOOLEAN
      OBVIOUS
    <2>4. again' \in [Envs -> BOOLEAN]
      BY <2>2, <2>3, AgainTyped DEF EnvsTyped
    <2>5. DOMAIN hooks' = Loops /\ DOMAIN runtime' = Envs
      BY <1>6 DEF RestoreLoop, EnvsTyped
    <2> QED BY <1>6, <2>1, <2>4, <2>5 DEF RestoreLoop, EnvsTyped
  <1>7. ASSUME NEW e \in Envs, Stopped(e) PROVE EnvsTyped'
    <2>1. at' \in [Envs -> Places]
      BY <1>7, GoesTyped DEF Stopped, EnvsTyped, Places
    <2>2. DOMAIN live' = Loops
      BY <1>7 DEF Stopped, EnvsTyped
    <2> QED BY <1>7, <2>1, <2>2 DEF Stopped, EnvsTyped
  <1>8. ASSUME UNCHANGED envVars PROVE EnvsTyped'
    BY <1>8 DEF envVars, EnvsTyped
  <1>9. ASSUME NEW e \in Envs, NEW l \in Loops, Refused(e, l) PROVE EnvsTyped'
    BY <1>8, <1>9 DEF Refused
  <1>10. CASE Patch \/ Unpatch \/ OtherTime \/ UNCHANGED hookVars
    BY <1>8, <1>10 DEF Patch, Unpatch, OtherTime, hookVars
  <1> QED BY <1>2, <1>3, <1>4, <1>5, <1>6, <1>7, <1>9, <1>10 DEF HooksNext

LEMMA SharedStaysTyped ==
  ASSUME SharedTyped, [HooksNext]_hookVars
  PROVE  SharedTyped'
  <1>1. ASSUME UNCHANGED poolVars PROVE
          /\ submit' \in Seq(Layers) /\ submits' \subseteq Seq(Layers)
          /\ owners' \subseteq Envs /\ under' \in Nat
    BY <1>1 DEF poolVars, SharedTyped
  <1>2. ASSUME UNCHANGED clockVars PROVE clock' \in BOOLEAN /\ clockOwners' \subseteq Envs
    BY <1>2 DEF clockVars, SharedTyped
  <1>3. ASSUME NEW e \in Envs, NEW l \in Loops, Start(e, l) PROVE SharedTyped'
    BY <1>1, <1>2, <1>3 DEF Start, SharedTyped
  <1>4. ASSUME NEW e \in Envs, Restart(e) \/ Detach(e) \/ DetachTimesOut(e) \/ Stopped(e)
        PROVE  SharedTyped'
    BY <1>1, <1>2, <1>4 DEF Restart, Detach, DetachTimesOut, Stopped, SharedTyped
  <1>5. ASSUME NEW e \in Envs, AcquireExecutorHooks(e) PROVE SharedTyped'
    <2>1. Append(submit, Observed(e)) \in Seq(Layers)
      BY LayerKinds DEF SharedTyped
    <2>2. submit' \in Seq(Layers) /\ submits' \subseteq Seq(Layers)
      BY <1>5, <2>1 DEF AcquireExecutorHooks, SharedTyped
    <2> QED BY <1>2, <1>5, <2>2 DEF AcquireExecutorHooks, SharedTyped
  <1>6. ASSUME NEW e \in Envs, AcquireClocks(e) PROVE SharedTyped'
    <2>1. clock' \in BOOLEAN
      BY <1>6 DEF AcquireClocks, SharedTyped
    <2>2. clockOwners' \subseteq Envs
      BY <1>6 DEF AcquireClocks, SharedTyped
    <2> QED BY <1>1, <1>6, <2>1, <2>2 DEF AcquireClocks, SharedTyped
  <1>7. ASSUME NEW e \in Envs, RestoreLoop(e) PROVE SharedTyped'
    <2>1. ReleaseExecutorHooks(e) /\ UNCHANGED clockVars
      BY <1>7 DEF RestoreLoop
    <2>2. owners' \subseteq Envs /\ under' \in Nat
      BY <2>1 DEF ReleaseExecutorHooks, SharedTyped
    <2>3. submit' \in Seq(Layers) /\ submits' \subseteq Seq(Layers)
      BY <2>1 DEF ReleaseExecutorHooks, SharedTyped
    <2> QED BY <1>2, <2>1, <2>2, <2>3 DEF SharedTyped
  <1>8. ASSUME NEW e \in Envs, NEW l \in Loops, Refused(e, l) PROVE SharedTyped'
    <2>1. clockOwners' = clockOwners \ {e} /\ clock' = (clock /\ clockOwners' # {})
          /\ UNCHANGED poolVars
      BY <1>8 DEF Refused
    <2>2. clock' \in BOOLEAN
      BY <2>1
    <2> QED BY <1>1, <2>1, <2>2 DEF SharedTyped
  <1>9. ASSUME NEW e \in Envs, ReleaseClocks(e) PROVE SharedTyped'
    <2>1. clockOwners' = clockOwners \ {e} /\ clock' = (clock /\ clockOwners' # {})
          /\ UNCHANGED poolVars
      BY <1>9 DEF ReleaseClocks
    <2>2. clock' \in BOOLEAN
      BY <2>1
    <2> QED BY <1>1, <2>1, <2>2 DEF SharedTyped
  <1>10. CASE Patch
    <2>1. submit' \in Seq(Layers)
      BY <1>10 DEF Patch, SharedTyped, Layers
    <2> QED BY <1>2, <1>10, <2>1 DEF Patch, SharedTyped
  <1>11. CASE Unpatch
    <2>1. submit' \in Seq(Layers)
      BY <1>11, AppendOfFront DEF Unpatch, SharedTyped
    <2> QED BY <1>2, <1>11, <2>1 DEF Unpatch, SharedTyped
  <1>12. CASE OtherTime
    BY <1>1, <1>12 DEF OtherTime, SharedTyped
  <1>13. CASE UNCHANGED hookVars
    BY <1>1, <1>2, <1>13 DEF hookVars, SharedTyped
  <1> QED BY <1>3, <1>4, <1>5, <1>6, <1>7, <1>8, <1>9, <1>10, <1>11, <1>12, <1>13 DEF HooksNext

-----------------------------------------------------------------------------

LEMMA HooksInvKept == HooksInv /\ [HooksNext]_hookVars => HooksInv'
  <1> SUFFICES ASSUME HooksInv, [HooksNext]_hookVars PROVE HooksInv'
    OBVIOUS
  <1>1. EnvsTyped' /\ SharedTyped'
    BY TypedInParts, EnvsStayTyped, SharedStaysTyped DEF HooksInv
  <1>2. HooksTypeOK'
    BY <1>1 DEF HooksTypeOK, EnvsTyped, SharedTyped, Places
  <1>3. LoopsOwned' /\ PoolOwned' /\ ClocksOwned'
    BY LoopsKept, PoolKept, ClocksKept DEF HooksInv
  <1> QED BY <1>2, <1>3 DEF HooksInv

LEMMA HooksInvFollows ==
  ASSUME HooksInv
  PROVE  HooksFollow
  <1> USE DEF HooksInv
  <1>1. ASSUME NEW e \in Envs PROVE runtime[e] # {} <=> Hooking(e)
    BY DEF LoopsOwned
  <1>2. \A e \in Envs : runtime[e] # {} => hooks[loop[e]] = <<<<e, generation[e]>>>>
    BY <1>1 DEF LoopsOwned
  <1>3. ASSUME NEW l \in Loops, \A e \in Envs : loop[e] = l => runtime[e] = {}
        PROVE  hooks[l] = <<>>
    <2> SUFFICES ASSUME hooks[l] # <<>> PROVE FALSE
      OBVIOUS
    <2>1. live[l] # NoEnv /\ Hooking(live[l])
      BY DEF LoopsOwned
    <2>2. live[l] \in Envs /\ loop[live[l]] = l
      BY <2>1 DEF LoopsOwned
    <2> QED BY <1>1, <1>3, <2>1, <2>2
  <1>4. ASSUME NEW e \in Envs, Attached(e) PROVE e \in owners /\ clock /\ Hooking(e)
    BY <1>4 DEF PoolOwned, ClocksOwned, Attached, Owning, Hooking
  <1>5. Reports = under + (IF owners = {} THEN 0 ELSE 1)
    <2>1. CASE owners = {}
      BY <2>1 DEF PoolOwned, HooksTypeOK
    <2>2. CASE owners # {}
      <3>1. PICK found \in submits : Over(found) /\ Cardinality(Layered(found)) = under
        BY <2>2 DEF PoolOwned
      <3>2. Reports = under + 1
        BY <3>1, ReportsOver DEF HooksTypeOK
      <3> QED BY <2>2, <3>2
    <2> QED BY <2>1, <2>2
  <1>6. ASSUME \A e \in Envs : at[e] = "off" PROVE ~clock /\ submits = {}
    <2>1. owners = {}
      BY <1>6 DEF PoolOwned, Owning
    <2>2. clockOwners = {}
      BY <1>6 DEF ClocksOwned, HooksTypeOK
    <2> QED BY <2>1, <2>2 DEF PoolOwned, ClocksOwned
  <1>7. HooksInPlace
    BY <1>2, <1>3, <1>4, <1>5, <1>6 DEF HooksInPlace
  <1>8. ASSUME NEW e \in Envs, NEW g \in 1..MaxGeneration, NEW d \in Envs \cup {NoEnv}
        PROVE  LET t == TimeOf(<<e, g>>, d) IN
                 /\ t \in {e, NoEnv}
                 /\ g = generation[e] /\ Attached(e) => t = e
                 /\ g # generation[e] \/ runtime[e] = {} => t = NoEnv
    <2>1. <<e, g>> # NoScope /\ <<e, g>>[1] = e /\ <<e, g>>[2] = g
      BY DEF NoScope
    <2>2. TimeOf(<<e, g>>, d) = IF clock /\ Started(e) /\ g = generation[e] THEN e ELSE NoEnv
      BY <2>1 DEF TimeOf, SelectedEnv
    <2>3. Attached(e) => clock /\ Started(e)
      BY <1>1, <1>4 DEF Started, Attached
    <2> QED BY <2>2, <2>3 DEF Started
  <1>9. TimeIsOwn
    BY <1>8 DEF TimeIsOwn
  <1> QED BY <1>7, <1>9 DEF HooksFollow

\* For any Envs, loops and patches of the test: the methods of a loop, of the
\* executors and of the clocks are those of the Envs that are attached, each
\* once, and the original ones when none is; and code of a bot reads the time of
\* its own Env and generation, or that of the wall (_attach_bot, _restore_loop,
\* _acquire_executor_hooks, acquire_clocks).
THEOREM HooksAlwaysFollow == HooksSpec => []HooksFollow
  <1>1. HooksInit => HooksInv
    BY HooksInvInit
  <1>2. HooksInv /\ [HooksNext]_hookVars => HooksInv'
    BY HooksInvKept
  <1>3. HooksInv => HooksFollow
    BY HooksInvFollows
  <1> QED BY <1>1, <1>2, <1>3, PTL DEF HooksSpec

-----------------------------------------------------------------------------
\* The errors of tasks

ErrorsTypeOK ==
  /\ phase \in {"live", "draining", "detached", "told"}
  /\ status \in [All -> {"none", "running", "ended", "failed"}]
  /\ raised \in [All -> Tasks \cup {Nothing}] /\ log \in [All -> BOOLEAN]
  /\ owner \in [Tasks -> All \cup {Nobody}]
  /\ tracked \subseteq Tasks /\ gathered \subseteq Tasks
  /\ errors \in Seq(Tasks) /\ acknowledged \in 0 .. Len(errors)

\* A task that fails has an exception; one that is recorded or handled has such a task.
ExceptionsRaised ==
  /\ \A t \in Tasks : status[t] = "failed" =>
       raised[t] \in Tasks /\ status[raised[t]] = "failed"
  /\ \A e \in Range(errors) \cup handled : Carriers(e) # {}

\* A task with a log has failed and is tracked; so is one that runs.
TracesTracked ==
  /\ \A t \in Tasks : log[t] => status[t] = "failed" /\ t \in tracked
  /\ \A t \in Tasks : status[t] = "running" => t \in tracked
  /\ \A t \in Tasks : owner[t] \in Tasks => status[owner[t]] = "running"

\* An inspection is scheduled, or waits, for a task that is done.
QueuedDone ==
  queue \subseteq Tasks /\ waiting \subseteq Tasks /\ \A t \in queue \cup waiting : Done(t)

\* What the phases of a detach have left.
DetachEmpties ==
  /\ gathered # {} => phase = "draining"
  /\ phase \in {"detached", "told"} => tracked = {}

\* No task can still handle, alone, what is recorded while the bot is live.
RecordsOpen ==
  phase = "live" => \A e \in Range(errors) : \E t \in Carriers(e) : owner[t] \notin Tasks

\* What is neither recorded nor excused is in the log of a task.
NoneLost ==
  \A t \in Tasks : status[t] = "failed" =>
    raised[t] \in Range(errors) \cup excused \/ \E u \in Tasks : log[u] /\ raised[u] = raised[t]

\* What was handled is not recorded, and will not be.
HandledKept ==
  /\ handled \cap Range(errors) = {}
  /\ \A t \in Tasks : status[t] = "failed" /\ raised[t] \in handled => ~log[t] /\ t \notin gathered

EndTold == phase = "told" => errors = SubSeq(errors, 1, acknowledged) \o failed

ErrorsInv ==
  /\ ErrorsTypeOK /\ ExceptionsRaised /\ TracesTracked /\ QueuedDone /\ DetachEmpties
  /\ RecordsOpen /\ NoneLost /\ HandledKept /\ IsInjective(errors) /\ EndTold

LEMMA TasksAre ==
  /\ Driver \in All /\ Driver \notin Tasks /\ Nobody \notin All /\ Nobody \notin Tasks
  /\ Tasks \subseteq All /\ Nothing \notin Tasks /\ All = Tasks \cup {Driver}
  /\ Driver # Nobody
  BY TaskErrorsAssumption DEF Tasks, All, Driver, Nobody, Nothing

LEMMA RangeOf ==
  ASSUME NEW S, NEW s \in Seq(S)
  PROVE  Range(s) = {s[i] : i \in 1..Len(s)} /\ Range(s) \subseteq S
  BY DEF Range

LEMMA SubSeqParts ==
  ASSUME NEW S, NEW s \in Seq(S), NEW n \in 0 .. Len(s)
  PROVE  s = SubSeq(s, 1, n) \o SubSeq(s, n + 1, Len(s))
  <1> DEFINE a == SubSeq(s, 1, n)
             b == SubSeq(s, n + 1, Len(s))
  <1>1. n \in Nat /\ n <= Len(s) /\ Len(s) \in Nat
    OBVIOUS
  <1>2. a \in Seq(S) /\ Len(a) = n /\ \A i \in 1..n : a[i] = s[i]
    BY <1>1
  <1>3. b \in Seq(S) /\ Len(b) = Len(s) - n /\ \A i \in 1..Len(s) - n : b[i] = s[n + i]
    BY <1>1
  <1> HIDE DEF a, b
  <1>4. a \o b \in Seq(S) /\ Len(a \o b) = Len(s)
    BY <1>1, <1>2, <1>3
  <1>5. ASSUME NEW i \in 1..Len(s) PROVE (a \o b)[i] = s[i]
    <2>1. CASE i <= n
      <3>1. (a \o b)[i] = a[i]
        BY <2>1, <1>1, <1>2, <1>3
      <3> QED BY <2>1, <3>1, <1>1, <1>2
    <2>2. CASE i > n
      <3>1. i - n \in 1..Len(s) - n /\ n + (i - n) = i
        BY <2>2, <1>1
      <3>2. (a \o b)[i] = b[i - n]
        BY <2>2, <1>1, <1>2, <1>3
      <3>3. b[i - n] = s[n + (i - n)]
        BY <3>1, <1>3
      <3> QED BY <3>1, <3>2, <3>3
    <2>3. i <= n \/ i > n
      BY <1>1
    <2> QED BY <2>1, <2>2, <2>3
  <1> DEFINE c == a \o b
  <1>6. c \in Seq(S) /\ Len(c) = Len(s) /\ \A i \in 1..Len(s) : c[i] = s[i]
    BY <1>4, <1>5
  <1> HIDE DEF c
  <1>7. c = s
    BY <1>6
  <1> QED BY <1>7 DEF a, b, c

LEMMA AppendedIs ==
  ASSUME NEW S, NEW s \in Seq(S), NEW n \in Nat, NEW g \in [1..n -> S]
  PROVE  /\ s \o g \in Seq(S) /\ Len(s \o g) = Len(s) + n
         /\ \A i \in 1..Len(s) : (s \o g)[i] = s[i]
         /\ \A i \in 1..n : (s \o g)[Len(s) + i] = g[i]
  <1>1. g \in Seq(S) /\ Len(g) = n
    OBVIOUS
  <1>2. s \o g \in Seq(S) /\ Len(s \o g) = Len(s) + n
    BY <1>1
  <1>3. \A i \in 1..Len(s) : (s \o g)[i] = s[i]
    BY <1>1
  <1>4. \A i \in 1..n : (s \o g)[Len(s) + i] = g[i]
    BY <1>1
  <1> QED BY <1>2, <1>3, <1>4

LEMMA AppendedRange ==
  ASSUME NEW S, NEW s \in Seq(S), NEW n \in Nat, NEW g \in [1..n -> S]
  PROVE  \A x : x \in Range(s \o g) <=> x \in Range(s) \/ \E i \in 1..n : x = g[i]
  <1>2. s \o g \in Seq(S) /\ Len(s \o g) = Len(s) + n
    BY AppendedIs
  <1>3. \A i \in 1..Len(s) : (s \o g)[i] = s[i]
    BY AppendedIs
  <1>4. \A i \in 1..n : (s \o g)[Len(s) + i] = g[i]
    BY AppendedIs
  <1>5. Range(s \o g) = {(s \o g)[i] : i \in 1..Len(s) + n} /\ Range(s) = {s[i] : i \in 1..Len(s)}
    BY <1>2, RangeOf
  <1> DEFINE h == s \o g
  <1> HIDE DEF h
  <1>6. ASSUME NEW e \in Range(h) PROVE e \in Range(s) \/ \E i \in 1..n : e = g[i]
    <2>1. PICK i \in 1..Len(s) + n : e = h[i]
      BY <1>5 DEF h
    <2>2. CASE i <= Len(s)
      <3>1. i \in 1..Len(s) /\ h[i] = s[i]
        BY <2>2, <1>3 DEF h
      <3> QED BY <2>1, <3>1, <1>5
    <2>3. CASE i > Len(s)
      <3>1. i - Len(s) \in 1..n /\ i = Len(s) + (i - Len(s))
        BY <2>3
      <3>2. h[i] = g[i - Len(s)]
        BY <3>1, <1>4 DEF h
      <3> QED BY <2>1, <3>1, <3>2
    <2> QED BY <2>2, <2>3
  <1>7. ASSUME NEW e \in Range(s) PROVE e \in Range(h)
    <2>1. PICK i \in 1..Len(s) : e = s[i]
      BY <1>5
    <2>2. i \in 1..Len(s) + n /\ h[i] = s[i]
      BY <1>3 DEF h
    <2>3. Range(h) = {h[j] : j \in 1..Len(s) + n}
      BY <1>5 DEF h
    <2> QED BY <2>1, <2>2, <2>3
  <1>8. ASSUME NEW i \in 1..n PROVE g[i] \in Range(h)
    <2>1. Len(s) + i \in 1..Len(s) + n /\ h[Len(s) + i] = g[i]
      BY <1>4 DEF h
    <2>2. Range(h) = {h[j] : j \in 1..Len(s) + n}
      BY <1>5 DEF h
    <2> QED BY <2>1, <2>2
  <1>9. \A x : x \in Range(h) <=> x \in Range(s) \/ \E i \in 1..n : x = g[i]
    BY <1>6, <1>7, <1>8
  <1> QED BY <1>9 DEF h

LEMMA AppendedInjective ==
  ASSUME NEW S, NEW s \in Seq(S), NEW n \in Nat, NEW g \in [1..n -> S],
         IsInjective(s), IsInjective(g), \A i \in 1..n : g[i] \notin Range(s)
  PROVE  IsInjective(s \o g)
  <1> DEFINE h == s \o g
  <1>1. /\ h \in Seq(S) /\ Len(h) = Len(s) + n
        /\ \A i \in 1..Len(s) : h[i] = s[i]
        /\ \A i \in 1..n : h[Len(s) + i] = g[i]
    BY AppendedIs
  <1>2. Range(s) = {s[i] : i \in 1..Len(s)}
    BY RangeOf
  <1>3. DOMAIN h = 1..Len(h)
    BY <1>1
  <1> HIDE DEF h
  <1>4. ASSUME NEW a \in 1..Len(h)
        PROVE  \/ a \in 1..Len(s) /\ h[a] = s[a] /\ h[a] \in Range(s)
               \/ a \notin 1..Len(s) /\ a - Len(s) \in 1..n /\ h[a] = g[a - Len(s)]
    <2>1. CASE a <= Len(s)
      <3>1. a \in 1..Len(s)
        BY <2>1
      <3> QED BY <3>1, <1>1, <1>2
    <2>2. CASE a > Len(s)
      <3>1. a - Len(s) \in 1..n /\ a = Len(s) + (a - Len(s)) /\ a \notin 1..Len(s)
        BY <2>2, <1>1
      <3>2. h[Len(s) + (a - Len(s))] = g[a - Len(s)]
        BY <3>1, <1>1
      <3> QED BY <3>1, <3>2
    <2>3. a <= Len(s) \/ a > Len(s)
      OBVIOUS
    <2> QED BY <2>1, <2>2, <2>3
  <1>5. ASSUME NEW a \in 1..Len(h), NEW b \in 1..Len(h), h[a] = h[b]
        PROVE  a = b
    <2>1. CASE a \in 1..Len(s) /\ b \in 1..Len(s)
      <3>1. s[a] = s[b] /\ a \in DOMAIN s /\ b \in DOMAIN s
        BY <2>1, <1>4, <1>5
      <3> QED BY <3>1 DEF IsInjective
    <2>2. CASE a \notin 1..Len(s) /\ b \notin 1..Len(s)
      <3>1. g[a - Len(s)] = g[b - Len(s)] /\ a - Len(s) \in 1..n /\ b - Len(s) \in 1..n
        BY <2>2, <1>4, <1>5
      <3>2. a - Len(s) = b - Len(s)
        BY <3>1 DEF IsInjective
      <3> QED BY <3>2, <1>1
    <2>3. CASE a \in 1..Len(s) /\ b \notin 1..Len(s)
      <3>1. h[a] \in Range(s) /\ h[b] = g[b - Len(s)] /\ b - Len(s) \in 1..n
        BY <2>3, <1>4
      <3> QED BY <3>1, <1>5
    <2>4. CASE a \notin 1..Len(s) /\ b \in 1..Len(s)
      <3>1. h[b] \in Range(s) /\ h[a] = g[a - Len(s)] /\ a - Len(s) \in 1..n
        BY <2>4, <1>4
      <3> QED BY <3>1, <1>5
    <2> QED BY <2>1, <2>2, <2>3, <2>4
  <1>6. IsInjective(h)
    BY <1>3, <1>5 DEF IsInjective
  <1> QED BY <1>6 DEF h

\* _record_error keeps the record without duplicates.
LEMMA RecordedKeeps ==
  ASSUME NEW s \in Seq(Tasks), IsInjective(s), NEW e \in Tasks
  PROVE  LET r == Recorded(s, e) IN
         /\ r \in Seq(Tasks) /\ Len(s) <= Len(r) /\ IsInjective(r)
         /\ Range(r) = Range(s) \cup {e}
  <1>1. CASE e \in Range(s)
    BY <1>1 DEF Recorded
  <1>2. CASE e \notin Range(s)
    <2>0. PICK n \in Nat : n = 1
      OBVIOUS
    <2> DEFINE g == [i \in 1..n |-> e]
    <2>1. g \in [1..n -> Tasks] /\ IsInjective(g) /\ 1 \in 1..n /\ g[1] = e
      BY <2>0 DEF IsInjective
    <2>2. Append(s, e) = s \o g
      BY <2>0
    <2>3. \A i \in 1..n : g[i] \notin Range(s)
      BY <1>2
    <2> HIDE DEF g
    <2>4. IsInjective(s \o g)
      BY <2>1, <2>3, AppendedInjective
    <2>5. s \o g \in Seq(Tasks) /\ Len(s \o g) = Len(s) + n
      BY <2>1, AppendedIs
    <2>6. \A x : x \in Range(s \o g) <=> x \in Range(s) \/ x = e
      <3>1. \A x : x \in Range(s \o g) <=> x \in Range(s) \/ \E i \in 1..n : x = g[i]
        BY <2>1, AppendedRange
      <3>2. \A i \in 1..n : g[i] = e
        BY DEF g
      <3> QED BY <2>1, <3>1, <3>2
    <2>7. Recorded(s, e) = s \o g
      BY <1>2, <2>2 DEF Recorded
    <2> QED BY <2>4, <2>5, <2>6, <2>7
  <1> QED BY <1>1, <1>2

LEMMA RecordedAllKeeps ==
  ASSUME NEW s \in Seq(Tasks), IsInjective(s), NEW ts \in SUBSET Tasks,
         \A t \in ts : raised[t] \in Tasks, NEW r \in RecordedAll(s, ts)
  PROVE  /\ r \in Seq(Tasks) /\ Len(s) <= Len(r) /\ IsInjective(r)
         /\ Range(r) = Range(s) \cup {raised[t] : t \in ts}
  <1> DEFINE new == {raised[t] : t \in ts} \ Range(s)
             n == Cardinality(new)
  <1>1. n \in Nat
    <2>1. IsFiniteSet(Tasks)
      BY FS_Interval, TaskErrorsAssumption DEF Tasks
    <2>2. new \subseteq Tasks
      OBVIOUS
    <2> QED BY <2>1, <2>2, FS_Subset, FS_CardinalityType
  <1>2. PICK f \in Firsts(ts, new) : r = s \o [i \in DOMAIN f |-> raised[f[i]]]
    BY DEF RecordedAll
  <1>3. /\ f \in [1..n -> ts]
        /\ {raised[f[i]] : i \in DOMAIN f} = new
        /\ \A i, j \in DOMAIN f : i < j => f[i] < f[j]
        /\ \A i \in DOMAIN f, u \in ts : raised[u] = raised[f[i]] => f[i] <= u
    BY <1>2 DEF Firsts
  <1> DEFINE g == [i \in 1..n |-> raised[f[i]]]
  <1>4. r = s \o g /\ DOMAIN f = 1..n
    BY <1>2, <1>3
  <1>5. \A i \in 1..n : f[i] \in ts /\ f[i] \in Nat
    <2> HIDE DEF n
    <2>1. \A t \in ts : t \in Nat
      BY TaskErrorsAssumption DEF Tasks
    <2> QED BY <1>3, <2>1
  <1>6. g \in [1..n -> Tasks]
    BY <1>5
  <1>7. {g[i] : i \in 1..n} = new
    BY <1>3, <1>4
  <1>8. ASSUME NEW i \in 1..n, NEW j \in 1..n, raised[f[i]] = raised[f[j]] PROVE i = j
    <2> HIDE DEF n
    <2>1. i \in DOMAIN f /\ j \in DOMAIN f /\ f[i] \in ts /\ f[j] \in ts /\ f[i] \in Nat /\ f[j] \in Nat
      BY <1>4, <1>5
    <2>2. f[i] <= f[j] /\ f[j] <= f[i]
      BY <2>1, <1>3, <1>8
    <2>3. ~(i < j) /\ ~(j < i)
      BY <2>1, <2>2, <1>3
    <2>4. i \in Int /\ j \in Int
      BY <1>1
    <2> QED BY <2>3, <2>4
  <1>9. IsInjective(g)
    BY <1>8 DEF IsInjective
  <1> HIDE DEF n, g
  <1>10. \A i \in 1..n : g[i] \notin Range(s)
    BY <1>7
  <1>11. IsInjective(r)
    BY <1>1, <1>4, <1>6, <1>9, <1>10, AppendedInjective
  <1>12. r \in Seq(Tasks) /\ Len(r) = Len(s) + n
    BY <1>1, <1>4, <1>6, AppendedIs
  <1>13. \A x : x \in Range(r) <=> x \in Range(s) \/ x \in new
    <2>1. \A x : x \in Range(r) <=> x \in Range(s) \/ \E i \in 1..n : x = g[i]
      BY <1>1, <1>4, <1>6, AppendedRange
    <2> QED BY <1>7, <2>1
  <1> QED BY <1>1, <1>11, <1>12, <1>13

LEMMA ErrorsInvInit == ErrorsInit => ErrorsInv
  <1> SUFFICES ASSUME ErrorsInit PROVE ErrorsInv
    OBVIOUS
  <1> USE TasksAre
  <1>1. ErrorsTypeOK
    BY DEF ErrorsInit, ErrorsTypeOK
  <1>2. Range(errors) = {} /\ IsInjective(errors)
    BY DEF ErrorsInit, Range, IsInjective
  <1>3. \A t \in Tasks : status[t] = "none" /\ ~log[t] /\ owner[t] = Nobody
    BY DEF ErrorsInit
  <1>4. ExceptionsRaised /\ TracesTracked /\ NoneLost /\ HandledKept
    BY <1>2, <1>3 DEF ErrorsInit, ExceptionsRaised, TracesTracked, NoneLost, HandledKept
  <1>5. QueuedDone /\ DetachEmpties /\ RecordsOpen /\ EndTold
    BY <1>2 DEF ErrorsInit, QueuedDone, DetachEmpties, RecordsOpen, EndTold
  <1> QED BY <1>1, <1>2, <1>4, <1>5 DEF ErrorsInv

\* A task that fails is one carrier more of what it fails with.
LEMMA FailsAdds ==
  ASSUME ErrorsTypeOK, NEW t \in Tasks, status[t] = "running", NEW e \in Tasks, Fails(t, e)
  PROVE  /\ status' \in [All -> {"none", "running", "ended", "failed"}]
         /\ raised' \in [All -> Tasks \cup {Nothing}]
         /\ status'[t] = "failed" /\ raised'[t] = e
         /\ \A u \in All : u # t => status'[u] = status[u] /\ raised'[u] = raised[u]
         /\ Carriers(e)' = Carriers(e) \cup {t}
         /\ \A x : x # e => Carriers(x)' = Carriers(x)
  <1>1. /\ status' = [status EXCEPT ![t] = "failed"]
        /\ raised' = [raised EXCEPT ![t] = e]
        /\ t \in All
    BY TasksAre DEF Fails
  <1>2. /\ status' \in [All -> {"none", "running", "ended", "failed"}]
        /\ raised' \in [All -> Tasks \cup {Nothing}]
    BY <1>1 DEF ErrorsTypeOK
  <1>3. /\ status'[t] = "failed" /\ raised'[t] = e
        /\ \A u \in All : u # t => status'[u] = status[u] /\ raised'[u] = raised[u]
    BY <1>1 DEF ErrorsTypeOK
  <1>4. \A x : Carriers(x)' = {u \in Tasks : status'[u] = "failed" /\ raised'[u] = x}
    BY DEF Carriers
  <1>5. Carriers(e)' = Carriers(e) \cup {t}
    BY <1>3, <1>4, TasksAre DEF Carriers
  <1>6. \A x : x # e => Carriers(x)' = Carriers(x)
    BY <1>3, <1>4, TasksAre DEF Carriers
  <1> QED BY <1>2, <1>3, <1>5, <1>6

\* What a task created loses it as its owner when it ends.
LEMMA EndsFrees ==
  ASSUME ErrorsTypeOK, NEW t \in All, Ends(t)
  PROVE  /\ owner' \in [Tasks -> All \cup {Nobody}]
         /\ \A u \in Tasks : owner'[u] = IF owner[u] = t THEN Nobody ELSE owner[u]
         /\ \A u \in Tasks : owner'[u] \in Tasks => owner'[u] = owner[u] /\ owner[u] # t
         /\ \A u \in Tasks : owner[u] \notin Tasks => owner'[u] \notin Tasks
  <1>1. owner' = [u \in Tasks |-> IF owner[u] = t THEN Nobody ELSE owner[u]]
    BY DEF Ends
  <1>2. /\ owner' \in [Tasks -> All \cup {Nobody}]
        /\ \A u \in Tasks : owner'[u] = IF owner[u] = t THEN Nobody ELSE owner[u]
    BY <1>1 DEF ErrorsTypeOK
  <1> QED BY <1>2, TasksAre

\* What a task's end schedules is for tasks that are done.
LEMMA EndsQueues ==
  ASSUME ErrorsInv, NEW t \in All, Ends(t), waiting' = waiting, status'[t] \in {"ended", "failed"},
         \A u \in All : u # t => status'[u] = status[u]
  PROVE  QueuedDone'
  <1> USE TasksAre
  <1>1. queue' \subseteq queue \cup ({t} \cap tracked) \cup waiting
    BY DEF Ends, Retried
  <1>2. queue \subseteq Tasks /\ waiting \subseteq Tasks /\ tracked \subseteq Tasks
    BY DEF ErrorsInv, ErrorsTypeOK, QueuedDone
  <1>3. \A u \in queue \cup waiting : status[u] \in {"ended", "failed"}
    BY DEF ErrorsInv, QueuedDone, Done
  <1>4. \A u \in queue \cup waiting \cup {t} : status'[u] \in {"ended", "failed"}
    BY <1>2, <1>3
  <1> QED BY <1>1, <1>2, <1>4 DEF QueuedDone, Done

LEMMA FailKeeps ==
  ASSUME ErrorsInv, NEW t \in Tasks, Fail(t)
  PROVE  ErrorsInv'
  <1> USE TasksAre
  <1>1. /\ status[t] = "running" /\ Fails(t, t) /\ Ends(t) /\ log' = [log EXCEPT ![t] = TRUE]
        /\ UNCHANGED <<phase, tracked, waiting, gathered, errors, acknowledged, failed, excused, handled>>
    BY DEF Fail, errorVars, handledVars
  <1>2. ErrorsTypeOK /\ t \in All
    BY DEF ErrorsInv
  <1>3. /\ status' \in [All -> {"none", "running", "ended", "failed"}]
        /\ raised' \in [All -> Tasks \cup {Nothing}]
        /\ status'[t] = "failed" /\ raised'[t] = t
        /\ \A u \in All : u # t => status'[u] = status[u] /\ raised'[u] = raised[u]
        /\ Carriers(t)' = Carriers(t) \cup {t}
        /\ \A x : x # t => Carriers(x)' = Carriers(x)
    BY <1>1, <1>2, FailsAdds
  <1>4. /\ owner' \in [Tasks -> All \cup {Nobody}]
        /\ \A u \in Tasks : owner'[u] \in Tasks => owner'[u] = owner[u] /\ owner[u] # t
        /\ \A u \in Tasks : owner[u] \notin Tasks => owner'[u] \notin Tasks
    BY <1>1, <1>2, EndsFrees
  <1>5. log' \in [All -> BOOLEAN] /\ log'[t] /\ \A u \in All : u # t => log'[u] = log[u]
    BY <1>1, <1>2 DEF ErrorsTypeOK
  <1>6. ErrorsTypeOK'
    BY <1>1, <1>2, <1>3, <1>4, <1>5 DEF ErrorsTypeOK
  <1>7. t \notin Range(errors) \cup handled
    <2> SUFFICES ASSUME t \in Range(errors) \cup handled PROVE FALSE
      OBVIOUS
    <2>1. PICK c \in Carriers(t) : TRUE
      BY DEF ErrorsInv, ExceptionsRaised
    <2>2. status[t] = "failed"
      BY <2>1 DEF ErrorsInv, ExceptionsRaised, Carriers
    <2> QED BY <2>2, <1>1
  <1>8. ExceptionsRaised'
    BY <1>1, <1>3, <1>7 DEF ErrorsInv, ExceptionsRaised
  <1>9. TracesTracked'
    BY <1>1, <1>3, <1>4, <1>5 DEF ErrorsInv, TracesTracked
  <1>10. RecordsOpen'
    BY <1>1, <1>3, <1>4, <1>7 DEF ErrorsInv, RecordsOpen, Carriers
  <1>11. NoneLost'
    <2> SUFFICES ASSUME NEW u \in Tasks, status'[u] = "failed"
                 PROVE  \/ raised'[u] \in Range(errors) \cup excused
                        \/ \E v \in Tasks : log'[v] /\ raised'[v] = raised'[u]
      BY <1>1 DEF NoneLost
    <2>1. CASE u = t
      BY <2>1, <1>3, <1>5
    <2>2. CASE u # t
      <3>1. status[u] = "failed" /\ raised'[u] = raised[u]
        BY <2>2, <1>3
      <3>2. CASE \E v \in Tasks : log[v] /\ raised[v] = raised[u]
        <4>1. PICK v \in Tasks : log[v] /\ raised[v] = raised[u]
          BY <3>2
        <4>2. v # t
          BY <4>1, <1>1 DEF ErrorsInv, TracesTracked
        <4>3. log'[v] /\ raised'[v] = raised[v]
          BY <4>1, <4>2, <1>3, <1>5
        <4> QED BY <4>1, <4>3, <3>1
      <3> QED BY <3>1, <3>2 DEF ErrorsInv, NoneLost
    <2> QED BY <2>1, <2>2
  <1>12. HandledKept'
    BY <1>1, <1>3, <1>5, <1>7 DEF ErrorsInv, HandledKept
  <1>13. DetachEmpties' /\ EndTold' /\ IsInjective(errors)'
    BY <1>1 DEF ErrorsInv, DetachEmpties, EndTold
  <1>14. QueuedDone'
    BY <1>1, <1>2, <1>3, EndsQueues
  <1> QED BY <1>6, <1>8, <1>9, <1>10, <1>11, <1>12, <1>13, <1>14 DEF ErrorsInv

LEMMA PropagateKeeps ==
  ASSUME ErrorsInv, NEW t \in Tasks, NEW o \in All \ {t}, Propagate(o, t)
  PROVE  ErrorsInv'
  <1> USE TasksAre
  <1>1. PICK e \in {raised[t]} :
        /\ status[o] = "running" /\ status[t] = "failed" /\ Fails(o, e) /\ Ends(o) /\ o \in Tasks
        /\ log' = [log EXCEPT ![t] = FALSE, ![o] = TRUE] /\ handled' = handled \ {e}
        /\ UNCHANGED <<phase, tracked, waiting, gathered, errors, acknowledged, failed, excused>>
    BY DEF Propagate, errorVars
  <1>2. ErrorsTypeOK /\ t \in All /\ o \in All
    BY DEF ErrorsInv
  <1>3. e \in Tasks /\ status[e] = "failed" /\ e = raised[t]
    BY <1>1 DEF ErrorsInv, ExceptionsRaised
  <1>4. /\ status' \in [All -> {"none", "running", "ended", "failed"}]
        /\ raised' \in [All -> Tasks \cup {Nothing}]
        /\ status'[o] = "failed" /\ raised'[o] = e
        /\ \A u \in All : u # o => status'[u] = status[u] /\ raised'[u] = raised[u]
        /\ Carriers(e)' = Carriers(e) \cup {o}
        /\ \A x : x # e => Carriers(x)' = Carriers(x)
    BY <1>1, <1>2, <1>3, FailsAdds
  <1>5. /\ owner' \in [Tasks -> All \cup {Nobody}]
        /\ \A u \in Tasks : owner'[u] \in Tasks => owner'[u] = owner[u] /\ owner[u] # o
        /\ \A u \in Tasks : owner[u] \notin Tasks => owner'[u] \notin Tasks
    BY <1>1, <1>2, EndsFrees
  <1>6. /\ log' \in [All -> BOOLEAN] /\ log'[o] /\ ~log'[t]
        /\ \A u \in All : u # o /\ u # t => log'[u] = log[u]
    BY <1>1, <1>2 DEF ErrorsTypeOK
  <1>7. ErrorsTypeOK'
    BY <1>1, <1>2, <1>4, <1>5, <1>6 DEF ErrorsTypeOK
  <1>8. ExceptionsRaised'
    BY <1>1, <1>3, <1>4 DEF ErrorsInv, ExceptionsRaised
  <1>9. TracesTracked'
    <2>1. \A u \in Tasks : log'[u] => u = o \/ log[u]
      BY <1>6
    <2>2. \A u \in Tasks : log'[u] => status'[u] = "failed" /\ u \in tracked'
      BY <2>1, <1>1, <1>4 DEF ErrorsInv, TracesTracked
    <2>3. \A u \in Tasks : status'[u] = "running" => u \in tracked'
      BY <1>1, <1>4 DEF ErrorsInv, TracesTracked
    <2>4. \A u \in Tasks : owner'[u] \in Tasks => status'[owner'[u]] = "running"
      BY <1>4, <1>5 DEF ErrorsInv, TracesTracked
    <2> QED BY <2>2, <2>3, <2>4 DEF TracesTracked
  <1>10. RecordsOpen'
    <2> SUFFICES ASSUME phase = "live", NEW x \in Range(errors)
                 PROVE  \E c \in Carriers(x)' : owner'[c] \notin Tasks
      BY <1>1 DEF RecordsOpen
    <2>1. PICK c \in Carriers(x) : owner[c] \notin Tasks
      BY DEF ErrorsInv, RecordsOpen
    <2>2. c \in Tasks /\ c \in Carriers(x)'
      BY <2>1, <1>4 DEF Carriers
    <2> QED BY <2>1, <2>2, <1>5
  <1>11. NoneLost'
    <2> SUFFICES ASSUME NEW u \in Tasks, status'[u] = "failed",
                        raised'[u] \notin Range(errors) \cup excused
                 PROVE  \E v \in Tasks : log'[v] /\ raised'[v] = raised'[u]
      BY <1>1 DEF NoneLost
    <2>1. CASE raised'[u] = e
      <3>1. log'[o] /\ raised'[o] = raised'[u]
        BY <2>1, <1>4, <1>6
      <3> QED BY <3>1, <1>1
    <2>2. CASE raised'[u] # e
      <3>1. u # o /\ status[u] = "failed" /\ raised'[u] = raised[u]
        BY <2>2, <1>4
      <3>2. raised[u] \notin Range(errors) \cup excused
        BY <3>1, <1>1
      <3>3. PICK v \in Tasks : log[v] /\ raised[v] = raised[u]
        BY <3>1, <3>2 DEF ErrorsInv, NoneLost
      <3>4. v # t
        BY <3>1, <3>3, <2>2, <1>3
      <3>5. v # o
        BY <3>3, <1>1 DEF ErrorsInv, TracesTracked
      <3> QED BY <3>1, <3>3, <3>4, <3>5, <1>4, <1>6
    <2> QED BY <2>1, <2>2
  <1>12. HandledKept'
    <2>1. \A u \in Tasks : status'[u] = "failed" /\ raised'[u] \in handled' =>
                             u # o /\ status[u] = "failed" /\ raised[u] \in handled
      BY <1>1, <1>4
    <2>2. \A u \in Tasks : log'[u] => u = o \/ log[u]
      BY <1>6
    <2> QED BY <2>1, <2>2, <1>1 DEF ErrorsInv, HandledKept
  <1>13. DetachEmpties' /\ EndTold' /\ IsInjective(errors)'
    BY <1>1 DEF ErrorsInv, DetachEmpties, EndTold
  <1>14. QueuedDone'
    BY <1>1, <1>2, <1>4, EndsQueues
  <1> QED BY <1>7, <1>8, <1>9, <1>10, <1>11, <1>12, <1>13, <1>14 DEF ErrorsInv

LEMMA HandleKeeps ==
  ASSUME ErrorsInv, NEW t \in Tasks, NEW o \in All \ {t}, Handle(o, t)
  PROVE  ErrorsInv'
  <1> USE TasksAre
  <1> DEFINE e == raised[t]
  <1>1. /\ status[o] = "running" /\ status[t] = "failed" /\ o \in Tasks
        /\ log' = [log EXCEPT ![t] = FALSE] /\ excused' = excused \cup {e}
        /\ handled' = IF phase = "live" /\ Carriers(e) = {t} /\ o = owner[t]
                      THEN handled \cup {e} ELSE handled
        /\ UNCHANGED <<phase, status, raised, owner, tracked, gathered, errors, acknowledged, failed>>
    BY DEF Handle, errorVars, trackVars
  <1>2. ErrorsTypeOK
    BY DEF ErrorsInv
  <1>3. t \in Carriers(e)
    BY <1>1 DEF Carriers
  <1>4. /\ log' \in [All -> BOOLEAN] /\ ~log'[t]
        /\ \A u \in All : u # t => log'[u] = log[u]
    BY <1>1, <1>2 DEF ErrorsTypeOK
  <1>5. ErrorsTypeOK'
    BY <1>1, <1>2, <1>4 DEF ErrorsTypeOK
  <1>6. \A x : Carriers(x)' = Carriers(x)
    BY <1>1 DEF Carriers
  <1>7. ExceptionsRaised'
    BY <1>1, <1>3, <1>6 DEF ErrorsInv, ExceptionsRaised
  <1>8. \A u \in Tasks : log'[u] => log[u]
    BY <1>4
  <1>9. TracesTracked'
    BY <1>1, <1>8 DEF ErrorsInv, TracesTracked
  <1>10. RecordsOpen'
    BY <1>1, <1>6 DEF ErrorsInv, RecordsOpen
  <1>11. NoneLost'
    <2> SUFFICES ASSUME NEW u \in Tasks, status[u] = "failed",
                        raised[u] \notin Range(errors) \cup excused \cup {e}
                 PROVE  \E v \in Tasks : log'[v] /\ raised[v] = raised[u]
      BY <1>1 DEF NoneLost
    <2>1. PICK v \in Tasks : log[v] /\ raised[v] = raised[u]
      BY DEF ErrorsInv, NoneLost
    <2>2. v # t
      BY <2>1
    <2> QED BY <2>1, <2>2, <1>4
  <1>12. HandledKept'
    <2>1. CASE phase = "live" /\ Carriers(e) = {t} /\ o = owner[t]
      <3>1. e \notin Range(errors)
        BY <2>1, <1>1 DEF ErrorsInv, RecordsOpen
      <3>2. gathered = {}
        BY <2>1 DEF ErrorsInv, DetachEmpties
      <3>3. \A u \in Tasks : status[u] = "failed" /\ raised[u] = e => u = t
        BY <2>1 DEF Carriers
      <3> QED BY <2>1, <3>1, <3>2, <3>3, <1>1, <1>4, <1>8 DEF ErrorsInv, HandledKept
    <2>2. CASE ~(phase = "live" /\ Carriers(e) = {t} /\ o = owner[t])
      BY <2>2, <1>1, <1>8 DEF ErrorsInv, HandledKept
    <2> QED BY <2>1, <2>2
  <1>13. DetachEmpties' /\ EndTold' /\ IsInjective(errors)'
    BY <1>1 DEF ErrorsInv, DetachEmpties, EndTold
  <1>14. QueuedDone'
    BY <1>1 DEF Handle, trackVars, ErrorsInv, QueuedDone, Done
  <1> QED BY <1>5, <1>7, <1>9, <1>10, <1>11, <1>12, <1>13, <1>14 DEF ErrorsInv

LEMMA CreateKeeps ==
  ASSUME ErrorsInv, NEW t \in Tasks, NEW o \in All \ {t}, Create(t, o)
  PROVE  ErrorsInv'
  <1> USE TasksAre
  <1>1. /\ Accepting /\ status[t] = "none" /\ status[o] = "running" /\ o # t /\ o \in All
        /\ status' = [status EXCEPT ![t] = "running"] /\ owner' = [owner EXCEPT ![t] = o]
        /\ tracked' = tracked \cup {t}
        /\ UNCHANGED <<phase, raised, log, gathered, errors, acknowledged, failed, excused, handled>>
    BY DEF Create, errorVars, handledVars
  <1>2. ErrorsTypeOK
    BY DEF ErrorsInv
  <1>3. /\ status' \in [All -> {"none", "running", "ended", "failed"}]
        /\ status'[t] = "running" /\ \A u \in All : u # t => status'[u] = status[u]
    BY <1>1, <1>2 DEF ErrorsTypeOK
  <1>4. /\ owner' \in [Tasks -> All \cup {Nobody}]
        /\ owner'[t] = o /\ \A u \in Tasks : u # t => owner'[u] = owner[u]
    BY <1>1, <1>2 DEF ErrorsTypeOK
  <1>5. ErrorsTypeOK'
    BY <1>1, <1>2, <1>3, <1>4 DEF ErrorsTypeOK
  <1>6. \A u \in Tasks : status'[u] = "failed" <=> status[u] = "failed"
    BY <1>1, <1>3
  <1>7. \A x : Carriers(x)' = Carriers(x)
    BY <1>1, <1>6 DEF Carriers
  <1>8. ExceptionsRaised'
    BY <1>1, <1>6, <1>7 DEF ErrorsInv, ExceptionsRaised
  <1>9. TracesTracked'
    <2>1. ASSUME NEW u \in Tasks, owner'[u] \in Tasks PROVE status'[owner'[u]] = "running"
      <3>1. status[owner'[u]] = "running"
        BY <2>1, <1>1, <1>4 DEF ErrorsInv, TracesTracked
      <3> QED BY <2>1, <3>1, <1>1, <1>3
    <2> QED BY <2>1, <1>1, <1>3, <1>6 DEF ErrorsInv, TracesTracked
  <1>10. RecordsOpen'
    <2> SUFFICES ASSUME phase = "live", NEW x \in Range(errors)
                 PROVE  \E c \in Carriers(x)' : owner'[c] \notin Tasks
      BY <1>1 DEF RecordsOpen
    <2>1. PICK c \in Carriers(x) : owner[c] \notin Tasks
      BY DEF ErrorsInv, RecordsOpen
    <2>2. c \in Tasks /\ c # t
      BY <2>1, <1>1 DEF Carriers
    <2> QED BY <2>1, <2>2, <1>4, <1>7
  <1>11. NoneLost' /\ HandledKept'
    BY <1>1, <1>6 DEF ErrorsInv, NoneLost, HandledKept
  <1>12. DetachEmpties' /\ EndTold' /\ IsInjective(errors)'
    BY <1>1 DEF ErrorsInv, DetachEmpties, EndTold, Accepting
  <1>13. QueuedDone'
    <2>1. queue' = queue /\ waiting' = waiting
      BY DEF Create
    <2> QED BY <2>1, <1>1, <1>3 DEF ErrorsInv, QueuedDone, Done
  <1> QED BY <1>5, <1>8, <1>9, <1>10, <1>11, <1>12, <1>13 DEF ErrorsInv

LEMMA FinishKeeps ==
  ASSUME ErrorsInv, NEW t \in All, Finish(t)
  PROVE  ErrorsInv'
  <1> USE TasksAre
  <1>1. /\ status[t] = "running" /\ status' = [status EXCEPT ![t] = "ended"] /\ Ends(t)
        /\ UNCHANGED <<phase, raised, log, tracked, waiting, gathered, errors, acknowledged, failed, excused, handled>>
    BY DEF Finish, errorVars, handledVars
  <1>2. ErrorsTypeOK
    BY DEF ErrorsInv
  <1>3. /\ status' \in [All -> {"none", "running", "ended", "failed"}]
        /\ status'[t] = "ended" /\ \A u \in All : u # t => status'[u] = status[u]
    BY <1>1, <1>2 DEF ErrorsTypeOK
  <1>4. /\ owner' \in [Tasks -> All \cup {Nobody}]
        /\ \A u \in Tasks : owner'[u] \in Tasks => owner'[u] = owner[u] /\ owner[u] # t
        /\ \A u \in Tasks : owner[u] \notin Tasks => owner'[u] \notin Tasks
    BY <1>1, <1>2, EndsFrees
  <1>5. ErrorsTypeOK'
    BY <1>1, <1>2, <1>3, <1>4 DEF ErrorsTypeOK
  <1>6. \A u \in Tasks : status'[u] = "failed" <=> status[u] = "failed"
    BY <1>1, <1>3
  <1>7. \A x : Carriers(x)' = Carriers(x)
    BY <1>1, <1>6 DEF Carriers
  <1>8. ExceptionsRaised'
    BY <1>1, <1>6, <1>7 DEF ErrorsInv, ExceptionsRaised
  <1>9. TracesTracked'
    <2>1. ASSUME NEW u \in Tasks, status'[u] = "running" PROVE status[u] = "running"
      BY <2>1, <1>1, <1>3
    <2>2. ASSUME NEW u \in Tasks, owner'[u] \in Tasks PROVE status'[owner'[u]] = "running"
      BY <2>2, <1>3, <1>4 DEF ErrorsInv, TracesTracked
    <2> QED BY <2>1, <2>2, <1>1, <1>6 DEF ErrorsInv, TracesTracked
  <1>10. RecordsOpen'
    <2> SUFFICES ASSUME phase = "live", NEW x \in Range(errors)
                 PROVE  \E c \in Carriers(x)' : owner'[c] \notin Tasks
      BY <1>1 DEF RecordsOpen
    <2>1. PICK c \in Carriers(x) : owner[c] \notin Tasks
      BY DEF ErrorsInv, RecordsOpen
    <2>2. c \in Tasks
      BY <2>1 DEF Carriers
    <2> QED BY <2>1, <2>2, <1>4, <1>7
  <1>11. NoneLost' /\ HandledKept'
    BY <1>1, <1>6 DEF ErrorsInv, NoneLost, HandledKept
  <1>12. DetachEmpties' /\ EndTold' /\ IsInjective(errors)'
    BY <1>1 DEF ErrorsInv, DetachEmpties, EndTold
  <1>13. QueuedDone'
    BY <1>1, <1>2, <1>3, EndsQueues
  <1> QED BY <1>5, <1>8, <1>9, <1>10, <1>11, <1>12, <1>13 DEF ErrorsInv

\* Recording what failed, for one task or several: what is common to the inspection,
\* to the end of a gathering and to that of a detach.  The traces of those tasks are
\* retrieved, and nothing else changes that the invariant speaks of but the record.
LEMMA RecordingKeeps ==
  ASSUME ErrorsInv, NEW ts \in SUBSET Tasks, phase # "told",
         \A t \in ts : status[t] = "failed" /\ raised[t] \notin handled,
         errors' \in Seq(Tasks), Len(errors) <= Len(errors'), IsInjective(errors'),
         Range(errors') = Range(errors) \cup {raised[t] : t \in ts},
         log' \in [All -> BOOLEAN], \A u \in Tasks : log'[u] <=> log[u] /\ u \notin ts,
         gathered' \subseteq gathered,
         phase' # "live" \/ (phase' = phase /\ \A t \in ts : owner[t] \notin Tasks),
         UNCHANGED <<status, raised, owner, acknowledged, excused, handled>>
  PROVE  /\ errors' \in Seq(Tasks) /\ acknowledged' \in 0 .. Len(errors')
         /\ ExceptionsRaised' /\ RecordsOpen' /\ NoneLost' /\ HandledKept' /\ IsInjective(errors)'
  <1>1. acknowledged' \in 0 .. Len(errors')
    BY DEF ErrorsInv, ErrorsTypeOK
  <1>2. \A x : Carriers(x)' = Carriers(x)
    BY DEF Carriers
  <1>3. \A t \in ts : t \in Carriers(raised[t])
    BY DEF Carriers
  <1>4. Range(errors)' = Range(errors) \cup {raised[t] : t \in ts}
    BY DEF Range
  <1>5. ExceptionsRaised'
    BY <1>2, <1>3, <1>4 DEF ErrorsInv, ExceptionsRaised
  <1>6. RecordsOpen'
    BY <1>2, <1>3, <1>4 DEF ErrorsInv, RecordsOpen
  <1>7. NoneLost'
    <2> SUFFICES ASSUME NEW u \in Tasks, status[u] = "failed", raised[u] \notin Range(errors)' \cup excused
                 PROVE  \E v \in Tasks : log'[v] /\ raised[v] = raised[u]
      BY DEF NoneLost
    <2>1. PICK v \in Tasks : log[v] /\ raised[v] = raised[u]
      BY <1>4 DEF ErrorsInv, NoneLost
    <2>2. v \notin ts
      BY <2>1, <1>4
    <2> QED BY <2>1, <2>2
  <1>8. HandledKept'
    BY <1>4 DEF ErrorsInv, HandledKept
  <1> QED BY <1>1, <1>5, <1>6, <1>7, <1>8

LEMMA InspectKeeps ==
  ASSUME ErrorsInv, NEW t \in Tasks, Inspect(t)
  PROVE  ErrorsInv'
  <1> USE TasksAre
  <1>1. UNCHANGED <<phase, status, raised, owner, gathered, acknowledged, failed, excused, handled>>
    BY DEF Inspect, handledVars
  <1>2. ErrorsTypeOK
    BY DEF ErrorsInv
  <1>3. ASSUME QueuedDone', UNCHANGED <<log, errors>>, tracked' \subseteq tracked,
               \A u \in tracked : u \in tracked' \/ (u = t /\ ~log[t] /\ status[t] # "running")
        PROVE ErrorsInv'
    <2>1. ErrorsTypeOK'
      BY <1>1, <1>2, <1>3 DEF ErrorsTypeOK
    <2>2. \A x : Carriers(x)' = Carriers(x)
      BY <1>1 DEF Carriers
    <2>3. TracesTracked'
      BY <1>1, <1>3 DEF ErrorsInv, TracesTracked
    <2>4. ExceptionsRaised' /\ RecordsOpen'
      BY <1>1, <1>3, <2>2 DEF ErrorsInv, ExceptionsRaised, RecordsOpen
    <2>5. DetachEmpties' /\ NoneLost' /\ HandledKept' /\ IsInjective(errors)' /\ EndTold'
      BY <1>1, <1>3 DEF ErrorsInv, DetachEmpties, NoneLost, HandledKept, EndTold
    <2> QED BY <1>3, <2>1, <2>3, <2>4, <2>5 DEF ErrorsInv
  <1>4. ASSUME QueuedDone', t \in tracked, log[t], ~OwnerBusy(t),
               errors' = Recorded(errors, raised[t]),
               log' = [log EXCEPT ![t] = FALSE], tracked' = tracked \ {t}
        PROVE ErrorsInv'
    <2>1. status[t] = "failed" /\ raised[t] \in Tasks
      BY <1>4 DEF ErrorsInv, TracesTracked, ExceptionsRaised
    <2>2. /\ errors' \in Seq(Tasks) /\ Len(errors) <= Len(errors') /\ IsInjective(errors')
          /\ Range(errors') = Range(errors) \cup {raised[t]}
      BY <1>2, <1>4, <2>1, RecordedKeeps DEF ErrorsInv, ErrorsTypeOK
    <2>3. log' \in [All -> BOOLEAN] /\ ~log'[t] /\ \A u \in Tasks : u # t => log'[u] = log[u]
      BY <1>2, <1>4 DEF ErrorsTypeOK
    <2>4. \A u \in Tasks : log'[u] <=> log[u] /\ u \notin {t}
      BY <2>3
    <2>5. raised[t] \notin handled
      BY <1>4, <2>1 DEF ErrorsInv, HandledKept
    <2>6. owner[t] \notin Tasks
      BY <1>4 DEF OwnerBusy
    <2>7. phase # "told" /\ phase # "detached"
      BY <1>4 DEF ErrorsInv, DetachEmpties
    <2>8. /\ errors' \in Seq(Tasks) /\ acknowledged' \in 0 .. Len(errors')
          /\ ExceptionsRaised' /\ RecordsOpen' /\ NoneLost' /\ HandledKept' /\ IsInjective(errors)'
      <3> DEFINE ts == {t}
      <3>1. Range(errors') = Range(errors) \cup {raised[u] : u \in ts}
        BY <2>2
      <3>2. ts \in SUBSET Tasks
        OBVIOUS
      <3>3. \A u \in ts : status[u] = "failed" /\ raised[u] \notin handled
        BY <2>1, <2>5
      <3>4. \A u \in Tasks : log'[u] <=> log[u] /\ u \notin ts
        BY <2>4
      <3>5. phase' = phase /\ \A u \in ts : owner[u] \notin Tasks
        BY <1>1, <2>6
      <3> HIDE DEF ts
      <3> QED BY <1>1, <2>2, <2>3, <2>7, <3>1, <3>2, <3>3, <3>4, <3>5, RecordingKeeps
    <2>9. ErrorsTypeOK'
      BY <1>1, <1>2, <1>4, <2>3, <2>8 DEF ErrorsTypeOK
    <2>10. TracesTracked'
      BY <1>1, <1>4, <2>1, <2>4 DEF ErrorsInv, TracesTracked
    <2>11. DetachEmpties' /\ EndTold'
      BY <1>1, <1>4, <2>7 DEF ErrorsInv, DetachEmpties, EndTold
    <2> QED BY <1>4, <2>8, <2>9, <2>10, <2>11 DEF ErrorsInv
  <1>5. t \in queue /\ Done(t)
    BY DEF Inspect, ErrorsInv, QueuedDone
  <1>6. QueuedDone'
    <2>1. queue' \subseteq queue /\ waiting' \subseteq waiting \cup {t}
      BY DEF Inspect, Untracked
    <2> QED BY <2>1, <1>1, <1>5 DEF ErrorsInv, QueuedDone, Done
  <1>7. CASE t \notin tracked
    <2>1. UNCHANGED <<log, errors>> /\ tracked' = tracked
      BY <1>7 DEF Inspect
    <2> QED BY <2>1, <1>3, <1>6
  <1>8. CASE t \in tracked /\ ~log[t]
    <2>1. UNCHANGED <<log, errors>> /\ tracked' = tracked \ {t}
      BY <1>8 DEF Inspect, Untracked
    <2> QED BY <2>1, <1>3, <1>5, <1>6, <1>8 DEF Done
  <1>9. CASE t \in tracked /\ log[t] /\ OwnerBusy(t)
    <2>1. UNCHANGED <<log, errors>> /\ tracked' = tracked
      BY <1>9 DEF Inspect
    <2> QED BY <2>1, <1>3, <1>6
  <1>10. CASE t \in tracked /\ log[t] /\ ~OwnerBusy(t)
    BY <1>4, <1>6, <1>10 DEF Inspect, Untracked
  <1> QED BY <1>7, <1>8, <1>9, <1>10

\* Gathered and InspectRest record what failed, of tasks that are done with it.
LEMMA GatheredKeeps ==
  ASSUME ErrorsInv, Gathered
  PROVE  ErrorsInv'
  <1> USE TasksAre
  <1> DEFINE bad == {t \in gathered : status[t] = "failed"}
  <1>1. /\ gathered # {} /\ gathered' = {}
        /\ errors' \in RecordedAll(errors, bad)
        /\ log' = [t \in DOMAIN log |-> log[t] /\ t \notin bad]
        /\ UNCHANGED <<phase, status, raised, owner, tracked, waiting, queue, acknowledged, failed, excused, handled>>
    BY DEF Gathered, trackVars, handledVars
  <1>2. ErrorsTypeOK
    BY DEF ErrorsInv
  <1>3. /\ bad \in SUBSET Tasks
        /\ \A t \in bad : status[t] = "failed" /\ raised[t] \notin handled /\ raised[t] \in Tasks
    BY <1>2 DEF ErrorsInv, ErrorsTypeOK, HandledKept, ExceptionsRaised
  <1>4. log' \in [All -> BOOLEAN] /\ \A u \in Tasks : log'[u] <=> log[u] /\ u \notin bad
    BY <1>1, <1>2 DEF ErrorsTypeOK
  <1>5. phase = "draining"
    BY <1>1 DEF ErrorsInv, DetachEmpties
  <1> HIDE DEF bad
  <1>6. /\ errors' \in Seq(Tasks) /\ Len(errors) <= Len(errors') /\ IsInjective(errors')
        /\ Range(errors') = Range(errors) \cup {raised[t] : t \in bad}
    <2>1. errors \in Seq(Tasks) /\ IsInjective(errors)
      BY DEF ErrorsInv, ErrorsTypeOK
    <2> QED BY <1>1, <1>3, <2>1, RecordedAllKeeps
  <1>7. /\ errors' \in Seq(Tasks) /\ acknowledged' \in 0 .. Len(errors')
        /\ ExceptionsRaised' /\ RecordsOpen' /\ NoneLost' /\ HandledKept' /\ IsInjective(errors)'
    <2>1. gathered' \subseteq gathered /\ phase # "told" /\ phase' # "live"
      BY <1>1, <1>5
    <2> QED BY <1>1, <1>3, <1>4, <1>6, <2>1, RecordingKeeps
  <1>8. ErrorsTypeOK'
    BY <1>1, <1>2, <1>4, <1>7 DEF ErrorsTypeOK
  <1>9. TracesTracked' /\ QueuedDone'
    BY <1>1, <1>4 DEF ErrorsInv, TracesTracked, QueuedDone, Done
  <1>10. DetachEmpties' /\ EndTold'
    BY <1>1, <1>5 DEF ErrorsInv, DetachEmpties, EndTold
  <1> QED BY <1>7, <1>8, <1>9, <1>10 DEF ErrorsInv

LEMMA InspectRestKeeps ==
  ASSUME ErrorsInv, InspectRest
  PROVE  ErrorsInv'
  <1> USE TasksAre
  <1>1. /\ phase = "draining" /\ gathered = {} /\ Running = {} /\ phase' = "detached"
        /\ errors' \in RecordedAll(errors, Unretrieved)
        /\ log' = [t \in DOMAIN log |-> log[t] /\ t \notin Unretrieved]
        /\ tracked' = {} /\ waiting' = waiting \ tracked
        /\ UNCHANGED <<status, raised, owner, queue, gathered, acknowledged, failed, excused, handled>>
    BY DEF InspectRest, handledVars, Untracked
  <1>2. ErrorsTypeOK
    BY DEF ErrorsInv
  <1>3. Unretrieved \in SUBSET Tasks /\ \A t \in Tasks : log[t] => t \in Unretrieved
    BY <1>2 DEF ErrorsInv, ErrorsTypeOK, TracesTracked, Unretrieved
  <1>4. \A t \in Unretrieved : status[t] = "failed" /\ raised[t] \notin handled /\ raised[t] \in Tasks
    <2> SUFFICES ASSUME NEW t \in Unretrieved
                 PROVE  status[t] = "failed" /\ raised[t] \notin handled /\ raised[t] \in Tasks
      OBVIOUS
    <2>1. t \in Tasks /\ log[t]
      BY <1>3 DEF Unretrieved
    <2>2. status[t] = "failed"
      BY <2>1 DEF ErrorsInv, TracesTracked
    <2> QED BY <2>1, <2>2 DEF ErrorsInv, HandledKept, ExceptionsRaised
  <1>5. log' \in [All -> BOOLEAN] /\ \A u \in Tasks : log'[u] <=> log[u] /\ u \notin Unretrieved
    BY <1>1, <1>2 DEF ErrorsTypeOK
  <1>6. /\ errors' \in Seq(Tasks) /\ Len(errors) <= Len(errors') /\ IsInjective(errors')
        /\ Range(errors') = Range(errors) \cup {raised[t] : t \in Unretrieved}
    <2>1. errors \in Seq(Tasks) /\ IsInjective(errors)
      BY DEF ErrorsInv, ErrorsTypeOK
    <2> QED BY <1>1, <1>3, <1>4, <2>1, RecordedAllKeeps
  <1>7. /\ errors' \in Seq(Tasks) /\ acknowledged' \in 0 .. Len(errors')
        /\ ExceptionsRaised' /\ RecordsOpen' /\ NoneLost' /\ HandledKept' /\ IsInjective(errors)'
    <2>1. gathered' \subseteq gathered /\ phase # "told" /\ phase' # "live"
      BY <1>1
    <2> QED BY <1>1, <1>3, <1>4, <1>5, <1>6, <2>1, RecordingKeeps
  <1>8. ErrorsTypeOK'
    BY <1>1, <1>2, <1>5, <1>7 DEF ErrorsTypeOK
  <1>9. TracesTracked'
    <2>1. \A t \in Tasks : ~log'[t]
      BY <1>3, <1>5
    <2>2. \A t \in Tasks : status[t] # "running"
      BY <1>1 DEF ErrorsInv, TracesTracked, Running, Done
    <2> QED BY <1>1, <2>1, <2>2 DEF ErrorsInv, TracesTracked
  <1>10. QueuedDone' /\ DetachEmpties' /\ EndTold'
    BY <1>1 DEF ErrorsInv, QueuedDone, Done, DetachEmpties, EndTold
  <1> QED BY <1>7, <1>8, <1>9, <1>10 DEF ErrorsInv

\* The other steps of a detach, and of the test, change a phase or what is read.
LEMMA PhasesKeep ==
  ASSUME ErrorsInv, BeginDetach \/ Gather \/ Reattach \/ Acknowledge \/ EndOfTest
  PROVE  ErrorsInv'
  <1> USE TasksAre
  <1>1. UNCHANGED <<status, raised, log, owner, tracked, waiting, queue, errors, excused, handled>>
    BY DEF BeginDetach, Gather, Reattach, Acknowledge, EndOfTest, taskVars, trackVars, errorVars, handledVars
  <1>2. ErrorsTypeOK
    BY DEF ErrorsInv
  <1>3. acknowledged' \in 0 .. Len(errors)
    <2>1. errors \in Seq(Tasks)
      BY <1>2 DEF ErrorsTypeOK
    <2>2. acknowledged' = acknowledged \/ acknowledged' = Len(errors)
      BY DEF BeginDetach, Gather, Reattach, Acknowledge, EndOfTest, errorVars
    <2> QED BY <1>2, <2>1, <2>2 DEF ErrorsTypeOK
  <1>4. /\ phase' \in {"live", "draining", "detached", "told"} /\ gathered' \subseteq Tasks
        /\ gathered' # {} => phase' = "draining"
        /\ gathered' = gathered \/ (\A t \in gathered' : status[t] # "failed")
        /\ phase' \in {"detached", "told"} => phase = "detached" \/ phase' = phase
        /\ phase' = "live" => phase = "live" \/ phase = "detached"
    BY <1>2 DEF ErrorsInv, ErrorsTypeOK, DetachEmpties, BeginDetach, Gather, Reattach, Acknowledge, EndOfTest,
                Running, Done
  <1>5. \A x : Carriers(x)' = Carriers(x)
    BY <1>1 DEF Carriers
  <1>6. ErrorsTypeOK'
    BY <1>1, <1>2, <1>3, <1>4 DEF ErrorsTypeOK
  <1>7. ExceptionsRaised' /\ TracesTracked' /\ QueuedDone' /\ NoneLost' /\ IsInjective(errors)'
    BY <1>1, <1>5 DEF ErrorsInv, ExceptionsRaised, TracesTracked, QueuedDone, Done, NoneLost
  <1>8. DetachEmpties'
    BY <1>1, <1>4 DEF ErrorsInv, DetachEmpties
  <1>9. HandledKept'
    BY <1>1, <1>4 DEF ErrorsInv, HandledKept
  <1>10. RecordsOpen'
    <2>1. CASE phase = "live"
      BY <1>1, <1>5, <2>1 DEF ErrorsInv, RecordsOpen
    <2>2. CASE phase = "detached"
      <3>1. \A t \in Tasks : owner[t] \notin Tasks
        BY <2>2 DEF ErrorsInv, DetachEmpties, TracesTracked
      <3>2. \A x \in Range(errors) : Carriers(x) # {}
        BY DEF ErrorsInv, ExceptionsRaised
      <3>3. \A x : Carriers(x) \subseteq Tasks
        BY DEF Carriers
      <3> QED BY <1>1, <1>5, <3>1, <3>2, <3>3 DEF RecordsOpen
    <2>3. CASE phase \notin {"live", "detached"}
      BY <1>4, <2>3 DEF RecordsOpen
    <2> QED BY <2>1, <2>2, <2>3
  <1>11. EndTold'
    <2>1. CASE EndOfTest
      <3>1. failed' = SubSeq(errors, acknowledged + 1, Len(errors)) /\ acknowledged' = acknowledged
        BY <2>1 DEF EndOfTest
      <3>2. errors = SubSeq(errors, 1, acknowledged) \o SubSeq(errors, acknowledged + 1, Len(errors))
        BY <1>2, SubSeqParts DEF ErrorsTypeOK
      <3> QED BY <1>1, <3>1, <3>2 DEF EndTold
    <2>2. CASE ~EndOfTest
      <3>1. phase' # "told"
        BY <2>2 DEF BeginDetach, Gather, Reattach, Acknowledge
      <3> QED BY <3>1 DEF EndTold
    <2> QED BY <2>1, <2>2
  <1> QED BY <1>6, <1>7, <1>8, <1>9, <1>10, <1>11 DEF ErrorsInv

LEMMA ErrorsInvKept == ErrorsInv /\ [ErrorsNext]_taskErrorVars => ErrorsInv'
  <1> SUFFICES ASSUME ErrorsInv, [ErrorsNext]_taskErrorVars PROVE ErrorsInv'
    OBVIOUS
  <1>1. CASE \E t \in Tasks : Fail(t) \/ Inspect(t)
    BY <1>1, FailKeeps, InspectKeeps
  <1>2. CASE \E t \in Tasks : \E o \in All \ {t} : Create(t, o) \/ Handle(o, t) \/ Propagate(o, t)
    BY <1>2, CreateKeeps, HandleKeeps, PropagateKeeps
  <1>3. CASE \E t \in All : Finish(t)
    BY <1>3, FinishKeeps
  <1>4. CASE BeginDetach \/ Gather \/ Reattach \/ Acknowledge \/ EndOfTest
    BY <1>4, PhasesKeep
  <1>5. CASE Gathered
    BY <1>5, GatheredKeeps
  <1>6. CASE InspectRest
    BY <1>6, InspectRestKeeps
  <1>7. CASE UNCHANGED taskErrorVars
    <2>1. UNCHANGED <<phase, status, raised, log, owner, tracked, waiting, queue, gathered,
                      errors, acknowledged, failed, excused, handled>>
      BY <1>7 DEF taskErrorVars, taskVars, trackVars, errorVars, handledVars
    <2>2. \A x : Carriers(x)' = Carriers(x)
      BY <2>1 DEF Carriers
    <2>3. ErrorsTypeOK' /\ ExceptionsRaised' /\ TracesTracked' /\ QueuedDone' /\ DetachEmpties'
      BY <2>1, <2>2 DEF ErrorsInv, ErrorsTypeOK, ExceptionsRaised, TracesTracked, QueuedDone, Done, DetachEmpties
    <2>4. RecordsOpen' /\ NoneLost' /\ HandledKept' /\ IsInjective(errors)' /\ EndTold'
      BY <2>1, <2>2 DEF ErrorsInv, RecordsOpen, NoneLost, HandledKept, EndTold
    <2> QED BY <2>3, <2>4 DEF ErrorsInv
  <1> QED BY <1>1, <1>2, <1>3, <1>4, <1>5, <1>6, <1>7 DEF ErrorsNext

LEMMA ErrorsInvTells == ErrorsInv => ErrorsTold
  <1> SUFFICES ASSUME ErrorsInv PROVE ErrorsTold
    OBVIOUS
  <1>1. ASSUME phase \in {"detached", "told"} PROVE Raised \subseteq Range(errors) \cup excused
    <2>1. \A t \in Tasks : ~log[t]
      BY <1>1 DEF ErrorsInv, DetachEmpties, TracesTracked
    <2> QED BY <2>1 DEF ErrorsInv, NoneLost, Raised
  <1>2. IsInjective(errors) /\ handled \cap Range(errors) = {}
    BY DEF ErrorsInv, HandledKept
  <1>3. phase = "told" => errors = SubSeq(errors, 1, acknowledged) \o failed
    BY DEF ErrorsInv, EndTold
  <1> QED BY <1>1, <1>2, <1>3 DEF ErrorsTold

\* For any number of tasks and of generations of the bot: an error is recorded at
\* most once, none that only its task's owner had and handled while the bot was
\* live, and, when the bot is detached, every one that no task handled; and the end
\* of the test raises what was not acknowledged (inspect_task, _record_error,
\* _detach_bot, raise_errors).
THEOREM ErrorsAlwaysTold == ErrorsSpec => []ErrorsTold
  <1>1. ErrorsInit => ErrorsInv
    BY ErrorsInvInit
  <1>2. ErrorsInv /\ [ErrorsNext]_taskErrorVars => ErrorsInv'
    BY ErrorsInvKept
  <1>3. ErrorsInv => ErrorsTold
    BY ErrorsInvTells
  <1> QED BY <1>1, <1>2, <1>3, PTL DEF ErrorsSpec

-----------------------------------------------------------------------------
(* The index of callbacks.                                                  *)

\* The values of the tables.
TablesTyped ==
  /\ handle \in [Handles -> {"none", "live", "cancelled", "ran"}]
  /\ fires \in [Timer -> Nat] /\ elapsed \in Nat
  /\ native \subseteq Soon /\ half \subseteq Soon
  /\ index \subseteq Handles /\ IsFiniteSet(index)
  /\ timers \subseteq Timer /\ IsFiniteSet(timers)
  /\ wakes \in [Futures -> SUBSET Timer]
  /\ ready \in [Handles -> Nat]

\* What is not scheduled is in no table; what the index knows did not run; and what
\* a thread has yet to register is not in the index.
Scheduled ==
  /\ \A c \in Handles : handle[c] = "none" => c \notin index /\ c \notin timers /\ c \notin half
  /\ \A c \in index : handle[c] # "ran"
  /\ \A c \in half : c \notin index

\* A timer of the index is in the heap or among the ready ones, stale or not, in
\* one of the two, and with the future it wakes.
Placed ==
  /\ \A c \in index \cap Timer : (c \in timers \/ ready[c] > 0) /\ c \in wakes[Woken[c]]
  /\ \A c \in Handles : ready[c] > 0 => c \in index /\ c \notin timers
  /\ \A f \in Futures : wakes[f] \subseteq index

\* The ready timers are due, no later than those of the heap, and in the order
\* of their instants.
InOrder ==
  \A c \in Timer : ready[c] > 0 =>
    /\ fires[c] <= elapsed
    /\ \A d \in timers : fires[c] <= fires[d]
    /\ \A d \in Timer : ready[d] > 0 /\ ready[c] <= ready[d] => fires[c] <= fires[d]

Fits == Cardinality(timers) <= 2 * Cardinality(index) + Spare

IndexInv == TablesTyped /\ Scheduled /\ Placed /\ InOrder /\ Fits

\* A set of natural numbers has a least one.
LEMMA LeastNumber ==
  ASSUME NEW T, T \subseteq Nat, T # {}
  PROVE  \E m \in T : \A k \in T : m <= k
<1>1. PICK m \in T : \A k \in T : ~ (<<k, m>> \in OpToRel(<, Nat))
  BY NatLessThanWellFounded, WFMin
<1>2. ASSUME NEW k \in T
      PROVE  m <= k
  <2>1. ~(<<k, m>> \in OpToRel(<, Nat))
    BY <1>1
  <2>2. <<k, m>> \in Nat \X Nat
    OBVIOUS
  <2>3. ~(k < m)
    BY <2>1, <2>2 DEF OpToRel
  <2> QED BY <2>3
<1> QED BY <1>2

\* Of a finite set some element has the latest place.
LEMMA Latest ==
  ASSUME NEW S, IsFiniteSet(S), S # {}, NEW pos, \A c \in S : pos[c] \in Nat
  PROVE  \E e \in S : \A c \in S : pos[c] <= pos[e]
<1> DEFINE Bad == {X \in SUBSET S : X # {} /\ ~(\E e \in X : \A c \in X : pos[c] <= pos[e])}
           Sizes == {Cardinality(X) : X \in Bad}
<1>1. SUFFICES ASSUME Bad # {}
               PROVE  FALSE
  <2>1. S \notin Bad => \E e \in S : \A c \in S : pos[c] <= pos[e]
    OBVIOUS
  <2> QED BY <2>1
<1>2. \A X \in SUBSET S : IsFiniteSet(X) /\ Cardinality(X) \in Nat
  BY FS_Subset, FS_CardinalityType
<1>3. Sizes \subseteq Nat /\ Sizes # {}
  BY <1>1, <1>2
<1> HIDE DEF Sizes
<1>4. PICK n \in Sizes : \A k \in Sizes : n <= k
  BY <1>3, LeastNumber
<1>5. PICK X \in Bad : n = Cardinality(X)
  BY <1>4 DEF Sizes
<1>6. X \in SUBSET S /\ X # {} /\ ~(\E e \in X : \A c \in X : pos[c] <= pos[e])
  BY <1>5
<1>7. PICK x \in X : TRUE
  BY <1>6
<1> DEFINE Y == X \ {x}
<1>8. IsFiniteSet(X) /\ Cardinality(X) \in Nat
  BY <1>2, <1>6
<1>9. Cardinality(Y) = Cardinality(X) - 1
  BY <1>7, <1>8, FS_RemoveElement
<1>10. Y \in SUBSET S /\ Cardinality(Y) \in Nat
  BY <1>2, <1>6
<1>11. Y \notin Bad
  <2>1. SUFFICES ASSUME Y \in Bad
                 PROVE  FALSE
    OBVIOUS
  <2>2. Cardinality(Y) \in Sizes
    BY <2>1 DEF Sizes
  <2>3. n <= Cardinality(Y)
    BY <1>4, <2>2
  <2> QED BY <2>3, <1>5, <1>8, <1>9
<1>12. CASE Y = {}
  <2>1. X = {x}
    BY <1>12, <1>7
  <2>2. pos[x] <= pos[x]
    BY <1>6, <1>7
  <2> QED BY <2>1, <2>2, <1>6
<1>13. CASE Y # {}
  <2>1. PICK e \in Y : \A c \in Y : pos[c] <= pos[e]
    BY <1>10, <1>11, <1>13
  <2>2. pos[e] \in Nat /\ pos[x] \in Nat /\ \A c \in X : pos[c] \in Nat
    BY <1>6, <1>7, <2>1
  <2>3. CASE pos[x] <= pos[e]
    <3>1. \A c \in X : pos[c] <= pos[e]
      BY <2>1, <2>3
    <3> QED BY <3>1, <2>1, <1>6
  <2>4. CASE ~(pos[x] <= pos[e])
    <3>1. pos[e] <= pos[x]
      BY <2>2, <2>4
    <3>2. \A c \in X : pos[c] <= pos[x]
      BY <2>1, <2>2, <3>1
    <3> QED BY <3>2, <1>6, <1>7
  <2> QED BY <2>3, <2>4
<1> QED BY <1>12, <1>13

\* The end of the ready ones is behind all of them.
LEMMA EndBehind ==
  ASSUME TablesTyped, Placed
  PROVE  End \in Nat /\ \A c \in Handles : ready[c] <= End
<1> DEFINE Filled == {0} \cup Range(ready)
<1>1. Filled = {0} \cup {ready[c] : c \in Handles}
  BY DEF TablesTyped, Range
<1>2. \E m \in Filled : m \in Nat /\ \A k \in Filled : m >= k
  <2>1. CASE \E c \in Handles : ready[c] > 0
    <3> DEFINE S == {c \in Handles : ready[c] > 0}
    <3>1. S \subseteq index /\ S # {}
      BY <2>1 DEF Placed
    <3>2. IsFiniteSet(S)
      BY <3>1, FS_Subset DEF TablesTyped
    <3>3. \A c \in Handles : ready[c] \in Nat
      BY DEF TablesTyped
    <3>4. \A c \in S : ready[c] \in Nat
      BY <3>3
    <3> HIDE DEF S
    <3>5. PICK e \in S : \A c \in S : ready[c] <= ready[e]
      BY <3>1, <3>2, <3>4, Latest
    <3>6. e \in Handles /\ ready[e] \in Nat
      BY <3>3, <3>5 DEF S
    <3>7. \A c \in Handles : ready[c] <= ready[e]
      BY <3>3, <3>5, <3>6 DEF S
    <3>8. \A k \in Filled : ready[e] >= k
      BY <1>1, <3>3, <3>6, <3>7
    <3>9. ready[e] \in Filled
      BY <1>1, <3>6
    <3> QED BY <3>6, <3>8, <3>9
  <2>2. CASE ~(\E c \in Handles : ready[c] > 0)
    <3>1. \A c \in Handles : ready[c] = 0
      BY <2>2 DEF TablesTyped
    <3> QED BY <1>1, <3>1
  <2> QED BY <2>1, <2>2
<1>3. End \in Filled /\ End \in Nat /\ \A k \in Filled : End >= k
  <2> HIDE DEF Filled
  <2>1. End = CHOOSE m \in Filled : \A k \in Filled : m >= k
    BY DEF End, Max, Filled
  <2>2. End \in Filled /\ \A k \in Filled : End >= k
    BY <1>2, <2>1
  <2>3. \A k \in Filled : k \in Nat
    BY <1>1 DEF TablesTyped
  <2> QED BY <2>2, <2>3
<1>4. \A c \in Handles : ready[c] \in Filled /\ ready[c] \in Nat
  BY <1>1 DEF TablesTyped
<1>5. ASSUME NEW c \in Handles
      PROVE  ready[c] <= End
  <2>1. End >= ready[c]
    BY <1>3, <1>4
  <2> QED BY <2>1, <1>3, <1>4
<1> QED BY <1>3, <1>5

\* What is a part of a finite table is finite and no larger.
LEMMA Smaller ==
  ASSUME NEW S, IsFiniteSet(S), NEW T, T \subseteq S
  PROVE  IsFiniteSet(T) /\ Cardinality(T) \in Nat /\ Cardinality(S) \in Nat
         /\ Cardinality(T) <= Cardinality(S)
<1>1. T \in SUBSET S
  OBVIOUS
<1> QED BY <1>1, FS_Subset, FS_CardinalityType

\* A pass that overflows nowhere leaves a heap that fits what it leaves of the
\* index: it was looked at when its last stale record was retired.
LEMMA PassFits ==
  ASSUME TablesTyped, Fits, NEW P, P \subseteq timers,
         NEW pos, \A c \in P : pos[c] \in Nat, ~Overflows(P, pos)
  PROVE  Cardinality(timers \ P) <= 2 * Cardinality(index \ {c \in P : Stale(c)}) + Spare
<1> DEFINE Met == {c \in P \cap index : Stale(c)}
           Left == index \ {c \in P : Stale(c)}
<1>1. IsFiniteSet(timers) /\ IsFiniteSet(index) /\ Spare \in Nat
  BY CallbacksAssumption DEF TablesTyped
<1>2. /\ Cardinality(timers) \in Nat /\ Cardinality(index) \in Nat
      /\ Cardinality(timers \ P) \in Nat /\ Cardinality(Left) \in Nat
      /\ Cardinality(timers \ P) <= Cardinality(timers)
  <2>1. timers \ P \subseteq timers /\ Left \subseteq index
    OBVIOUS
  <2> QED BY <1>1, <2>1, Smaller
<1>3. CASE Met = {}
  <2>1. Left = index
    BY <1>3
  <2>2. Cardinality(timers) <= 2 * Cardinality(index) + Spare
    BY DEF Fits
  <2>3. Cardinality(timers \ P) <= 2 * Cardinality(index) + Spare
    BY <1>1, <1>2, <2>2
  <2>4. Cardinality(timers \ P) <= 2 * Cardinality(Left) + Spare
    BY <2>1, <2>3
  <2> QED BY <2>4
<1>4. CASE Met # {}
  <2>1. Met \subseteq index /\ \A c \in Met : pos[c] \in Nat
    OBVIOUS
  <2>2. IsFiniteSet(Met)
    BY <1>1, <2>1, Smaller
  <2>3. PICK e \in Met : \A c \in Met : pos[c] <= pos[e]
    <3> HIDE DEF Met
    <3> QED BY <1>4, <2>1, <2>2, Latest
  <2> DEFINE taken == {d \in P : pos[d] <= pos[e]}
  <2>4. ~Crowded(timers \ taken, index \ {d \in taken : Stale(d)})
    BY <2>3 DEF Overflows
  <2>5. index \ {d \in taken : Stale(d)} = Left
    BY <2>3
  <2>6. ~Crowded(timers \ taken, Left)
    BY <2>4, <2>5
  <2>7. timers \ P \subseteq timers \ taken /\ timers \ taken \subseteq timers
    OBVIOUS
  <2>8. /\ IsFiniteSet(timers \ taken) /\ Cardinality(timers \ taken) \in Nat
    BY <1>1, <2>7, Smaller
  <2>9. Cardinality(timers \ P) <= Cardinality(timers \ taken)
    BY <2>7, <2>8, Smaller
  <2> HIDE DEF taken, Left
  <2>10. Cardinality(timers \ taken) <= 2 * Cardinality(Left) + Spare
    BY <2>6, <2>8, <1>1, <1>2 DEF Crowded
  <2>11. Cardinality(timers \ P) <= 2 * Cardinality(Left) + Spare
    BY <2>8, <2>9, <2>10, <1>1, <1>2
  <2> QED BY <2>11 DEF Left
<1> QED BY <1>3, <1>4

\* What is compacted has a record each.
LEMMA CompactedFits ==
  ASSUME NEW I, IsFiniteSet(I), NEW H, H \subseteq I
  PROVE  IsFiniteSet(H) /\ Cardinality(H) <= 2 * Cardinality(I) + Spare
<1>1. /\ IsFiniteSet(H) /\ Cardinality(H) \in Nat /\ Cardinality(I) \in Nat
      /\ Cardinality(H) <= Cardinality(I) /\ Spare \in Nat
  BY Smaller, CallbacksAssumption
<1> QED BY <1>1

\* `line' is ready with the timers that have come due, in their order.
Lined(line, due) ==
  /\ line \in [Handles -> Nat]
  /\ \A c \in Handles : ready[c] > 0 => line[c] = ready[c]
  /\ \A c \in Handles : line[c] > 0 /\ ready[c] = 0 => c \in due \cap index
  /\ \A c \in Timer : line[c] > 0 =>
       /\ fires[c] <= elapsed
       /\ \A d \in timers \ due : fires[c] <= fires[d]
       /\ \A d \in Timer : line[d] > 0 /\ line[c] <= line[d] => fires[c] <= fires[d]

\* What is due and stays in the index is in line.
Handed(line, due, gone) == \A c \in due \cap index : c \in gone \/ line[c] > 0

\* The heap after a pass, compacted or not.
Drained(due) == timers' = timers \ due \/ timers' = {c \in index' \cap Timer : ready'[c] = 0}

\* Every set of records may leave the tables that has its timers out of the heap
\* wherever the heap is not compacted: what stays is placed and in order.
LEMMA DeletesKeep ==
  ASSUME IndexInv, NEW gone, NEW line, NEW due, due \subseteq timers,
         Deletes(gone, line), Lined(line, due), Handed(line, due, gone), Drained(due),
         fires' = fires, elapsed' \in Nat, elapsed <= elapsed'
  PROVE  /\ index' \subseteq index /\ IsFiniteSet(index')
         /\ timers' \subseteq timers \ due /\ IsFiniteSet(timers')
         /\ wakes' \in [Futures -> SUBSET Timer] /\ ready' \in [Handles -> Nat]
         /\ Placed' /\ InOrder'
<1>a. /\ line \in [Handles -> Nat]
      /\ \A c \in Handles : ready[c] > 0 => line[c] = ready[c]
      /\ \A c \in Handles : line[c] > 0 /\ ready[c] = 0 => c \in due \cap index
      /\ \A c \in Timer : line[c] > 0 =>
           /\ fires[c] <= elapsed
           /\ \A d \in timers \ due : fires[c] <= fires[d]
           /\ \A d \in Timer : line[d] > 0 /\ line[c] <= line[d] => fires[c] <= fires[d]
  BY DEF Lined
<1>b. \A c \in due \cap index : c \in gone \/ line[c] > 0
  BY DEF Handed
<1>c. timers' = timers \ due \/ timers' = {c \in index' \cap Timer : ready'[c] = 0}
  BY DEF Drained
<1>1. /\ index' = index \ gone
      /\ ready' = [c \in Handles |-> IF c \in gone THEN 0 ELSE line[c]]
      /\ wakes' = [f \in Futures |-> wakes[f] \ gone]
  BY DEF Deletes
<1>2. ready' \in [Handles -> Nat] /\ wakes' \in [Futures -> SUBSET Timer]
  BY <1>a, <1>1 DEF IndexInv, TablesTyped
<1>3. \A c \in Handles : ready'[c] = (IF c \in gone THEN 0 ELSE line[c]) /\ line[c] \in Nat
                         /\ ready[c] \in Nat
  BY <1>a, <1>1 DEF IndexInv, TablesTyped
<1>4. index' \subseteq index /\ IsFiniteSet(index')
  BY <1>1, Smaller DEF IndexInv, TablesTyped
<1>5. Timer \subseteq Handles /\ timers \subseteq Timer /\ index \subseteq Handles
  BY DEF Handles, IndexInv, TablesTyped
<1>6. \A c \in index \cap Timer : (c \in timers \/ ready[c] > 0) /\ c \in wakes[Woken[c]]
  BY DEF IndexInv, Placed
<1>7. \A c \in Handles : ready[c] > 0 => c \in index /\ c \notin timers
  BY DEF IndexInv, Placed
<1>8. timers' \subseteq timers \ due
  <2>1. ASSUME NEW c \in index' \cap Timer, ready'[c] = 0
        PROVE  c \in timers \ due
    <3>1. c \in index /\ c \notin gone /\ c \in Timer /\ c \in Handles
      BY <1>1, <1>5, <2>1
    <3>2. line[c] = 0
      BY <1>3, <2>1, <3>1
    <3>3. ~(ready[c] > 0)
      BY <1>a, <1>3, <3>1, <3>2
    <3>4. c \in timers
      BY <1>6, <3>1, <3>3
    <3>5. c \notin due
      BY <1>b, <3>1, <3>2
    <3> QED BY <3>4, <3>5
  <2> QED BY <1>c, <2>1
<1>9. IsFiniteSet(timers')
  BY <1>8, Smaller DEF IndexInv, TablesTyped
<1>10. ASSUME NEW c \in index' \cap Timer
       PROVE  (c \in timers' \/ ready'[c] > 0) /\ c \in wakes'[Woken[c]]
  <2>1. c \in index /\ c \notin gone /\ c \in Timer /\ c \in Handles
    BY <1>1, <1>5, <1>10
  <2>2. Woken[c] \in Futures
    BY <2>1, CallbacksAssumption
  <2>3. c \in wakes'[Woken[c]]
    BY <1>1, <1>6, <2>1, <2>2
  <2>4. ready'[c] = line[c] /\ line[c] \in Nat /\ ready[c] \in Nat
    BY <1>3, <2>1
  <2>5. CASE timers' = timers \ due
    <3>1. CASE ready[c] > 0
      BY <1>a, <2>1, <2>3, <2>4, <3>1
    <3>2. CASE c \in timers /\ c \in due
      <4>1. line[c] > 0
        BY <1>b, <2>1, <3>2
      <4> QED BY <4>1, <2>3, <2>4
    <3>3. CASE c \in timers /\ c \notin due
      BY <2>3, <2>5, <3>3
    <3> QED BY <1>6, <2>1, <2>3, <2>4, <3>1, <3>2, <3>3
  <2>6. CASE timers' = {d \in index' \cap Timer : ready'[d] = 0}
    <3>1. CASE line[c] = 0
      BY <1>10, <2>3, <2>4, <2>6, <3>1
    <3>2. CASE line[c] # 0
      BY <2>3, <2>4, <3>2
    <3> QED BY <3>1, <3>2
  <2> QED BY <1>c, <2>5, <2>6
<1>11. ASSUME NEW c \in Handles, ready'[c] > 0
       PROVE  c \in index' /\ c \notin timers'
  <2>1. c \notin gone /\ line[c] > 0 /\ line[c] = ready'[c]
    BY <1>3, <1>11
  <2>2. CASE ready[c] > 0
    BY <1>1, <1>7, <1>8, <2>1, <2>2
  <2>3. CASE ready[c] = 0
    <3>1. c \in due \cap index
      BY <1>a, <2>1, <2>3
    <3> QED BY <1>1, <1>8, <2>1, <3>1
  <2> QED BY <1>3, <2>2, <2>3
<1>12. \A f \in Futures : wakes'[f] \subseteq index'
  BY <1>1 DEF IndexInv, Placed
<1>13. Placed'
  BY <1>10, <1>11, <1>12 DEF Placed
<1>14. ASSUME NEW c \in Timer, ready'[c] > 0
       PROVE  /\ fires[c] <= elapsed'
              /\ \A d \in timers' : fires[c] <= fires[d]
              /\ \A d \in Timer : ready'[d] > 0 /\ ready'[c] <= ready'[d] => fires[c] <= fires[d]
  <2>1. ready'[c] = line[c] /\ line[c] > 0
    BY <1>3, <1>5, <1>14
  <2>2. \A d \in Timer : ready'[d] > 0 => ready'[d] = line[d]
    BY <1>3, <1>5
  <2>3. fires[c] \in Nat /\ elapsed \in Nat
    BY DEF IndexInv, TablesTyped
  <2>4. fires[c] <= elapsed
    BY <1>a, <2>1
  <2>5. fires[c] <= elapsed'
    BY <2>3, <2>4
  <2>6. \A d \in timers' : fires[c] <= fires[d]
    BY <1>8, <1>a, <2>1
  <2>7. \A d \in Timer : ready'[d] > 0 /\ ready'[c] <= ready'[d] => fires[c] <= fires[d]
    BY <1>a, <2>1, <2>2
  <2> QED BY <2>5, <2>6, <2>7
<1>15. InOrder'
  BY <1>14 DEF InOrder
<1> QED BY <1>2, <1>4, <1>8, <1>9, <1>13, <1>15

LEMMA IndexInvInit ==
  ASSUME CallbacksInit
  PROVE  IndexInv
<1>1. TablesTyped
  BY FS_EmptySet DEF CallbacksInit, TablesTyped, Handles
<1>2. Scheduled /\ Placed /\ InOrder
  BY DEF CallbacksInit, Scheduled, Placed, InOrder, Handles
<1>3. Fits
  <2>1. timers = {} /\ index = {}
    BY DEF CallbacksInit
  <2>2. Cardinality(timers) = 0 /\ Cardinality(index) = 0
    BY <2>1, FS_EmptySet
  <2> QED BY <2>2, CallbacksAssumption DEF Fits
<1> QED BY <1>1, <1>2, <1>3 DEF IndexInv

\* A record that is retired.
LEMMA RetiredKeeps ==
  ASSUME IndexInv, NEW c \in Handles, Retired(c), UNCHANGED <<fires, elapsed>>
  PROVE  /\ index' = index \ {c} /\ IsFiniteSet(index')
         /\ timers' \subseteq timers /\ IsFiniteSet(timers')
         /\ wakes' \in [Futures -> SUBSET Timer] /\ ready' \in [Handles -> Nat]
         /\ Placed' /\ InOrder' /\ Fits'
<1>1. /\ Deletes({c}, ready)
      /\ HeapBecomes(c \in index /\ Crowded(timers, index \ {c}), timers)
  BY DEF Retired
<1>2. /\ TablesTyped /\ Placed /\ InOrder /\ Fits
      /\ elapsed \in Nat /\ ready \in [Handles -> Nat]
  BY DEF IndexInv, TablesTyped
<1>3. Drained({})
  BY <1>1 DEF HeapBecomes, Drained
<1>4. index' = index \ {c}
  BY <1>1 DEF Deletes
<1>5. Lined(ready, {}) /\ Handed(ready, {}, {c})
  BY <1>2 DEF InOrder, Lined, Handed
<1>6. fires' = fires /\ elapsed' = elapsed /\ elapsed <= elapsed' /\ elapsed' \in Nat
  BY <1>2
<1>8. /\ index' \subseteq index /\ IsFiniteSet(index')
      /\ timers' \subseteq timers \ {} /\ IsFiniteSet(timers')
      /\ wakes' \in [Futures -> SUBSET Timer] /\ ready' \in [Handles -> Nat]
      /\ Placed' /\ InOrder'
  <2>1. {} \subseteq timers
    OBVIOUS
  <2> QED BY <1>1, <1>2, <1>3, <1>5, <1>6, <2>1, DeletesKeep
<1>9. Fits'
  <2>1. CASE c \in index /\ Crowded(timers, index \ {c})
    <3>1. timers' = {d \in index' \cap Timer : ready'[d] = 0}
      BY <1>1, <2>1 DEF HeapBecomes
    <3>2. timers' \subseteq index'
      BY <3>1
    <3>3. Cardinality(timers') <= 2 * Cardinality(index') + Spare
      BY <1>8, <3>2, CompactedFits
    <3> QED BY <3>3 DEF Fits
  <2>2. CASE c \notin index
    <3>1. index' = index /\ timers' = timers
      BY <1>1, <1>4, <2>2 DEF HeapBecomes
    <3> QED BY <1>2, <3>1 DEF Fits
  <2>3. CASE c \in index /\ ~Crowded(timers, index \ {c})
    <3>1. timers' = timers
      BY <1>1, <2>3 DEF HeapBecomes
    <3>2. ~Crowded(timers', index')
      BY <1>4, <2>3, <3>1
    <3>3. /\ Cardinality(timers') \in Nat /\ Cardinality(index') \in Nat /\ Spare \in Nat
      BY <1>8, Smaller, CallbacksAssumption
    <3>4. Cardinality(timers') <= 2 * Cardinality(index') + Spare
      BY <3>2, <3>3 DEF Crowded
    <3> QED BY <3>4 DEF Fits
  <2> QED BY <2>1, <2>2, <2>3
<1> QED BY <1>4, <1>8, <1>9

\* A callback that is registered: it is in no table before.
LEMMA RegisteredKeeps ==
  ASSUME IndexInv, NEW c \in Handles, Registered(c), c \notin index, c \notin timers,
         fires' \in [Timer -> Nat], \A d \in Timer \ {c} : fires'[d] = fires[d],
         c \in Timer => elapsed <= fires'[c], elapsed' = elapsed
  PROVE  /\ index' = index \cup {c} /\ IsFiniteSet(index')
         /\ timers' = (IF c \in Timer THEN timers \cup {c} ELSE timers) /\ IsFiniteSet(timers')
         /\ wakes' \in [Futures -> SUBSET Timer] /\ ready' \in [Handles -> Nat]
         /\ Placed' /\ InOrder' /\ Fits'
<1>1. /\ index' = index \cup {c}
      /\ ready' = IF c \in Soon THEN [ready EXCEPT ![c] = End + 1] ELSE ready
      /\ timers' = IF c \in Timer THEN timers \cup {c} ELSE timers
      /\ wakes' = IF c \in Timer THEN [wakes EXCEPT ![Woken[c]] = @ \cup {c}] ELSE wakes
  BY DEF Registered
<1>2. /\ TablesTyped /\ Placed /\ InOrder /\ Fits
  BY DEF IndexInv
<1>3. End \in Nat /\ \A d \in Handles : ready[d] <= End
  BY <1>2, EndBehind
<1>4. /\ c \in Soon \/ c \in Timer
      /\ ~(c \in Soon /\ c \in Timer)
      /\ Timer \subseteq Handles
      /\ c \in Timer => Woken[c] \in Futures
  BY CallbacksAssumption DEF Handles
<1>5. ready \in [Handles -> Nat] /\ wakes \in [Futures -> SUBSET Timer]
  BY <1>2 DEF TablesTyped
<1>6. ready' \in [Handles -> Nat]
  BY <1>1, <1>3, <1>5
<1>7. wakes' \in [Futures -> SUBSET Timer]
  <2>1. CASE c \in Timer
    BY <1>1, <1>4, <1>5, <2>1
  <2>2. CASE c \notin Timer
    BY <1>1, <1>5, <2>2
  <2> QED BY <2>1, <2>2
<1>8. \A f \in Futures : wakes[f] \subseteq wakes'[f] /\ wakes'[f] \subseteq wakes[f] \cup {c}
  <2>1. CASE c \in Timer
    BY <1>1, <1>4, <1>5, <2>1
  <2>2. CASE c \notin Timer
    BY <1>1, <1>5, <2>2
  <2> QED BY <2>1, <2>2
<1>9. c \in Timer => c \in wakes'[Woken[c]]
  BY <1>1, <1>4, <1>5
<1>10. \A d \in Handles : d # c => ready'[d] = ready[d]
  BY <1>1, <1>5
<1>11. c \in Timer => ready'[c] = 0
  <2>1. ~(ready[c] > 0)
    BY <1>2 DEF Placed
  <2> QED BY <1>1, <1>4, <1>5, <2>1
<1>12. IsFiniteSet(index') /\ IsFiniteSet(timers') /\ IsFiniteSet(index) /\ IsFiniteSet(timers)
  BY <1>1, <1>2, FS_AddElement DEF TablesTyped
<1>13. Placed'
  <2>1. ASSUME NEW d \in index' \cap Timer
        PROVE  (d \in timers' \/ ready'[d] > 0) /\ d \in wakes'[Woken[d]]
    <3>1. CASE d = c
      BY <1>1, <1>9, <2>1, <3>1
    <3>2. CASE d # c
      <4>1. d \in index /\ d \in Timer /\ d \in Handles /\ Woken[d] \in Futures
        BY <1>1, <1>4, <2>1, <3>2, CallbacksAssumption
      <4>2. (d \in timers \/ ready[d] > 0) /\ d \in wakes[Woken[d]]
        BY <1>2, <4>1 DEF Placed
      <4>3. ready'[d] = ready[d] /\ timers \subseteq timers'
        BY <1>1, <1>10, <3>2, <4>1
      <4> QED BY <1>8, <4>1, <4>2, <4>3
    <3> QED BY <3>1, <3>2
  <2>2. ASSUME NEW d \in Handles, ready'[d] > 0
        PROVE  d \in index' /\ d \notin timers'
    <3>1. CASE d = c
      <4>1. c \notin Timer
        BY <1>11, <2>2, <3>1
      <4> QED BY <1>1, <3>1, <4>1
    <3>2. CASE d # c
      <4>1. ready[d] > 0
        BY <1>10, <2>2, <3>2
      <4>2. d \in index /\ d \notin timers
        BY <1>2, <4>1 DEF Placed
      <4> QED BY <1>1, <3>2, <4>2
    <3> QED BY <3>1, <3>2
  <2>3. \A f \in Futures : wakes'[f] \subseteq index'
    BY <1>1, <1>2, <1>8 DEF Placed
  <2> QED BY <2>1, <2>2, <2>3 DEF Placed
<1>14. InOrder'
  <2>1. ASSUME NEW d \in Timer, ready'[d] > 0
        PROVE  /\ fires'[d] <= elapsed'
               /\ \A e \in timers' : fires'[d] <= fires'[e]
               /\ \A e \in Timer : ready'[e] > 0 /\ ready'[d] <= ready'[e] => fires'[d] <= fires'[e]
    <3>1. d # c /\ ready[d] > 0 /\ ready'[d] = ready[d] /\ fires'[d] = fires[d]
      BY <1>4, <1>10, <1>11, <2>1
    <3>2. /\ fires[d] <= elapsed
          /\ \A e \in timers : fires[d] <= fires[e]
          /\ \A e \in Timer : ready[e] > 0 /\ ready[d] <= ready[e] => fires[d] <= fires[e]
      BY <1>2, <3>1 DEF InOrder
    <3>3. fires[d] \in Nat /\ elapsed \in Nat /\ timers \subseteq Timer
      BY <1>2 DEF TablesTyped
    <3>4. ASSUME NEW e \in timers'
          PROVE  fires'[d] <= fires'[e]
      <4>1. CASE e = c
        <5>1. c \in Timer
          BY <1>1, <3>4, <4>1
        <5>2. fires'[c] \in Nat /\ elapsed <= fires'[c]
          BY <5>1
        <5> QED BY <3>1, <3>2, <3>3, <4>1, <5>2
      <4>2. CASE e # c
        <5>1. e \in timers /\ e \in Timer
          BY <1>1, <3>3, <3>4, <4>2
        <5>2. fires'[e] = fires[e]
          BY <4>2, <5>1
        <5> QED BY <3>1, <3>2, <5>1, <5>2
      <4> QED BY <4>1, <4>2
    <3>5. ASSUME NEW e \in Timer, ready'[e] > 0, ready'[d] <= ready'[e]
          PROVE  fires'[d] <= fires'[e]
      <4>1. e # c
        BY <1>11, <3>5
      <4>2. ready[e] = ready'[e] /\ fires'[e] = fires[e]
        BY <1>4, <1>10, <4>1
      <4> QED BY <3>1, <3>2, <3>5, <4>2
    <3> QED BY <3>1, <3>2, <3>4, <3>5
  <2> QED BY <2>1 DEF InOrder
<1>15. Fits'
  <2>1. /\ Cardinality(index') = Cardinality(index) + 1
        /\ Cardinality(timers') = (IF c \in Timer THEN Cardinality(timers) + 1 ELSE Cardinality(timers))
    BY <1>1, <1>12, FS_AddElement
  <2>2. Cardinality(index) \in Nat /\ Cardinality(timers) \in Nat /\ Spare \in Nat
    BY <1>12, FS_CardinalityType, CallbacksAssumption
  <2>3. Cardinality(timers) <= 2 * Cardinality(index) + Spare
    BY <1>2 DEF Fits
  <2>4. Cardinality(timers') <= 2 * Cardinality(index') + Spare
    BY <2>1, <2>2, <2>3
  <2> QED BY <2>4 DEF Fits
<1> QED BY <1>1, <1>6, <1>7, <1>12, <1>13, <1>14, <1>15

\* The parts of RunDue.
DueNow == {c \in timers : fires[c] <= elapsed}
DueStale == {c \in DueNow \cap index : Stale(c)}
DueKept == (DueNow \cap index) \ DueStale
LineOf(pos) == [c \in Handles |-> IF c \in DueKept THEN End + pos[c] ELSE ready[c]]
QueuedIn(line) == {c \in Handles : line[c] > 0}
FirstIn(line) == First({c \in QueuedIn(line) \cap Timer : ~Stale(c)}, line)
BeforeIn(line) == {c \in QueuedIn(line) : Stale(c) /\ \A d \in FirstIn(line) : line[c] < line[d]}
GoneFrom(line) == DueStale \cup BeforeIn(line) \cup FirstIn(line)

RunsIn(pos) ==
  LET line == LineOf(pos)
  IN  /\ DueNow \cup GoneFrom(line) # {}
      /\ Invoke(FirstIn(line)) /\ Deletes(GoneFrom(line), line)
      /\ HeapBecomes(\/ Overflows(DueNow, pos)
                     \/ BeforeIn(line) \cup FirstIn(line) # {}
                          /\ Crowded(timers \ DueNow, index \ GoneFrom(line)),
                     timers \ DueNow)
      /\ UNCHANGED <<fires, half, elapsed>>

LEMMA RunDueParts ==
  ASSUME RunDue
  PROVE  \E pos \in Orders(DueNow) : RunsIn(pos)
  BY DEF RunDue, RunsIn, DueNow, DueStale, DueKept, LineOf, QueuedIn, FirstIn, BeforeIn, GoneFrom

\* The places of an order.
LEMMA OrderPlaces ==
  ASSUME NEW P, P \subseteq Timer, IsFiniteSet(P), NEW pos \in Orders(P)
  PROVE  /\ \A c \in P : pos[c] \in Nat /\ pos[c] > 0
         /\ \A c, d \in P : fires[c] < fires[d] => pos[c] < pos[d]
<1>1. Cardinality(P) \in Nat
  BY FS_CardinalityType
<1>2. pos \in [P -> 1..Cardinality(P)]
  BY DEF Orders, Injection, IsInjective
<1>3. \A c \in P : pos[c] \in Nat /\ pos[c] > 0
  BY <1>1, <1>2
<1>4. \A c, d \in P : fires[c] < fires[d] => pos[c] < pos[d]
  BY DEF Orders
<1> QED BY <1>3, <1>4

\* The timers that come due are in line behind the ready ones, in their order.
LEMMA RipenedLined ==
  ASSUME IndexInv, NEW pos \in Orders(DueNow)
  PROVE  /\ Lined(LineOf(pos), DueNow)
         /\ Handed(LineOf(pos), DueNow, DueStale)
<1> DEFINE line == LineOf(pos)
<1>1. /\ TablesTyped /\ Placed /\ InOrder
      /\ fires \in [Timer -> Nat] /\ elapsed \in Nat /\ ready \in [Handles -> Nat]
      /\ IsFiniteSet(timers) /\ timers \subseteq Timer /\ Timer \subseteq Handles
  BY DEF IndexInv, TablesTyped, Handles
<1>2. DueNow \subseteq timers /\ DueKept \subseteq DueNow \cap index /\ DueKept \subseteq Timer
  BY <1>1 DEF DueNow, DueKept
<1>3. IsFiniteSet(DueNow) /\ DueNow \subseteq Timer
  BY <1>1, <1>2, Smaller
<1>4. /\ \A c \in DueNow : pos[c] \in Nat /\ pos[c] > 0
      /\ \A c, d \in DueNow : fires[c] < fires[d] => pos[c] < pos[d]
  BY <1>3, OrderPlaces
<1>5. End \in Nat /\ \A c \in Handles : ready[c] <= End
  BY <1>1, EndBehind
<1>6. \A c \in Handles : line[c] = (IF c \in DueKept THEN End + pos[c] ELSE ready[c])
  BY DEF LineOf
<1>7. \A c \in DueKept : line[c] = End + pos[c] /\ pos[c] \in Nat /\ pos[c] > 0 /\ line[c] \in Nat
                         /\ c \in Timer /\ c \in Handles
  BY <1>1, <1>2, <1>4, <1>5, <1>6
<1>8. line \in [Handles -> Nat]
  <2>1. \A c \in Handles : line[c] \in Nat
    BY <1>1, <1>6, <1>7
  <2> QED BY <2>1 DEF LineOf
<1>9. \A c \in Handles : ready[c] > 0 => c \notin DueKept
  BY <1>1, <1>2 DEF Placed
<1>10. \A c \in Handles : ready[c] > 0 => line[c] = ready[c]
  BY <1>6, <1>9
<1>11. \A c \in Handles : line[c] > 0 /\ ready[c] = 0 => c \in DueNow \cap index
  <2>1. ASSUME NEW c \in Handles, line[c] > 0, ready[c] = 0
        PROVE  c \in DueKept
    BY <1>6, <2>1
  <2> QED BY <1>2, <2>1
<1> HIDE DEF line
<1>12. ASSUME NEW c \in Timer, line[c] > 0
       PROVE  /\ fires[c] <= elapsed
              /\ \A d \in timers \ DueNow : fires[c] <= fires[d]
              /\ \A d \in Timer : line[d] > 0 /\ line[c] <= line[d] => fires[c] <= fires[d]
  <2>1. /\ c \in Handles /\ fires[c] \in Nat
        /\ \A d \in Timer : d \in Handles /\ fires[d] \in Nat
    BY <1>1
  <2>2. \A d \in timers \ DueNow : d \in Timer /\ fires[d] > elapsed
    BY <1>1 DEF DueNow
  <2>3. CASE c \in DueKept
    <3>1. fires[c] <= elapsed
      BY <1>2, <2>3 DEF DueNow
    <3>2. \A d \in timers \ DueNow : fires[c] <= fires[d]
      BY <1>1, <2>1, <2>2, <3>1
    <3>3. ASSUME NEW d \in Timer, line[d] > 0, line[c] <= line[d]
          PROVE  fires[c] <= fires[d]
      <4>1. CASE d \in DueKept
        <5>1. pos[c] <= pos[d]
          BY <1>5, <1>7, <2>3, <3>3, <4>1
        <5>2. c \in DueNow /\ d \in DueNow /\ pos[c] \in Nat /\ pos[d] \in Nat
          BY <1>2, <1>7, <2>3, <4>1
        <5>3. ~(fires[d] < fires[c])
          BY <1>4, <5>1, <5>2
        <5> QED BY <2>1, <5>3
      <4>2. CASE d \notin DueKept
        <5>1. line[d] = ready[d] /\ ready[d] \in Nat /\ ready[d] <= End
          BY <1>1, <1>5, <1>6, <2>1, <4>2
        <5>2. line[c] > End
          BY <1>5, <1>7, <2>3
        <5> QED BY <1>5, <1>7, <2>3, <3>3, <5>1, <5>2
      <4> QED BY <4>1, <4>2
    <3> QED BY <3>1, <3>2, <3>3
  <2>4. CASE c \notin DueKept
    <3>1. ready[c] > 0 /\ line[c] = ready[c]
      BY <1>6, <1>12, <2>1, <2>4
    <3>2. /\ fires[c] <= elapsed
          /\ \A d \in timers : fires[c] <= fires[d]
          /\ \A d \in Timer : ready[d] > 0 /\ ready[c] <= ready[d] => fires[c] <= fires[d]
      BY <1>1, <3>1 DEF InOrder
    <3>3. ASSUME NEW d \in Timer, line[d] > 0, line[c] <= line[d]
          PROVE  fires[c] <= fires[d]
      <4>1. CASE d \in DueKept
        <5>1. d \in timers
          BY <1>2, <4>1
        <5> QED BY <3>2, <5>1
      <4>2. CASE d \notin DueKept
        <5>1. line[d] = ready[d]
          BY <1>6, <2>1, <4>2
        <5> QED BY <3>1, <3>2, <3>3, <5>1
      <4> QED BY <4>1, <4>2
    <3> QED BY <3>2, <3>3
  <2> QED BY <2>3, <2>4
<1>13. Lined(line, DueNow)
  BY <1>8, <1>10, <1>11, <1>12 DEF Lined
<1>14. ASSUME NEW c \in DueNow \cap index
       PROVE  c \in DueStale \/ line[c] > 0
  <2>1. CASE c \in DueKept
    BY <1>5, <1>7, <2>1
  <2>2. CASE c \notin DueKept
    BY <2>2 DEF DueKept
  <2> QED BY <2>1, <2>2
<1>15. Handed(line, DueNow, DueStale)
  BY <1>14 DEF Handed
<1> QED BY <1>13, <1>15 DEF line

\* A record that leaves the index, and a callback that runs, of the index.
LEMMA LeavingKeepsScheduled ==
  ASSUME Scheduled, TablesTyped, index' \subseteq index, timers' \subseteq timers,
         half' \subseteq half, handle' \in [Handles -> {"none", "live", "cancelled", "ran"}],
         \A c \in Handles : handle'[c] = "none" => handle[c] = "none",
         \A c \in index' : handle'[c] = "ran" => handle[c] = "ran"
  PROVE  Scheduled'
  BY DEF Scheduled, TablesTyped

LEMMA RunsInKeeps ==
  ASSUME IndexInv, NEW pos \in Orders(DueNow), RunsIn(pos)
  PROVE  IndexInv' /\ RunsEarliest
<1> DEFINE line == LineOf(pos)
           first == FirstIn(line)
           gone == GoneFrom(line)
<1>1. /\ Invoke(first) /\ Deletes(gone, line)
      /\ HeapBecomes(\/ Overflows(DueNow, pos)
                     \/ BeforeIn(line) \cup first # {}
                          /\ Crowded(timers \ DueNow, index \ gone),
                     timers \ DueNow)
      /\ fires' = fires /\ half' = half /\ elapsed' = elapsed
  BY DEF RunsIn
<1>2. Lined(line, DueNow) /\ Handed(line, DueNow, DueStale)
  BY RipenedLined
<1> HIDE DEF line
<1>3. Handed(line, DueNow, gone)
  BY <1>2 DEF Handed, GoneFrom
<1>4. Drained(DueNow)
  BY <1>1 DEF HeapBecomes, Drained
<1>5. DueNow \subseteq timers /\ elapsed \in Nat /\ TablesTyped /\ Scheduled /\ Fits
      /\ handle \in [Handles -> {"none", "live", "cancelled", "ran"}]
  BY DEF DueNow, IndexInv, TablesTyped
<1>6. fires' = fires /\ elapsed' \in Nat /\ elapsed <= elapsed'
  BY <1>1, <1>5
<1>7. /\ index' \subseteq index /\ IsFiniteSet(index')
      /\ timers' \subseteq timers \ DueNow /\ IsFiniteSet(timers')
      /\ wakes' \in [Futures -> SUBSET Timer] /\ ready' \in [Handles -> Nat]
      /\ Placed' /\ InOrder'
  <2> HIDE DEF gone
  <2> QED BY <1>1, <1>2, <1>3, <1>4, <1>5, <1>6, DeletesKeep
<1>8. /\ handle' = [c \in Handles |-> IF c \in first THEN "ran" ELSE handle[c]]
      /\ native' = native \ first
  BY <1>1 DEF Invoke
<1>9. index' = index \ gone /\ first \subseteq gone
  BY <1>1 DEF Deletes, GoneFrom
<1>10. TablesTyped'
  <2>1. handle' \in [Handles -> {"none", "live", "cancelled", "ran"}]
    BY <1>5, <1>8
  <2>2. native' \subseteq Soon /\ half' \subseteq Soon /\ index' \subseteq Handles /\ timers' \subseteq Timer
    BY <1>1, <1>5, <1>7, <1>8 DEF TablesTyped
  <2>3. fires' \in [Timer -> Nat] /\ elapsed' \in Nat
    BY <1>1, <1>5 DEF TablesTyped
  <2> QED BY <1>7, <2>1, <2>2, <2>3 DEF TablesTyped
<1>11. Scheduled'
  <2>1. /\ \A c \in Handles : handle'[c] = "none" => handle[c] = "none"
        /\ \A c \in index' : handle'[c] = "ran" => handle[c] = "ran"
    <3>1. \A c \in index' : c \in Handles /\ c \notin first
      BY <1>5, <1>9 DEF TablesTyped
    <3> QED BY <1>8, <3>1
  <2>2. handle' \in [Handles -> {"none", "live", "cancelled", "ran"}]
    BY <1>10 DEF TablesTyped
  <2>3. index' \subseteq index /\ timers' \subseteq timers /\ half' \subseteq half
    BY <1>1, <1>7
  <2> QED BY <1>5, <2>1, <2>2, <2>3, LeavingKeepsScheduled
<1>12. Fits'
  <2>1. CASE \/ Overflows(DueNow, pos)
             \/ BeforeIn(line) \cup first # {} /\ Crowded(timers \ DueNow, index \ gone)
    <3>1. timers' = {c \in index' \cap Timer : ready'[c] = 0}
      BY <1>1, <2>1 DEF HeapBecomes
    <3>2. timers' \subseteq index'
      BY <3>1
    <3>3. Cardinality(timers') <= 2 * Cardinality(index') + Spare
      BY <1>7, <3>2, CompactedFits
    <3> QED BY <3>3 DEF Fits
  <2>2. CASE ~(\/ Overflows(DueNow, pos)
               \/ BeforeIn(line) \cup first # {} /\ Crowded(timers \ DueNow, index \ gone))
    <3>1. timers' = timers \ DueNow
      BY <1>1, <2>2 DEF HeapBecomes
    <3>2. CASE BeforeIn(line) \cup first # {}
      <4>1. ~Crowded(timers', index')
        BY <1>9, <2>2, <3>1, <3>2
      <4>2. /\ Cardinality(timers') \in Nat /\ Cardinality(index') \in Nat /\ Spare \in Nat
        BY <1>7, Smaller, CallbacksAssumption
      <4>3. Cardinality(timers') <= 2 * Cardinality(index') + Spare
        BY <4>1, <4>2 DEF Crowded
      <4> QED BY <4>3 DEF Fits
    <3>3. CASE BeforeIn(line) \cup first = {}
      <4>1. gone = DueStale
        BY <3>3 DEF GoneFrom
      <4>2. index' = index \ {c \in DueNow : Stale(c)}
        BY <1>9, <4>1 DEF DueStale
      <4>3. \A c \in DueNow : pos[c] \in Nat
        <5>1. DueNow \subseteq Timer /\ IsFiniteSet(DueNow)
          BY <1>5, Smaller DEF TablesTyped
        <5> QED BY <5>1, OrderPlaces
      <4>4. ~Overflows(DueNow, pos)
        BY <2>2
      <4>5. Cardinality(timers \ DueNow) <= 2 * Cardinality(index \ {c \in DueNow : Stale(c)}) + Spare
        BY <1>5, <4>3, <4>4, PassFits
      <4> QED BY <3>1, <4>2, <4>5 DEF Fits
    <3> QED BY <3>2, <3>3
  <2> QED BY <2>1, <2>2
<1>13. RunsEarliest
  <2>1. SUFFICES ASSUME NEW c \in Timer, handle[c] = "live", handle'[c] = "ran"
                 PROVE  /\ fires[c] <= elapsed
                        /\ \A d \in Timer \cap index : handle[d] = "live" => fires[c] <= fires[d]
    BY DEF RunsEarliest
  <2>2. Timer \subseteq Handles
    BY DEF Handles
  <2>3. c \in first
    BY <1>8, <2>1, <2>2
  <2>4. line[c] > 0 /\ \A d \in QueuedIn(line) \cap Timer : ~Stale(d) => line[c] <= line[d]
    BY <2>3 DEF FirstIn, First, QueuedIn
  <2>5. /\ fires[c] <= elapsed
        /\ \A d \in timers \ DueNow : fires[c] <= fires[d]
        /\ \A d \in Timer : line[d] > 0 /\ line[c] <= line[d] => fires[c] <= fires[d]
    BY <1>2, <2>1, <2>4 DEF Lined
  <2>6. ASSUME NEW d \in Timer \cap index, handle[d] = "live"
        PROVE  fires[c] <= fires[d]
    <3>1. ~Stale(d) /\ d \in Handles /\ d \in Timer
      BY <2>2, <2>6 DEF Stale
    <3>2. CASE line[d] > 0
      <4>1. line[c] <= line[d]
        BY <2>4, <3>1, <3>2 DEF QueuedIn
      <4> QED BY <2>5, <3>1, <3>2, <4>1
    <3>3. CASE ~(line[d] > 0)
      <4>1. ready[d] \in Nat /\ ~(ready[d] > 0)
        BY <1>2, <1>5, <3>1, <3>3 DEF Lined, TablesTyped
      <4>2. d \in timers
        BY <2>6, <4>1 DEF IndexInv, Placed
      <4>3. d \notin DueStale
        BY <3>1 DEF DueStale
      <4>4. d \notin DueNow
        BY <1>2, <2>6, <3>3, <4>3 DEF Handed
      <4> QED BY <2>5, <4>2, <4>4
    <3> QED BY <3>2, <3>3
  <2> QED BY <2>5, <2>6
<1> QED BY <1>7, <1>10, <1>11, <1>12, <1>13 DEF IndexInv

\* What Move finds wanted, and what it passes by in an order.
Live == {c \in timers \cap index : ~Stale(c)}
Passed(pos) == {c \in timers : \A d \in Live : pos[c] < pos[d]}

LEMMA MoveParts ==
  ASSUME NEW target, Move(target)
  PROVE  /\ elapsed' = Min({target} \cup {fires[c] : c \in Live}) /\ elapsed' > elapsed
         /\ \E pos \in Orders(timers) :
              Deletes(Passed(pos), ready) /\ HeapBecomes(Overflows(Passed(pos), pos), timers \ Passed(pos))
         /\ UNCHANGED <<handle, fires, native, half>>
  BY DEF Move, Live, Passed

LEMMA MoveKeeps ==
  ASSUME IndexInv, NEW target \in Nat, Move(target)
  PROVE  IndexInv' /\ RunsEarliest
<1>1. PICK pos \in Orders(timers) :
        Deletes(Passed(pos), ready) /\ HeapBecomes(Overflows(Passed(pos), pos), timers \ Passed(pos))
  BY MoveParts
<1> DEFINE P == Passed(pos)
<1>2. /\ elapsed' = Min({target} \cup {fires[c] : c \in Live}) /\ elapsed' > elapsed
      /\ handle' = handle /\ fires' = fires /\ native' = native /\ half' = half
  BY MoveParts
<1>3. /\ TablesTyped /\ Scheduled /\ InOrder /\ Fits
      /\ fires \in [Timer -> Nat] /\ elapsed \in Nat /\ timers \subseteq Timer /\ IsFiniteSet(timers)
  BY DEF IndexInv, TablesTyped
<1>4. elapsed' \in Nat
  <2> DEFINE Instants == {target} \cup {fires[c] : c \in Live}
  <2>1. Instants \subseteq Nat /\ Instants # {}
    BY <1>3 DEF Live
  <2> HIDE DEF Instants
  <2>2. \E m \in Instants : \A k \in Instants : m <= k
    BY <2>1, LeastNumber
  <2>3. elapsed' = CHOOSE m \in Instants : \A k \in Instants : m <= k
    BY <1>2 DEF Min, Instants
  <2>4. elapsed' \in Instants
    BY <2>2, <2>3
  <2> QED BY <2>1, <2>4
<1>5. elapsed <= elapsed'
  BY <1>2, <1>3, <1>4
<1>6. P \subseteq timers
  BY DEF Passed
<1>7. \A c \in P : pos[c] \in Nat
  BY <1>3, <1>6, OrderPlaces
<1>8. \A c \in P \cap index : Stale(c)
  <2>1. ASSUME NEW c \in P \cap index, ~Stale(c)
        PROVE  FALSE
    <3>1. c \in Live
      BY <1>6, <2>1 DEF Live
    <3>2. pos[c] < pos[c]
      BY <2>1, <3>1 DEF Passed
    <3> QED BY <1>7, <2>1, <3>2
  <2> QED BY <2>1
<1>9. /\ Deletes(P, ready) /\ HeapBecomes(Overflows(P, pos), timers \ P)
  BY <1>1
<1> HIDE DEF P
<1>10. Drained(P)
  BY <1>9 DEF HeapBecomes, Drained
<1>11. Lined(ready, P)
  <2>1. ready \in [Handles -> Nat]
    BY <1>3 DEF TablesTyped
  <2> QED BY <1>3, <2>1 DEF InOrder, Lined
<1>12. Handed(ready, P, P)
  BY DEF Handed
<1>13. /\ index' \subseteq index /\ IsFiniteSet(index')
       /\ timers' \subseteq timers \ P /\ IsFiniteSet(timers')
       /\ wakes' \in [Futures -> SUBSET Timer] /\ ready' \in [Handles -> Nat]
       /\ Placed' /\ InOrder'
  BY <1>2, <1>4, <1>5, <1>6, <1>9, <1>10, <1>11, <1>12, DeletesKeep
<1>14. TablesTyped'
  BY <1>2, <1>3, <1>4, <1>13 DEF TablesTyped
<1>15. Scheduled'
  BY <1>2, <1>3, <1>13 DEF Scheduled, TablesTyped
<1>16. Fits'
  <2>1. CASE Overflows(P, pos)
    <3>1. timers' = {c \in index' \cap Timer : ready'[c] = 0}
      BY <1>9, <2>1 DEF HeapBecomes
    <3>2. timers' \subseteq index'
      BY <3>1
    <3>3. Cardinality(timers') <= 2 * Cardinality(index') + Spare
      BY <1>13, <3>2, CompactedFits
    <3> QED BY <3>3 DEF Fits
  <2>2. CASE ~Overflows(P, pos)
    <3>1. timers' = timers \ P
      BY <1>9, <2>2 DEF HeapBecomes
    <3>2. index' = index \ {c \in P : Stale(c)}
      BY <1>8, <1>9 DEF Deletes
    <3>3. Cardinality(timers \ P) <= 2 * Cardinality(index \ {c \in P : Stale(c)}) + Spare
      BY <1>3, <1>6, <1>7, <2>2, PassFits
    <3> QED BY <3>1, <3>2, <3>3 DEF Fits
  <2> QED BY <2>1, <2>2
<1>17. RunsEarliest
  BY <1>2 DEF RunsEarliest
<1> QED BY <1>13, <1>14, <1>15, <1>16, <1>17 DEF IndexInv

LEMMA ScheduleKeeps ==
  ASSUME IndexInv, NEW c \in Handles,
         \/ c \in Soon /\ CallSoon(c)
         \/ c \in Timer /\ \E t \in 1..MaxTime : CallAt(c, t)
  PROVE  IndexInv' /\ RunsEarliest
<1>1. /\ handle[c] = "none" /\ handle' = [handle EXCEPT ![c] = "live"] /\ Registered(c)
      /\ half' = half /\ elapsed' = elapsed /\ native' \subseteq Soon
      /\ c \in Timer => native' = native
  <2>1. CASE c \in Soon /\ CallSoon(c)
    <3>1. native \subseteq Soon
      BY DEF IndexInv, TablesTyped
    <3>2. c \notin Timer
      BY <2>1, CallbacksAssumption
    <3> QED BY <2>1, <3>1, <3>2 DEF CallSoon
  <2>2. CASE c \in Timer /\ \E t \in 1..MaxTime : CallAt(c, t)
    <3>1. native \subseteq Soon
      BY DEF IndexInv, TablesTyped
    <3> QED BY <2>2, <3>1 DEF CallAt
  <2> QED BY <2>1, <2>2
<1>2. /\ TablesTyped /\ Scheduled /\ fires \in [Timer -> Nat] /\ elapsed \in Nat
      /\ handle \in [Handles -> {"none", "live", "cancelled", "ran"}]
      /\ index \subseteq Handles /\ timers \subseteq Timer /\ half \subseteq Soon
      /\ native \subseteq Soon
  BY DEF IndexInv, TablesTyped
<1>3. c \notin index /\ c \notin timers /\ c \notin half
  BY <1>1, <1>2 DEF Scheduled
<1>4. /\ fires' \in [Timer -> Nat] /\ \A d \in Timer \ {c} : fires'[d] = fires[d]
      /\ c \in Timer => elapsed <= fires'[c]
  <2>1. CASE c \in Soon /\ CallSoon(c)
    <3>1. fires' = fires /\ c \notin Timer
      BY <2>1, CallbacksAssumption DEF CallSoon
    <3> QED BY <1>2, <3>1
  <2>2. CASE c \in Timer /\ \E t \in 1..MaxTime : CallAt(c, t)
    <3>1. PICK t \in 1..MaxTime : CallAt(c, t)
      BY <2>2
    <3>2. fires' = [fires EXCEPT ![c] = t] /\ t \in Nat /\ t > elapsed
      BY <3>1, CallbacksAssumption DEF CallAt
    <3>3. fires'[c] = t
      BY <1>2, <2>2, <3>2
    <3>4. fires' \in [Timer -> Nat] /\ \A d \in Timer \ {c} : fires'[d] = fires[d]
      BY <1>2, <3>2
    <3>5. elapsed <= fires'[c]
      BY <1>2, <3>2, <3>3
    <3> QED BY <3>4, <3>5
  <2> QED BY <2>1, <2>2
<1>5. /\ index' = index \cup {c} /\ IsFiniteSet(index')
      /\ timers' = (IF c \in Timer THEN timers \cup {c} ELSE timers) /\ IsFiniteSet(timers')
      /\ wakes' \in [Futures -> SUBSET Timer] /\ ready' \in [Handles -> Nat]
      /\ Placed' /\ InOrder' /\ Fits'
  BY <1>1, <1>3, <1>4, RegisteredKeeps
<1>6. handle' \in [Handles -> {"none", "live", "cancelled", "ran"}] /\ handle'[c] = "live"
      /\ \A d \in Handles : d # c => handle'[d] = handle[d]
  BY <1>1, <1>2
<1>7. index' \subseteq Handles /\ timers' \subseteq Timer
  BY <1>2, <1>5
<1>8. TablesTyped'
  BY <1>1, <1>2, <1>4, <1>5, <1>6, <1>7 DEF TablesTyped
<1>9. Scheduled'
  <2>1. ASSUME NEW d \in Handles, handle'[d] = "none"
        PROVE  d \notin index' /\ d \notin timers' /\ d \notin half'
    <3>1. d # c /\ handle[d] = "none"
      BY <1>6, <2>1
    <3>2. d \notin index /\ d \notin timers /\ d \notin half
      BY <1>2, <3>1 DEF Scheduled
    <3> QED BY <1>1, <1>5, <3>1, <3>2
  <2>2. ASSUME NEW d \in index'
        PROVE  handle'[d] # "ran"
    <3>1. CASE d = c
      BY <1>6, <3>1
    <3>2. CASE d # c
      <4>1. d \in index /\ d \in Handles
        BY <1>2, <1>5, <2>2, <3>2
      <4> QED BY <1>2, <1>6, <3>2, <4>1 DEF Scheduled
    <3> QED BY <3>1, <3>2
  <2>3. \A d \in half' : d \notin index'
    BY <1>1, <1>2, <1>3, <1>5 DEF Scheduled
  <2> QED BY <2>1, <2>2, <2>3 DEF Scheduled
<1>10. RunsEarliest
  <2>1. Timer \subseteq Handles
    BY DEF Handles
  <2>2. \A d \in Timer : handle'[d] = "ran" => handle[d] = "ran"
    BY <1>6, <2>1
  <2> QED BY <2>2 DEF RunsEarliest
<1> QED BY <1>5, <1>8, <1>9, <1>10 DEF IndexInv

\* A thread schedules: nothing is registered yet.
LEMMA ThreadsafeKeeps ==
  ASSUME IndexInv, NEW c \in Soon, CallThreadsafe(c)
  PROVE  IndexInv' /\ RunsEarliest
<1>1. /\ handle[c] = "none" /\ handle' = [handle EXCEPT ![c] = "live"]
      /\ native' = native \cup {c} /\ half' = half \cup {c}
      /\ index' = index /\ timers' = timers /\ wakes' = wakes /\ ready' = ready
      /\ fires' = fires /\ elapsed' = elapsed
  BY DEF CallThreadsafe, Unindexed
<1>2. handle \in [Handles -> {"none", "live", "cancelled", "ran"}] /\ c \in Handles
      /\ Timer \subseteq Handles /\ index \subseteq Handles
  BY DEF IndexInv, TablesTyped, Handles
<1>3. /\ handle' \in [Handles -> {"none", "live", "cancelled", "ran"}] /\ handle'[c] = "live"
      /\ \A d \in Handles : d # c => handle'[d] = handle[d]
  BY <1>1, <1>2
<1>4. TablesTyped'
  BY <1>1, <1>3 DEF IndexInv, TablesTyped
<1>5. Scheduled'
  BY <1>1, <1>2, <1>3 DEF IndexInv, Scheduled
<1>6. Placed' /\ InOrder' /\ Fits'
  BY <1>1 DEF IndexInv, Placed, InOrder, Fits
<1>7. RunsEarliest
  BY <1>2, <1>3 DEF RunsEarliest
<1> QED BY <1>4, <1>5, <1>6, <1>7 DEF IndexInv

\* The thread registers it, unless it has run by then.
LEMMA RegisterKeeps ==
  ASSUME IndexInv, NEW c \in Soon, Register(c)
  PROVE  IndexInv' /\ RunsEarliest
<1>1. /\ c \in half /\ half' = half \ {c}
      /\ handle' = handle /\ fires' = fires /\ native' = native /\ elapsed' = elapsed
  BY DEF Register
<1>2. /\ TablesTyped /\ Scheduled /\ c \in Handles /\ c \notin Timer
      /\ index \subseteq Handles
  BY CallbacksAssumption DEF IndexInv, TablesTyped, Handles
<1>3. RunsEarliest
  BY <1>1 DEF RunsEarliest
<1>4. handle[c] # "none"
  BY <1>1, <1>2 DEF Scheduled
<1>5. CASE Uncalled(c) /\ c \notin index
  <2>1. Registered(c) /\ handle[c] # "ran"
    BY <1>5 DEF Register, Uncalled
  <2>2. c \notin timers
    BY <1>2 DEF TablesTyped
  <2>3. fires' \in [Timer -> Nat] /\ \A d \in Timer \ {c} : fires'[d] = fires[d]
    BY <1>1, <1>2 DEF TablesTyped
  <2>4. /\ index' = index \cup {c} /\ IsFiniteSet(index')
        /\ timers' = (IF c \in Timer THEN timers \cup {c} ELSE timers) /\ IsFiniteSet(timers')
        /\ wakes' \in [Futures -> SUBSET Timer] /\ ready' \in [Handles -> Nat]
        /\ Placed' /\ InOrder' /\ Fits'
    BY <1>1, <1>2, <1>5, <2>1, <2>2, <2>3, RegisteredKeeps
  <2>5. TablesTyped'
    BY <1>1, <1>2, <2>3, <2>4 DEF TablesTyped
  <2>6. Scheduled'
    BY <1>1, <1>2, <1>4, <2>1, <2>4 DEF Scheduled
  <2> QED BY <1>3, <2>4, <2>5, <2>6 DEF IndexInv
<1>6. CASE ~Uncalled(c)
  <2>1. index' = index /\ timers' = timers /\ wakes' = wakes /\ ready' = ready
    BY <1>6 DEF Register, Unindexed
  <2> QED BY <1>1, <1>3, <2>1
        DEF IndexInv, TablesTyped, Scheduled, Placed, InOrder, Fits
<1>7. c \notin index
  BY <1>1, <1>2 DEF Scheduled
<1> QED BY <1>5, <1>6, <1>7

LEMMA LoopKeeps ==
  ASSUME IndexInv, NEW c \in Soon, LoopRuns(c) \/ LoopDrops(c)
  PROVE  IndexInv' /\ RunsEarliest
<1>1. /\ TablesTyped /\ Scheduled /\ c \in Handles /\ c \notin Timer /\ Timer \subseteq Handles
      /\ handle \in [Handles -> {"none", "live", "cancelled", "ran"}] /\ index \subseteq Handles
  BY CallbacksAssumption DEF IndexInv, TablesTyped, Handles
<1>2. CASE LoopRuns(c)
  <2>1. /\ handle' = [d \in Handles |-> IF d \in {c} THEN "ran" ELSE handle[d]]
        /\ native' = native \ {c} /\ handle[c] = "live" /\ Retired(c)
        /\ fires' = fires /\ half' = half /\ elapsed' = elapsed
    BY <1>2 DEF LoopRuns, Invoke, Stale
  <2>2. /\ index' = index \ {c} /\ IsFiniteSet(index')
        /\ timers' \subseteq timers /\ IsFiniteSet(timers')
        /\ wakes' \in [Futures -> SUBSET Timer] /\ ready' \in [Handles -> Nat]
        /\ Placed' /\ InOrder' /\ Fits'
    BY <1>1, <2>1, RetiredKeeps
  <2>3. handle' \in [Handles -> {"none", "live", "cancelled", "ran"}]
    BY <1>1, <2>1
  <2>4. TablesTyped'
    BY <1>1, <2>1, <2>2, <2>3 DEF TablesTyped
  <2>5. /\ \A d \in Handles : handle'[d] = "none" => handle[d] = "none"
        /\ \A d \in index' : handle'[d] = "ran" => handle[d] = "ran"
    BY <1>1, <2>1, <2>2
  <2>6. Scheduled'
    <3>1. index' \subseteq index /\ half' \subseteq half
      BY <2>1, <2>2
    <3> QED BY <1>1, <2>2, <2>3, <2>5, <3>1, LeavingKeepsScheduled
  <2>7. RunsEarliest
    <3>1. \A d \in Timer : handle'[d] = handle[d]
      BY <1>1, <2>1
    <3> QED BY <3>1 DEF RunsEarliest
  <2> QED BY <2>2, <2>4, <2>6, <2>7 DEF IndexInv
<1>3. CASE LoopDrops(c)
  <2>1. /\ native' = native \ {c} /\ handle' = handle
        /\ index' = index /\ timers' = timers /\ wakes' = wakes /\ ready' = ready
        /\ fires' = fires /\ half' = half /\ elapsed' = elapsed
    BY <1>3 DEF LoopDrops, Unindexed
  <2>2. TablesTyped'
    BY <1>1, <2>1 DEF TablesTyped
  <2>3. Scheduled' /\ Placed' /\ InOrder' /\ Fits'
    BY <2>1 DEF IndexInv, Scheduled, Placed, InOrder, Fits
  <2>4. RunsEarliest
    BY <2>1 DEF RunsEarliest
  <2> QED BY <2>2, <2>3, <2>4 DEF IndexInv
<1> QED BY <1>2, <1>3

LEMMA CancelKeeps ==
  ASSUME IndexInv, NEW c \in Handles, Cancel(c) \/ Reconcile(c)
  PROVE  IndexInv' /\ RunsEarliest
<1>1. /\ TablesTyped /\ Scheduled /\ Timer \subseteq Handles
      /\ handle \in [Handles -> {"none", "live", "cancelled", "ran"}] /\ index \subseteq Handles
  BY DEF IndexInv, TablesTyped, Handles
<1>2. CASE Cancel(c)
  <2>1. /\ handle[c] = "live" /\ handle' = [handle EXCEPT ![c] = "cancelled"]
        /\ index' = index /\ timers' = timers /\ wakes' = wakes /\ ready' = ready
        /\ fires' = fires /\ native' = native /\ half' = half /\ elapsed' = elapsed
    BY <1>2 DEF Cancel, Unindexed, Stale
  <2>2. /\ handle' \in [Handles -> {"none", "live", "cancelled", "ran"}] /\ handle'[c] = "cancelled"
        /\ \A d \in Handles : d # c => handle'[d] = handle[d]
    BY <1>1, <2>1
  <2>3. TablesTyped'
    BY <1>1, <2>1, <2>2 DEF TablesTyped
  <2>4. /\ \A d \in Handles : handle'[d] = "none" => handle[d] = "none"
        /\ \A d \in index' : handle'[d] = "ran" => handle[d] = "ran"
    BY <1>1, <2>1, <2>2
  <2>5. Scheduled'
    <3>1. index' \subseteq index /\ timers' \subseteq timers /\ half' \subseteq half
      BY <2>1
    <3> QED BY <1>1, <2>2, <2>4, <3>1, LeavingKeepsScheduled
  <2>6. Placed' /\ InOrder' /\ Fits'
    BY <2>1 DEF IndexInv, Placed, InOrder, Fits
  <2>7. RunsEarliest
    <3>1. \A d \in Timer : handle'[d] = "ran" => handle[d] = "ran"
      BY <1>1, <2>2
    <3> QED BY <3>1 DEF RunsEarliest
  <2> QED BY <2>3, <2>5, <2>6, <2>7 DEF IndexInv
<1>3. CASE Reconcile(c)
  <2>1. /\ Retired(c) /\ handle' = handle /\ native' = native
        /\ fires' = fires /\ half' = half /\ elapsed' = elapsed
    BY <1>3 DEF Reconcile
  <2>2. /\ index' = index \ {c} /\ IsFiniteSet(index')
        /\ timers' \subseteq timers /\ IsFiniteSet(timers')
        /\ wakes' \in [Futures -> SUBSET Timer] /\ ready' \in [Handles -> Nat]
        /\ Placed' /\ InOrder' /\ Fits'
    BY <2>1, RetiredKeeps
  <2>3. TablesTyped'
    BY <1>1, <2>1, <2>2 DEF TablesTyped
  <2>4. Scheduled'
    BY <1>1, <2>1, <2>2 DEF Scheduled
  <2>5. RunsEarliest
    BY <2>1 DEF RunsEarliest
  <2> QED BY <2>2, <2>3, <2>4, <2>5 DEF IndexInv
<1> QED BY <1>2, <1>3

LEMMA CancelCallbacksKeeps ==
  ASSUME IndexInv, CancelCallbacks
  PROVE  IndexInv' /\ RunsEarliest
<1>1. /\ handle' = [c \in Handles |-> IF c \in index /\ ~Stale(c) THEN "cancelled" ELSE handle[c]]
      /\ index' = {} /\ timers' = {} /\ wakes' = [f \in Futures |-> {}]
      /\ ready' = [c \in Handles |-> 0]
      /\ fires' = fires /\ native' = native /\ half' = half /\ elapsed' = elapsed
  BY DEF CancelCallbacks
<1>2. /\ TablesTyped /\ Scheduled /\ Timer \subseteq Handles
      /\ handle \in [Handles -> {"none", "live", "cancelled", "ran"}]
  BY DEF IndexInv, TablesTyped, Handles
<1>3. handle' \in [Handles -> {"none", "live", "cancelled", "ran"}]
  BY <1>1, <1>2
<1>4. IsFiniteSet(index') /\ IsFiniteSet(timers') /\ Cardinality(index') = 0 /\ Cardinality(timers') = 0
  BY <1>1, FS_EmptySet
<1>5. TablesTyped'
  <2>1. wakes' \in [Futures -> SUBSET Timer] /\ ready' \in [Handles -> Nat]
    BY <1>1
  <2> QED BY <1>1, <1>2, <1>3, <1>4, <2>1 DEF TablesTyped
<1>6. Scheduled'
  BY <1>1, <1>2 DEF Scheduled
<1>7. Placed' /\ InOrder'
  BY <1>1, <1>2 DEF Placed, InOrder
<1>8. Fits'
  BY <1>4, CallbacksAssumption DEF Fits
<1>9. RunsEarliest
  <2>1. \A d \in Timer : handle'[d] = "ran" => handle[d] = "ran"
    BY <1>1, <1>2
  <2> QED BY <2>1 DEF RunsEarliest
<1> QED BY <1>5, <1>6, <1>7, <1>8, <1>9 DEF IndexInv

LEMMA IndexStepKeeps ==
  ASSUME IndexInv, CallbacksNext
  PROVE  IndexInv' /\ RunsEarliest
<1>1. Soon \subseteq Handles /\ Timer \subseteq Handles
  BY DEF Handles
<1>2. ASSUME NEW c \in Soon,
             CallSoon(c) \/ CallThreadsafe(c) \/ Register(c) \/ LoopRuns(c) \/ LoopDrops(c)
      PROVE  IndexInv' /\ RunsEarliest
  <2>1. CASE CallSoon(c)
    BY <1>1, <2>1, ScheduleKeeps
  <2>2. CASE CallThreadsafe(c)
    BY <2>2, ThreadsafeKeeps
  <2>3. CASE Register(c)
    BY <2>3, RegisterKeeps
  <2>4. CASE LoopRuns(c) \/ LoopDrops(c)
    BY <2>4, LoopKeeps
  <2> QED BY <1>2, <2>1, <2>2, <2>3, <2>4
<1>3. ASSUME NEW c \in Timer, NEW t \in 1..MaxTime, CallAt(c, t)
      PROVE  IndexInv' /\ RunsEarliest
  <2>1. c \in Handles /\ \E u \in 1..MaxTime : CallAt(c, u)
    BY <1>1, <1>3
  <2> QED BY <2>1, ScheduleKeeps
<1>4. ASSUME NEW c \in Handles, Cancel(c) \/ Reconcile(c)
      PROVE  IndexInv' /\ RunsEarliest
  BY <1>4, CancelKeeps
<1>5. CASE RunDue
  <2>1. PICK pos \in Orders(DueNow) : RunsIn(pos)
    BY <1>5, RunDueParts
  <2> QED BY <2>1, RunsInKeeps
<1>6. CASE CancelCallbacks
  BY <1>6, CancelCallbacksKeeps
<1>7. ASSUME NEW t \in 1..MaxTime, Move(t)
      PROVE  IndexInv' /\ RunsEarliest
  <2>1. t \in Nat
    BY CallbacksAssumption
  <2> QED BY <1>7, <2>1, MoveKeeps
<1> QED BY <1>2, <1>3, <1>4, <1>5, <1>6, <1>7 DEF CallbacksNext

\* The index never keeps a callback that has run, loses no live timer, and its heap
\* keeps no more stale entries than compaction allows; and a timer that runs is among
\* the earliest of those that are due (_WorkState).
THEOREM IndexAlwaysKept == CallbacksSpec => IndexKept
<1>1. CallbacksInit => IndexInv
  BY IndexInvInit
<1>2. IndexInv /\ [CallbacksNext]_callbackVars => IndexInv'
  <2> SUFFICES ASSUME IndexInv, [CallbacksNext]_callbackVars
               PROVE  IndexInv'
    OBVIOUS
  <2>1. CASE CallbacksNext
    BY <2>1, IndexStepKeeps
  <2>2. CASE UNCHANGED callbackVars
    BY <2>2 DEF callbackVars, IndexInv, TablesTyped, Scheduled, Placed, InOrder, Fits
  <2> QED BY <2>1, <2>2
<1>3. CallbacksSpec => []IndexInv
  BY <1>1, <1>2, PTL DEF CallbacksSpec
<1>4. IndexInv => IndexSound
  <2> SUFFICES ASSUME IndexInv
               PROVE  IndexSound
    OBVIOUS
  <2>1. \A c \in index : handle[c] # "ran"
    BY DEF IndexInv, Scheduled
  <2>2. Ready \subseteq index
    BY DEF IndexInv, Placed, Ready
  <2>3. ASSUME NEW c \in index \cap Timer
        PROVE  (c \in timers \/ c \in Ready) /\ c \in wakes[Woken[c]]
    BY <2>3 DEF IndexInv, Placed, Ready, Handles
  <2>4. \A f \in Futures : wakes[f] \subseteq index
    BY DEF IndexInv, Placed
  <2>5. Cardinality(timers) <= 2 * Cardinality(index) + Spare
    BY DEF IndexInv, Fits
  <2> QED BY <2>1, <2>2, <2>3, <2>4, <2>5 DEF IndexSound
<1>5. IndexInv /\ [CallbacksNext]_callbackVars => [RunsEarliest]_callbackVars
  BY IndexStepKeeps
<1> QED BY <1>3, <1>4, <1>5, PTL DEF IndexKept, CallbacksSpec
=============================================================================
