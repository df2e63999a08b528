----------------------------- MODULE GuildProofs -----------------------------
(***************************************************************************)
(* Proofs about what a guild rests on.  Ids are distinct and ordered for    *)
(* every number of slots, every range of milliseconds, every clock and      *)
(* every set of explicit ids.  And the bot's calls never reach a member or  *)
(* a role at or above its own, nor a permission it could not already reach: *)
(* its top role is always the one of its integration, which it can neither  *)
(* move nor lose, and it only touches roles below that.                     *)
(***************************************************************************)
EXTENDS Snowflakes, Moderation, WellFoundedInduction, TLAPS


\* What sequences remember of the ids that were allocated: the next slot of a
\* millisecond is above every slot allocated in it, and never slot zero of
\* millisecond zero.
Behind ==
  /\ \A i \in DOMAIN given : given[i].by # "explicit" =>
       /\ given[i].id[1] \in DOMAIN sequences
       /\ given[i].id[2] < sequences[given[i].id[1]]
  /\ 0 \in DOMAIN sequences => sequences[0] > 0

\* No allocated id is from the future.
Past == \A i \in DOMAIN given : given[i].by # "explicit" => given[i].id[1] <= ms

\* An id allocated for a shard belongs to it.
Routed == \A i \in DOMAIN given :
            given[i].by = "shard" => given[i].id[1] % ShardCount = given[i].shard

IInv == TypeOK /\ Behind /\ Past /\ Routed /\ Distinct /\ Ordered /\ NothingSkipped

-----------------------------------------------------------------------------

LEMMA InitIInv == Init => IInv
  BY SnowflakesAssumption
  DEF Init, IInv, TypeOK, Behind, Past, Routed, Distinct, Ordered, NothingSkipped

\* The slot an allocation takes is fresh and makes an id.
LEMMA NextIsFresh ==
  ASSUME IInv, NEW m \in 0..(MaxMs - 1), NEW slot \in Sequence(m)..(Slots - 1), IsNext(m, slot)
  PROVE  /\ Sequence(m) \in 0..Slots /\ slot \in 0..(Slots - 1)
         /\ <<m, slot>> \in Ids /\ <<m, slot>> \notin reserved
<1>1. Sequence(m) \in 0..Slots /\ (m = 0 => Sequence(m) > 0)
  BY SnowflakesAssumption DEF IInv, TypeOK, Behind, Sequence, FirstSlot
<1>2. slot \in 0..(Slots - 1) /\ (m = 0 => slot # 0)
  BY <1>1, SnowflakesAssumption
<1> QED
  BY <1>1, <1>2 DEF IsNext, Ids

\* An allocation at a millisecond that is not to come keeps the invariant: at
\* the clock, or for a shard.
LEMMA AllocateKeeps ==
  ASSUME IInv, NEW m, NEW source \in {"clock", "shard"}, NEW shard \in 0..(ShardCount - 1),
         m <= ms, source = "clock" => m = ms, source = "shard" => m % ShardCount = shard,
         AllocateAt(m, source, shard), ms' = ms, start' = start,
         \A c \in DOMAIN invites' : invites'[c] \in reserved'
  PROVE  IInv'
<1> DEFINE n == Len(given) + 1
<1>0. m \in 0..(MaxMs - 1)
  BY DEF AllocateAt
<1>1. PICK slot \in Sequence(m)..(Slots - 1) : IsNext(m, slot) /\ Give(m, slot, source, shard)
  BY DEF AllocateAt
<1> DEFINE entry == [id |-> <<m, slot>>, by |-> source, shard |-> shard]
<1>2. /\ Sequence(m) \in 0..Slots /\ slot \in 0..(Slots - 1)
      /\ <<m, slot>> \in Ids /\ <<m, slot>> \notin reserved
  BY <1>0, <1>1, NextIsFresh
<1>3. TypeOK /\ Behind /\ Past /\ Routed /\ Distinct /\ Ordered /\ NothingSkipped
  BY DEF IInv
<1>4. /\ given' = Append(given, entry)
      /\ sequences' = [k \in DOMAIN sequences \cup {m} |-> IF k = m THEN slot + 1 ELSE sequences[k]]
      /\ reserved' = reserved \cup {<<m, slot>>}
  BY <1>1 DEF Give
<1>5. entry \in Given
  BY <1>2 DEF Given
<1>6. given \in Seq(Given)
  BY <1>3 DEF TypeOK
<1>7. /\ given' \in Seq(Given) /\ Len(given') = n /\ DOMAIN given' = 1..n
      /\ DOMAIN given = 1..(n - 1) /\ n \in Nat \ {0}
      /\ given'[n] = entry
      /\ \A i \in 1..(n - 1) : given'[i] = given[i]
  BY <1>4, <1>5, <1>6
<1>8. /\ DOMAIN sequences' = DOMAIN sequences \cup {m} /\ sequences'[m] = slot + 1
      /\ \A k \in DOMAIN sequences : k # m => sequences'[k] = sequences[k]
      /\ m \in DOMAIN sequences => sequences[m] = Sequence(m)
  BY <1>4 DEF Sequence
<1>9. \A i \in 1..(n - 1) : given[i] \in Given
  BY <1>6, <1>7
<1>10. TypeOK'
  <2>1. reserved' \subseteq Ids
    BY <1>2, <1>3, <1>4 DEF TypeOK
  <2>2. DOMAIN sequences' \subseteq 0..(MaxMs - 1)
    BY <1>0, <1>3, <1>8 DEF TypeOK
  <2>3. \A k \in DOMAIN sequences' : sequences'[k] \in 0..Slots
    BY <1>2, <1>3, <1>8, SnowflakesAssumption DEF TypeOK
  <2>4. \A i \in DOMAIN given' : given'[i].id \in reserved'
    BY <1>3, <1>4, <1>7 DEF TypeOK
  <2> QED
    BY <1>3, <1>7, <2>1, <2>2, <2>3, <2>4 DEF TypeOK
<1>11. Behind'
  <2>1. ASSUME NEW i \in 1..(n - 1), given[i].by # "explicit"
        PROVE  /\ given[i].id[1] \in DOMAIN sequences'
               /\ given[i].id[2] < sequences'[given[i].id[1]]
    <3>1. /\ given[i].id[1] \in DOMAIN sequences
          /\ given[i].id[2] < sequences[given[i].id[1]]
      BY <1>3, <1>7, <2>1 DEF Behind
    <3>2. given[i].id[2] \in Int
      BY <1>9 DEF Given, Ids
    <3>3. CASE given[i].id[1] = m
      BY <1>1, <1>2, <1>8, <3>1, <3>2, <3>3
    <3>4. CASE given[i].id[1] # m
      BY <1>8, <3>1, <3>4
    <3> QED
      BY <3>3, <3>4
  <2>2. m \in DOMAIN sequences' /\ slot < sequences'[m]
    BY <1>2, <1>8
  <2>3. 0 \in DOMAIN sequences' => sequences'[0] > 0
    BY <1>2, <1>3, <1>8 DEF Behind
  <2>4. \A i \in DOMAIN given' : given'[i].by # "explicit" =>
          /\ given'[i].id[1] \in DOMAIN sequences'
          /\ given'[i].id[2] < sequences'[given'[i].id[1]]
    <3> SUFFICES ASSUME NEW i \in 1..n, given'[i].by # "explicit"
                 PROVE  /\ given'[i].id[1] \in DOMAIN sequences'
                        /\ given'[i].id[2] < sequences'[given'[i].id[1]]
      BY <1>7
    <3>1. CASE i = n
      BY <1>7, <2>2, <3>1
    <3>2. CASE i # n
      <4>1. i \in 1..(n - 1)
        BY <1>7, <3>2
      <4> QED
        BY <1>7, <2>1, <4>1
    <3> QED
      BY <3>1, <3>2
  <2> QED
    BY <2>3, <2>4 DEF Behind
<1>12. Past'
  BY <1>3, <1>7 DEF Past
<1>13. Distinct'
  <2>1. \A i \in 1..(n - 1) : given[i].id # <<m, slot>>
    <3>1. \A i \in DOMAIN given : given[i].id \in reserved
      BY <1>3, Zenon DEF TypeOK
    <3> QED
      BY <1>2, <1>7, <3>1, Zenon
  <2> QED
    BY <1>3, <1>7, <2>1 DEF Distinct
<1>14. Ordered'
  <2> SUFFICES ASSUME NEW i \in 1..n, NEW j \in 1..n, i < j,
                      given'[i].by = "clock", given'[j].by = "clock"
               PROVE  Before(given'[i].id, given'[j].id)
    BY <1>7 DEF Ordered
  <2>1. i \in 1..(n - 1)
    BY <1>7
  <2>2. CASE j # n
    <3>1. j \in 1..(n - 1)
      BY <1>7, <2>2
    <3> QED
      BY <1>3, <1>7, <2>1, <3>1 DEF Ordered
  <2>3. CASE j = n
    <3>1. source = "clock" /\ m = ms /\ given'[j].id = <<m, slot>>
      BY <1>7, <2>3
    <3>2. given'[i] = given[i] /\ given[i].by = "clock"
      BY <1>7, <2>1
    <3>3. given[i].id[1] <= m
      BY <1>3, <1>7, <2>1, <3>1, <3>2 DEF Past
    <3>4. given[i].id[1] = m => given[i].id[2] < slot
      <4>1. given[i].id[2] \in Int
        BY <1>9, <2>1 DEF Given, Ids
      <4>2. given[i].id[1] = m => m \in DOMAIN sequences /\ given[i].id[2] < sequences[m]
        BY <1>3, <1>7, <2>1, <3>2 DEF Behind
      <4> QED
        BY <1>1, <1>2, <1>8, <4>1, <4>2
    <3>5. given[i].id[1] \in Int
      BY <1>9, <2>1 DEF Given, Ids
    <3> QED
      BY <1>0, <3>1, <3>2, <3>3, <3>4, <3>5 DEF Before
  <2> QED
    BY <2>2, <2>3
<1>15. NothingSkipped'
  <2> SUFFICES ASSUME NEW k \in DOMAIN sequences', NEW s \in 0..(sequences'[k] - 1)
               PROVE  <<k, s>> \in reserved' \cup {<<0, 0>>}
    BY DEF NothingSkipped
  <2>1. CASE k # m
    BY <1>3, <1>4, <1>8, <2>1 DEF NothingSkipped
  <2>2. CASE k = m
    <3>1. s \in 0..slot
      BY <1>2, <1>8, <2>2
    <3>2. CASE s = slot
      BY <1>4, <2>2, <3>2
    <3>3. CASE s \in Sequence(m)..(slot - 1)
      BY <1>1, <1>4, <2>2, <3>3 DEF IsNext
    <3>4. CASE s \in 0..(Sequence(m) - 1)
      <4>1. CASE m \in DOMAIN sequences
        BY <1>3, <1>4, <1>8, <2>2, <3>4, <4>1 DEF NothingSkipped
      <4>2. CASE m \notin DOMAIN sequences
        BY <1>0, <2>2, <3>4, <4>2 DEF Sequence, FirstSlot
      <4> QED
        BY <4>1, <4>2
    <3> QED
      BY <1>2, <3>1, <3>2, <3>3, <3>4
  <2> QED
    BY <2>1, <2>2
<1>16. Routed'
  BY <1>3, <1>7 DEF Routed
<1> QED
  BY <1>10, <1>11, <1>12, <1>13, <1>14, <1>15, <1>16 DEF IInv

\* A multiple of the shard count more or less does not change the shard.
LEMMA ShardOfMs ==
  ASSUME NEW shard \in 0..(ShardCount - 1), NEW t \in Nat
  PROVE  /\ t - ((t - shard) % ShardCount) \in Int
         /\ t - ((t - shard) % ShardCount) <= t
         /\ (t - ((t - shard) % ShardCount)) % ShardCount = shard
<1> DEFINE c == ShardCount
           q == (t - shard) \div c
           r == (t - shard) % c
           x == t - r
<1>1. c \in Nat \ {0} /\ q \in Int /\ r \in 0..(c - 1) /\ t - shard = c * q + r
  BY SnowflakesAssumption
<1>2. x = c * q + shard /\ x \in Int
  BY <1>1
<1> DEFINE d == x \div c
           s == x % c
<1>3. d \in Int /\ s \in 0..(c - 1) /\ x = c * d + s
  BY <1>1, <1>2
<1>4. c * (d - q) = shard - s
  BY <1>1, <1>2, <1>3
<1>5. shard - s < c /\ shard - s > -c
  BY <1>1, <1>3
<1>6. d = q
  <2>1. d - q >= 1 => c * (d - q) >= c
    BY <1>1, <1>3
  <2>2. d - q <= -1 => c * (d - q) <= -c
    BY <1>1, <1>3
  <2> QED
    BY <1>1, <1>3, <1>4, <1>5, <2>1, <2>2
<1>7. s = shard
  BY <1>1, <1>3, <1>4, <1>6
<1> QED
  BY <1>1, <1>2, <1>7

-----------------------------------------------------------------------------

LEMMA NextKeeps ==
  ASSUME IInv, [Next]_vars
  PROVE  IInv'
<1>0. TypeOK /\ Behind /\ Past /\ Routed /\ Distinct /\ Ordered /\ NothingSkipped
  BY DEF IInv
<1>1. CASE Snowflake
  <2>1. AllocateAt(ms, "clock", 0) /\ ms' = ms /\ start' = start /\ invites' = invites
    BY <1>1 DEF Snowflake
  <2>2. reserved \subseteq reserved'
    BY <2>1 DEF AllocateAt, Give
  <2>3. \A c \in DOMAIN invites' : invites'[c] \in reserved'
    BY <1>0, <2>1, <2>2 DEF TypeOK
  <2>4. ms <= ms /\ 0 \in 0..(ShardCount - 1)
    BY <1>0, SnowflakesAssumption DEF TypeOK
  <2> QED
    BY <1>0, <2>1, <2>3, <2>4, AllocateKeeps
<1>2. ASSUME NEW shard \in 0..(ShardCount - 1), SnowflakeForShard(shard)
      PROVE  IInv'
  <2>1. AllocateAt(ShardMs(shard), "shard", shard) /\ ms' = ms /\ start' = start /\ invites' = invites
    BY <1>2 DEF SnowflakeForShard
  <2>2. reserved \subseteq reserved'
    BY <2>1 DEF AllocateAt, Give
  <2>3. \A c \in DOMAIN invites' : invites'[c] \in reserved'
    BY <1>0, <2>1, <2>2 DEF TypeOK
  <2>4. ShardMs(shard) <= ms /\ ShardMs(shard) % ShardCount = shard
    BY <1>0, ShardOfMs DEF ShardMs, TypeOK
  <2> QED
    BY <2>1, <2>3, <2>4, AllocateKeeps
<1>3. ASSUME NEW id \in Explicit, ReserveId(id)
      PROVE  IInv'
  <2> DEFINE n == Len(given) + 1
             entry == [id |-> id, by |-> "explicit", shard |-> 0]
  <2>1. /\ id \notin reserved /\ reserved' = reserved \cup {id}
        /\ given' = Append(given, entry)
        /\ UNCHANGED <<ms, start, sequences, invites>>
    BY <1>3 DEF ReserveId
  <2>2. given \in Seq(Given)
    BY <1>0 DEF TypeOK
  <2>3. id \in Ids /\ entry \in Given
    BY SnowflakesAssumption DEF Given
  <2>4. /\ given' \in Seq(Given) /\ DOMAIN given' = 1..n
        /\ DOMAIN given = 1..(n - 1) /\ n \in Nat \ {0}
        /\ given'[n] = entry
        /\ \A i \in 1..(n - 1) : given'[i] = given[i]
    BY <2>1, <2>2, <2>3
  <2>5. TypeOK'
    <3>1. \A i \in DOMAIN given' : given'[i].id \in reserved'
      BY <1>0, <2>1, <2>4 DEF TypeOK
    <3>2. \A c \in DOMAIN invites' : invites'[c] \in reserved'
      BY <1>0, <2>1 DEF TypeOK
    <3>3. reserved' \subseteq Ids
      BY <1>0, <2>1, <2>3 DEF TypeOK
    <3> QED
      BY <1>0, <2>1, <2>4, <3>1, <3>2, <3>3 DEF TypeOK
  <2>6. Behind'
    BY <1>0, <2>1, <2>4 DEF Behind
  <2>7. Past'
    BY <1>0, <2>1, <2>4 DEF Past
  <2>8. Distinct'
    <3>1. \A i \in 1..(n - 1) : given[i].id # id
      BY <1>0, <2>1, <2>4 DEF TypeOK
    <3> QED
      BY <1>0, <2>4, <3>1 DEF Distinct
  <2>9. Ordered'
    <3> SUFFICES ASSUME NEW i \in 1..n, NEW j \in 1..n, i < j,
                        given'[i].by = "clock", given'[j].by = "clock"
                 PROVE  Before(given'[i].id, given'[j].id)
      BY <2>4 DEF Ordered
    <3>1. i \in 1..(n - 1) /\ j \in 1..(n - 1)
      BY <2>4
    <3> QED
      BY <1>0, <2>4, <3>1 DEF Ordered
  <2>10. NothingSkipped'
    BY <1>0, <2>1 DEF NothingSkipped
  <2>11. Routed'
    BY <1>0, <2>1, <2>4 DEF Routed
  <2> QED
    BY <2>5, <2>6, <2>7, <2>8, <2>9, <2>10, <2>11 DEF IInv
<1>4. CASE CreateInvite
  <2> DEFINE id == given'[Len(given')].id
  <2>1. /\ AllocateAt(ms, "clock", 0) /\ ms' = ms /\ start' = start
        /\ invites' = [c \in DOMAIN invites \cup {Code(id)} |->
                         IF c = Code(id) THEN id ELSE invites[c]]
    BY <1>4 DEF CreateInvite
  <2>2. PICK slot \in Sequence(ms)..(Slots - 1) : Give(ms, slot, "clock", 0)
    BY <2>1 DEF AllocateAt
  <2>3. reserved' = reserved \cup {<<ms, slot>>} /\ id = <<ms, slot>>
    <3> DEFINE entry == [id |-> <<ms, slot>>, by |-> "clock", shard |-> 0]
    <3>1. given' = Append(given, entry) /\ reserved' = reserved \cup {<<ms, slot>>}
      BY <2>2 DEF Give
    <3>2. given'[Len(given')] = entry
      BY <1>0, <3>1 DEF TypeOK
    <3> QED
      BY <3>1, <3>2
  <2>4. \A c \in DOMAIN invites' : invites'[c] \in reserved'
    BY <1>0, <2>1, <2>3 DEF TypeOK
  <2>5. ms <= ms /\ 0 \in 0..(ShardCount - 1)
    BY <1>0, SnowflakesAssumption DEF TypeOK
  <2> QED
    BY <1>0, <2>1, <2>4, <2>5, AllocateKeeps
<1>5. ASSUME NEW code \in DOMAIN invites, DeleteInvite(code)
      PROVE  IInv'
  <2>1. /\ UNCHANGED <<ms, start, reserved, sequences, given>>
        /\ \A c \in DOMAIN invites' : c \in DOMAIN invites /\ invites'[c] = invites[c]
    BY <1>5 DEF DeleteInvite
  <2> QED
    BY <1>0, <2>1 DEF IInv, TypeOK, Behind, Past, Routed, Distinct, Ordered, NothingSkipped
<1>6. ASSUME NEW step \in Steps, Advance(step)
      PROVE  IInv'
  <2>1. /\ ms' = ms + step /\ step \in Nat
        /\ UNCHANGED <<start, reserved, sequences, given, invites>>
    BY <1>6, SnowflakesAssumption DEF Advance
  <2>2. TypeOK'
    BY <1>0, <2>1 DEF TypeOK
  <2>3. Past'
    <3> SUFFICES ASSUME NEW i \in DOMAIN given, given[i].by # "explicit"
                 PROVE  given[i].id[1] <= ms'
      BY <2>1 DEF Past
    <3>1. given[i] \in Given
      BY <1>0 DEF TypeOK
    <3>2. given[i].id[1] \in Int
      BY <3>1 DEF Given, Ids
    <3> QED
      BY <1>0, <2>1, <3>2 DEF Past, TypeOK
  <2> QED
    BY <1>0, <2>1, <2>2, <2>3 DEF IInv, Behind, Routed, Distinct, Ordered, NothingSkipped
<1>7. CASE UNCHANGED vars
  BY <1>0, <1>7 DEF IInv, vars, TypeOK, Behind, Past, Routed, Distinct, Ordered, NothingSkipped
<1> QED
  BY <1>1, <1>2, <1>3, <1>4, <1>5, <1>6, <1>7 DEF Next

THEOREM SpecIInv == Spec => []IInv
<1>1. IInv /\ [Next]_vars => IInv'
  BY NextKeeps
<1> QED
  BY InitIInv, <1>1, PTL DEF Spec

-----------------------------------------------------------------------------

\* Every variable keeps its type, and what was given out stays reserved.
THEOREM Types == Spec => []TypeOK
<1>1. IInv => TypeOK
  BY DEF IInv
<1> QED
  BY <1>1, SpecIInv, PTL

\* No id is given out twice.
THEOREM IdsDistinct == Spec => []Distinct
<1>1. IInv => Distinct
  BY DEF IInv
<1> QED
  BY <1>1, SpecIInv, PTL

\* Ids allocated at the clock are in the order of their allocation.
THEOREM IdsOrdered == Spec => []Ordered
<1>1. IInv => Ordered
  BY DEF IInv
<1> QED
  BY <1>1, SpecIInv, PTL

\* A millisecond is exhausted only when each of its ids has been taken.
THEOREM AllUsed == Spec => []NothingSkipped
<1>1. IInv => NothingSkipped
  BY DEF IInv
<1> QED
  BY <1>1, SpecIInv, PTL

\* An id allocated for a shard belongs to it and is never from the future.
THEOREM ShardsRouted == Spec => []ShardRouted
<1>1. IInv => ShardRouted
  BY DEF IInv, Routed, Past, ShardRouted
<1> QED
  BY <1>1, SpecIInv, PTL

\* All that is owed besides distinct ids.
THEOREM IdsAreSound == Spec => []IdsSound
  BY Types, IdsOrdered, AllUsed, ShardsRouted, PTL DEF IdsSound

-----------------------------------------------------------------------------
(* Roles, members and bans.                                                *)


\* A set of natural numbers has a least one.
LEMMA NatMin ==
  ASSUME NEW T, T \subseteq Nat, T # {}
  PROVE  \E m \in T : \A k \in T : m <= k
<1>1. PICK m \in T : \A k \in T : ~ (<<k, m>> \in OpToRel(<, Nat))
  BY NatLessThanWellFounded, WFMin
<1>2. ASSUME NEW k \in T
      PROVE  m <= k
  <2>1. ~(<<k, m>> \in OpToRel(<, Nat))
    BY <1>1
  <2>2. <<k, m>> \in Nat \X Nat
    OBVIOUS
  <2>3. ~(k < m)
    BY <2>1, <2>2 DEF OpToRel
  <2> QED BY <2>3
<1> QED BY <1>2

\* A finite list of integers has a greatest one.
LEMMA Greatest ==
  ASSUME NEW n \in Nat, NEW I \in SUBSET (1..n), NEW f, \A i \in I : f[i] \in Int, I # {}
  PROVE  \E m \in I : \A i \in I : f[i] <= f[m]
<1> DEFINE Has(k) == \E m \in I : m <= k /\ \A i \in I : i <= k => f[i] <= f[m]
           Bad == {k \in 0..n : (\E i \in I : i <= k) /\ ~Has(k)}
<1>1. Bad = {}
  <2>1. SUFFICES ASSUME Bad # {}
                 PROVE  FALSE
    OBVIOUS
  <2> HIDE DEF Has
  <2>2. Bad \subseteq Nat
    OBVIOUS
  <2> HIDE DEF Bad
  <2>3. PICK k \in Bad : \A l \in Bad : k <= l
    BY <2>1, <2>2, NatMin
  <2> USE DEF Bad
  <2>4. k \in 0..n /\ k # 0
    BY <2>3
  <2>5. k - 1 \in 0..n /\ k - 1 \notin Bad
    <3>1. k - 1 < k /\ k - 1 \in 0..n
      BY <2>4
    <3> QED BY <2>3, <3>1
  <2>0. k \in 1..n
    BY <2>4
  <2> USE DEF Has
  <2>6. CASE ~\E i \in I : i <= k - 1
    <3>1. k \in I /\ \A i \in I : i <= k => i = k
      BY <2>3, <2>0, <2>6
    <3> QED BY <2>3, <3>1
  <2>7. CASE Has(k - 1)
    <3>1. PICK m \in I : m <= k - 1 /\ \A i \in I : i <= k - 1 => f[i] <= f[m]
      BY <2>7
    <3>2. \A i \in I : i <= k => i <= k - 1 \/ i = k
      BY <2>0
    <3>3. CASE k \in I /\ f[m] <= f[k]
      BY <2>3, <2>0, <3>1, <3>2, <3>3
    <3>4. CASE ~(k \in I /\ f[m] <= f[k])
      BY <2>3, <2>0, <3>1, <3>2, <3>4
    <3> QED BY <3>3, <3>4
  <2> QED BY <2>5, <2>6, <2>7
<1> HIDE DEF Has, Bad
<1>2. \E i \in I : i <= n
  <2>1. PICK i \in I : TRUE
    OBVIOUS
  <2>2. i \in 1..n
    BY <2>1
  <2> QED BY <2>1, <2>2
<1> USE DEF Bad
<1>3. Has(n)
  <2>1. n \in 0..n
    OBVIOUS
  <2> QED BY <1>1, <1>2, <2>1
<1> QED BY <1>3 DEF Has

-----------------------------------------------------------------------------
(* The invariant. *)

Known == created \cup {Everyone, Integration}

RolesRight(rs) ==
  /\ rs = [r \in DOMAIN rs |-> rs[r]] /\ \A r \in DOMAIN rs : rs[r] \in Role
  /\ {Everyone, Integration} \subseteq DOMAIN rs
MembersRight(mb) ==
  /\ mb = [u \in DOMAIN mb |-> mb[u]] /\ \A u \in DOMAIN mb : mb[u] \in Member
  /\ Bot \in DOMAIN mb /\ DOMAIN mb \subseteq Users

TypeInv ==
  /\ RolesRight(roles) /\ MembersRight(members)
  /\ created \subseteq Named /\ DOMAIN roles \subseteq Known
  /\ bans \subseteq Users \cup Strangers /\ by \in {"bot", "test", "clock"}

\* The integration's role is the bot's top role, above @everyone; a role that
\* is not created yet is in no list of the bot.
Ranked(rs, mb) ==
  /\ Integration \in Entries(mb[Bot].role_ids)
  /\ rs[Integration].position >= 1 /\ rs[Everyone].position < rs[Integration].position
  /\ \A r \in Held(rs, mb[Bot]) : rs[r].position <= rs[Integration].position
GuildInv ==
  /\ TypeInv /\ Ranked(roles, members)
  /\ Entries(members[Bot].role_ids) \subseteq Known

-----------------------------------------------------------------------------
(* The operators of the model. *)

LEMMA HeldFacts ==
  ASSUME NEW rs, NEW member
  PROVE  Held(rs, member) = DOMAIN rs \cap Entries(member.role_ids)
  BY DEF Held, Entries

\* The top position is that of a role that is held, if one is.
LEMMA TopFacts ==
  ASSUME NEW rs, RolesRight(rs), NEW mb, MembersRight(mb), NEW u \in DOMAIN mb, NEW t \in Int, t >= 1
  PROVE  /\ TopPosition(rs, mb, u) \in Int
         /\ TopPosition(rs, mb, u) >= t <=> \E h \in Held(rs, mb[u]) : rs[h].position >= t
<1> DEFINE list == mb[u].role_ids
           held == Held(rs, mb[u])
           positions == {rs[r].position : r \in held}
<1>1. list \in Seq(Roles) /\ Len(list) \in Nat /\ DOMAIN list = 1..Len(list)
  BY DEF MembersRight, Member
<1>2. \A h \in held : rs[h].position \in Int
  BY DEF RolesRight, Role, Held
<1>3. CASE held = {}
  BY <1>3 DEF TopPosition
<1>4. CASE held # {}
  <2> DEFINE I == {i \in 1..Len(list) : list[i] \in DOMAIN rs}
             f == [i \in I |-> rs[list[i]].position]
  <2>1. \A i \in I : list[i] \in held
    BY <1>1 DEF Held
  <2>2. \A h \in held : \E i \in I : list[i] = h
    BY <1>1 DEF Held
  <2>3. I \in SUBSET (1..Len(list)) /\ I # {} /\ \A i \in I : f[i] \in Int
    BY <1>2, <1>4, <2>1, <2>2
  <2>4. \E m \in I : \A i \in I : f[i] <= f[m]
    <3> HIDE DEF I, f
    <3> QED BY <1>1, <2>3, Greatest
  <2>5. PICK m \in I : \A i \in I : rs[list[i]].position <= rs[list[m]].position
    BY <2>4
  <2>6. \E p \in positions : \A q \in positions : q <= p
    <3>1. rs[list[m]].position \in positions
      BY <2>1
    <3>2. \A h \in held : rs[h].position <= rs[list[m]].position
      BY <2>2, <2>5
    <3> QED BY <3>1, <3>2
  <2>7. TopPosition(rs, mb, u) = CHOOSE p \in positions : \A q \in positions : q <= p
    BY <1>4 DEF TopPosition
  <2>8. /\ TopPosition(rs, mb, u) \in positions
        /\ \A q \in positions : q <= TopPosition(rs, mb, u)
    BY <2>6, <2>7
  <2> DEFINE top == TopPosition(rs, mb, u)
  <2> HIDE DEF top
  <2>9. PICK best \in held : top = rs[best].position
    BY <2>8 DEF top
  <2>10. top \in Int /\ \A h \in held : rs[h].position <= top
    BY <1>2, <2>8, <2>9 DEF top
  <2>11. top >= t => \E h \in held : rs[h].position >= t
    BY <2>9
  <2>12. (\E h \in held : rs[h].position >= t) => top >= t
    BY <1>2, <2>10
  <2> QED BY <2>10, <2>11, <2>12 DEF top
<1> QED BY <1>3, <1>4

LEMMA BotTopFacts ==
  ASSUME NEW rs, RolesRight(rs), NEW mb, MembersRight(mb), Ranked(rs, mb)
  PROVE  TopPosition(rs, mb, Bot) = rs[Integration].position
<1> DEFINE t == rs[Integration].position
           top == TopPosition(rs, mb, Bot)
<1>1. t \in Int /\ Integration \in Held(rs, mb[Bot]) /\ t >= 1 /\ Bot \in DOMAIN mb
  BY HeldFacts DEF RolesRight, Role, Ranked, MembersRight
<1>2. top \in Int /\ top >= t
  BY <1>1, TopFacts
<1>3. ~(top >= t + 1)
  <2>1. \A h \in Held(rs, mb[Bot]) : ~(rs[h].position >= t + 1)
    BY <1>1 DEF Ranked, RolesRight, Role, Held
  <2> QED BY <1>1, <2>1, TopFacts
<1> QED BY <1>1, <1>2, <1>3

\* list.remove takes nothing else away and adds nothing.
LEMMA WithoutFacts ==
  ASSUME NEW list \in Seq(Roles), NEW r
  PROVE  /\ Without(list, r) \in Seq(Roles)
         /\ Entries(Without(list, r)) \subseteq Entries(list)
         /\ Entries(list) \ {r} \subseteq Entries(Without(list, r))
<1>1. Len(list) \in Nat /\ DOMAIN list = 1..Len(list) /\ \A i \in 1..Len(list) : list[i] \in Roles
  OBVIOUS
<1>2. CASE ~\E i \in DOMAIN list : list[i] = r
  BY <1>2 DEF Without
<1>3. CASE \E i \in DOMAIN list : list[i] = r
  <2> DEFINE at == CHOOSE i \in DOMAIN list : list[i] = r /\ \A j \in 1..(i - 1) : list[j] # r
             rest == [i \in 1..(Len(list) - 1) |-> IF i < at THEN list[i] ELSE list[i + 1]]
  <2>1. \E i \in DOMAIN list : list[i] = r /\ \A j \in 1..(i - 1) : list[j] # r
    <3> DEFINE I == {i \in DOMAIN list : list[i] = r}
    <3>1. I \subseteq Nat /\ I # {}
      BY <1>1, <1>3
    <3>2. \E i \in I : \A j \in I : i <= j
      <4> HIDE DEF I
      <4> QED BY <3>1, NatMin
    <3> QED BY <1>1, <3>2
  <2>2. at \in 1..Len(list) /\ list[at] = r
    BY <1>1, <2>1
  <2>3. Without(list, r) = rest
    BY <1>3 DEF Without
  <2> HIDE DEF at
  <2>4. Len(list) - 1 \in Nat /\ \A i \in 1..(Len(list) - 1) : rest[i] \in Roles
    BY <1>1, <2>2
  <2>5. rest \in Seq(Roles)
    BY <2>4
  <2>6. Entries(rest) \subseteq Entries(list)
    BY <1>1, <2>2 DEF Entries
  <2>7. ASSUME NEW i \in DOMAIN list, list[i] # r
        PROVE  list[i] \in Entries(rest)
    <3>1. CASE i < at
      <4>1. i \in 1..(Len(list) - 1) /\ rest[i] = list[i]
        BY <1>1, <2>2, <3>1
      <4> QED BY <4>1 DEF Entries
    <3>2. CASE i > at
      <4>1. i - 1 \in 1..(Len(list) - 1) /\ rest[i - 1] = list[i]
        BY <1>1, <2>2, <3>2
      <4> QED BY <4>1 DEF Entries
    <3> QED BY <1>1, <2>2, <2>7, <3>1, <3>2
  <2> QED BY <2>3, <2>5, <2>6, <2>7 DEF Entries
<1> QED BY <1>2, <1>3

\* Outside a channel permissions are those of the roles.
LEMMA PermissionFacts ==
  ASSUME GuildInv, NEW permissions, CanGrant(roles, members, Bot, permissions)
  PROVE  \/ ADMINISTRATOR \in Base(roles, members[Bot])
         \/ permissions \subseteq Base(roles, members[Bot])
<1> DEFINE base == Base(roles, members[Bot])
<1>1. Bot # Owner /\ Bot \in DOMAIN members
  BY GuildAssumption DEF GuildInv, TypeInv, MembersRight
<1>2. \A target : ByTarget(<<>>, target) = {}
  BY DEF ByTarget
<1>3. InChannel(base, <<>>, Bot, members[Bot]) = base
  BY <1>2 DEF InChannel, Applied, RoleOverwrites, MemberOverwrites
<1>4. ADMINISTRATOR \in base \/ GuildPermissions(roles, members, Bot) \subseteq base
  BY <1>1, <1>3 DEF GuildPermissions, Compute
<1> QED BY <1>1, <1>4 DEF CanGrant

-----------------------------------------------------------------------------
(* What the bot's calls do to the hierarchy: from the roles rs and members  *)
(* mb to the roles rt and members mt.                                       *)

\* A role below the bot's top role.
Lowly(rs, r) == r \in DOMAIN rs /\ rs[r].position < rs[Integration].position

\* The permissions within the bot's reach.
Within(rs, mb) == {r \in DOMAIN rs : Lowly(rs, r)} \cup Held(rs, mb[Bot])
Grants(rs, mb) == UNION {rs[r].permissions : r \in Within(rs, mb)}
Granted(rs, mb, permissions) ==
  ADMINISTRATOR \in Grants(rs, mb) \/ permissions \subseteq Grants(rs, mb)

\* Members at or above the bot's top role.
Ranking(rs, mb, u) ==
  u = Owner \/ \E h \in Held(rs, mb[u]) : rs[h].position >= rs[Integration].position

\* What every call keeps.
RolesKept(rs, rt) ==
  \A r \in DOMAIN rs : ~Lowly(rs, r) =>
    /\ r \in DOMAIN rt /\ ~Lowly(rt, r) /\ rt[r].permissions = rs[r].permissions
MembersKept(rs, mb, rt, mt) ==
  \A u \in DOMAIN mb : Ranking(rs, mb, u) => u \in DOMAIN mt /\ Ranking(rt, mt, u)
ReachKept(rs, mb, rt, mt) ==
  \A r \in Within(rt, mt) : Granted(rs, mb, rt[r].permissions)
Kept(rs, mb, rt, mt) ==
  RolesKept(rs, rt) /\ MembersKept(rs, mb, rt, mt) /\ ReachKept(rs, mb, rt, mt)

\* Every call but the creation of a role only changes or removes roles below
\* the bot's top role, and only gives or takes those.
TameRoles(rs, mb, rt) ==
  /\ DOMAIN rt \subseteq DOMAIN rs
  /\ \A r \in DOMAIN rs : ~Lowly(rs, r) => r \in DOMAIN rt /\ rt[r] = rs[r]
  /\ \A r \in DOMAIN rt : Lowly(rs, r) =>
       /\ rt[r].position < rs[Integration].position
       /\ Granted(rs, mb, rt[r].permissions)
TameMembers(rs, mb, mt) ==
  /\ DOMAIN mt \subseteq DOMAIN mb
  /\ \A u \in DOMAIN mb : u \notin DOMAIN mt => u # Bot /\ ~Ranking(rs, mb, u)
  /\ \A u \in DOMAIN mt : \A r \in Roles :
       (r \in Entries(mb[u].role_ids) <=> r \in Entries(mt[u].role_ids)) \/ Lowly(rs, r)

LEMMA TameKept ==
  ASSUME NEW rs, RolesRight(rs), NEW mb, MembersRight(mb), Ranked(rs, mb),
         NEW rt, RolesRight(rt), NEW mt, MembersRight(mt),
         TameRoles(rs, mb, rt), TameMembers(rs, mb, mt)
  PROVE  /\ Ranked(rt, mt)
         /\ Kept(rs, mb, rt, mt)
         /\ Entries(mt[Bot].role_ids) \subseteq Entries(mb[Bot].role_ids) \cup DOMAIN rs
<1> DEFINE t == rs[Integration].position
<1>1. /\ {Everyone, Integration} \subseteq DOMAIN rs \cap DOMAIN rt
      /\ Bot \in DOMAIN mb /\ Bot \in DOMAIN mt
      /\ \A r \in DOMAIN rs : rs[r].position \in Int
      /\ \A r \in DOMAIN rt : rt[r].position \in Int
  BY DEF RolesRight, MembersRight, Role
<1>2. /\ \A u \in DOMAIN mb : Entries(mb[u].role_ids) \subseteq Roles
      /\ \A u \in DOMAIN mt : Entries(mt[u].role_ids) \subseteq Roles
  BY DEF MembersRight, Member, Entries
<1>3. ~Lowly(rs, Integration) /\ rt[Integration] = rs[Integration]
  BY <1>1 DEF Lowly, TameRoles
<1>4. \A r \in DOMAIN rt : r \in DOMAIN rs /\ (Lowly(rt, r) <=> Lowly(rs, r))
  BY <1>1, <1>3 DEF TameRoles, Lowly
<1>5. ASSUME NEW u \in DOMAIN mt, NEW r \in DOMAIN rt, ~Lowly(rs, r)
      PROVE  r \in Held(rs, mb[u]) <=> r \in Held(rt, mt[u])
  BY <1>2, <1>4, <1>5, HeldFacts DEF TameMembers
<1>6. Entries(mt[Bot].role_ids) \subseteq Entries(mb[Bot].role_ids) \cup DOMAIN rs
  BY <1>1, <1>2 DEF TameMembers, Lowly
<1>7. Ranked(rt, mt)
  <2>1. Integration \in Entries(mt[Bot].role_ids)
    BY <1>1, <1>2, <1>3 DEF TameMembers, Ranked
  <2>2. rt[Integration].position >= 1
    BY <1>3 DEF Ranked
  <2>3. Lowly(rs, Everyone)
    BY <1>1 DEF Ranked, Lowly
  <2>4. rt[Everyone].position < rt[Integration].position
    BY <1>1, <1>3, <2>3 DEF TameRoles
  <2>5. ASSUME NEW r \in Held(rt, mt[Bot])
        PROVE  rt[r].position <= rt[Integration].position
    <3>1. r \in DOMAIN rt
      BY <2>5, HeldFacts
    <3>2. CASE Lowly(rs, r)
      BY <1>1, <1>3, <3>1, <3>2 DEF TameRoles
    <3>3. CASE ~Lowly(rs, r)
      <4>1. r \in Held(rs, mb[Bot]) /\ rt[r] = rs[r]
        BY <1>1, <1>4, <1>5, <2>5, <3>1, <3>3 DEF TameRoles
      <4> QED BY <1>3, <4>1 DEF Ranked
    <3> QED BY <3>2, <3>3
  <2> QED BY <2>1, <2>2, <2>4, <2>5 DEF Ranked
<1>8. RolesKept(rs, rt)
  BY <1>4 DEF RolesKept, TameRoles
<1>9. MembersKept(rs, mb, rt, mt)
  <2>1. SUFFICES ASSUME NEW u \in DOMAIN mb, Ranking(rs, mb, u)
                 PROVE  u \in DOMAIN mt /\ Ranking(rt, mt, u)
    BY DEF MembersKept
  <2>2. u \in DOMAIN mt
    BY <2>1 DEF TameMembers
  <2>3. CASE u = Owner
    BY <2>2, <2>3 DEF Ranking
  <2>4. CASE u # Owner
    <3>1. PICK h \in Held(rs, mb[u]) : rs[h].position >= t
      BY <2>1, <2>4 DEF Ranking
    <3>2. h \in DOMAIN rs /\ ~Lowly(rs, h)
      BY <1>1, <3>1, HeldFacts DEF Lowly
    <3>3. h \in DOMAIN rt /\ rt[h] = rs[h]
      BY <3>2 DEF TameRoles
    <3>4. h \in Held(rt, mt[u])
      BY <1>5, <2>2, <3>1, <3>2, <3>3
    <3> QED BY <1>3, <2>2, <3>1, <3>3, <3>4 DEF Ranking
  <2> QED BY <2>3, <2>4
<1>10. ReachKept(rs, mb, rt, mt)
  <2>1. SUFFICES ASSUME NEW r \in Within(rt, mt)
                 PROVE  Granted(rs, mb, rt[r].permissions)
    BY DEF ReachKept
  <2>2. r \in DOMAIN rt
    BY HeldFacts DEF Within
  <2>3. CASE Lowly(rs, r)
    BY <2>2, <2>3 DEF TameRoles
  <2>4. CASE ~Lowly(rs, r)
    <3>1. r \in Held(rt, mt[Bot])
      BY <1>4, <2>2, <2>4 DEF Within
    <3>2. r \in Within(rs, mb) /\ rt[r] = rs[r]
      BY <1>1, <1>4, <1>5, <2>2, <2>4, <3>1 DEF TameRoles, Within
    <3> QED BY <3>2 DEF Granted, Grants
  <2> QED BY <2>3, <2>4
<1> QED BY <1>6, <1>7, <1>8, <1>9, <1>10 DEF Kept

\* What Kept means for the properties.
LEMMA KeptMeans ==
  ASSUME GuildInv, GuildInv', Kept(roles, members, roles', members')
  PROVE  RanksStay /\ HigherStay /\ Reach' \subseteq Reach
<1> DEFINE rs == roles
           mb == members
           rt == roles'
           mt == members'
<1>1. /\ RolesRight(rs) /\ MembersRight(mb) /\ Ranked(rs, mb)
      /\ RolesRight(rt) /\ MembersRight(mt) /\ Ranked(rt, mt)
  BY DEF GuildInv, TypeInv
<1>2. /\ BotTop = rs[Integration].position /\ BotTop \in Int /\ BotTop >= 1
      /\ BotTop' = rt[Integration].position /\ BotTop' \in Int /\ BotTop' >= 1
  BY <1>1, BotTopFacts DEF BotTop, RolesRight, Role, Ranked
<1>3. /\ \A u \in DOMAIN mb : u \in Outranking <=> Ranking(rs, mb, u)
      /\ \A u \in DOMAIN mt : u \in Outranking' <=> Ranking(rt, mt, u)
  <2>1. ASSUME NEW u \in DOMAIN mb
        PROVE  u \in Outranking <=> Ranking(rs, mb, u)
    BY <1>1, <1>2, TopFacts DEF Outranking, Ranking
  <2>2. ASSUME NEW u \in DOMAIN mt
        PROVE  u \in Outranking' <=> Ranking(rt, mt, u)
    BY <1>1, <1>2, TopFacts DEF Outranking, Ranking
  <2> QED BY <2>1, <2>2
<1>4. RanksStay
  <2>1. Outranking \subseteq DOMAIN mb
    BY DEF Outranking
  <2> QED BY <1>3, <2>1 DEF RanksStay, Kept, MembersKept
<1>5. /\ Higher = {r \in DOMAIN rs : ~Lowly(rs, r)}
      /\ Higher' = {r \in DOMAIN rt : ~Lowly(rt, r)}
  BY <1>1, <1>2 DEF Higher, Lowly, RolesRight, Role
<1>6. HigherStay
  BY <1>5 DEF HigherStay, Kept, RolesKept
<1>7. /\ Reach = IF ADMINISTRATOR \in Grants(rs, mb) THEN Bits ELSE Grants(rs, mb)
      /\ Reach' = IF ADMINISTRATOR \in Grants(rt, mt) THEN Bits ELSE Grants(rt, mt)
  <2>1. Reach = IF ADMINISTRATOR \in Grants(rs, mb) THEN Bits ELSE Grants(rs, mb)
    <3>1. {r \in DOMAIN rs : rs[r].position < BotTop} = {r \in DOMAIN rs : Lowly(rs, r)}
      BY <1>2 DEF Lowly
    <3> QED BY <3>1 DEF Reach, Grants, Within
  <2>2. Reach' = IF ADMINISTRATOR \in Grants(rt, mt) THEN Bits ELSE Grants(rt, mt)
    <3>1. {r \in DOMAIN rt : rt[r].position < BotTop'} = {r \in DOMAIN rt : Lowly(rt, r)}
      BY <1>2 DEF Lowly
    <3> QED BY <3>1 DEF Reach, Grants, Within
  <2> QED BY <2>1, <2>2
<1>8. Grants(rt, mt) \subseteq Bits
  BY <1>1, HeldFacts DEF Grants, Within, RolesRight, Role
<1>9. ADMINISTRATOR \in Grants(rs, mb) \/ Grants(rt, mt) \subseteq Grants(rs, mb)
  BY DEF Kept, ReachKept, Granted, Grants
<1>10. Reach' \subseteq Reach
  BY <1>7, <1>8, <1>9
<1> QED BY <1>4, <1>6, <1>10

-----------------------------------------------------------------------------
(* The checks of the routes. *)

LEMMA ChecksFacts ==
  ASSUME GuildInv
  PROVE  /\ \A r : BotAssigns(r) => Lowly(roles, r)
         /\ \A p : BotPlaces(p) => p < roles[Integration].position
         /\ \A u \in DOMAIN members : BotModerates(u) => u # Bot /\ ~Ranking(roles, members, u)
         /\ \A permissions : CanGrant(roles, members, Bot, permissions)
              => Granted(roles, members, permissions)
<1> DEFINE t == roles[Integration].position
<1>1. RolesRight(roles) /\ MembersRight(members) /\ Ranked(roles, members)
  BY DEF GuildInv, TypeInv
<1>2. TopPosition(roles, members, Bot) = t /\ t \in Int /\ t >= 1 /\ Bot # Owner
  BY <1>1, BotTopFacts, GuildAssumption DEF RolesRight, Role, Ranked
<1>3. \A p : BotPlaces(p) => p < t
  BY <1>2 DEF BotPlaces, PositionAssignable
<1>4. \A r : BotAssigns(r) => Lowly(roles, r)
  BY <1>2 DEF BotAssigns, Assignable, PositionAssignable, Lowly
<1>5. ASSUME NEW u \in DOMAIN members, BotModerates(u)
      PROVE  u # Bot /\ ~Ranking(roles, members, u)
  <2>1. u # Owner /\ TopPosition(roles, members, u) < t
    BY <1>2, <1>5 DEF BotModerates, Moderates
  <2>2. u # Bot
    BY <1>2, <2>1
  <2>3. ~(TopPosition(roles, members, u) >= t)
    BY <1>1, <1>2, <2>1, TopFacts
  <2>4. ~\E h \in Held(roles, members[u]) : roles[h].position >= t
    BY <1>1, <1>2, <2>3, TopFacts
  <2> QED BY <2>1, <2>2, <2>4 DEF Ranking
<1>6. ASSUME NEW permissions, CanGrant(roles, members, Bot, permissions)
      PROVE  Granted(roles, members, permissions)
  <2>1. Everyone \in Within(roles, members)
    BY <1>1 DEF Within, Lowly, Ranked, RolesRight
  <2>2. Base(roles, members[Bot]) \subseteq Grants(roles, members)
    BY <2>1 DEF Base, Grants, Within
  <2> QED BY <1>6, <2>2, PermissionFacts DEF Granted
<1> QED BY <1>3, <1>4, <1>5, <1>6

-----------------------------------------------------------------------------
(* The steps. *)

TameStep ==
  /\ RolesRight(roles') /\ TameRoles(roles, members, roles')
  /\ MembersRight(members') /\ TameMembers(roles, members, members')
  /\ created' = created /\ bans' \subseteq Users \cup Strangers

BotKeeps == GuildInv' /\ Kept(roles, members, roles', members')

LEMMA TameStepKeeps ==
  ASSUME GuildInv, TameStep, by' = "bot"
  PROVE  BotKeeps
<1>1. /\ Ranked(roles', members') /\ Kept(roles, members, roles', members')
      /\ Entries(members'[Bot].role_ids) \subseteq Entries(members[Bot].role_ids) \cup DOMAIN roles
  BY TameKept DEF GuildInv, TypeInv, TameStep
<1>2. TypeInv'
  <2>1. DOMAIN roles' \subseteq Known'
    BY DEF GuildInv, TypeInv, TameStep, TameRoles, Known
  <2> QED BY <2>1 DEF GuildInv, TypeInv, TameStep
<1>3. Entries(members[Bot].role_ids)' \subseteq Known'
  BY <1>1 DEF GuildInv, TypeInv, TameStep, Known
<1> QED BY <1>1, <1>2, <1>3 DEF BotKeeps, GuildInv

\* Roles and members that stay as they are.
LEMMA SameTame ==
  ASSUME GuildInv
  PROVE  /\ RolesRight(roles) /\ TameRoles(roles, members, roles)
         /\ MembersRight(members) /\ TameMembers(roles, members, members)
<1>1. \A r \in DOMAIN roles : Lowly(roles, r) => Granted(roles, members, roles[r].permissions)
  BY DEF Granted, Grants, Within
<1>2. TameRoles(roles, members, roles)
  BY <1>1 DEF TameRoles, Lowly
<1> QED BY <1>2 DEF GuildInv, TypeInv, TameMembers

LEMMA RemovedTame ==
  ASSUME GuildInv, NEW gone,
         \A u \in gone \cap DOMAIN members : u # Bot /\ ~Ranking(roles, members, u)
  PROVE  MembersRight(Removed(gone)) /\ TameMembers(roles, members, Removed(gone))
<1>1. /\ DOMAIN Removed(gone) = DOMAIN members \ gone
      /\ \A u \in DOMAIN Removed(gone) : Removed(gone)[u] = members[u]
  BY DEF Removed
<1>2. Removed(gone) = [u \in DOMAIN Removed(gone) |-> Removed(gone)[u]]
  BY DEF Removed
<1> QED BY <1>1, <1>2 DEF GuildInv, TypeInv, MembersRight, TameMembers

\* Members of whom only lowly roles are taken, or to whom only those are given.
LEMMA EditedTame ==
  ASSUME GuildInv, NEW mb, mb = [u \in DOMAIN mb |-> mb[u]], DOMAIN mb = DOMAIN members,
         \A u \in DOMAIN mb : mb[u] \in Member,
         \A u \in DOMAIN mb : \A r \in Roles :
           (r \in Entries(members[u].role_ids) <=> r \in Entries(mb[u].role_ids))
             \/ Lowly(roles, r)
  PROVE  MembersRight(mb) /\ TameMembers(roles, members, mb)
BY DEF GuildInv, TypeInv, MembersRight, TameMembers

LEMMA EditRoleTame ==
  ASSUME GuildInv, NEW r \in Roles, NEW permissions \in PermissionChoices,
         BotEditRole(r, permissions)
  PROVE  TameStep
<1>1. r \in DOMAIN roles /\ Lowly(roles, r) /\ Granted(roles, members, permissions)
  BY ChecksFacts DEF BotEditRole, Editable
<1>2. permissions \in SUBSET Bits
  BY GuildAssumption
<1>3. /\ DOMAIN roles' = DOMAIN roles /\ roles' = [x \in DOMAIN roles' |-> roles'[x]]
      /\ \A x \in DOMAIN roles : x # r => roles'[x] = roles[x]
      /\ roles'[r] = [roles[r] EXCEPT !.permissions = permissions]
  BY <1>1 DEF BotEditRole
<1>4. roles[r] \in Role
  BY <1>1 DEF GuildInv, TypeInv, RolesRight
<1>5. roles'[r] \in Role /\ roles'[r].position = roles[r].position
      /\ roles'[r].permissions = permissions
  BY <1>2, <1>3, <1>4 DEF Role
<1>6. RolesRight(roles')
  BY <1>3, <1>5 DEF GuildInv, TypeInv, RolesRight
<1>7. TameRoles(roles, members, roles')
  BY <1>1, <1>3, <1>5, SameTame DEF TameRoles, Lowly
<1> QED BY <1>6, <1>7, SameTame DEF TameStep, BotEditRole, RolesOnly, GuildInv, TypeInv

LEMMA MoveRolesTame ==
  ASSUME GuildInv, NEW r \in Roles, NEW s \in Roles,
         NEW p \in PositionChoices, NEW q \in PositionChoices,
         BotMoveRoles(r, s, p, q)
  PROVE  TameStep
<1> DEFINE named == {r, s} \cap DOMAIN roles
           place == [x \in named |-> IF x = s THEN q ELSE p]
<1>1. \A x \in named : Lowly(roles, x) /\ place[x] < roles[Integration].position
  BY ChecksFacts DEF BotMoveRoles
<1>2. \A x \in named : place[x] \in Int
  BY GuildAssumption
<1>3. roles' = [x \in DOMAIN roles |->
                  IF x \in named THEN [roles[x] EXCEPT !.position = place[x]] ELSE roles[x]]
  BY DEF BotMoveRoles
<1>4. DOMAIN roles' = DOMAIN roles /\ roles' = [x \in DOMAIN roles' |-> roles'[x]]
  BY <1>3
<1>5. ASSUME NEW x \in DOMAIN roles
      PROVE  /\ roles'[x] \in Role
             /\ x \notin named => roles'[x] = roles[x]
             /\ x \in named => roles'[x].position = place[x]
             /\ roles'[x].permissions = roles[x].permissions
  <2>1. roles[x] \in Role
    BY DEF GuildInv, TypeInv, RolesRight
  <2>2. CASE x \in named
    <3> HIDE DEF place
    <3>1. roles'[x] = [roles[x] EXCEPT !.position = place[x]]
      BY <1>3, <2>2
    <3> QED BY <1>2, <2>1, <2>2, <3>1 DEF Role
  <2>3. CASE x \notin named
    <3>1. roles'[x] = roles[x]
      BY <1>3, <2>3
    <3> QED BY <2>1, <2>3, <3>1
  <2> QED BY <2>2, <2>3
<1> HIDE DEF named, place
<1>6. RolesRight(roles')
  BY <1>4, <1>5 DEF GuildInv, TypeInv, RolesRight
<1>7. TameRoles(roles, members, roles')
  <2>1. \A x \in DOMAIN roles : ~Lowly(roles, x) => roles'[x] = roles[x]
    BY <1>1, <1>5
  <2>2. ASSUME NEW x \in DOMAIN roles, Lowly(roles, x)
        PROVE  roles'[x].position < roles[Integration].position
    <3>1. CASE x \in named
      BY <1>1, <1>5, <3>1
    <3>2. CASE x \notin named
      BY <1>5, <2>2, <3>2 DEF Lowly
    <3> QED BY <3>1, <3>2
  <2> QED BY <1>4, <1>5, <2>1, <2>2, SameTame DEF TameRoles
<1> QED BY <1>6, <1>7, SameTame DEF TameStep, BotMoveRoles, RolesOnly, GuildInv, TypeInv

LEMMA DeleteRoleTame ==
  ASSUME GuildInv, NEW r \in Roles, BotDeleteRole(r)
  PROVE  TameStep
<1>1. Lowly(roles, r) /\ r # Everyone /\ r # Integration
  BY ChecksFacts DEF BotDeleteRole, Lowly, GuildInv, TypeInv, RolesRight, Role
<1>2. roles' = [x \in DOMAIN roles \ {r} |-> roles[x]]
  BY DEF BotDeleteRole
<1>3. RolesRight(roles')
  BY <1>1, <1>2 DEF GuildInv, TypeInv, RolesRight
<1>4. TameRoles(roles, members, roles')
  BY <1>1, <1>2, SameTame DEF TameRoles
<1>5. /\ DOMAIN members' = DOMAIN members /\ members' = [u \in DOMAIN members' |-> members'[u]]
      /\ \A u \in DOMAIN members :
           members'[u] = [members[u] EXCEPT !.role_ids = Without(members[u].role_ids, r)]
  BY DEF BotDeleteRole
<1>6. ASSUME NEW u \in DOMAIN members
      PROVE  /\ members'[u] \in Member
             /\ \A x \in Roles : x # r =>
                  (x \in Entries(members[u].role_ids) <=> x \in Entries(members'[u].role_ids))
  <2> DEFINE list == Without(members[u].role_ids, r)
  <2>1. members[u] \in Member /\ members[u].role_ids \in Seq(Roles)
    BY DEF GuildInv, TypeInv, MembersRight, Member
  <2>2. /\ list \in Seq(Roles)
        /\ \A x \in Roles : x # r => (x \in Entries(members[u].role_ids) <=> x \in Entries(list))
    BY <2>1, WithoutFacts
  <2>3. members'[u] = [members[u] EXCEPT !.role_ids = list]
    BY <1>5
  <2> HIDE DEF list
  <2> QED BY <2>1, <2>2, <2>3 DEF Member
<1>7. MembersRight(members') /\ TameMembers(roles, members, members')
  BY <1>1, <1>5, <1>6, EditedTame
<1> QED BY <1>3, <1>4, <1>7 DEF TameStep, BotDeleteRole, GuildInv, TypeInv

LEMMA AddRoleTame ==
  ASSUME GuildInv, NEW u \in Users, NEW r \in Roles, BotAddRole(u, r)
  PROVE  TameStep
<1> DEFINE list == members[u].role_ids
           new == IF r \in Entries(list) THEN list ELSE Append(list, r)
<1>1. Lowly(roles, r) /\ u \in DOMAIN members
  BY ChecksFacts DEF BotAddRole
<1>2. members[u] \in Member /\ list \in Seq(Roles)
  BY <1>1 DEF GuildInv, TypeInv, MembersRight, Member
<1>3. new \in Seq(Roles) /\ Entries(new) = Entries(list) \cup {r}
  <2>1. CASE r \in Entries(list)
    BY <1>2, <2>1
  <2>2. CASE r \notin Entries(list)
    <3> HIDE DEF list
    <3>1. new = Append(list, r)
      BY <2>2
    <3>2. /\ Len(list) \in Nat /\ DOMAIN list = 1..Len(list)
          /\ DOMAIN new = 1..(Len(list) + 1) /\ new[Len(list) + 1] = r
          /\ \A i \in 1..Len(list) : new[i] = list[i]
      BY <1>2, <3>1
    <3> HIDE DEF new
    <3>3. Entries(new) \subseteq Entries(list) \cup {r}
      BY <3>2 DEF Entries
    <3>4. Entries(list) \subseteq Entries(new)
      BY <3>2 DEF Entries
    <3>5. r \in Entries(new)
      BY <3>2 DEF Entries
    <3> QED BY <1>2, <3>1, <3>3, <3>4, <3>5
  <2> QED BY <2>1, <2>2
<1> HIDE DEF new
<1>4. /\ DOMAIN members' = DOMAIN members /\ members' = [x \in DOMAIN members' |-> members'[x]]
      /\ \A x \in DOMAIN members : x # u => members'[x] = members[x]
      /\ members'[u] = [members[u] EXCEPT !.role_ids = new]
  BY <1>1 DEF BotAddRole, new
<1>5. members'[u] \in Member /\ members'[u].role_ids = new
  BY <1>2, <1>3, <1>4 DEF Member
<1>6. MembersRight(members') /\ TameMembers(roles, members, members')
  <2>1. \A x \in DOMAIN members' : members'[x] \in Member
    BY <1>4, <1>5 DEF GuildInv, TypeInv, MembersRight
  <2>2. \A x \in DOMAIN members' : \A y \in Roles :
          (y \in Entries(members[x].role_ids) <=> y \in Entries(members'[x].role_ids))
            \/ Lowly(roles, y)
    BY <1>1, <1>3, <1>4, <1>5
  <2> QED BY <1>4, <2>1, <2>2, EditedTame
<1> QED BY <1>6, SameTame DEF TameStep, BotAddRole, MembersOnly, GuildInv, TypeInv

LEMMA RemoveRoleTame ==
  ASSUME GuildInv, NEW u \in Users, NEW r \in Roles, BotRemoveRole(u, r)
  PROVE  TameStep
<1> DEFINE new == Without(members[u].role_ids, r)
<1>1. Lowly(roles, r) /\ u \in DOMAIN members
  BY ChecksFacts DEF BotRemoveRole
<1>2. members[u] \in Member /\ members[u].role_ids \in Seq(Roles)
  BY <1>1 DEF GuildInv, TypeInv, MembersRight, Member
<1>3. /\ new \in Seq(Roles)
      /\ \A x : x # r => (x \in Entries(members[u].role_ids) <=> x \in Entries(new))
  BY <1>2, WithoutFacts
<1>4. /\ DOMAIN members' = DOMAIN members /\ members' = [x \in DOMAIN members' |-> members'[x]]
      /\ \A x \in DOMAIN members : x # u => members'[x] = members[x]
      /\ members'[u] = [members[u] EXCEPT !.role_ids = new]
  BY <1>1 DEF BotRemoveRole
<1> HIDE DEF new
<1>5. members'[u] \in Member /\ members'[u].role_ids = new
  BY <1>2, <1>3, <1>4 DEF Member
<1>6. MembersRight(members') /\ TameMembers(roles, members, members')
  <2>1. \A x \in DOMAIN members' : members'[x] \in Member
    BY <1>4, <1>5 DEF GuildInv, TypeInv, MembersRight
  <2>2. \A x \in DOMAIN members' : \A y \in Roles :
          (y \in Entries(members[x].role_ids) <=> y \in Entries(members'[x].role_ids))
            \/ Lowly(roles, y)
    BY <1>1, <1>3, <1>4, <1>5
  <2> QED BY <1>4, <2>1, <2>2, EditedTame
<1> QED BY <1>6, SameTame DEF TameStep, BotRemoveRole, MembersOnly, GuildInv, TypeInv

LEMMA EditMemberTame ==
  ASSUME GuildInv, NEW u \in Users, NEW e \in RoleEdits,
         NEW timeout \in {"omitted", "set", "lifted"}, BotEditMember(u, e, timeout)
  PROVE  TameStep
<1> DEFINE list == members[u].role_ids
           new == IF e.given THEN e.list ELSE list
           silent == IF timeout = "omitted" THEN members[u].timed_out ELSE timeout = "set"
<1>1. u \in DOMAIN members
  BY DEF BotEditMember
<1>2. members[u] \in Member /\ list \in Seq(Roles) /\ members[u].timed_out \in BOOLEAN
  BY <1>1 DEF GuildInv, TypeInv, MembersRight, Member
<1>3. e.given \in BOOLEAN /\ (e.given => e.list \in Seq(Roles))
  <2>1. RoleLists \subseteq Seq(Roles)
    BY DEF RoleLists
  <2>2. ListChoices \subseteq Seq(Roles)
    BY <2>1, GuildAssumption
  <2>3. CASE e = [given |-> FALSE, list |-> <<>>]
    BY <2>3
  <2>4. CASE \E choice \in ListChoices : e = [given |-> TRUE, list |-> choice]
    BY <2>2, <2>4
  <2> QED BY <2>3, <2>4 DEF RoleEdits
<1>4. new \in Seq(Roles) /\ silent \in BOOLEAN
  BY <1>2, <1>3
<1>5. ASSUME NEW x \in Roles, ~Lowly(roles, x)
      PROVE  x \in Entries(list) <=> x \in Entries(new)
  <2>1. CASE e.given
    <3>1. x \notin Changed(list, e.list)
      BY <1>5, <2>1, ChecksFacts DEF BotEditMember
    <3> QED BY <2>1, <3>1 DEF Changed
  <2>2. CASE ~e.given
    BY <2>2
  <2> QED BY <2>1, <2>2
<1>6. members' = [members EXCEPT ![u].role_ids = new, ![u].timed_out = silent]
  BY <1>1, <1>3 DEF BotEditMember
<1> HIDE DEF new, silent
<1>7. /\ DOMAIN members' = DOMAIN members /\ members' = [x \in DOMAIN members' |-> members'[x]]
      /\ \A x \in DOMAIN members : x # u => members'[x] = members[x]
      /\ members'[u] = [[members[u] EXCEPT !.role_ids = new] EXCEPT !.timed_out = silent]
  BY <1>1, <1>6
<1>8. members'[u] \in Member /\ members'[u].role_ids = new
  BY <1>2, <1>4, <1>7 DEF Member
<1>9. MembersRight(members') /\ TameMembers(roles, members, members')
  <2>1. \A x \in DOMAIN members' : members'[x] \in Member
    BY <1>7, <1>8 DEF GuildInv, TypeInv, MembersRight
  <2>2. \A x \in DOMAIN members' : \A y \in Roles :
          (y \in Entries(members[x].role_ids) <=> y \in Entries(members'[x].role_ids))
            \/ Lowly(roles, y)
    BY <1>5, <1>7, <1>8
  <2> QED BY <1>7, <2>1, <2>2, EditedTame
<1> QED BY <1>9, SameTame DEF TameStep, BotEditMember, MembersOnly, GuildInv, TypeInv

LEMMA KickTame ==
  ASSUME GuildInv, NEW u \in Users, BotKick(u)
  PROVE  TameStep
<1>1. MembersRight(Removed({u})) /\ TameMembers(roles, members, Removed({u}))
  BY RemovedTame, ChecksFacts DEF BotKick
<1> QED BY <1>1, SameTame DEF TameStep, BotKick, MembersOnly, GuildInv, TypeInv

LEMMA PruneTame ==
  ASSUME GuildInv, BotPrune
  PROVE  TameStep
<1>1. \A u \in Prunable : u # Bot /\ ~Ranking(roles, members, u)
  BY DEF Prunable, Ranking, Held
<1>2. MembersRight(Removed(Prunable)) /\ TameMembers(roles, members, Removed(Prunable))
  BY <1>1, RemovedTame
<1> QED BY <1>2, SameTame DEF TameStep, BotPrune, MembersOnly, GuildInv, TypeInv

LEMMA BannedTame ==
  ASSUME GuildInv, NEW ids \in SUBSET (Users \cup Strangers),
         \A u \in ids : BotModerates(u), Banned(ids)
  PROVE  TameStep
<1>1. MembersRight(Removed(ids)) /\ TameMembers(roles, members, Removed(ids))
  BY RemovedTame, ChecksFacts
<1> QED BY <1>1, SameTame DEF TameStep, Banned, GuildInv, TypeInv

LEMMA BulkBanTame ==
  ASSUME GuildInv, NEW u \in Users \cup Strangers, NEW v \in Users \cup Strangers, BotBulkBan(u, v)
  PROVE  TameStep
<1> DEFINE fails(x) == x \in bans \/ Outranked(x)
           tried == IF u \in Strangers /\ ~fails(u) THEN {u} ELSE {u, v}
           ids == {x \in tried : ~fails(x)}
<1>1. Banned(ids)
  BY DEF BotBulkBan
<1>2. ids \in SUBSET (Users \cup Strangers) /\ \A x \in ids : BotModerates(x)
  BY DEF Outranked
<1> HIDE DEF ids
<1> QED BY <1>1, <1>2, BannedTame

LEMMA UnbanTame ==
  ASSUME GuildInv, NEW u \in Users, BotUnban(u)
  PROVE  TameStep
BY SameTame DEF TameStep, BotUnban, GuildInv, TypeInv

\* A new role at position 1, below all that were above @everyone.
LEMMA CreateRoleFacts ==
  ASSUME GuildInv, NEW r \in Named, NEW permissions \in PermissionChoices,
         CreateRole(r, permissions), by' \in {"bot", "test"}
  PROVE  /\ GuildInv'
         /\ r \notin DOMAIN roles /\ DOMAIN roles' = DOMAIN roles \cup {r}
         /\ roles'[r].permissions = permissions
         /\ \A x \in DOMAIN roles : /\ roles'[x].permissions = roles[x].permissions
                                    /\ Lowly(roles', x) <=> Lowly(roles, x)
         /\ Held(roles', members[Bot]) = Held(roles, members[Bot])
<1>1. r \notin DOMAIN roles /\ r \notin Known /\ permissions \in SUBSET Bits
  BY GuildAssumption DEF CreateRole, GuildInv, TypeInv, Known
<1>2. /\ DOMAIN roles' = DOMAIN roles \cup {r} /\ roles' = [x \in DOMAIN roles' |-> roles'[x]]
      /\ roles'[r] = Made(1, permissions, FALSE)
      /\ \A x \in DOMAIN roles : roles'[x] = Shifted(roles)[x]
  BY <1>1 DEF CreateRole, With, Shifted
<1>3. \A x \in DOMAIN roles : roles[x] \in Role /\ roles[x].position \in Int
  BY DEF GuildInv, TypeInv, RolesRight, Role
<1>4. ASSUME NEW x \in DOMAIN roles
      PROVE  /\ roles'[x] \in Role /\ roles'[x].permissions = roles[x].permissions
             /\ roles[x].position >= 1 => roles'[x].position = roles[x].position + 1
             /\ roles[x].position < 1 => roles'[x].position = roles[x].position
  <2>1. CASE roles[x].position >= 1
    <3> DEFINE p == roles[x].position + 1
    <3>1. p \in Int
      BY <1>3
    <3>2. roles'[x] = [roles[x] EXCEPT !.position = p]
      BY <1>2, <2>1 DEF Shifted
    <3> QED BY <1>3, <2>1, <3>1, <3>2 DEF Role
  <2>2. CASE ~(roles[x].position >= 1)
    <3>1. roles'[x] = roles[x]
      BY <1>2, <2>2 DEF Shifted
    <3> QED BY <1>3, <2>2, <3>1
  <2> QED BY <2>1, <2>2
<1>5. roles'[r] \in Role /\ roles'[r].position = 1 /\ roles'[r].permissions = permissions
  BY <1>1, <1>2 DEF Made, Role
<1>6. members' = members /\ bans' = bans /\ created' = created \cup {r}
  BY DEF CreateRole
<1>7. RolesRight(roles')
  BY <1>2, <1>4, <1>5 DEF GuildInv, TypeInv, RolesRight
<1>8. Held(roles', members[Bot]) = Held(roles, members[Bot])
  BY <1>1, <1>2, HeldFacts DEF GuildInv
<1>9. /\ Integration \in DOMAIN roles /\ Everyone \in DOMAIN roles
      /\ roles[Integration].position >= 1
      /\ roles'[Integration].position = roles[Integration].position + 1
  BY <1>4 DEF GuildInv, TypeInv, RolesRight, Ranked
<1>10. ASSUME NEW x \in DOMAIN roles
       PROVE  /\ Lowly(roles', x) <=> Lowly(roles, x)
              /\ roles[x].position <= roles[Integration].position
                   => roles'[x].position <= roles'[Integration].position
  BY <1>2, <1>3, <1>4, <1>9 DEF Lowly
<1>11. Ranked(roles', members')
  <2>1. \A x \in Held(roles', members'[Bot]) : roles'[x].position <= roles'[Integration].position
    BY <1>6, <1>8, <1>10, HeldFacts DEF GuildInv, Ranked
  <2>2. roles'[Everyone].position < roles'[Integration].position
    BY <1>2, <1>9, <1>10 DEF GuildInv, Ranked, Lowly
  <2> QED BY <1>3, <1>6, <1>9, <2>1, <2>2 DEF GuildInv, Ranked
<1>12. TypeInv'
  BY <1>2, <1>6, <1>7 DEF GuildInv, TypeInv, Known
<1>13. GuildInv'
  BY <1>6, <1>11, <1>12 DEF GuildInv, Known
<1> QED BY <1>1, <1>2, <1>4, <1>5, <1>8, <1>10, <1>13

LEMMA CreateRoleKeeps ==
  ASSUME GuildInv, NEW r \in Named, NEW permissions \in PermissionChoices,
         BotCreateRole(r, permissions), by' = "bot"
  PROVE  BotKeeps
<1>1. CreateRole(r, permissions) /\ Granted(roles, members, permissions)
  BY ChecksFacts DEF BotCreateRole
<1>2. /\ GuildInv' /\ members' = members
      /\ r \notin DOMAIN roles /\ DOMAIN roles' = DOMAIN roles \cup {r}
      /\ roles'[r].permissions = permissions
      /\ \A x \in DOMAIN roles : /\ roles'[x].permissions = roles[x].permissions
                                 /\ Lowly(roles', x) <=> Lowly(roles, x)
      /\ Held(roles', members[Bot]) = Held(roles, members[Bot])
  BY <1>1, CreateRoleFacts DEF CreateRole
<1>3. RolesKept(roles, roles')
  BY <1>2 DEF RolesKept
<1>4. MembersKept(roles, members, roles', members')
  <2>1. SUFFICES ASSUME NEW u \in DOMAIN members, u # Owner,
                        NEW h \in Held(roles, members[u]),
                        roles[h].position >= roles[Integration].position
                 PROVE  Ranking(roles', members', u)
    BY <1>2 DEF MembersKept, Ranking
  <2>2. h \in DOMAIN roles /\ h \in Held(roles', members'[u])
    BY <1>2, HeldFacts
  <2>3. ~Lowly(roles', h)
    BY <1>2, <2>1, <2>2 DEF Lowly, GuildInv, TypeInv, RolesRight, Role
  <2>4. roles'[h].position >= roles'[Integration].position
    BY <1>2, <2>2, <2>3 DEF Lowly, GuildInv, TypeInv, RolesRight, Role
  <2> QED BY <2>2, <2>4 DEF Ranking
<1>5. ReachKept(roles, members, roles', members')
  <2>1. SUFFICES ASSUME NEW x \in Within(roles', members')
                 PROVE  Granted(roles, members, roles'[x].permissions)
    BY DEF ReachKept
  <2>2. x = r \/ x \in Within(roles, members)
    BY <1>2 DEF Within
  <2>3. CASE x = r
    BY <1>1, <1>2, <2>3
  <2>4. CASE x # r
    <3>1. x \in Within(roles, members) /\ x \in DOMAIN roles
      BY <2>2, <2>4, HeldFacts DEF Within
    <3> QED BY <1>2, <3>1 DEF Granted, Grants
  <2> QED BY <2>3, <2>4
<1> QED BY <1>2, <1>3, <1>4, <1>5 DEF BotKeeps, Kept

LEMMA BotCallKeeps ==
  ASSUME GuildInv, BotCall
  PROVE  BotKeeps
<1>1. by' = "bot"
  BY DEF BotCall
<1>2. CASE \E r \in Named, permissions \in PermissionChoices : BotCreateRole(r, permissions)
  BY <1>1, <1>2, CreateRoleKeeps
<1>3. CASE \E r \in Roles, permissions \in PermissionChoices : BotEditRole(r, permissions)
  BY <1>1, <1>3, EditRoleTame, TameStepKeeps
<1>4. CASE \E r, s \in Roles, p, q \in PositionChoices : BotMoveRoles(r, s, p, q)
  BY <1>1, <1>4, MoveRolesTame, TameStepKeeps
<1>5. CASE \E r \in Roles : BotDeleteRole(r)
  BY <1>1, <1>5, DeleteRoleTame, TameStepKeeps
<1>6. CASE \E u \in Users, r \in Roles : BotAddRole(u, r)
  BY <1>1, <1>6, AddRoleTame, TameStepKeeps
<1>7. CASE \E u \in Users, r \in Roles : BotRemoveRole(u, r)
  BY <1>1, <1>7, RemoveRoleTame, TameStepKeeps
<1>8. CASE \E u \in Users, e \in RoleEdits, t \in {"omitted", "set", "lifted"} :
             BotEditMember(u, e, t)
  BY <1>1, <1>8, EditMemberTame, TameStepKeeps
<1>9. CASE \E u \in Users : BotKick(u)
  BY <1>1, <1>9, KickTame, TameStepKeeps
<1>10. CASE BotPrune
  BY <1>1, <1>10, PruneTame, TameStepKeeps
<1>11. CASE \E u \in Users : BotBan(u)
  <2>1. PICK u \in Users : BotBan(u)
    BY <1>11
  <2>2. BotModerates(u) /\ Banned({u}) /\ {u} \in SUBSET (Users \cup Strangers)
    BY <2>1 DEF BotBan
  <2>3. TameStep
    BY <2>2, BannedTame
  <2> QED BY <1>1, <2>3, TameStepKeeps
<1>12. CASE \E u, v \in Users \cup Strangers : BotBulkBan(u, v)
  BY <1>1, <1>12, BulkBanTame, TameStepKeeps
<1>13. CASE \E u \in Users : BotUnban(u)
  BY <1>1, <1>13, UnbanTame, TameStepKeeps
<1> QED BY <1>2, <1>3, <1>4, <1>5, <1>6, <1>7, <1>8, <1>9, <1>10, <1>11, <1>12, <1>13 DEF BotCall

\* What the test and the clock do leaves the bot's rank as it is.
LEMMA FixtureCreateRoleKeeps ==
  ASSUME GuildInv, NEW r \in Named, NEW permissions \in PermissionChoices,
         NEW p \in PositionChoices, FixtureCreateRole(r, permissions, p), by' = "test"
  PROVE  GuildInv'
<1>1. r \notin Known /\ r \notin DOMAIN roles /\ permissions \in SUBSET Bits /\ p \in Int
  BY GuildAssumption DEF FixtureCreateRole, GuildInv, TypeInv, Known
<1>2. /\ DOMAIN roles' = DOMAIN roles \cup {r} /\ roles' = [x \in DOMAIN roles' |-> roles'[x]]
      /\ roles'[r] = Made(p, permissions, FALSE)
      /\ \A x \in DOMAIN roles : roles'[x] = roles[x]
  BY <1>1 DEF FixtureCreateRole, With
<1>3. roles'[r] \in Role
  BY <1>1, <1>2 DEF Made, Role
<1>4. members' = members /\ bans' = bans /\ created' = created \cup {r}
  BY DEF FixtureCreateRole
<1>5. RolesRight(roles')
  BY <1>2, <1>3 DEF GuildInv, TypeInv, RolesRight
<1>6. Held(roles', members[Bot]) = Held(roles, members[Bot])
  BY <1>1, <1>2, HeldFacts DEF GuildInv
<1>7. Ranked(roles', members')
  BY <1>2, <1>4, <1>6, HeldFacts DEF GuildInv, TypeInv, RolesRight, Ranked
<1>8. TypeInv'
  BY <1>2, <1>4, <1>5 DEF GuildInv, TypeInv, Known
<1> QED BY <1>4, <1>7, <1>8 DEF GuildInv, Known

\* Changes to other members, and to nothing of the bot but its timeout.
LEMMA OthersKeep ==
  ASSUME GuildInv, MembersRight(members'), members'[Bot].role_ids = members[Bot].role_ids,
         UNCHANGED <<roles, bans, created>>, by' \in {"test", "clock"}
  PROVE  GuildInv'
<1>1. Ranked(roles', members')
  BY HeldFacts DEF GuildInv, Ranked
<1>2. TypeInv'
  BY DEF GuildInv, TypeInv, Known
<1> QED BY <1>1, <1>2 DEF GuildInv, Known

LEMMA FixtureKeeps ==
  ASSUME GuildInv, Fixture
  PROVE  GuildInv'
<1>1. by' = "test"
  BY DEF Fixture
<1>2. CASE \E r \in Named, permissions \in PermissionChoices : CreateRole(r, permissions)
  BY <1>1, <1>2, CreateRoleFacts
<1>3. CASE \E r \in Named, permissions \in PermissionChoices, p \in PositionChoices :
             FixtureCreateRole(r, permissions, p)
  BY <1>1, <1>3, FixtureCreateRoleKeeps
<1>4. CASE \E u \in Joining, list \in ListChoices : FixtureAddMember(u, list)
  <2>1. PICK u \in Joining, list \in ListChoices : FixtureAddMember(u, list)
    BY <1>4
  <2>2. u \in Users /\ u # Bot /\ list \in Seq(Roles)
    BY GuildAssumption DEF RoleLists
  <2>3. /\ DOMAIN members' = DOMAIN members \cup {u}
        /\ members' = [x \in DOMAIN members' |-> members'[x]]
        /\ members'[u] = Joined(list)
        /\ \A x \in DOMAIN members : x # u => members'[x] = members[x]
    BY <2>1 DEF FixtureAddMember, With
  <2>4. Joined(list) \in Member
    BY <2>2 DEF Joined, Member
  <2>5. MembersRight(members') /\ members'[Bot] = members[Bot]
    BY <2>2, <2>3, <2>4 DEF GuildInv, TypeInv, MembersRight
  <2> QED BY <1>1, <2>1, <2>5, OthersKeep DEF FixtureAddMember, MembersOnly
<1>5. CASE \E u \in Joining : FixtureRemoveMember(u)
  <2>1. PICK u \in Joining : FixtureRemoveMember(u)
    BY <1>5
  <2>2. u # Bot
    BY GuildAssumption
  <2>3. MembersRight(members') /\ members'[Bot] = members[Bot]
    BY <2>1, <2>2 DEF FixtureRemoveMember, Removed, GuildInv, TypeInv, MembersRight
  <2> QED BY <1>1, <2>1, <2>3, OthersKeep DEF FixtureRemoveMember, MembersOnly
<1> QED BY <1>2, <1>3, <1>4, <1>5 DEF Fixture

LEMMA ClockKeeps ==
  ASSUME GuildInv, Clock
  PROVE  GuildInv'
<1>1. PICK u \in Users : TimeoutEnds(u)
  BY DEF Clock
<1>2. u \in DOMAIN members /\ members[u] \in Member
  BY <1>1 DEF TimeoutEnds, GuildInv, TypeInv, MembersRight
<1>3. /\ DOMAIN members' = DOMAIN members /\ members' = [x \in DOMAIN members' |-> members'[x]]
      /\ \A x \in DOMAIN members : x # u => members'[x] = members[x]
      /\ members'[u] = [members[u] EXCEPT !.timed_out = FALSE]
  BY <1>1, <1>2 DEF TimeoutEnds
<1>4. members'[u] \in Member /\ members'[u].role_ids = members[u].role_ids
  BY <1>2, <1>3 DEF Member
<1>5. MembersRight(members') /\ members'[Bot].role_ids = members[Bot].role_ids
  BY <1>3, <1>4 DEF GuildInv, TypeInv, MembersRight
<1> QED BY <1>1, <1>5, OthersKeep DEF Clock, TimeoutEnds, MembersOnly

LEMMA InitRanked == GuildInit => GuildInv
<1> SUFFICES ASSUME GuildInit
             PROVE  GuildInv
  OBVIOUS
<1>1. /\ DOMAIN roles = {Everyone, Integration} /\ roles = [r \in DOMAIN roles |-> roles[r]]
      /\ roles[Everyone] = Made(0, DefaultPermissions, FALSE)
      /\ roles[Integration] = Made(1, IntegrationPermissions, TRUE)
  BY GuildAssumption DEF GuildInit
<1>2. roles[Everyone] \in Role /\ roles[Integration] \in Role
  BY <1>1, GuildAssumption DEF Made, Role
<1>3. RolesRight(roles)
  BY <1>1, <1>2 DEF RolesRight
<1>4. /\ DOMAIN members = {Owner, Bot} /\ members = [u \in DOMAIN members |-> members[u]]
      /\ members[Owner] = Joined(<<>>) /\ members[Bot] = Joined(<<Integration>>)
  BY GuildAssumption DEF GuildInit
<1>5. members[Owner] \in Member /\ members[Bot] \in Member
  BY <1>4, GuildAssumption DEF Joined, Member
<1>6. MembersRight(members)
  BY <1>4, <1>5, GuildAssumption DEF MembersRight
<1>7. Entries(members[Bot].role_ids) = {Integration}
  BY <1>4 DEF Joined, Entries
<1>8. Ranked(roles, members)
  BY <1>1, <1>7, HeldFacts DEF Ranked, Made
<1> QED BY <1>1, <1>3, <1>6, <1>7, <1>8 DEF GuildInv, TypeInv, Known, GuildInit

LEMMA StepKeeps == GuildInv /\ [GuildNext]_guildVars => GuildInv'
<1> SUFFICES ASSUME GuildInv, [GuildNext]_guildVars
             PROVE  GuildInv'
  OBVIOUS
<1>1. CASE BotCall
  BY <1>1, BotCallKeeps DEF BotKeeps
<1>2. CASE Fixture
  BY <1>2, FixtureKeeps
<1>3. CASE Clock
  BY <1>3, ClockKeeps
<1>4. CASE UNCHANGED guildVars
  BY <1>4 DEF guildVars, GuildInv, TypeInv, Ranked, Held, Known
<1> QED BY <1>1, <1>2, <1>3, <1>4 DEF GuildNext

\* A step the bot makes keeps the hierarchy above it and gives it nothing.
LEMMA StepHolds ==
  ASSUME GuildInv, [GuildNext]_guildVars, BotChanges
  PROVE  RanksStay /\ HigherStay /\ Reach' \subseteq Reach
<1>1. CASE BotCall
  BY <1>1, BotCallKeeps, KeptMeans DEF BotKeeps
<1>2. CASE Fixture \/ Clock
  BY <1>2 DEF Fixture, Clock, BotChanges
<1>3. CASE UNCHANGED guildVars
  BY <1>3 DEF guildVars, BotChanges
<1> QED BY <1>1, <1>2, <1>3 DEF GuildNext

-----------------------------------------------------------------------------

\* The bot's top role is always that of its integration, and none it holds is
\* above it: what the checks of the routes rest on.
THEOREM RankSound == GuildSpec => []GuildInv
  BY InitRanked, StepKeeps, PTL DEF GuildSpec

\* For all users, roles and permissions: no call of the bot reaches a member or
\* a role at or above its top role (require_hierarchy, require_role_assignable).
THEOREM RanksAlwaysKept == GuildSpec => RanksKept
<1>1. GuildInv /\ [GuildNext]_guildVars => [BotChanges => RanksStay /\ HigherStay]_guildVars
  BY StepHolds
<1> QED BY <1>1, RankSound, PTL DEF GuildSpec, RanksKept

\* Nor does one bring it a permission it could not already reach, whatever it
\* grants, moves, gives and takes in whatever order (require_can_grant).
THEOREM NeverEscalates == GuildSpec => NoEscalation
<1>1. GuildInv /\ [GuildNext]_guildVars => [BotChanges => Reach' \subseteq Reach]_guildVars
  BY StepHolds
<1> QED BY <1>1, RankSound, PTL DEF GuildSpec, NoEscalation

=============================================================================
