------------------------------ MODULE Snowflakes ------------------------------
(***************************************************************************)
(* Ids of one backend: allocation at the virtual clock, for a shard and    *)
(* from explicit values, and the invite codes derived from ids.            *)
(* The id (milliseconds << 22) | sequence is the pair of its two parts.    *)
(***************************************************************************)
EXTENDS Integers, Sequences

CONSTANTS
  Slots,      \* bound: ids of one millisecond, 1 << 22 in the code
  MaxMs,      \* milliseconds an id has room for, 1 << 42
  ShardCount,
  Starts,     \* where the clock may start
  Steps,      \* bound: milliseconds the clock advances by
  Horizon,    \* bound: the clock stops here
  Explicit,   \* bound: ids fixtures ask for
  MaxGiven    \* bound: ids given out

Ids == ((0..(MaxMs - 1)) \X (0..(Slots - 1))) \ {<<0, 0>>}

ASSUME SnowflakesAssumption ==
  /\ Slots \in Nat \ {0} /\ MaxMs \in Nat /\ ShardCount \in Nat \ {0}
  /\ Horizon \in Nat /\ MaxGiven \in Nat
  /\ Starts \subseteq Nat /\ Steps \subseteq Nat
  /\ \A id \in Explicit : id \in Ids

VARIABLES
  ms,        \* the clock, in whole milliseconds since Discord's epoch
  start,     \* where it started
  reserved,  \* _reserved_ids
  sequences, \* _sequences: the next slot of each millisecond
  given,     \* history: every id given out, in order, and for whom
  invites    \* invite codes -> the id the code was made of

vars == <<ms, start, reserved, sequences, given, invites>>

Init ==
  /\ start \in Starts
  /\ ms = start
  /\ reserved = {}
  /\ sequences = [m \in {} |-> 0]
  /\ given = <<>>
  /\ invites = [c \in {} |-> <<0, 0>>]

-----------------------------------------------------------------------------
(* _allocate_at                                                            *)

\* Mutant: the first slot is never used.
FirstSlotOne(m) == 1

\* Id zero is never given out.
FirstSlot(m) == IF m = 0 THEN 1 ELSE 0

Sequence(m) == IF m \in DOMAIN sequences THEN sequences[m] ELSE FirstSlot(m)

\* The loop stops at the first slot that is not reserved.
IsNext(m, slot) ==
  /\ slot \in Sequence(m)..(Slots - 1) /\ <<m, slot>> \notin reserved
  /\ \A k \in Sequence(m)..(slot - 1) : <<m, k>> \in reserved

\* Mutant: an id that is given out is not reserved.
GiveUnreserved(m, slot, by, shard) ==
  /\ given' = Append(given, [id |-> <<m, slot>>, by |-> by, shard |-> shard])
  /\ sequences' = [k \in DOMAIN sequences \cup {m} |-> IF k = m THEN slot + 1 ELSE sequences[k]]
  /\ UNCHANGED reserved

Give(m, slot, by, shard) ==
  /\ given' = Append(given, [id |-> <<m, slot>>, by |-> by, shard |-> shard])
  /\ sequences' = [k \in DOMAIN sequences \cup {m} |-> IF k = m THEN slot + 1 ELSE sequences[k]]
  /\ reserved' = reserved \cup {<<m, slot>>}

\* Outside the range, and when the millisecond is exhausted, it raises.
AllocateAt(m, by, shard) ==
  /\ Len(given) < MaxGiven
  /\ m \in 0..(MaxMs - 1)
  /\ \E slot \in Sequence(m)..(Slots - 1) : IsNext(m, slot) /\ Give(m, slot, by, shard)

Snowflake == AllocateAt(ms, "clock", 0) /\ UNCHANGED <<ms, start, invites>>

\* The latest millisecond that belongs to the shard.
ShardMs(shard) == ms - ((ms - shard) % ShardCount)

\* snowflake_for_shard: before the epoch it raises.
SnowflakeForShard(shard) ==
  AllocateAt(ShardMs(shard), "shard", shard) /\ UNCHANGED <<ms, start, invites>>

\* reserve_id raises when the id is taken.
ReserveId(id) ==
  /\ Len(given) < MaxGiven
  /\ id \notin reserved
  /\ reserved' = reserved \cup {id}
  /\ given' = Append(given, [id |-> id, by |-> "explicit", shard |-> 0])
  /\ UNCHANGED <<ms, start, sequences, invites>>

\* The remainder of the 64-bit id by 10^8, where 1 << 22 is 2^8 * 128 * 128 and
\* 10^8 is 2^8 * 390625.
Code(id) ==
  (256 * ((128 * ((128 * (id[1] % 390625)) % 390625)) % 390625) + id[2]) % 100000000

\* create_invite stores the invite under the code of a fresh id.
CreateInvite ==
  /\ AllocateAt(ms, "clock", 0)
  /\ LET id == given'[Len(given')].id
     IN invites' = [c \in DOMAIN invites \cup {Code(id)} |->
                      IF c = Code(id) THEN id ELSE invites[c]]
  /\ UNCHANGED <<ms, start>>

DeleteInvite(code) ==
  /\ invites' = [c \in DOMAIN invites \ {code} |-> invites[c]]
  /\ UNCHANGED <<ms, start, reserved, sequences, given>>

\* Clock.advance
Advance(step) ==
  /\ ms + step <= Horizon
  /\ ms' = ms + step
  /\ UNCHANGED <<start, reserved, sequences, given, invites>>

Next ==
  \/ Snowflake
  \/ \E shard \in 0..(ShardCount - 1) : SnowflakeForShard(shard)
  \/ \E id \in Explicit : ReserveId(id)
  \/ CreateInvite
  \/ \E code \in DOMAIN invites : DeleteInvite(code)
  \/ \E step \in Steps : Advance(step)

Spec == Init /\ [][Next]_vars

-----------------------------------------------------------------------------
(* Properties                                                              *)

\* Who asked for an id, and the shard it was asked for.
Given == [id : Ids, by : {"clock", "shard", "explicit"}, shard : 0..(ShardCount - 1)]

\* Every variable has its type, and what was given out is reserved.
TypeOK ==
  /\ ms \in Nat /\ start \in Starts
  /\ reserved \subseteq Ids
  /\ DOMAIN sequences \subseteq 0..(MaxMs - 1)
  /\ \A m \in DOMAIN sequences : sequences[m] \in 0..Slots
  /\ given \in Seq(Given)
  /\ \A i \in DOMAIN given : given[i].id \in reserved
  /\ \A c \in DOMAIN invites : invites[c] \in reserved

\* An id is given out once, whoever asks for it and in whatever order.
Distinct ==
  \A i, j \in DOMAIN given : given[i].id = given[j].id => i = j

Before(a, b) == a[1] < b[1] \/ (a[1] = b[1] /\ a[2] < b[2])

\* Ids allocated at the clock grow, whatever shards and fixtures take between
\* them: messages sorted by id are in the order they were sent.
Ordered ==
  \A i, j \in DOMAIN given :
    (i < j /\ given[i].by = "clock" /\ given[j].by = "clock") => Before(given[i].id, given[j].id)

\* A millisecond is exhausted only when each of its ids has been taken.
NothingSkipped ==
  \A m \in DOMAIN sequences : \A k \in 0..(sequences[m] - 1) :
    <<m, k>> \in reserved \cup {<<0, 0>>}

\* An id allocated for a shard is routed to it, and is never from the future.
ShardRouted ==
  \A i \in DOMAIN given :
    given[i].by = "shard" =>
      given[i].id[1] % ShardCount = given[i].shard /\ given[i].id[1] <= ms

\* What the allocator owes besides distinct ids: they are reserved, grow with
\* the clock, belong to their shards, and no slot is given up.
IdsSound == TypeOK /\ Ordered /\ NothingSkipped /\ ShardRouted
=============================================================================
