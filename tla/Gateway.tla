------------------------------- MODULE Gateway -------------------------------
(***************************************************************************)
(* Shards, intents and member chunks (gateway.py, intents.py): which events *)
(* of the backend reach the bot's cache, what a shard replays when it comes *)
(* back, and how requests for members are answered while members and guilds *)
(* come and go.  The cache is discord.py's.                                 *)
(***************************************************************************)
EXTENDS FiniteSets

CONSTANTS
  Guilds, Users, Shards,
  ShardOf,      \* the shard a guild's id belongs to
  Large,        \* guilds above the large threshold
  Requests      \* bound: requests for members under way

GatewayAssumption == ShardOf \in [Guilds -> Shards] /\ Large \subseteq Guilds

VARIABLES
  guild,    \* the backend's guilds and their members; Gone: there is none
  intents,  \* what the bot declared
  open,     \* the shards whose connection is open
  cache,    \* the guilds the bot knows, and the members it knows of them
  request   \* requests for members

vars == <<guild, intents, open, cache, request>>

Gone == [there |-> FALSE, members |-> {}]
Idle == [stage |-> "idle"]

Declared(i) == i \in intents
Live(g) == guild[g].there
Reaches(g, intent) == ShardOf[g] \in open /\ Declared(intent)

(***************************************************************************)
(* What discord.py makes of an event that is fed to it.                     *)
(***************************************************************************)

\* GUILD_CREATE holds few members, unless presences are declared.  It is merged
\* into a guild the bot already knows: the payload says that the guild was not
\* unavailable, and no member it knew is taken out.
Inlined(g, members) == IF Declared("presences") /\ g \notin Large THEN members ELSE {}
Knows(g, members) == [there |-> TRUE, members |-> cache[g].members \cup Inlined(g, members)]

Wants(g) == Declared("members") /\ cache[g].there

(***************************************************************************)
(* The backend's events, fed as they happen.                                *)
(***************************************************************************)
CreateGuild(g) ==
  /\ ~Live(g)
  /\ \E members \in {{}} \cup {{u} : u \in Users} :  \* the owner, if he is one of Users
       /\ guild' = [guild EXCEPT ![g] = [there |-> TRUE, members |-> members]]
       /\ cache' = IF Reaches(g, "guilds") THEN [cache EXCEPT ![g] = Knows(g, members)] ELSE cache
  /\ UNCHANGED <<intents, open, request>>

RemoveGuild(g) ==
  /\ Live(g)
  /\ guild' = [guild EXCEPT ![g] = Gone]
  /\ cache' = IF Reaches(g, "guilds") THEN [cache EXCEPT ![g] = Gone] ELSE cache
  /\ UNCHANGED <<intents, open, request>>

Join(g, u) ==
  /\ Live(g)
  /\ guild' = [guild EXCEPT ![g].members = @ \cup {u}]
  /\ cache' = IF Reaches(g, "members") /\ cache[g].there
              THEN [cache EXCEPT ![g].members = @ \cup {u}] ELSE cache
  /\ UNCHANGED <<intents, open, request>>

Leave(g, u) ==
  /\ Live(g) /\ u \in guild[g].members
  /\ guild' = [guild EXCEPT ![g].members = @ \ {u}]
  /\ cache' = IF Reaches(g, "members") THEN [cache EXCEPT ![g].members = @ \ {u}] ELSE cache
  /\ UNCHANGED <<intents, open, request>>

(***************************************************************************)
(* A shard's connection.  It misses what happens while it is closed; then   *)
(* it identifies anew and is told its guilds, and the ones that are gone.   *)
(***************************************************************************)
Disconnect(s) ==
  /\ s \in open /\ open' = open \ {s}
  /\ UNCHANGED <<guild, intents, cache, request>>

\* what a mutant does: only the guilds there are are replayed
ReplayedLive(g) == IF Live(g) THEN Knows(g, guild[g].members) ELSE cache[g]

Replayed(g) == IF Live(g) THEN Knows(g, guild[g].members) ELSE Gone

Reconnect(s) ==
  LET mine == {g \in Guilds : ShardOf[g] = s}
  IN  /\ s \notin open /\ open' = open \cup {s}
      /\ cache' = [g \in Guilds |->
                     IF g \in mine /\ Declared("guilds") THEN Replayed(g) ELSE cache[g]]
      /\ UNCHANGED <<guild, intents, request>>

(***************************************************************************)
(* Requests for members.  The answer is made of the members there are now;  *)
(* a task delivers it, one turn of the loop after its first step, when the  *)
(* waiter is registered; who has left by then is taken out.                 *)
(***************************************************************************)
Ask(r, g, kind) ==
  /\ request[r].stage = "idle"
  /\ IF kind = "chunk"
     THEN Wants(g) /\ \A x \in Requests : request[x].stage # "idle" =>
                                            request[x].guild # g \/ request[x].kind = "query"
     ELSE cache[g].there
  /\ \E members \in IF kind = "chunk" THEN {guild[g].members} ELSE SUBSET guild[g].members :
       request' = [request EXCEPT ![r] = [stage |-> "asked", guild |-> g, kind |-> kind,
                                          members |-> members, found |-> Live(g),
                                          started |-> FALSE, waiter |-> FALSE]]
  /\ UNCHANGED <<guild, intents, open, cache>>

\* the request's own coroutine goes on to wait for it
Register(r) ==
  /\ request[r].stage \in {"asked", "delivered"} /\ ~request[r].waiter
  /\ request' = [request EXCEPT ![r].waiter = TRUE]
  /\ UNCHANGED <<guild, intents, open, cache>>

StartDelivery(r) ==
  /\ request[r].stage = "asked" /\ ~request[r].started
  /\ request' = [request EXCEPT ![r].started = TRUE]
  /\ UNCHANGED <<guild, intents, open, cache>>

\* the loop is fair: what was ready at the task's first step has run
Ripe(r) == request[r].started /\ request[r].waiter

Present(r) ==
  LET g == request[r].guild
  IN  IF Live(g) THEN request[r].members \cap guild[g].members ELSE request[r].members

\* discord.py drops a chunk of a guild it no longer knows, and there is none for
\* a guild that was gone; the request for a whole guild is resolved all the same
Resolves(r) == \/ cache[request[r].guild].there /\ request[r].found
               \/ request[r].kind = "chunk"

Deliver(r) ==
  LET g == request[r].guild
  IN  /\ request[r].stage = "asked" /\ Ripe(r)
      /\ cache' = IF cache[g].there THEN [cache EXCEPT ![g].members = @ \cup Present(r)] ELSE cache
      /\ request' = [request EXCEPT ![r] = IF Resolves(r) /\ @.waiter THEN Idle
                                           ELSE [@ EXCEPT !.stage = "delivered"]]
      /\ UNCHANGED <<guild, intents, open>>

\* a query nobody answers ends with discord.py's own timeout
QueryTimeout(r) ==
  /\ request[r].stage = "delivered" /\ request[r].kind = "query" /\ request[r].waiter
  /\ request' = [request EXCEPT ![r] = Idle]
  /\ UNCHANGED <<guild, intents, open, cache>>

Init ==
  /\ guild = [g \in Guilds |-> Gone]
  /\ intents \in {{"guilds"}, {"guilds", "members"}, {"guilds", "members", "presences"}}
  /\ open = Shards
  /\ cache = [g \in Guilds |-> Gone]
  /\ request = [r \in Requests |-> Idle]

Next ==
  \/ \E g \in Guilds : CreateGuild(g) \/ RemoveGuild(g) \/ \E u \in Users : Join(g, u) \/ Leave(g, u)
  \/ \E s \in Shards : Disconnect(s) \/ Reconnect(s)
  \/ \E r \in Requests, g \in Guilds, kind \in {"chunk", "query"} : Ask(r, g, kind)
  \/ \E r \in Requests : Register(r) \/ StartDelivery(r) \/ Deliver(r) \/ QueryTimeout(r)

\* the loop runs what is ready
Fairness == \A r \in Requests : /\ WF_vars(Register(r)) /\ WF_vars(StartDelivery(r))
                                /\ WF_vars(Deliver(r)) /\ WF_vars(QueryTimeout(r))
Spec == Init /\ [][Next]_vars /\ Fairness

(***************************************************************************)
(* Properties                                                              *)
(***************************************************************************)

\* While its shard is open a bot knows exactly the guilds there are, also after a
\* connection was lost while guilds came and went (ShardRouter.identify).
BotKnows == \A g \in Guilds : ShardOf[g] \in open => (cache[g].there <=> Live(g))

\* Who the bot takes for a member and is none.  A member who leaves while the
\* shard is closed stays such a one, since a replay only adds; but no step that
\* ends with the shard open makes one, neither a departure, nor a reconnect, nor
\* an answer that was on its way when the member left (_drop_departed_members).
Stale(g) == cache[g].members \ guild[g].members
NobodyResurrected ==
  \A g \in Guilds : ShardOf[g] \in open' /\ Declared("members") => Stale(g)' \subseteq Stale(g)

=============================================================================
