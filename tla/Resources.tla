------------------------------ MODULE Resources ------------------------------
(***************************************************************************)
(* What the clock alone brings to an end: entitlements, which purchases,   *)
(* fixtures and the test routes create and which end, are revoked or       *)
(* consumed, and scheduled events of guilds, which start and complete.     *)
(* Both keep a table of deadlines beside the entities, and a move of the   *)
(* clock settles everything that has become due.                           *)
(***************************************************************************)
EXTENDS Naturals, Sequences

CONSTANTS
  Catalogue,    \* sku -> [type, scope]: what create_sku arranged
  Users, Bot,   \* the bot is a user too
  Guilds,
  None,         \* no owner
  StartTimes, EndTimes, \* instants that starts and ends are given
  Schedules,    \* instants that ends of entitlements are scheduled for
  MaxEntities,  \* bound: entitlements and scheduled events created
  LastInstant   \* bound: moves of the clock

VARIABLES
  entitlements,  \* in the order of their creation, which stands for their ids
  endings,       \* the table of scheduled ends: ids -> times
  guilds,        \* guilds that exist
  events,        \* ids -> Event
  transitions,   \* the table of event deadlines: ids -> times
  issued,        \* scheduled events created so far
  clock,
  told           \* entitlement events emitted by the last step

resourceVars == <<entitlements, endings, guilds, events, transitions, issued, clock, told>>

Types == {"durable", "consumable", "subscription", "group"}

Scopes == {"guild", "user", "other"}

ASSUME ResourcesAssumption ==
  /\ \A s \in DOMAIN Catalogue : Catalogue[s] \in [type : Types, scope : Scopes]
  /\ None \notin Users \cup Guilds
  /\ LastInstant \in Nat /\ StartTimes \cup EndTimes \cup Schedules \subseteq 0..LastInstant

Unset == LastInstant + 2    \* None in starts_at, ends_at, scheduled_end_at

Without(table, k) == [j \in DOMAIN table \ {k} |-> table[j]]

With(table, k, v) == [j \in DOMAIN table \cup {k} |-> IF j = k THEN v ELSE table[j]]

MayCreate == Len(entitlements) + issued < MaxEntities

TypeOf(e) == Catalogue[e.sku].type

-----------------------------------------------------------------------------
(* Entitlements.                                                           *)

Started(e, at) == e.starts <= at \/ e.starts = Unset

Ended(e, at) == e.ends <= at

\* What makes a scheduled end acceptable.
MaySchedule(e, at) ==
  /\ TypeOf(e) = "subscription" /\ e.origin # "test" /\ ~e.deleted /\ ~e.consumed
  /\ e.ends = Unset
  /\ at > clock
  /\ e.starts # Unset => at > e.starts

ScheduleEntitlement(id, at) ==
  endings' = IF at = Unset THEN Without(endings, id) ELSE With(endings, id, at)

Insert(e) ==
  /\ MayCreate
  /\ TypeOf(e) # "group"
  /\ e.user # None \/ e.guild # None
  /\ e.starts # Unset /\ e.ends # Unset => e.ends >= e.starts
  /\ e.consumed => TypeOf(e) = "consumable"
  /\ e.scheduled # Unset => MaySchedule(e, e.scheduled)
  /\ entitlements' = Append(entitlements, e)
  /\ ScheduleEntitlement(Len(entitlements) + 1, e.scheduled)
  /\ UNCHANGED <<guilds, events, transitions, issued, clock>>

\* Arranged history: any state, and no event.
Seed(sku, user, guild, history, at) ==
  /\ Insert([sku |-> sku, user |-> user, guild |-> guild,
             starts |-> history.starts, ends |-> history.ends,
             deleted |-> history.deleted, consumed |-> history.consumed,
             origin |-> history.origin, scheduled |-> at])
  /\ told' = {}

Created == <<"create", Len(entitlements) + 1>>

\* A grant, or a purchase in test mode.
Granted == {"granted", "test mode"}
Grant(sku, user, guild, origin, starts, at) ==
  /\ starts >= clock
  /\ Insert([sku |-> sku, user |-> user, guild |-> guild, starts |-> starts, ends |-> Unset,
             deleted |-> FALSE, consumed |-> FALSE, origin |-> origin, scheduled |-> at])
  /\ told' = {Created}

\* A subscription that the owner of a test purchase still holds.
Holds(type, owner) ==
  \E id \in DOMAIN entitlements :
    LET e == entitlements[id]
    IN  /\ TypeOf(e) = "subscription" /\ ~e.deleted /\ ~Ended(e, clock)
        /\ IF type = "guild" THEN e.guild = owner ELSE e.guild = None /\ e.user = owner

CreateTest(sku, owner) ==
  LET type == IF owner \in Guilds THEN "guild" ELSE "user"
  IN  /\ Catalogue[sku] = [type |-> "subscription", scope |-> type]
      /\ ~Holds(type, owner)
      /\ Insert([sku |-> sku, user |-> IF type = "user" THEN owner ELSE Bot,
                 guild |-> IF type = "guild" THEN owner ELSE None,
                 starts |-> Unset, ends |-> Unset, deleted |-> FALSE, consumed |-> FALSE,
                 origin |-> "test", scheduled |-> Unset])
      /\ told' = {Created}

\* An existing entitlement becomes e, and the table follows.
Becomes(id, e, news) ==
  /\ entitlements' = [entitlements EXCEPT ![id] = e]
  /\ ScheduleEntitlement(id, e.scheduled)
  /\ told' = news
  /\ UNCHANGED <<guilds, events, transitions, issued, clock>>

ScheduleEnd(id, at) ==
  LET e == entitlements[id]
  IN  /\ at # Unset => MaySchedule(e, at)
      /\ Becomes(id, [e EXCEPT !.scheduled = at], {})

MayEnd(e, at) ==
  TypeOf(e) = "subscription" /\ e.origin # "test" /\ ~e.deleted /\ Started(e, at)

\* Ending clears the schedule, also of one that has ended already.
Over(e, at) ==
  [e EXCEPT !.scheduled = Unset, !.ends = IF Ended(e, at) THEN @ ELSE at]

End(id) ==
  LET e == entitlements[id]
  IN  /\ MayEnd(e, clock)
      /\ Becomes(id, Over(e, clock), IF Ended(e, clock) THEN {} ELSE {<<"update", id>>})

RevokeKeepingSchedule(id) ==
  LET e == entitlements[id]
  IN  Becomes(id, [e EXCEPT !.deleted = TRUE], IF e.deleted THEN {} ELSE {<<"delete", id>>})

Revoke(id) ==
  LET e == entitlements[id]
  IN  Becomes(id, [e EXCEPT !.scheduled = Unset, !.deleted = TRUE],
              IF e.deleted THEN {} ELSE {<<"delete", id>>})

DeleteTest(id) ==
  /\ ~entitlements[id].deleted
  /\ entitlements[id].origin \in {"test", "sandbox", "test mode"}
  /\ Revoke(id)

Consume(id) ==
  LET e == entitlements[id]
  IN  /\ ~e.deleted /\ TypeOf(e) = "consumable" /\ ~e.consumed
      /\ Becomes(id, [e EXCEPT !.consumed = TRUE], {<<"update", id>>})

\* The first announcement again; what is stored stays as it is.
ReplayCreate(id) ==
  /\ entitlements[id].origin \in Granted \cup {"test"}
  /\ Becomes(id, entitlements[id], {<<"create", id>>})

\* The access an invocation by the user, in the guild if any, comes with.
InteractionEntitlements(user, guild) ==
  {id \in DOMAIN entitlements :
     LET e == entitlements[id]
     IN  /\ IF e.guild # None THEN e.guild = guild ELSE e.user = user
         /\ ~e.deleted /\ ~e.consumed
         /\ Started(e, clock) /\ ~Ended(e, clock)}

-----------------------------------------------------------------------------
(* Scheduled events.  1 is scheduled, 2 active, 3 completed, 4 cancelled.  *)

\* The deadline of an event: its start, then its end if it has one.
DeadlineOf(e) ==
  CASE e.status = 1 -> e.start [] e.status = 2 -> e.end [] OTHER -> Unset

ScheduleEvent(table, id, e) ==
  IF DeadlineOf(e) = Unset THEN Without(table, id) ELSE With(table, id, DeadlineOf(e))

Store(id, e) ==
  /\ events' = With(events, id, e)
  /\ transitions' = ScheduleEvent(transitions, id, e)
  /\ told' = {}
  /\ UNCHANGED <<entitlements, endings, guilds, clock>>

CreateEvent(g, start, end) ==
  /\ g \in guilds
  /\ MayCreate
  /\ issued' = issued + 1
  /\ Store(issued + 1, [guild |-> g, status |-> 1, start |-> start, end |-> end, users |-> {}])

\* Any of the fields, to any value: nothing is validated.
EditEvent(id, status, start, end) ==
  /\ Store(id, [events[id] EXCEPT !.status = status, !.start = start, !.end = end])
  /\ UNCHANGED issued

Subscribe(id, user, subscribed) ==
  /\ events' = [events EXCEPT ![id].users = IF subscribed THEN @ \cup {user} ELSE @ \ {user}]
  /\ told' = {}
  /\ UNCHANGED <<entitlements, endings, guilds, transitions, issued, clock>>

\* Events leave with their deadlines, alone or with their guild.
Drop(ids) ==
  /\ events' = [id \in DOMAIN events \ ids |-> events[id]]
  /\ transitions' = [id \in DOMAIN transitions \ ids |-> transitions[id]]
  /\ told' = {}
  /\ UNCHANGED <<entitlements, endings, issued, clock>>

DeleteEvent(id) == Drop({id}) /\ UNCHANGED guilds

DeleteGuild(g) ==
  /\ g \in guilds
  /\ guilds' = guilds \ {g}
  /\ Drop({id \in DOMAIN events : events[id].guild = g})

AdvancedOnce(e, at) ==
  IF e.status = 1 /\ e.start <= at THEN [e EXCEPT !.status = 2]
  ELSE IF e.status = 2 /\ e.end <= at THEN [e EXCEPT !.status = 3] ELSE e

\* What one pass makes of a due event: it may start and complete at once.
Advanced(e, at) ==
  LET begun == IF e.status = 1 /\ e.start <= at THEN [e EXCEPT !.status = 2] ELSE e
  IN  IF begun.status = 2 /\ begun.end <= at THEN [begun EXCEPT !.status = 3] ELSE begun

-----------------------------------------------------------------------------
(* The clock.                                                              *)

DueIn(table, at) == {k \in DOMAIN table : table[k] <= at}

\* Events first, and one that starts may wait for its end from then on.
SettleEvents(at) ==
  LET after == [id \in DOMAIN events |->
                  IF id \in DueIn(transitions, at) THEN Advanced(events[id], at) ELSE events[id]]
      moved == {id \in DOMAIN events : after[id] # events[id]}
  IN  /\ events' = after
      /\ transitions' =
           [id \in {i \in DOMAIN transitions : i \in moved => DeadlineOf(after[i]) # Unset} |->
              IF id \in moved THEN DeadlineOf(after[id]) ELSE transitions[id]]

\* Then entitlements end in the order of their creation, up to one that
\* cannot: its error leaves the others as they are.
SettleEntitlements(at) ==
  LET due == {id \in DueIn(endings, at) : entitlements[id].scheduled <= at}
      fails == {id \in due : ~MayEnd(entitlements[id], at)}
      reached == {id \in due : \A f \in fails : id < f}
  IN  /\ entitlements' = [id \in DOMAIN entitlements |->
                            IF id \in reached THEN Over(entitlements[id], at) ELSE entitlements[id]]
      /\ endings' = [id \in DOMAIN endings \ reached |-> endings[id]]
      /\ told' = {<<"update", id>> : id \in {i \in reached : ~Ended(entitlements[i], at)}}

\* The clock stays or moves one instant, and what is due is settled.
Move(at) ==
  /\ at \in {clock, clock + 1}
  /\ clock' = at
  /\ SettleEvents(at)
  /\ SettleEntitlements(at)
  /\ UNCHANGED <<guilds, issued>>

ResourcesInit ==
  /\ entitlements = <<>>
  /\ endings = [id \in {} |-> {}]
  /\ guilds = Guilds
  /\ events = [id \in {} |-> {}]
  /\ transitions = [id \in {} |-> {}]
  /\ issued = 0
  /\ clock = 0
  /\ told = {}

Owners == {<<u, None>> : u \in Users} \cup {<<None, g>> : g \in Guilds}

\* Histories an entitlement is seeded with: where it is from, its start and
\* end, whether it is deleted or consumed.
History(origin, starts, ends, deleted, consumed) ==
  [origin |-> origin, starts |-> starts, ends |-> ends, deleted |-> deleted, consumed |-> consumed]
Histories ==
  {History("seeded", start, Unset, FALSE, FALSE) : start \in StartTimes \cup {Unset}} \cup
  {History("seeded", Unset, end, FALSE, FALSE) : end \in EndTimes} \cup
  {History("sandbox", start, Unset, TRUE, FALSE) : start \in StartTimes} \cup
  {History("seeded", Unset, Unset, FALSE, TRUE), History("sandbox", Unset, Unset, FALSE, FALSE)}

ResourcesNext ==
  \/ \E sku \in DOMAIN Catalogue, o \in Owners, h \in Histories, at \in Schedules \cup {Unset} :
       Seed(sku, o[1], o[2], h, at)
  \/ \E sku \in DOMAIN Catalogue, o \in Owners, origin \in Granted,
        starts \in StartTimes \cup {Unset}, at \in Schedules \cup {Unset} :
       Grant(sku, o[1], o[2], origin, starts, at)
  \/ \E sku \in DOMAIN Catalogue, owner \in Users \cup Guilds \cup {Bot} : CreateTest(sku, owner)
  \/ \E id \in DOMAIN entitlements, at \in Schedules \cup {Unset} : ScheduleEnd(id, at)
  \/ \E id \in DOMAIN entitlements : End(id)
  \/ \E id \in DOMAIN entitlements : Revoke(id)
  \/ \E id \in DOMAIN entitlements : DeleteTest(id)
  \/ \E id \in DOMAIN entitlements : Consume(id)
  \/ \E id \in DOMAIN entitlements : ReplayCreate(id)
  \/ \E g \in Guilds, start \in StartTimes, end \in EndTimes \cup {Unset} : CreateEvent(g, start, end)
  \/ \E id \in DOMAIN events, status \in 1..4, start \in StartTimes, end \in EndTimes \cup {Unset} :
       EditEvent(id, status, start, end)
  \/ \E id \in DOMAIN events, u \in Users, subscribed \in BOOLEAN : Subscribe(id, u, subscribed)
  \/ \E id \in DOMAIN events : DeleteEvent(id)
  \/ \E g \in Guilds : DeleteGuild(g)
  \/ \E at \in 0..LastInstant : Move(at)

ResourcesSpec == ResourcesInit /\ [][ResourcesNext]_resourceVars

-----------------------------------------------------------------------------
(* Properties.                                                             *)

\* Every variable has its type.
Times == 0..Unset
Entitlement ==
  [sku : DOMAIN Catalogue, user : Users \cup {Bot, None}, guild : Guilds \cup {None},
   starts : Times, ends : Times, deleted : BOOLEAN, consumed : BOOLEAN,
   origin : {"seeded", "sandbox", "test"} \cup Granted, scheduled : Times]
Event == [guild : Guilds, status : 1..4, start : Times, end : Times, users : SUBSET Users]
ResourcesTypeOK ==
  /\ entitlements \in Seq(Entitlement)
  /\ DOMAIN events \subseteq 1..issued
  /\ events \in [DOMAIN events -> Event]
  /\ DOMAIN transitions \subseteq DOMAIN events /\ DOMAIN endings \subseteq DOMAIN entitlements
  /\ guilds \subseteq Guilds /\ issued \in Nat /\ clock \in 0..LastInstant

\* The tables hold exactly the deadlines of what exists, of guilds that
\* exist, and whoever has a scheduled end can still be ended when it comes
\* (_schedule_event, _schedule_entitlement, delete_guild).
Scheduled ==
  /\ transitions = [id \in {i \in DOMAIN events : DeadlineOf(events[i]) # Unset} |->
                      DeadlineOf(events[id])]
  /\ \A id \in DOMAIN events : events[id].guild \in guilds
  /\ endings = [id \in {i \in DOMAIN entitlements : entitlements[i].scheduled # Unset} |->
                  entitlements[id].scheduled]
  /\ \A id \in DOMAIN endings : MayEnd(entitlements[id], endings[id])

\* A move of the clock leaves nothing due behind: a deadline that stayed
\* would be the next instant of _advance_to forever.  Events only go forward,
\* and no entitlement is ended ahead of its time.
SettlesAllDue ==
  clock' > clock =>
    /\ DueIn(transitions', clock') = {} /\ DueIn(endings', clock') = {}
    /\ \A id \in DOMAIN events :
         /\ events'[id].status >= events[id].status
         /\ events'[id].status = 2 => events'[id].end > clock'
    /\ \A id \in DOMAIN entitlements :
         entitlements'[id].ends # entitlements[id].ends =>
           entitlements[id].scheduled = clock'

Gone(e, at) == e.deleted \/ e.consumed \/ Ended(e, at)

\* Access that is lost never comes back, through no replayed announcement, no
\* new schedule and no passing of time; each loss that a call or a scheduled
\* end causes is announced once, and an invocation comes with what an earlier
\* one did not only once it has started (interaction_entitlements).
RestoresNothing ==
  /\ \A id \in DOMAIN entitlements :
       LET e == entitlements[id]
           f == entitlements'[id]
           update == e.consumed # f.consumed \/ e.ends # f.ends
       IN  /\ Gone(e, clock) => Gone(f, clock')
           /\ <<"delete", id>> \in told' <=> e.deleted # f.deleted
           /\ <<"update", id>> \in told' <=> update
  /\ \A u \in Users, g \in Guilds \cup {None} :
       \A id \in InteractionEntitlements(u, g)' \cap DOMAIN entitlements :
         id \in InteractionEntitlements(u, g) \/ ~Started(entitlements[id], clock)

\* The test route gives an owner one subscription at a time, whoever else
\* pays for the guild (create_test_entitlement).
OneTrial ==
  \A i, j \in DOMAIN entitlements :
    LET d == entitlements[i]
        e == entitlements[j]
    IN  /\ d.origin = "test" /\ e.origin = "test" /\ ~Gone(d, clock) /\ ~Gone(e, clock)
        /\ d.guild = e.guild /\ (d.guild = None => d.user = e.user)
        => i = j

\* The tables of deadlines are those of what exists, and nobody holds two
\* subscriptions of the test route (_schedule_event, delete_guild).
TablesFollow == ResourcesTypeOK /\ Scheduled /\ OneTrial

\* A move of the clock settles everything due, and access that is lost stays
\* lost and is announced once (activate_due_scheduled_events, end_entitlement).
DueSettles == [][SettlesAllDue /\ RestoresNothing]_resourceVars
=============================================================================
