------------------------------ MODULE Moderation ------------------------------
(***************************************************************************)
(* One guild's roles, members and bans: how effective permissions are      *)
(* computed from roles, overwrites and a timeout (permission values are    *)
(* sets of bits), the checks route handlers make with them before they     *)
(* act, the calls the bot may make, each with the checks of its route, and *)
(* the edits a test makes with the guild handle, which are not checked.    *)
(***************************************************************************)
EXTENDS Integers, FiniteSets, Sequences

CONSTANTS
  Bits,            \* permission bits
  ADMINISTRATOR,   \* the bit that stands for all of them
  TimeoutMask,     \* what a timed-out member keeps
  Users,           \* user ids
  Roles,           \* role ids
  Everyone,        \* the role that has the id of the guild
  Owner,           \* the owner of the guild
  Bot,             \* the bot, never the owner
  Integration,     \* its managed role
  Named,           \* roles that can be created, each once: ids are not reused
  Strangers,       \* ids of no known user
  ManageRoles, KickMembers, BanMembers, ManageGuild, ModerateMembers, \* bits
  DefaultPermissions,     \* of @everyone
  IntegrationPermissions,
  PermissionChoices,      \* bound: permissions a role is given
  PositionChoices,        \* bound: positions a role is given
  ListChoices,            \* bound: lists of roles a member is given
  MaxRoles,               \* bound: entries in such a list
  Joining                 \* bound: users the test adds and removes

RoleLists == UNION {[1..n -> Roles] : n \in 0..MaxRoles}

ASSUME BitsAssumption == ADMINISTRATOR \in Bits /\ TimeoutMask \subseteq Bits

ASSUME GuildAssumption ==
  /\ {Bot, Owner} \subseteq Users /\ Bot # Owner /\ Users \cap Roles = {}
  /\ Roles = Named \cup {Everyone, Integration}
  /\ Everyone \notin Named /\ Integration \notin Named \cup {Everyone}
  /\ Strangers \cap Users = {}
  /\ {ManageRoles, KickMembers, BanMembers, ManageGuild, ModerateMembers} \subseteq Bits
  /\ DefaultPermissions \subseteq Bits
  /\ IntegrationPermissions \subseteq Bits \ {ADMINISTRATOR}
  /\ PermissionChoices \subseteq SUBSET Bits
  /\ PositionChoices \subseteq Int
  /\ MaxRoles \in Nat /\ ListChoices \subseteq RoleLists
  /\ Joining \subseteq Users \ {Bot}

Role == [position : Int, permissions : SUBSET Bits, managed : BOOLEAN]

Member == [role_ids : Seq(Roles), timed_out : BOOLEAN]

Overwrite ==
  [target : Users \cup Roles, type : {"role", "member"},
   allow : SUBSET Bits, deny : SUBSET Bits]

\* A member's roles that still exist.
Held(roles, member) ==
  {r \in DOMAIN roles : \E i \in DOMAIN member.role_ids : member.role_ids[i] = r}

Base(roles, member) ==
  roles[Everyone].permissions
    \cup UNION {roles[r].permissions : r \in Held(roles, member)}

\* by_target: of two overwrites for one target the later counts.
ByTarget(overwrites, target) ==
  {o \in {overwrites[i] : i \in DOMAIN overwrites} :
     \E i \in DOMAIN overwrites :
       /\ overwrites[i] = o
       /\ o.target = target
       /\ \A j \in DOMAIN overwrites : overwrites[j].target = target => j <= i}

\* One step of the algorithm: what the overwrites deny, then what they allow.
Applied(bits, chosen) ==
  (bits \ UNION {o.deny : o \in chosen}) \cup UNION {o.allow : o \in chosen}

RoleOverwrites(overwrites, member) ==
  {o \in UNION {ByTarget(overwrites, member.role_ids[i]) : i \in DOMAIN member.role_ids} :
     o.type = "role"}

MemberOverwrites(overwrites, user) ==
  {o \in ByTarget(overwrites, user) : o.type = "member"}

InChannel(bits, overwrites, user, member) ==
  Applied(Applied(Applied(bits, ByTarget(overwrites, Everyone)),
                  RoleOverwrites(overwrites, member)),
          MemberOverwrites(overwrites, user))

\* compute: no overwrites outside a channel.
Compute(roles, members, user, overwrites) ==
  IF user = Owner THEN Bits
  ELSE IF user \notin DOMAIN members THEN {}
  ELSE LET member == members[user]
           base == Base(roles, member)
       IN IF ADMINISTRATOR \in base THEN Bits
          ELSE InChannel(base, overwrites, user, member)
                 \cap (IF member.timed_out THEN TimeoutMask ELSE Bits)

GuildPermissions(roles, members, user) == Compute(roles, members, user, <<>>)

\* require_permissions outside a channel.
Permitted(roles, members, user, names) ==
  user \in DOMAIN members /\ names \subseteq GuildPermissions(roles, members, user)

-----------------------------------------------------------------------------
(* The role hierarchy.                                                     *)

\* top_role_position: 0 without a role.
TopPosition(roles, members, user) ==
  LET held == IF user \in DOMAIN members THEN Held(roles, members[user]) ELSE {}
      positions == {roles[r].position : r \in held}
  IN IF held = {} THEN 0 ELSE CHOOSE p \in positions : \A q \in positions : q <= p

\* require_hierarchy
Moderates(roles, members, actor, target) ==
  \/ actor = Owner
  \/ target \notin DOMAIN members
  \/ /\ target # Owner
     /\ TopPosition(roles, members, target) < TopPosition(roles, members, actor)

\* require_position_assignable
PositionAssignable(roles, members, actor, position) ==
  actor = Owner \/ position < TopPosition(roles, members, actor)

\* require_role_assignable
Assignable(roles, members, actor, role) ==
  /\ role \in DOMAIN roles
  /\ PositionAssignable(roles, members, actor, roles[role].position)

\* require_can_grant
CanGrant(roles, members, actor, permissions) ==
  \/ actor = Owner
  \/ ADMINISTRATOR \in GuildPermissions(roles, members, actor)
  \/ permissions \subseteq GuildPermissions(roles, members, actor)

-----------------------------------------------------------------------------
(* The guild.                                                              *)

VARIABLES
  roles,     \* existing role ids -> Role
  members,   \* users in the guild -> Member
  bans,      \* ids
  created,   \* role ids given out so far
  by         \* who made the last call: the bot, the test or the clock

guildVars == <<roles, members, bans, created, by>>

Joined(list) == [role_ids |-> list, timed_out |-> FALSE]
Made(position, permissions, managed) ==
  [position |-> position, permissions |-> permissions, managed |-> managed]
With(f, x, y) == [z \in DOMAIN f \cup {x} |-> IF z = x THEN y ELSE f[z]]

GuildInit ==
  /\ roles = [r \in {Everyone, Integration} |->
                IF r = Everyone THEN Made(0, DefaultPermissions, FALSE)
                ELSE Made(1, IntegrationPermissions, TRUE)]
  /\ members = [u \in {Owner, Bot} |-> Joined(IF u = Owner THEN <<>> ELSE <<Integration>>)]
  /\ bans = {}
  /\ created = {}
  /\ by = "test"

Entries(list) == {list[i] : i \in DOMAIN list}

BotMay(names) == Permitted(roles, members, Bot, names)
BotAssigns(r) == Assignable(roles, members, Bot, r)
BotPlaces(position) == PositionAssignable(roles, members, Bot, position)
BotModerates(u) == Moderates(roles, members, Bot, u)

RolesOnly == UNCHANGED <<members, bans, created>>
MembersOnly == UNCHANGED <<roles, bans, created>>

-----------------------------------------------------------------------------
(* Roles                                                                   *)

\* A role created without a position pushes every role above @everyone up.
Shifted(rs) ==
  [r \in DOMAIN rs |->
     IF rs[r].position >= 1 THEN [rs[r] EXCEPT !.position = @ + 1] ELSE rs[r]]

CreateRole(r, permissions) ==
  /\ r \in Named \ created
  /\ created' = created \cup {r}
  /\ roles' = With(Shifted(roles), r, Made(1, permissions, FALSE))
  /\ UNCHANGED <<members, bans>>

\* create_role of the guild handle, where a position may be given.
FixtureCreateRole(r, permissions, position) ==
  /\ r \in Named \ created
  /\ created' = created \cup {r}
  /\ roles' = With(roles, r, Made(position, permissions, FALSE))
  /\ UNCHANGED <<members, bans>>

BotCreateRole(r, permissions) ==
  /\ BotMay({ManageRoles})
  /\ CanGrant(roles, members, Bot, permissions)
  /\ CreateRole(r, permissions)

\* Mutant: what a role is edited to may exceed what the bot holds.
EditableUngranted(r, permissions) == BotMay({ManageRoles}) /\ BotAssigns(r)

Editable(r, permissions) ==
  /\ BotMay({ManageRoles})
  /\ BotAssigns(r)
  /\ CanGrant(roles, members, Bot, permissions)

BotEditRole(r, permissions) ==
  /\ r \in DOMAIN roles
  /\ Editable(r, permissions)
  /\ roles' = [roles EXCEPT ![r].permissions = permissions]
  /\ RolesOnly

\* Every entry of the batch is checked before the first one is applied.
BotMoveRoles(r, s, p, q) ==
  LET named == {r, s} \cap DOMAIN roles
      place == [x \in named |-> IF x = s THEN q ELSE p]
  IN /\ BotMay({ManageRoles})
     /\ \A x \in named : BotAssigns(x)
     /\ (r \in named => BotPlaces(p)) /\ (s \in named => BotPlaces(q))
     /\ roles' = [x \in DOMAIN roles |->
                    IF x \in named THEN [roles[x] EXCEPT !.position = place[x]] ELSE roles[x]]
     /\ RolesOnly

\* list.remove: the first occurrence goes.
Without(list, r) ==
  IF \E i \in DOMAIN list : list[i] = r
  THEN LET at == CHOOSE i \in DOMAIN list : list[i] = r /\ \A j \in 1..(i - 1) : list[j] # r
       IN [i \in 1..(Len(list) - 1) |-> IF i < at THEN list[i] ELSE list[i + 1]]
  ELSE list

BotDeleteRole(r) ==
  /\ BotMay({ManageRoles})
  /\ BotAssigns(r)
  /\ ~roles[r].managed /\ r # Everyone
  /\ roles' = [x \in DOMAIN roles \ {r} |-> roles[x]]
  /\ members' = [u \in DOMAIN members |->
                   [members[u] EXCEPT !.role_ids = Without(@, r)]]
  /\ UNCHANGED <<bans, created>>

-----------------------------------------------------------------------------
(* Members                                                                 *)

FixtureAddMember(u, list) ==
  /\ \A i \in DOMAIN list : list[i] \in DOMAIN roles
  /\ members' = With(members, u, Joined(list))
  /\ MembersOnly

Removed(gone) == [u \in DOMAIN members \ gone |-> members[u]]

FixtureRemoveMember(u) ==
  /\ u \in DOMAIN members
  /\ members' = Removed({u})
  /\ MembersOnly

BotAddRole(u, r) ==
  LET list == members[u].role_ids
  IN /\ BotMay({ManageRoles})
     /\ u \in DOMAIN members
     /\ BotAssigns(r)
     /\ Len(list) < MaxRoles
     /\ members' = [members EXCEPT ![u].role_ids =
                      IF r \in Entries(list) THEN list ELSE Append(list, r)]
     /\ MembersOnly

BotRemoveRole(u, r) ==
  /\ BotMay({ManageRoles})
  /\ u \in DOMAIN members
  /\ BotAssigns(r)
  /\ members' = [members EXCEPT ![u].role_ids = Without(@, r)]
  /\ MembersOnly

\* Mutant: only the roles a member gains are checked, not those it loses.
ChangedGained(old, new) == Entries(new) \ Entries(old)

\* The roles an edit adds or takes away.
Changed(old, new) ==
  (Entries(new) \ Entries(old)) \cup (Entries(old) \ Entries(new))

\* One PATCH may replace the list of roles and set or lift a timeout.
BotEditMember(u, roleEdit, timeout) ==
  /\ u \in DOMAIN members
  /\ roleEdit.given =>
       /\ BotMay({ManageRoles})
       /\ \A r \in Changed(members[u].role_ids, roleEdit.list) : BotAssigns(r)
  /\ timeout # "omitted" => BotMay({ModerateMembers}) /\ BotModerates(u)
  /\ members' = [members EXCEPT
                   ![u].role_ids = IF roleEdit.given THEN roleEdit.list ELSE @,
                   ![u].timed_out = IF timeout = "omitted" THEN @ ELSE timeout = "set"]
  /\ MembersOnly

RoleEdits == {[given |-> FALSE, list |-> <<>>]}
               \cup {[given |-> TRUE, list |-> list] : list \in ListChoices}

\* The clock reaches the end of a member's timeout.
TimeoutEnds(u) ==
  /\ u \in DOMAIN members /\ members[u].timed_out
  /\ members' = [members EXCEPT ![u].timed_out = FALSE]
  /\ MembersOnly

BotKick(u) ==
  /\ BotMay({KickMembers})
  /\ BotModerates(u)
  /\ u \in DOMAIN members
  /\ members' = Removed({u})
  /\ MembersOnly

\* Members without a role, never the bot or the owner.
Prunable == {u \in DOMAIN members \ {Bot, Owner} : members[u].role_ids = <<>>}

BotPrune ==
  /\ BotMay({KickMembers})
  /\ members' = Removed(Prunable)
  /\ MembersOnly

-----------------------------------------------------------------------------
(* Bans                                                                    *)

Banned(ids) ==
  /\ bans' = bans \cup ids
  /\ members' = Removed(ids)
  /\ UNCHANGED <<roles, created>>

\* A single ban looks its user up before it bans.
BotBan(u) ==
  /\ BotMay({BanMembers})
  /\ BotModerates(u)
  /\ u \in Users
  /\ Banned({u})

\* Who a bulk ban reports as failed because of the hierarchy.
Outranked(u) == ~BotModerates(u)

\* A bulk ban of two ids in order, or of one when they are equal. An id of no known user is banned, and the
\* error of announcing it ends the call before the next id.
BotBulkBan(u, v) ==
  LET Fails(x) == x \in bans \/ Outranked(x)
      tried == IF u \in Strangers /\ ~Fails(u) THEN {u} ELSE {u, v}
  IN /\ BotMay({BanMembers, ManageGuild})
     /\ Banned({x \in tried : ~Fails(x)})

BotUnban(u) ==
  /\ BotMay({BanMembers})
  /\ u \in bans \cap Users
  /\ bans' = bans \ {u}
  /\ UNCHANGED <<roles, members, created>>

-----------------------------------------------------------------------------

BotCall ==
  /\ \/ \E r \in Named, permissions \in PermissionChoices : BotCreateRole(r, permissions)
     \/ \E r \in Roles, permissions \in PermissionChoices : BotEditRole(r, permissions)
     \/ \E r, s \in Roles, p, q \in PositionChoices : BotMoveRoles(r, s, p, q)
     \/ \E r \in Roles : BotDeleteRole(r)
     \/ \E u \in Users, r \in Roles : BotAddRole(u, r)
     \/ \E u \in Users, r \in Roles : BotRemoveRole(u, r)
     \/ \E u \in Users, e \in RoleEdits, t \in {"omitted", "set", "lifted"} :
          BotEditMember(u, e, t)
     \/ \E u \in Users : BotKick(u)
     \/ BotPrune
     \/ \E u \in Users : BotBan(u)
     \/ \E u, v \in Users \cup Strangers : BotBulkBan(u, v)
     \/ \E u \in Users : BotUnban(u)
  /\ by' = "bot"

Fixture ==
  /\ \/ \E r \in Named, permissions \in PermissionChoices : CreateRole(r, permissions)
     \/ \E r \in Named, permissions \in PermissionChoices, p \in PositionChoices :
          FixtureCreateRole(r, permissions, p)
     \/ \E u \in Joining, list \in ListChoices : FixtureAddMember(u, list)
     \/ \E u \in Joining : FixtureRemoveMember(u)
  /\ by' = "test"

Clock == by' = "clock" /\ \E u \in Users : TimeoutEnds(u)

GuildNext == BotCall \/ Fixture \/ Clock

GuildSpec == GuildInit /\ [][GuildNext]_guildVars

-----------------------------------------------------------------------------
(* Properties                                                              *)

BotTop == TopPosition(roles, members, Bot)

\* A call of the bot that changes anything of the hierarchy.
BotChanges == by' = "bot" /\ <<roles, members>>' # <<roles, members>>

\* Members at or above the bot's top role, and the owner.
Outranking ==
  LET top == BotTop
  IN {u \in DOMAIN members : u = Owner \/ TopPosition(roles, members, u) >= top}

\* Roles the bot may not touch.
Higher == LET top == BotTop IN {r \in DOMAIN roles : roles[r].position >= top}

\* No sequence of the bot's own calls brings a member at or above its top role
\* within its reach: not by deleting, moving or taking roles, nor by a ban. And
\* they leave every role at or above its top role where it is in the order and as
\* it is (require_hierarchy, require_role_assignable).
RanksStay == Outranking \subseteq Outranking'
HigherStay ==
  LET later == Higher'
  IN \A r \in Higher : r \in later /\ roles'[r].permissions = roles[r].permissions
RanksKept == [][BotChanges => RanksStay /\ HigherStay]_guildVars

\* What the bot holds or could come to hold by assigning roles below its own.
Reach ==
  LET top == BotTop
      within == {r \in DOMAIN roles : roles[r].position < top} \cup Held(roles, members[Bot])
      held == UNION {roles[r].permissions : r \in within}
  IN IF ADMINISTRATOR \in held THEN Bits ELSE held

\* The bot's calls never bring it a permission it could not already reach: it
\* cannot grant what it lacks, in one call or in several (require_can_grant).
NoEscalation == [][BotChanges => Reach' \subseteq Reach]_guildVars
=============================================================================
