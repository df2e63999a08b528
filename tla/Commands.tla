------------------------------- MODULE Commands -------------------------------
(***************************************************************************)
(* Application commands of one guild and of everyone: how a sync keeps     *)
(* their ids, how overrides keyed by those ids decide who may use a        *)
(* command, and what a member is listed and may invoke.                    *)
(***************************************************************************)
EXTENDS Integers, Functions

CONSTANTS
  Names,           \* command names
  Bits,            \* permission bits
  ADMINISTRATOR, UseCommands,
  User,            \* the member who looks at the commands
  Roles, Everyone, \* role ids; Everyone has the id of the guild
  Here,            \* the channel the member is in, of a thread its parent
  AllChannels,     \* the id that stands for every channel
  Settings,        \* bound: what a payload may say of a command
  EntryChoices,    \* bound: lists of overrides, as sets
  PermissionChoices, \* bound: permissions of the member in the channel
  MaxCommandIds    \* bound: command ids given out

ASSUME CommandsAssumption ==
  /\ {ADMINISTRATOR, UseCommands} \subseteq Bits
  /\ Everyone \in Roles /\ Here # AllChannels /\ MaxCommandIds \in Nat
  /\ PermissionChoices \subseteq SUBSET Bits

Homes == {"guild", "global"}
Places == {"guild", "dm"}

\* The id of the application, under which application-level overrides are kept.
Application == 0

VARIABLES
  registry,    \* registry[home]: names -> command
  overrides,   \* [Application..MaxCommandIds -> set of entries]
  commandIds,  \* ids given out so far
  permissions, \* the member's effective permissions in the channel
  held         \* its roles

commandVars == <<registry, overrides, commandIds, permissions, held>>

CommandsInit ==
  /\ registry = [home \in Homes |-> [n \in {} |-> {}]]
  /\ overrides = [id \in Application..MaxCommandIds |-> {}]
  /\ commandIds = 0
  /\ permissions \in PermissionChoices
  /\ held = {}

-----------------------------------------------------------------------------
(* register_commands: the registry of a scope is replaced, ids are kept.   *)

\* Mutant: every sync gives out new ids.
KeptNever(home, payload) == {}

\* The names whose id a sync keeps.
Kept(home, payload) == DOMAIN payload \cap DOMAIN registry[home]

\* snowflake(): ids are never given out twice.
NewIds(last) == (commandIds + 1)..last

\* payload: names -> settings. New commands get the next ids in some order.
Sync(home, payload) ==
  LET new == DOMAIN payload \ Kept(home, payload)
  IN \E last \in commandIds..MaxCommandIds : \E id \in Bijection(new, NewIds(last)) :
       /\ registry' = [registry EXCEPT ![home] =
                         [n \in DOMAIN payload |->
                            [id |-> IF n \in new THEN id[n] ELSE registry[home][n].id,
                             home |-> home, settings |-> payload[n]]]]
       /\ commandIds' = last
       /\ UNCHANGED <<overrides, permissions, held>>

\* set_command_permissions replaces the list of one command or the application.
SetOverrides(id, entries) ==
  /\ overrides' = [overrides EXCEPT ![id] = entries]
  /\ UNCHANGED <<registry, commandIds, permissions, held>>

\* Roles and overwrites change what the member may do.
Moderated(bits, roles) ==
  /\ permissions' = bits
  /\ held' = roles
  /\ UNCHANGED <<registry, overrides, commandIds>>

CommandsNext ==
  \/ \E home \in Homes, names \in SUBSET Names : \E payload \in [names -> Settings] :
       Sync(home, payload)
  \/ \E id \in Application..commandIds, entries \in EntryChoices : SetOverrides(id, entries)
  \/ \E bits \in PermissionChoices, roles \in SUBSET Roles : Moderated(bits, roles)

CommandsSpec == CommandsInit /\ [][CommandsNext]_commandVars

-----------------------------------------------------------------------------
(* command_access                                                          *)

Said(entries) == {e.permission : e \in entries}

\* _matching_override: of conflicting overrides for one target the deny.
Matching(entries, target, type) ==
  LET said == Said({e \in entries : e.target = target /\ e.type = type})
  IN IF said = {} THEN "none" ELSE IF FALSE \in said THEN "deny" ELSE "allow"

\* _role_override: an allow of one role beats the deny of another.
RoleSays(entries, roles) ==
  LET said == Said({e \in entries : e.target \in roles /\ e.type = "role"})
  IN IF TRUE \in said THEN "allow" ELSE IF FALSE \in said THEN "deny" ELSE "none"

\* The first that is not "none", or "none".
First(a, b) == IF a # "none" THEN a ELSE b

\* _member_override: the user, then its roles, then @everyone.
MemberSays(entries, roles) ==
  First(Matching(entries, User, "user"),
        First(RoleSays(entries, roles \ {Everyone}),
              Matching(entries, Everyone, "role")))

\* The most specific override of the channel, the command's before the
\* application's.
ChannelSays(own, general) ==
  First(Matching(own, Here, "channel"),
        First(Matching(own, AllChannels, "channel"),
              First(Matching(general, Here, "channel"),
                    Matching(general, AllChannels, "channel"))))

\* Mutant: the two sides of the comparison are swapped.
MeetsDefaultSwapped(settings, bits) ==
  ~settings.restricted \/ (settings.required # {} /\ bits \subseteq settings.required)

MeetsDefault(settings, bits) ==
  ~settings.restricted \/ (settings.required # {} /\ settings.required \subseteq bits)

InContext(settings, place) ==
  IF settings.contexts = "absent"
  THEN place = "guild" \/ settings.dm_permission
  ELSE place \in settings.allowed

\* command_access: the reason a command is hidden, or "allowed".
Access(command, place, bits, roles, own, general) ==
  IF command.home = "guild" /\ place = "dm" THEN "scope"
  ELSE IF ~InContext(command.settings, place) THEN "context"
  ELSE IF place = "dm" \/ ADMINISTRATOR \in bits THEN "allowed"
  ELSE IF UseCommands \notin bits THEN "use-application-commands"
  ELSE IF ChannelSays(own, general) = "deny" THEN "channel-denied"
  ELSE IF MemberSays(own, roles) = "deny" THEN "override-denied"
  ELSE IF MemberSays(own, roles) = "allow" THEN "allowed"
  ELSE IF MemberSays(general, roles) = "deny" THEN "override-denied"
  ELSE IF MeetsDefault(command.settings, bits) THEN "allowed"
  ELSE "default-member-permissions"

Visible(command, place) ==
  Access(command, place, permissions, held,
         overrides[command.id], overrides[Application]) = "allowed"

Scopes(place) == IF place = "guild" THEN Homes ELSE {"global"}

\* visible_commands
Listed(place) ==
  {n \in Names :
     \E home \in Scopes(place) :
       n \in DOMAIN registry[home] /\ Visible(registry[home][n], place)}

\* find_command: the guild's command shadows the global one.
Found(n, place) ==
  LET homes == {h \in Scopes(place) : n \in DOMAIN registry[h]}
  IN {registry[h][n] : h \in IF "guild" \in homes THEN {"guild"} ELSE homes}

\* slash() runs the command a name resolves to, if it is visible.
Accepted(n, place) == \E command \in Found(n, place) : Visible(command, place)

-----------------------------------------------------------------------------
(* Properties                                                              *)

\* Every variable has its type.
CommandsTypeOK ==
  /\ commandIds \in 0..MaxCommandIds
  /\ \A home \in Homes :
       /\ DOMAIN registry[home] \subseteq Names
       /\ \A n \in DOMAIN registry[home] :
            registry[home][n] \in [id : 1..MaxCommandIds, home : {home}, settings : Settings]
  /\ DOMAIN registry = Homes
  /\ overrides \in [Application..MaxCommandIds -> EntryChoices \cup {{}}]
  /\ permissions \in SUBSET Bits /\ held \in SUBSET Roles

\* An id belongs to one command of one scope, and nothing is overridden under
\* an id before it is given out: no override ever applies to another command
\* than the one it was set for (register_commands, _allocate_at).
IdsOwned ==
  /\ \A home \in Homes : \A n \in DOMAIN registry[home] :
       /\ registry[home][n].id <= commandIds
       /\ \A other \in Homes : \A m \in DOMAIN registry[other] :
            registry[other][m].id = registry[home][n].id => other = home /\ m = n
  /\ \A id \in DOMAIN overrides : id > commandIds => overrides[id] = {}

\* A sync that names a command again leaves its overrides in force; a command
\* that was dropped meanwhile comes back without them.
OverridesStay ==
  \A home \in Homes, n \in Names :
    (n \in DOMAIN registry'[home]) =>
       IF n \in DOMAIN registry[home]
       THEN registry'[home][n].id = registry[home][n].id
       ELSE registry'[home][n].id > commandIds
OverridesFollow == [][OverridesStay]_commandVars

\* One more allow for a role of the member, at the command, and one more
\* permission never hide a command.
MoreNeverHides ==
  \A home \in Homes : \A n \in DOMAIN registry[home] :
    LET command == registry[home][n]
        own == overrides[command.id]
        general == overrides[Application]
        Sees(bits, entries) ==
          Access(command, "guild", bits, held, entries, general) = "allowed"
    IN Sees(permissions, own) =>
         /\ \A b \in Bits : Sees(permissions \cup {b}, own)
         /\ \A r \in held :
              Sees(permissions, own \cup {[target |-> r, type |-> "role", permission |-> TRUE]})

\* What slash() accepts is listed, in the guild and in the DM.
AcceptedListed == \A place \in Places, n \in Names : Accepted(n, place) => n \in Listed(place)

\* The state is well typed, an override applies to one command only, one more
\* allow or one more permission never hides a command, and what slash()
\* accepts is listed (register_commands, command_access).
CommandsSound == CommandsTypeOK /\ IdsOwned /\ MoreNeverHides /\ AcceptedListed
=============================================================================
