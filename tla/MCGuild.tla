------------------------------ MODULE MCGuild ------------------------------
(***************************************************************************)
(* What a guild rests on: the ids of everything in it, and its roles,       *)
(* members and bans.  A behaviour is about one of the two, which its        *)
(* initial state chooses.                                                   *)
(***************************************************************************)
EXTENDS Snowflakes, Moderation

\* A few explicit ids, among them one the clock is about to reach.
MCExplicit == {<<0, 1>>, <<2, 0>>, <<2, 1>>, <<4, 2>>}

\* A guild of three users and one role to create; grants within the bot's own
\* permissions and beyond them.
MCPermissions == {{"moderate"}, {"admin"}}
MCPositions == {1, 2}
MCLists == {<<>>, <<"r1">>, <<"integration">>}

VARIABLE part

\* There is no guild.
NoGuild == roles = <<>> /\ members = <<>> /\ bans = {} /\ created = {} /\ by = "test"

MCInit ==
  /\ part \in {"ids", "moderation"}
  /\ Init /\ (part # "ids" => start = 0)
  /\ IF part = "moderation" THEN GuildInit ELSE NoGuild

MCNext ==
  \/ part = "ids" /\ Next /\ UNCHANGED <<part, guildVars>>
  \/ part = "moderation" /\ GuildNext /\ UNCHANGED <<part, vars>>

MCSpec == MCInit /\ [][MCNext]_<<part, vars, guildVars>>
=============================================================================
