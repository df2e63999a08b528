----------------------------- MODULE MCChannels -----------------------------
(***************************************************************************)
(* The channels of a guild, and its application commands.  A behaviour is   *)
(* about one of the two, which its initial state chooses; the other rests.  *)
(***************************************************************************)
EXTENDS Channels, Commands

VARIABLE part

Registered == [contexts |-> "absent", allowed |-> {}, dm_permission |-> TRUE,
          restricted |-> FALSE, required |-> {}]

\* As registered by default, for members with a permission, and for the DM.
McSettings ==
  {Registered,
   [Registered EXCEPT !.restricted = TRUE, !.required = {"use", "manage"}, !.dm_permission = FALSE],
   [Registered EXCEPT !.contexts = "given", !.allowed = {"dm"}]}

Over(target, type, permission) == [target |-> target, type |-> type, permission |-> permission]

\* Conflicting roles, a channel against all of them, and single overrides.
McEntryChoices ==
  {{},
   {Over("r", "role", TRUE), Over("q", "role", FALSE), Over("everyone", "role", FALSE)},
   {Over("here", "channel", TRUE), Over("all", "channel", FALSE), Over("alice", "user", FALSE)},
   {Over("all", "channel", FALSE)}}

McPermissionChoices == {{"use"}, {"use", "manage"}, {"admin"}}

WorldInit ==
  /\ part \in {"channels", "commands"}
  /\ Init /\ CommandsInit
  /\ part = "channels" => permissions = {"use"}

WorldNext ==
  \/ part = "channels" /\ Next /\ UNCHANGED <<part, commandVars>>
  \/ part = "commands" /\ CommandsNext /\ UNCHANGED <<part, vars>>

WorldSpec == WorldInit /\ [][WorldNext]_<<part, vars, commandVars>>
=============================================================================
