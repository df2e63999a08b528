SPECIFICATION WorldSpec
CONSTANTS
  Bot = bot
  Users = {alice}
  Kinds = {"stage", "forum"}
  MaxCopies = 2
  MaxWebhooks = 1
  MaxIds = 4
  Names = {"x"}
  Bits = {"use", "manage", "kick", "admin"}
  ADMINISTRATOR = "admin"
  UseCommands = "use"
  User = "alice"
  Roles = {"everyone", "r", "q"}
  Everyone = "everyone"
  Here = "here"
  AllChannels = "all"
  Settings <- McSettings
  EntryChoices <- McEntryChoices
  PermissionChoices <- McPermissionChoices
  MaxCommandIds = 2
INVARIANTS
  StoresSound
  CommandsSound
PROPERTIES
  StoresKept
  OverridesFollow
CHECK_DEADLOCK FALSE
