SPECIFICATION MCSpec
CONSTANTS
  Slots = 3
  MaxMs = 5
  ShardCount = 2
  Starts = {0, 1}
  Steps = {0, 1, 2}
  Horizon = 5
  Explicit <- MCExplicit
  MaxGiven = 4
  Bits = {"admin", "manage", "moderate", "view"}
  ADMINISTRATOR = "admin"
  TimeoutMask = {"view"}
  DefaultPermissions = {"view"}
  IntegrationPermissions = {"manage", "moderate"}
  ManageRoles = "manage"
  KickMembers = "moderate"
  BanMembers = "moderate"
  ManageGuild = "moderate"
  ModerateMembers = "moderate"
  PermissionChoices <- MCPermissions
  PositionChoices <- MCPositions
  Users = {"bot", "owner", "alice"}
  Bot = "bot"
  Owner = "owner"
  Strangers = {"stranger"}
  Joining = {"alice"}
  Everyone = "everyone"
  Integration = "integration"
  Named = {"r1"}
  Roles = {"everyone", "integration", "r1"}
  ListChoices <- MCLists
  MaxRoles = 2
INVARIANTS
  Distinct
  IdsSound
PROPERTIES
  RanksKept
  NoEscalation
CHECK_DEADLOCK FALSE
