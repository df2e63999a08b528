CONSTANTS
  Grants = {1, 2, 3}
  Earlier = {1}
  History = 101
  Purchase = 102
  None = None
  Sessions <- MCSessions
  MaxFaults = 2
  MaxTries = 2
  few = few
  many = many
  Guilds = {few, many}
  Users = {u}
  Shards = {0, 1}
  Large = {many}
  Requests = {1}
SPECIFICATION WireSpec
INVARIANTS SessionAccounted
PROPERTIES ImplementsWrites BotFed
CHECK_DEADLOCK FALSE
