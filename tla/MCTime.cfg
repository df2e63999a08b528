SPECIFICATION TimeSpec
CONSTANTS
  Tasks = {w1, w2}
  MaxTime = 2
  Timeout = 1
  Batch = 1
  Catalogue <- McCatalogue
  Users = {"alice"}
  Bot = "bot"
  Guilds = {"guild"}
  None = "none"
  StartTimes = {1}
  EndTimes = {1}
  Schedules = {2}
  LastInstant = 2
  MaxEntities = 2
SYMMETRY Alike
INVARIANTS
  SettlementSound
  TablesFollow
PROPERTIES
  ClockHonest
  DueSettles
CHECK_DEADLOCK FALSE
