SPECIFICATION SuiteSpec
CONSTANTS
  Bot = Bot
  Hook = Hook
  Users = {ann, ben}
  Mods = {ann}
  Shy = {ben}
  Exempt = {}
  Everyone = Everyone
  Answers = {1, 2}
  MaxMessages = 2
  MaxClock = 2
  PollLife = 1
  MaxMarks = 1
  PollKinds = {FALSE}
  MaxInteractions = 2
  Window = 1
  Life = 2
  Modes = {"upgrade", "live"}
  MaxRuns = 4
INVARIANTS
  MessagesSound
PROPERTIES
  FilterHolds
  ImplementsReplies
  EvidenceTrue
CHECK_DEADLOCK FALSE
