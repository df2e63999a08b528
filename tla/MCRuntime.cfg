SPECIFICATION RuntimeSpec
CONSTANTS
  k1 = k1
  k2 = k2
  Keys <- MCKeys
  Order <- MCOrder
  Times = {1, 2}
  MaxNesting = 2
  MaxRevision = 3
  Slack = 0
  Envs = {e1, e2}
  Loops = {l1, l2}
  MaxGeneration = 2
  MaxPatches = 2
  Soon = {1}
  Timer = {3, 4, 5, 8}
  Futures = {6, 7}
  Woken <- MCWoken
  MaxTime = 2
  Spare = 0
INVARIANTS
  QueueSound
  HeapBounded
  HooksFollow
PROPERTIES
  ImplementsTable
  IndexKept
CHECK_DEADLOCK FALSE
