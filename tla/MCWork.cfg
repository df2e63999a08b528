SPECIFICATION WorkSpec
CONSTANTS
  Records = {r1}
  Callers = {t1, t2}
  Works = {w1, w2}
  MaxGeneration = 2
INVARIANTS
  RecordsSound
PROPERTIES
  EnvKept
  WorkEnds
CHECK_DEADLOCK FALSE
