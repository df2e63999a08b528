CONSTANTS
  t1 = t1
  t2 = t2
  d = d
  ann = ann
  ben = ben
  Tabs = {t1, t2}
  Viewers = {ann, ben}
  First = ann
  MaxPages = 1
  MaxSequence = 2
  MaxCaptures = 1
  Dialogs = {d}
SPECIFICATION MCSpec
INVARIANTS SessionSound
PROPERTIES SessionEnds ImplementsLedger
CHECK_DEADLOCK FALSE
