CONSTANTS
  t = t
  u = u
  a = a
  b = b
  x = x
  y = y
  q1 = q1
  q2 = q2
  Tabs = {t, u}
  Sources = {a, b}
  Owner <- Owners
  Contents = {x, y}
  Malformed = {y}
  Displayed = {x}
  Times = {0, 1}
  Requests = {q1, q2}
  MaxMedia = 3
  MaxQueue = 1
  MaxMessages = 6
  AtStart = 5
  Matching = {1, 2, 4, 5, 6}
  OfBot = {1, 3}
  Options = {1, 2, 3}
  Labels = {1, 2}
  MaxGeneration = 3
  PageSize = 2
  WindowSize = 2
  Step = 1
  Older = 0
  MaxChanges = 2
  MaxSteps = 3
SPECIFICATION AskSpec
INVARIANTS MediaAccounted WalkComplete
PROPERTIES PicturesTrue StretchesTrue
CHECK_DEADLOCK FALSE
