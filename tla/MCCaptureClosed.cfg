SPECIFICATION ViewSpec
CONSTANTS
  m1 = m1 m2 = m2 m3 = m3 x = x viewer = viewer ann = ann eve = eve hook = hook
  home = home other = other thread = thread cmd = cmd
  Messages = {m1, m2, m3, x}
  Users = {viewer, ann, eve}
  Roles = {}
  Channels = {home, other, thread}
  Commands = {cmd}
  Viewer = viewer
  Home = home
  Parent <- McParent
  Place <- McPlace
  Author <- McAuthor
  Names <- McNames
  Reply <- McReply
  Refers <- McRefers
  Thread <- McThread
  Hidden = {}
  Nil = Nil
  Turned <- McTurned
  MaxSchema = 2
  MaxChanges = 2
  Tasks = {w1, w2}
  MaxTime = 1
  Timeout = 1
  Batch = 64
INVARIANTS CaptureFailsClosed
CHECK_DEADLOCK FALSE
