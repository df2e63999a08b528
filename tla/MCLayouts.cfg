CONSTANTS
  Keep = Keep
  NoName = "-"
  MaxId = 9
  TreeSize = 6
  LegacyRows = 2
  RowSize = 2
  SectionSize = 1
  GallerySize = 2
  ModalSize = 2
  TextLimit = 1
  Trees <- MCTrees
  Modals <- MCModals
  Files = {"a", "b"}
  FirstId = 10
  MaxIds = 2
  MaxUploads = 1
  MaxTasks = 3
  MaxBots = 2
SPECIFICATION ShowSpec
INVARIANTS ErrorsTold
PROPERTIES LayoutsKept ErrorsSurface
CHECK_DEADLOCK FALSE
