\* A request against a swap of two models.
SPECIFICATION Spec
CONSTANTS
  Loaders = {l1}
  Chats = {c1}
  NoWorker = NoWorker
  Models = {m1, m2}
  NoModel = NoModel
  GpuModels = {}
  Procs = {1, 2}
  NoProc = 0
  Boxes = {1, 2}
  NoBox = 0
  UiStalls = FALSE
SYMMETRY Alike
INVARIANT RequestRunsOnItsModel
CHECK_DEADLOCK FALSE
