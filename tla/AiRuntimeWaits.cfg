\* One loading and one chatting thread, processes that may hang, die or break
\* the protocol, and a UI thread that may stall.
SPECIFICATION FairSpec
CONSTANTS
  Loaders = {l1}
  Chats = {c1}
  NoWorker = NoWorker
  Models = {m1}
  NoModel = NoModel
  GpuModels = {m1}
  Procs = {1, 2}
  NoProc = 0
  Boxes = {1, 2}
  NoBox = 0
  UiStalls = TRUE
INVARIANT RuntimeInv
PROPERTIES
  ImplementsAiCalls
  WaitsEnd
  StaleIsForgotten
CHECK_DEADLOCK FALSE
