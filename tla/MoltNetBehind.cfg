\* New circuits are asked for while an old context may still send.
SPECIFICATION Spec
CONSTANTS
  Ids = {i1}
  NoId = NoId
  Contexts = {c1}
  DefaultContext = c1
  Opens = {o1}
  NewCalls = {n1}
  Popups = {}
  Watchers = {}
  Senders = {}
  MaxEpoch = 0
  ForceRounds = 1
INVARIANT NothingBehindTheSwitch
CHECK_DEADLOCK FALSE
