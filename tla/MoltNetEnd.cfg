\* The end of one identity with two contexts, by the live guard, the memory valve
\* and New Identity, with pages that open windows.
SPECIFICATION Spec
CONSTANTS
  Ids = {i1}
  NoId = NoId
  Contexts = {c1, c2}
  DefaultContext = c1
  Opens = {o1}
  NewCalls = {n1}
  Popups = {w1}
  Watchers = {"guard","memory"}
  Senders = {}
  MaxEpoch = 0
  ForceRounds = 1
INVARIANTS
  TypeOK
  EndReachesContexts
  PagesStopAfterNetwork
  ConfirmedMeansRefusing
CHECK_DEADLOCK FALSE
