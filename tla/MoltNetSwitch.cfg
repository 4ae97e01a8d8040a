\* A window on its way, its profile's destruction and New Identity, two identities;
\* under fairness, every call is answered and ended pages stop.
SPECIFICATION FairSpec
CONSTANTS
  Ids = {i1, i2}
  NoId = NoId
  Contexts = {c1}
  DefaultContext = c1
  Opens = {o1}
  NewCalls = {n1}
  Popups = {}
  Watchers = {}
  Senders = {i1, i2}
  MaxEpoch = 1
  ForceRounds = 1
INVARIANTS
  OneIdentity
  SwitchIsExclusive
  NewIdentitySeparates
  IdentityInv
PROPERTIES
  ImplementsIdentityLife
  EveryRequestAnswered
  EndedPagesStop
CHECK_DEADLOCK FALSE
