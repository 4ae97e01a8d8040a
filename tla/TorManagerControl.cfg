\* Exit country, New Identity and bridge calls against one tor that may die
\* at any time: what their answers mean, and that every call gets one.
SPECIFICATION FairSpec
CONSTANTS
  Requests = {r1}
  Procs = {p1}
  NoProc = NoProc
  Countries = {any, de}
  AnyExit = any
  Modes = {none, obfs4}
  NoBridges = none
  Unresolved = Unresolved
  Truncated = Truncated
  InitialMode = obfs4
  ExitCalls = {e1}
  SignalCalls = {s1, s2}
  BridgeCalls = {b1}
  MaxGeneration = 0
INVARIANTS
  NewIdentityMeansNewCircuits
  BridgesKept
PROPERTY EveryCallAnswered
CHECK_DEADLOCK FALSE
