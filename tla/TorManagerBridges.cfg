\* A launch reads bridges.json while SetBridgeSettings() rewrites it.
SPECIFICATION Spec
CONSTANTS
  Requests = {r1}
  Procs = {p1}
  NoProc = NoProc
  Countries = {any}
  AnyExit = any
  Modes = {none, obfs4}
  NoBridges = none
  Unresolved = Unresolved
  Truncated = Truncated
  InitialMode = obfs4
  ExitCalls = {}
  SignalCalls = {}
  BridgeCalls = {b1}
  MaxGeneration = 0
INVARIANT ChosenBridgesOnly
CHECK_DEADLOCK FALSE
