\* A launch after Stop() reads the port file of the tor being killed.
SPECIFICATION Spec
CONSTANTS
  Requests = {r1, r2}
  Procs = {p1, p2}
  NoProc = NoProc
  Countries = {any}
  AnyExit = any
  Modes = {none}
  NoBridges = none
  Unresolved = Unresolved
  Truncated = Truncated
  InitialMode = none
  ExitCalls = {}
  SignalCalls = {}
  BridgeCalls = {}
  MaxGeneration = 1
INVARIANT PortsAreChilds
CHECK_DEADLOCK FALSE
