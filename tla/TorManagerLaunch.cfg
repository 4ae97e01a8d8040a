\* Launch(), Stop() and their tasks: two callers, two tors, Stop() in between,
\* and, under fairness, that every launch is answered and abandoned tors die.
SPECIFICATION FairSpec
CONSTANTS
  Requests = {r1, r2}
  Procs = {p1, p2}
  NoProc = NoProc
  Countries = {any}
  AnyExit = any
  Modes = {none, obfs4}
  NoBridges = none
  Unresolved = Unresolved
  Truncated = Truncated
  InitialMode = obfs4
  ExitCalls = {}
  SignalCalls = {}
  BridgeCalls = {}
  MaxGeneration = 1
INVARIANTS
  TypeOK
  LaunchInFlight
  NoOrphanTor
  KillsSpareChild
  RunningMeansBootstrapped
  LaunchInv
PROPERTIES
  ImplementsLifecycle
  EveryLaunchAnswered
  AbandonedTorsDie
  ImplementsFairLifecycle
CHECK_DEADLOCK FALSE
