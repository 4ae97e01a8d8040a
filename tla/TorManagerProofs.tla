-------------------------- MODULE TorManagerProofs --------------------------
(***************************************************************************)
(* Theorems about TorManager, for every number of callers, processes,      *)
(* generations, countries, bridge modes and control calls.                 *)
(***************************************************************************)
EXTENDS TorManager, TLAPS

\* Every reachable state is typed: the UI thread's members, the tasks, the
\* files of the data directory and the processes of tor_manager.cc.
THEOREM TypeCorrect == Spec => []TypeOK
<1>1. Init => TypeOK
  <2>1. 0 \in Generations
    BY ConstantsAssumption DEF Generations
  <2> SUFFICES ASSUME Init PROVE TypeOK
    OBVIOUS
  <2>2. /\ step \in [Generations -> LaunchSteps]
        /\ spec_country \in [Generations -> Countries]
        /\ spec_mode \in [Generations -> Modes]
        /\ spawned \in [Generations -> ProcOrNone]
        /\ boot_port \in [Generations -> ProcOrNone]
        /\ boot_owner \in [Generations -> ProcOrNone]
        /\ boot_ok \in [Generations -> BOOLEAN]
    BY ConstantsAssumption DEF Init, LaunchSteps, Spawning, ProcOrNone
  <2>3. /\ tor_state \in [Procs -> TorStates]
        /\ tor_country \in [Procs -> Countries]
        /\ tor_mode \in [Procs -> Modes]
        /\ circuit \in [Procs -> BOOLEAN]
        /\ newnyms \in [Procs -> Nat]
        /\ deferred \in [Procs -> BOOLEAN]
    BY ConstantsAssumption DEF Init, TorStates
  <2> QED
    BY <2>1, <2>2, <2>3, ConstantsAssumption DEF Init, TypeOK, ProcOrNone
<1>2. TypeOK /\ [Next]_vars => TypeOK'
  <2> SUFFICES ASSUME TypeOK, [Next]_vars PROVE TypeOK'
    OBVIOUS
  <2> USE DEF uiVars, requestVars, spawnVars, bootVars, launchVars, taskVars,
              fileVars, torVars, exitVars, signalVars, bridgeVars, callVars
  <2>1. CASE Stop
    <3>1. generation' \in Generations
      BY <2>1, ConstantsAssumption DEF Stop, TypeOK, Generations
    <3>2. CASE launching
      BY ZenonT(60), <2>1, <3>1, <3>2, ConstantsAssumption DEF Stop, TypeOK,
         TearDownChild, FinishLaunch, ProcOrNone
    <3>3. CASE ~launching
      BY <2>1, <3>1, <3>3, ConstantsAssumption DEF Stop, TypeOK,
         TearDownChild, ProcOrNone
    <3> QED BY <3>2, <3>3
  <2>2. ASSUME NEW r \in Requests, LaunchWarm(r) PROVE TypeOK'
    BY <2>2, ConstantsAssumption DEF LaunchWarm, TypeOK
  <2>3. ASSUME NEW r \in Requests, LaunchCoalesced(r) PROVE TypeOK'
    BY <2>3, ConstantsAssumption DEF LaunchCoalesced, TypeOK
  <2>4. ASSUME NEW r \in Requests, LaunchRefused(r) PROVE TypeOK'
    BY <2>4, ConstantsAssumption DEF LaunchRefused, TypeOK
  <2>5. ASSUME NEW r \in Requests, LaunchCold(r) PROVE TypeOK'
    BY <2>5, ConstantsAssumption DEF LaunchCold, TypeOK, TearDownChild,
       LaunchSteps, Spawning, ProcOrNone
  <2>6. ASSUME NEW r \in Requests, WarmCheckEnds(r) PROVE TypeOK'
    BY <2>6, ConstantsAssumption DEF WarmCheckEnds, TypeOK
  <2>7. ASSUME NEW g \in Generations, OnSpawned(g) PROVE TypeOK'
    <3>1. CASE g # generation
      BY <2>7, <3>1, ConstantsAssumption DEF OnSpawned, TypeOK, LaunchSteps, Spawning,
         ProcOrNone
    <3>2. CASE g = generation /\ spawned[g] = NoProc
      <4>1. answer' \in [Requests ->
                           {"unused", "pending", "checking", "ok", "failed"}]
        BY <2>7, <3>2 DEF OnSpawned, TypeOK, FinishLaunch
      <4> QED
        BY ZenonT(60), <2>7, <3>2, <4>1, ConstantsAssumption DEF OnSpawned, TypeOK,
           FinishLaunch, LaunchSteps, Spawning, ProcOrNone
    <3>3. CASE g = generation /\ spawned[g] # NoProc
      BY <2>7, <3>3, ConstantsAssumption DEF OnSpawned, TypeOK, LaunchSteps, Spawning,
         ProcOrNone
    <3> QED BY <3>1, <3>2, <3>3
  <2>8. ASSUME NEW g \in Generations, OnBootstrapped(g) PROVE TypeOK'
    <3>1. CASE g # generation
      BY <2>8, <3>1, ConstantsAssumption DEF OnBootstrapped, TypeOK,
         LaunchSteps, Spawning, ProcOrNone
    <3>2. CASE g = generation /\ ~boot_ok[g]
      <4>1. answer' \in [Requests ->
                           {"unused", "pending", "checking", "ok", "failed"}]
        BY <2>8, <3>2 DEF OnBootstrapped, TypeOK, FinishLaunch
      <4>2. step' \in [Generations -> LaunchSteps]
        BY <2>8 DEF OnBootstrapped, TypeOK, LaunchSteps, Spawning
      <4> QED
        BY ZenonT(60), <2>8, <3>2, <4>1, <4>2, ConstantsAssumption DEF OnBootstrapped,
           TypeOK, TearDownChild, FinishLaunch, ProcOrNone
    <3>3. CASE g = generation /\ boot_ok[g]
      <4>1. answer' \in [Requests ->
                           {"unused", "pending", "checking", "ok", "failed"}]
        BY <2>8, <3>3 DEF OnBootstrapped, TypeOK, FinishLaunch
      <4>2. step' \in [Generations -> LaunchSteps]
        BY <2>8 DEF OnBootstrapped, TypeOK, LaunchSteps, Spawning
      <4>3. ports' \in ProcOrNone /\ owner_connection' \in ProcOrNone
        BY <2>8, <3>3 DEF OnBootstrapped, TypeOK
      <4>4. /\ launching' = FALSE
            /\ UNCHANGED <<child, generation, killing, closing>>
        BY <2>8, <3>3 DEF OnBootstrapped, FinishLaunch
      <4> QED
        BY <2>8, <4>1, <4>2, <4>3, <4>4 DEF OnBootstrapped, TypeOK
    <3> QED BY <3>1, <3>2, <3>3
  <2>9. ASSUME NEW g \in Generations, SpawnPrepares(g) PROVE TypeOK'
    BY <2>9, ConstantsAssumption DEF SpawnPrepares, TypeOK,
       ResolveBridgeLines, ReadBridgeSettings, LaunchSteps, Spawning, ProcOrNone
  <2>10. ASSUME NEW g \in Generations, SpawnFails(g) PROVE TypeOK'
    BY <2>10, ConstantsAssumption DEF SpawnFails, TypeOK, LaunchSteps, Spawning,
       ProcOrNone
  <2>37. ASSUME NEW g \in Generations, SpawnOpensTorrc(g) PROVE TypeOK'
    BY <2>37, ConstantsAssumption DEF SpawnOpensTorrc, TypeOK, LaunchSteps,
       Spawning, ProcOrNone
  <2>11. ASSUME NEW g \in Generations, SpawnStarts(g) PROVE TypeOK'
    BY SMTT(30), <2>11, ConstantsAssumption DEF SpawnStarts, TypeOK, TorStates,
       LaunchSteps, Spawning, ProcOrNone
  <2>12. ASSUME NEW g \in Generations, BootReadsPort(g) PROVE TypeOK'
    BY <2>12, ConstantsAssumption DEF BootReadsPort, TypeOK,
       LaunchSteps, Spawning, ProcOrNone
  <2>13. ASSUME NEW g \in Generations, BootConnects(g) PROVE TypeOK'
    BY SMTT(30), <2>13, ConstantsAssumption DEF BootConnects, TypeOK,
       LaunchSteps, Spawning, ProcOrNone
  <2>14. ASSUME NEW g \in Generations, BootPolls(g) PROVE TypeOK'
    BY ZenonT(60), <2>14, ConstantsAssumption DEF BootPolls, TypeOK, LaunchSteps, Spawning,
       ProcOrNone
  <2>15. ASSUME NEW g \in Generations, BootTimesOut(g) PROVE TypeOK'
    BY <2>15, ConstantsAssumption DEF BootTimesOut, TypeOK,
       LaunchSteps, Spawning, ProcOrNone
  <2>16. ASSUME NEW p \in Procs, KillTask(p) PROVE TypeOK'
    BY <2>16, ConstantsAssumption DEF KillTask, TypeOK, TorStates,
       ProcOrNone
  <2>17. ASSUME NEW p \in Procs, CloseTask(p) PROVE TypeOK'
    BY <2>17, ConstantsAssumption DEF CloseTask, TypeOK, TorStates,
       ProcOrNone
  <2>18. ASSUME NEW p \in Procs, TorReadsConfig(p) PROVE TypeOK'
    BY <2>18, ConstantsAssumption DEF TorReadsConfig, TypeOK,
       TorStates, ProcOrNone
  <2>19. ASSUME NEW p \in Procs, TorOpensPorts(p) PROVE TypeOK'
    BY <2>19, ConstantsAssumption DEF TorOpensPorts, TypeOK, TorStates,
       ProcOrNone
  <2>20. ASSUME NEW p \in Procs, TorBuildsCircuit(p) PROVE TypeOK'
    BY <2>20, ConstantsAssumption DEF TorBuildsCircuit, TypeOK,
       TorStates, ProcOrNone
  <2>21. ASSUME NEW p \in Procs, TorAppliesNewnym(p) PROVE TypeOK'
    BY <2>21, ConstantsAssumption DEF TorAppliesNewnym, TypeOK,
       TorStates, ProcOrNone
  <2>22. ASSUME NEW p \in Procs, TorExits(p) PROVE TypeOK'
    BY <2>22, ConstantsAssumption DEF TorExits, TypeOK, TorStates,
       ProcOrNone
  <2>23. ASSUME NEW e \in ExitCalls, SetExitCountry(e) PROVE TypeOK'
    BY <2>23, ConstantsAssumption DEF SetExitCountry, TypeOK,
       ProcOrNone
  <2>24. ASSUME NEW e \in ExitCalls, ExitCallSets(e) PROVE TypeOK'
    BY ZenonT(60), <2>24, ConstantsAssumption DEF ExitCallSets, TypeOK, TorStates,
       ProcOrNone
  <2>25. ASSUME NEW e \in ExitCalls, ExitCallSignals(e) PROVE TypeOK'
    BY ZenonT(60), <2>25, ConstantsAssumption DEF ExitCallSignals, TypeOK,
       TorStates, ProcOrNone
  <2>26. ASSUME NEW e \in ExitCalls, ExitCallFails(e) PROVE TypeOK'
    BY <2>26, ConstantsAssumption DEF ExitCallFails, TypeOK
  <2>27. ASSUME NEW s \in SignalCalls, SendNewIdentitySignal(s) PROVE TypeOK'
    BY <2>27, ConstantsAssumption DEF SendNewIdentitySignal, TypeOK,
       IsRunning, TorStates, ProcOrNone
  <2>28. ASSUME NEW s \in SignalCalls, SignalSubscribes(s) PROVE TypeOK'
    BY <2>28, ConstantsAssumption DEF SignalSubscribes, TypeOK
  <2>29. ASSUME NEW s \in SignalCalls, SignalSends(s) PROVE TypeOK'
    BY <2>29, ConstantsAssumption DEF SignalSends, TypeOK, TorStates,
       ProcOrNone
  <2>30. ASSUME NEW s \in SignalCalls, SignalHears(s) PROVE TypeOK'
    BY <2>30, ConstantsAssumption DEF SignalHears, TypeOK
  <2>31. ASSUME NEW s \in SignalCalls, SignalFails(s) PROVE TypeOK'
    BY <2>31, ConstantsAssumption DEF SignalFails, TypeOK
  <2>32. ASSUME NEW b \in BridgeCalls, SetBridgeSettings(b) PROVE TypeOK'
    BY <2>32, ConstantsAssumption DEF SetBridgeSettings, TypeOK
  <2>33. ASSUME NEW b \in BridgeCalls, BridgeWriteOpens(b) PROVE TypeOK'
    BY <2>33, ConstantsAssumption DEF BridgeWriteOpens, TypeOK
  <2>34. ASSUME NEW b \in BridgeCalls, BridgeWriteEnds(b) PROVE TypeOK'
    BY <2>34, ConstantsAssumption DEF BridgeWriteEnds, TypeOK
  <2>35. ASSUME NEW b \in BridgeCalls, BridgeWriteFails(b) PROVE TypeOK'
    BY <2>35, ConstantsAssumption DEF BridgeWriteFails, TypeOK
  <2>36. CASE UNCHANGED vars
    BY <2>36 DEF vars, TypeOK
  <2> QED
    BY <2>1, <2>2, <2>3, <2>4, <2>5, <2>6, <2>7, <2>8, <2>9, <2>10,
       <2>11, <2>12, <2>13, <2>14, <2>15, <2>16, <2>17, <2>18, <2>19,
       <2>20, <2>21, <2>22, <2>23, <2>24, <2>25, <2>26, <2>27, <2>28,
       <2>29, <2>30, <2>31, <2>32, <2>33, <2>34, <2>35, <2>36, <2>37
       DEF Next, Launch, LaunchTask, ExitTask, SignalTask, BridgeTask, Tor
<1> QED BY <1>1, <1>2, PTL DEF Spec

\* The variables the launch properties depend on: the exit country, New
\* Identity and bridge calls leave them alone.
launchFrame == <<uiVars, answer, launchVars, killing, tor_state, circuit>>

\* SetExitCountry(), SendNewIdentitySignal(), SetBridgeSettings() and their
\* tasks, which only touch other variables, preserve LaunchInv.
LEMMA LaunchFrame ==
  ASSUME LaunchInv, UNCHANGED launchFrame
  PROVE  LaunchInv'
BY DEF LaunchInv, LaunchInFlight, PendingLaunches, NoOrphanTor, Alive,
   KillsSpareChild, RunningMeansBootstrapped, FutureIdle, ChildInUse,
   SpawnedUnshared, SpawnsOnce, HeldTorsBorn, BootResults, launchFrame,
   uiVars, launchVars, spawnVars, bootVars

\* LaunchInv is an invariant of Launch(), Stop(), OnSpawned(),
\* OnBootstrapped(), the thread pool and the tor processes.
THEOREM LaunchInvariant == Spec => []LaunchInv
<1>1. Init => LaunchInv
  BY SMTT(30), ConstantsAssumption DEF Init, LaunchInv, LaunchInFlight, PendingLaunches,
     NoOrphanTor, Alive, KillsSpareChild, RunningMeansBootstrapped, FutureIdle,
     ChildInUse, SpawnedUnshared, SpawnsOnce, HeldTorsBorn, BootResults, Spawning,
     Generations
<1>2. TypeOK /\ LaunchInv /\ [Next]_vars => LaunchInv'
  <2> SUFFICES ASSUME TypeOK, LaunchInv, [Next]_vars PROVE LaunchInv'
    OBVIOUS
  <2>0. CASE UNCHANGED launchFrame
    BY <2>0, LaunchFrame
  <2>5. ASSUME NEW r \in Requests, LaunchCold(r) PROVE LaunchInv'
    <3>1. child = NoProc /\ ports = NoProc /\ owner_connection = NoProc
      BY <2>5 DEF LaunchCold, IsRunning, LaunchInv, LaunchInFlight, ChildInUse,
         RunningMeansBootstrapped
    <3>2. UNCHANGED <<child, ports, owner_connection, killing>>
      BY <2>5, <3>1 DEF LaunchCold, TearDownChild
    <3>3. /\ step[generation] = "idle"
          /\ step' = [step EXCEPT ![generation] = "spawn"]
          /\ UNCHANGED <<generation, tor_state, circuit>>
      BY <2>5 DEF LaunchCold, LaunchInv, LaunchInFlight, torVars
    <3>4. LaunchInFlight'
      BY <2>5, <3>3 DEF LaunchCold, LaunchInFlight, PendingLaunches, TypeOK
    <3>5. NoOrphanTor' /\ KillsSpareChild' /\ HeldTorsBorn'
      BY <2>5, <3>1, <3>2, <3>3 DEF LaunchCold, LaunchInv, NoOrphanTor, Alive,
         KillsSpareChild, HeldTorsBorn, TypeOK
    <3>6. RunningMeansBootstrapped' /\ ChildInUse'
      BY <3>1, <3>2, <3>3 DEF RunningMeansBootstrapped, ChildInUse, TypeOK
    <3>7. FutureIdle'
      BY <3>3 DEF LaunchInv, FutureIdle, TypeOK, Generations
    <3>8. SpawnedUnshared' /\ SpawnsOnce' /\ BootResults'
      BY <2>5, <3>1, <3>2, <3>3 DEF LaunchCold, LaunchInv, SpawnedUnshared,
         SpawnsOnce, BootResults, Spawning, TypeOK
    <3> QED BY <3>4, <3>5, <3>6, <3>7, <3>8 DEF LaunchInv
  <2>7. ASSUME NEW g \in Generations, OnSpawned(g) PROVE LaunchInv'
    <3>0. step[g] = "spawned"
      BY <2>7 DEF OnSpawned
    <3>1. CASE g # generation
      BY <2>7, <3>1, ConstantsAssumption DEF OnSpawned, uiVars, spawnVars,
         bootVars, torVars, TypeOK, ProcOrNone, LaunchInv, LaunchInFlight,
         PendingLaunches, NoOrphanTor, Alive, KillsSpareChild,
         RunningMeansBootstrapped, FutureIdle, ChildInUse, SpawnedUnshared,
         SpawnsOnce, HeldTorsBorn, BootResults, Spawning
    <3>2. CASE g = generation /\ spawned[g] = NoProc
      BY <2>7, <3>2, ConstantsAssumption DEF OnSpawned, FinishLaunch, uiVars,
         spawnVars, bootVars, torVars, TypeOK, ProcOrNone, LaunchInv,
         LaunchInFlight, PendingLaunches, NoOrphanTor, Alive, KillsSpareChild,
         RunningMeansBootstrapped, FutureIdle, ChildInUse, SpawnedUnshared,
         SpawnsOnce, HeldTorsBorn, BootResults, Spawning
    <3>3. CASE g = generation /\ spawned[g] # NoProc
      <4>1. launching /\ ports = NoProc /\ child = NoProc
        BY <3>0, <3>3 DEF LaunchInv, LaunchInFlight, ChildInUse,
           RunningMeansBootstrapped
      <4>2. /\ child' = spawned[g] /\ spawned[g] \in Procs
            /\ step' = [step EXCEPT ![g] = "boot"]
            /\ UNCHANGED <<launching, generation, ports, owner_connection,
                           answer, spawned, boot_port, boot_owner, boot_ok,
                           killing, tor_state, circuit>>
        BY <2>7, <3>3 DEF OnSpawned, spawnVars, bootVars, torVars, TypeOK,
           ProcOrNone
      <4>3. NoOrphanTor'
        BY <4>1, <4>2, <3>0, ConstantsAssumption DEF LaunchInv, NoOrphanTor,
           Alive, TypeOK
      <4>4. LaunchInFlight' /\ RunningMeansBootstrapped' /\ ChildInUse'
        BY <3>3, <4>1, <4>2, <3>0, ConstantsAssumption DEF LaunchInv,
           LaunchInFlight, PendingLaunches, RunningMeansBootstrapped,
           ChildInUse, TypeOK
      <4>5. KillsSpareChild' /\ SpawnedUnshared' /\ HeldTorsBorn'
        BY <3>0, <3>3, <4>2 DEF LaunchInv, KillsSpareChild, SpawnedUnshared,
           HeldTorsBorn, TypeOK
      <4>6. FutureIdle' /\ SpawnsOnce' /\ BootResults'
        BY <3>0, <3>3, <4>2 DEF LaunchInv, FutureIdle, SpawnsOnce,
           BootResults, Spawning, TypeOK
      <4> QED BY <4>3, <4>4, <4>5, <4>6 DEF LaunchInv
    <3> QED BY <3>1, <3>2, <3>3
  <2> USE DEF uiVars, requestVars, spawnVars, bootVars, launchVars, taskVars,
              fileVars, torVars, TypeOK, ProcOrNone, LaunchInv,
              LaunchInFlight, PendingLaunches, NoOrphanTor, Alive,
              KillsSpareChild, RunningMeansBootstrapped, FutureIdle,
              ChildInUse, SpawnedUnshared, SpawnsOnce, HeldTorsBorn,
              BootResults, Spawning
  <2>1. ASSUME Stop PROVE LaunchInv'
    BY <2>1, ConstantsAssumption DEF Stop, TearDownChild, FinishLaunch,
       Generations
  <2>2. ASSUME NEW r \in Requests, LaunchWarm(r) PROVE LaunchInv'
    BY <2>2, ConstantsAssumption DEF LaunchWarm
  <2>3. ASSUME NEW r \in Requests, LaunchCoalesced(r) PROVE LaunchInv'
    BY <2>3, ConstantsAssumption DEF LaunchCoalesced
  <2>4. ASSUME NEW r \in Requests, LaunchRefused(r) PROVE LaunchInv'
    BY <2>4, ConstantsAssumption DEF LaunchRefused
  <2>6. ASSUME NEW r \in Requests, WarmCheckEnds(r) PROVE LaunchInv'
    BY <2>6, ConstantsAssumption DEF WarmCheckEnds
  <2>8. ASSUME NEW g \in Generations, OnBootstrapped(g) PROVE LaunchInv'
    BY <2>8, ConstantsAssumption DEF OnBootstrapped, TearDownChild,
       FinishLaunch
  <2>9. ASSUME NEW g \in Generations, SpawnPrepares(g) PROVE LaunchInv'
    BY <2>9, ConstantsAssumption DEF SpawnPrepares
  <2>10. ASSUME NEW g \in Generations, SpawnFails(g) PROVE LaunchInv'
    BY <2>10, ConstantsAssumption DEF SpawnFails
  <2>27. ASSUME NEW g \in Generations, SpawnOpensTorrc(g) PROVE LaunchInv'
    BY <2>27, ConstantsAssumption DEF SpawnOpensTorrc
  <2>11. ASSUME NEW g \in Generations, SpawnStarts(g) PROVE LaunchInv'
    BY <2>11, ConstantsAssumption DEF SpawnStarts
  <2>12. ASSUME NEW g \in Generations, BootReadsPort(g) PROVE LaunchInv'
    BY <2>12, ConstantsAssumption DEF BootReadsPort
  <2>13. ASSUME NEW g \in Generations, BootConnects(g) PROVE LaunchInv'
    BY <2>13, ConstantsAssumption DEF BootConnects
  <2>14. ASSUME NEW g \in Generations, BootPolls(g) PROVE LaunchInv'
    BY <2>14, ConstantsAssumption DEF BootPolls
  <2>15. ASSUME NEW g \in Generations, BootTimesOut(g) PROVE LaunchInv'
    BY <2>15, ConstantsAssumption DEF BootTimesOut
  <2>16. ASSUME NEW p \in Procs, KillTask(p) PROVE LaunchInv'
    BY <2>16, ConstantsAssumption DEF KillTask
  <2>17. ASSUME NEW p \in Procs, CloseTask(p) PROVE LaunchInv'
    BY <2>17, ConstantsAssumption DEF CloseTask
  <2>18. ASSUME NEW p \in Procs, TorReadsConfig(p) PROVE LaunchInv'
    BY <2>18, ConstantsAssumption DEF TorReadsConfig
  <2>19. ASSUME NEW p \in Procs, TorOpensPorts(p) PROVE LaunchInv'
    BY <2>19, ConstantsAssumption DEF TorOpensPorts
  <2>20. ASSUME NEW p \in Procs, TorBuildsCircuit(p) PROVE LaunchInv'
    BY <2>20, ConstantsAssumption DEF TorBuildsCircuit
  <2>21. ASSUME NEW p \in Procs, TorExits(p) PROVE LaunchInv'
    BY <2>21, ConstantsAssumption DEF TorExits
  <2>22. ASSUME \/ \E p \in Procs : TorAppliesNewnym(p)
                \/ \E e \in ExitCalls : SetExitCountry(e) \/ ExitTask(e)
                \/ \E s \in SignalCalls : SendNewIdentitySignal(s) \/ SignalTask(s)
                \/ \E b \in BridgeCalls : SetBridgeSettings(b) \/ BridgeTask(b)
                \/ UNCHANGED vars
        PROVE  UNCHANGED launchFrame
    BY <2>22 DEF launchFrame, vars, ExitTask, SignalTask, BridgeTask,
       TorAppliesNewnym, SetExitCountry, ExitCallSets, ExitCallSignals,
       ExitCallFails, SendNewIdentitySignal, SignalSubscribes,
       SignalSends, SignalHears, SignalFails, SetBridgeSettings,
       BridgeWriteOpens, BridgeWriteEnds, BridgeWriteFails
  <2> QED
    BY <2>0, <2>1, <2>2, <2>3, <2>4, <2>5, <2>6, <2>7, <2>8, <2>9,
       <2>10, <2>11, <2>12, <2>13, <2>14, <2>15, <2>16, <2>17, <2>18,
       <2>19, <2>20, <2>21, <2>22, <2>27
       DEF Next, Launch, LaunchTask, Tor
<1> QED BY <1>1, <1>2, TypeCorrect, PTL DEF Spec

\* A caller of Launch() waits exactly while the launch of its generation is
\* in flight (launching_, pending_launches_, generation_).
THEOREM LaunchInFlightAlways == Spec => []LaunchInFlight
BY LaunchInvariant, PTL DEF LaunchInv

\* No interleaving of Launch(), Stop() and the replies loses a tor process.
THEOREM NoOrphanTorAlways == Spec => []NoOrphanTor
BY LaunchInvariant, PTL DEF LaunchInv

\* The kill tasks of TearDownChild() and OnSpawned() never reach child_.
THEOREM KillsSpareChildAlways == Spec => []KillsSpareChild
BY LaunchInvariant, PTL DEF LaunchInv

\* IsRunning() means what its comment says: bootstrapped, owned, a circuit.
THEOREM RunningMeansBootstrappedAlways == Spec => []RunningMeansBootstrapped
BY LaunchInvariant, PTL DEF LaunchInv

\* SendNewIdentitySignal() never reports success before its tor has applied a
\* NEWNYM that followed the call, however its commands, tor's ten second
\* limit and other calls' events interleave.
THEOREM NewIdentityAlways == Spec => []NewIdentityMeansNewCircuits
<1>1. Init => SignalInv
  BY DEF Init, SignalInv
<1>2. TypeOK /\ SignalInv /\ [Next]_vars => SignalInv'
  <2> SUFFICES ASSUME TypeOK, SignalInv, [Next]_vars PROVE SignalInv'
    OBVIOUS
  <2>1. ASSUME NEW s \in SignalCalls, SendNewIdentitySignal(s)
        PROVE  SignalInv'
    BY <2>1 DEF SendNewIdentitySignal, IsRunning, SignalInv, TypeOK,
       ProcOrNone, torVars
  <2>2. ASSUME NEW s \in SignalCalls, SignalSubscribes(s) PROVE SignalInv'
    BY <2>2 DEF SignalSubscribes, SignalInv, TypeOK, torVars
  <2>3. ASSUME NEW s \in SignalCalls, SignalSends(s) PROVE SignalInv'
    BY <2>3 DEF SignalSends, SignalInv, TypeOK
  <2>4. ASSUME NEW s \in SignalCalls, SignalHears(s) PROVE SignalInv'
    BY <2>4 DEF SignalHears, SignalInv, TypeOK, torVars
  <2>5. ASSUME NEW s \in SignalCalls, SignalFails(s) PROVE SignalInv'
    BY <2>5 DEF SignalFails, SignalInv, TypeOK, torVars
  <2>6. ASSUME NEW p \in Procs, TorAppliesNewnym(p) PROVE SignalInv'
    <3>1. \A q \in Procs : newnyms'[q] >= newnyms[q]
      BY <2>6 DEF TorAppliesNewnym, TypeOK
    <3>2. newnyms'[p] = newnyms[p] + 1
      BY <2>6 DEF TorAppliesNewnym, TypeOK
    <3>3. UNCHANGED <<signal_state, signal_target, signal_from>>
      BY <2>6 DEF TorAppliesNewnym
    <3> SUFFICES ASSUME NEW s \in SignalCalls
                 PROVE  SignalInv!(s)'
      BY DEF SignalInv
    <3>4. signal_event'[s] => signal_event[s] \/ signal_target[s] = p
      BY <2>6 DEF TorAppliesNewnym, TypeOK
    <3>5. CASE signal_state[s] \in {"posted", "subscribed", "signalled", "ok"}
      <4>1. /\ signal_target[s] \in Procs
            /\ newnyms[signal_target[s]] >= signal_from[s]
            /\ \/ signal_state[s] = "signalled" /\ signal_event[s]
               \/ signal_state[s] = "ok"
               => newnyms[signal_target[s]] > signal_from[s]
        BY <3>5 DEF SignalInv
      <4>2. newnyms[signal_target[s]] \in Nat /\ signal_from[s] \in Nat
        BY <4>1 DEF TypeOK
      <4>3. newnyms'[signal_target[s]] \in Nat
        BY <4>1, <2>6 DEF TorAppliesNewnym, TypeOK
      <4>4. CASE signal_target[s] = p
        BY <3>2, <3>3, <4>1, <4>2, <4>4
      <4>5. CASE signal_target[s] # p
        BY <3>1, <3>3, <3>4, <4>1, <4>2, <4>3, <4>5
      <4> QED BY <4>4, <4>5
    <3> QED
      BY <3>3, <3>5
  <2>7. CASE UNCHANGED <<signalVars, newnyms>>
    BY <2>7 DEF SignalInv, signalVars
  <2>8. ASSUME \/ Stop
               \/ \E r \in Requests : Launch(r) \/ WarmCheckEnds(r)
               \/ \E g \in Generations :
                    OnSpawned(g) \/ OnBootstrapped(g) \/ LaunchTask(g)
               \/ \E p \in Procs : KillTask(p) \/ CloseTask(p)
               \/ \E p \in Procs :
                    \/ TorReadsConfig(p) \/ TorOpensPorts(p)
                    \/ TorBuildsCircuit(p) \/ TorExits(p)
        PROVE  UNCHANGED <<signalVars, newnyms>>
    BY <2>8 DEF Stop, Launch, LaunchWarm, LaunchCoalesced, LaunchRefused,
       LaunchCold, WarmCheckEnds, OnSpawned, OnBootstrapped, LaunchTask,
       SpawnPrepares, SpawnFails, SpawnOpensTorrc, SpawnStarts, BootReadsPort, BootConnects,
       BootPolls, BootTimesOut, KillTask, CloseTask, TorReadsConfig,
       TorOpensPorts, TorBuildsCircuit, TorExits, torVars, callVars
  <2>9. ASSUME \/ \E e \in ExitCalls : SetExitCountry(e) \/ ExitTask(e)
               \/ \E b \in BridgeCalls : SetBridgeSettings(b) \/ BridgeTask(b)
               \/ UNCHANGED vars
        PROVE  UNCHANGED <<signalVars, newnyms>>
    BY <2>9 DEF SetExitCountry, ExitTask, ExitCallSets, ExitCallSignals,
       ExitCallFails, SetBridgeSettings, BridgeTask, BridgeWriteOpens,
       BridgeWriteEnds, BridgeWriteFails, vars, torVars, callVars
  <2> QED
    BY <2>1, <2>2, <2>3, <2>4, <2>5, <2>6, <2>7, <2>8, <2>9
       DEF Next, Tor, SignalTask
<1>3. SignalInv => NewIdentityMeansNewCircuits
  BY DEF SignalInv, NewIdentityMeansNewCircuits
<1> QED BY <1>1, <1>2, <1>3, TypeCorrect, PTL DEF Spec

\* What no step but those of the bridge settings, of SpawnTorBlocking and of a
\* tor that reads its torrc does: change a mode, or have a launch or a tor need
\* one that did not.
BridgesQuiet ==
  /\ UNCHANGED <<bridgeVars, spec_mode, torrc_mode, tor_mode>>
  /\ \A g \in Generations : step'[g] \in {"prepared", "writing"} =>
       step[g] \in {"prepared", "writing"}
  /\ \A p \in Procs :
       /\ tor_state'[p] = "starting" => tor_state[p] = "starting"
       /\ tor_state'[p] \in {"configured", "listening"} =>
            tor_state[p] \in {"configured", "listening"}

\* A mode reaches a tor only from bridges.json, through a launch and the torrc,
\* whatever reads and writes the files in between.
THEOREM BridgeInvariant == Spec => []BridgeInv
<1>1. Init => BridgeInv
  BY ConstantsAssumption DEF Init, BridgeInv
<1>2. TypeOK /\ BridgeInv /\ [Next]_vars => BridgeInv'
  <2> SUFFICES ASSUME TypeOK, BridgeInv, [Next]_vars PROVE BridgeInv'
    OBVIOUS
  <2>1. ASSUME NEW b \in BridgeCalls, SetBridgeSettings(b) PROVE BridgeInv'
    <3>1. /\ BridgesRewritten => BridgesRewritten'
          /\ chosen \subseteq chosen'
          /\ UNCHANGED <<bridges_file, launchVars, fileVars, torVars>>
      BY <2>1 DEF SetBridgeSettings, TypeOK, BridgesRewritten
    <3>2. \A c \in BridgeCalls : bridge_state'[c] \in {"posted", "writing"} =>
            bridge_arg'[c] \in chosen'
      BY <2>1 DEF SetBridgeSettings, TypeOK, BridgeInv
    <3> QED
      BY <3>1, <3>2 DEF BridgeInv, AllowedModes, launchVars, spawnVars, fileVars, torVars
  <2>2. ASSUME NEW b \in BridgeCalls, BridgeTask(b) PROVE BridgeInv'
    <3>1. /\ UNCHANGED <<chosen, bridge_arg, launchVars, fileVars, torVars>>
          /\ BridgesRewritten => BridgesRewritten'
      BY <2>2 DEF BridgeTask, BridgeWriteOpens, BridgeWriteEnds, BridgeWriteFails, TypeOK,
         BridgesRewritten
    <3>2. bridges_file' \in chosen \/ (bridges_file' = Truncated /\ BridgesRewritten')
      BY <2>2, <3>1 DEF BridgeTask, BridgeWriteOpens, BridgeWriteEnds, BridgeWriteFails, TypeOK,
         BridgeInv, BridgesRewritten
    <3>3. \A c \in BridgeCalls : bridge_state'[c] \in {"posted", "writing"} =>
            bridge_state[c] \in {"posted", "writing"}
      BY <2>2 DEF BridgeTask, BridgeWriteOpens, BridgeWriteEnds, BridgeWriteFails, TypeOK
    <3> QED
      BY <3>1, <3>2, <3>3 DEF BridgeInv, AllowedModes, launchVars, spawnVars, fileVars, torVars
  <2>5. ASSUME NEW g \in Generations, SpawnPrepares(g) PROVE BridgeInv'
    <3>1. ReadBridgeSettings \in AllowedModes
      BY ConstantsAssumption DEF ReadBridgeSettings, AllowedModes, BridgeInv,
         TypeOK
    <3>2. /\ \/ /\ spec_mode' = [spec_mode EXCEPT ![g] = ReadBridgeSettings]
                /\ step' = [step EXCEPT ![g] = "prepared"]
             \/ /\ step' = [step EXCEPT ![g] = "spawned"]
                /\ UNCHANGED spec_mode
          /\ UNCHANGED <<bridgeVars, torrc_mode, tor_mode, tor_state>>
      BY <2>5 DEF SpawnPrepares, ResolveBridgeLines, torVars, callVars
    <3> QED
      BY <3>1, <3>2 DEF BridgeInv, AllowedModes, BridgesRewritten, TypeOK, bridgeVars
  <2>6. ASSUME NEW g \in Generations, SpawnOpensTorrc(g) \/ SpawnStarts(g)
        PROVE  BridgeInv'
    <3>1. /\ torrc_mode' \in AllowedModes \cup {Truncated}
          /\ UNCHANGED <<bridgeVars, tor_mode, spec_mode>>
      BY <2>6 DEF SpawnOpensTorrc, SpawnStarts, BridgeInv, callVars, torVars, spawnVars
    <3>2. \A h \in Generations : step'[h] \in {"prepared", "writing"} =>
            step[h] \in {"prepared", "writing"}
      BY <2>6 DEF SpawnOpensTorrc, SpawnStarts, TypeOK
    <3>3. \A p \in Procs : tor_state'[p] \in {"configured", "listening"} =>
            tor_state[p] \in {"configured", "listening"}
      BY <2>6 DEF SpawnOpensTorrc, SpawnStarts, TypeOK, torVars
    <3> QED
      BY <3>1, <3>2, <3>3 DEF BridgeInv, AllowedModes, BridgesRewritten, bridgeVars
  <2>7. ASSUME NEW p \in Procs, TorReadsConfig(p) PROVE BridgeInv'
    <3>1. torrc_mode \in AllowedModes \cup {Truncated} /\ tor_state[p] = "starting"
      BY <2>7 DEF TorReadsConfig, BridgeInv
    <3>2. /\ \/ /\ torrc_mode # Truncated
                /\ tor_mode' = [tor_mode EXCEPT ![p] = torrc_mode]
                /\ tor_state' = [tor_state EXCEPT ![p] = "configured"]
             \/ /\ tor_mode' = [tor_mode EXCEPT ![p] = NoBridges]
                /\ tor_state' = [tor_state EXCEPT ![p] = "stray"]
          /\ UNCHANGED <<bridgeVars, torrc_mode, spec_mode, step>>
      BY <2>7 DEF TorReadsConfig, launchVars, spawnVars, fileVars, callVars
    <3> QED
      BY <3>1, <3>2 DEF BridgeInv, AllowedModes, BridgesRewritten, TypeOK, bridgeVars
  <2>8. CASE BridgesQuiet
    BY <2>8 DEF BridgesQuiet, BridgeInv, AllowedModes, BridgesRewritten, bridgeVars
  <2>9. ASSUME Stop \/ \E r \in Requests : Launch(r) \/ WarmCheckEnds(r)
        PROVE  BridgesQuiet
    BY <2>9 DEF Stop, Launch, LaunchWarm, LaunchCoalesced, LaunchRefused,
       LaunchCold, WarmCheckEnds, BridgesQuiet, TypeOK, launchVars, spawnVars,
       fileVars, torVars, callVars
  <2>10. ASSUME NEW g \in Generations,
                \/ OnSpawned(g) \/ OnBootstrapped(g) \/ SpawnFails(g)
                \/ BootReadsPort(g) \/ BootConnects(g) \/ BootPolls(g)
                \/ BootTimesOut(g)
         PROVE  BridgesQuiet
    <3>1. /\ UNCHANGED <<bridgeVars, spec_mode, torrc_mode, tor_mode, tor_state>>
          /\ \/ UNCHANGED step
             \/ \E k \in {"idle", "boot", "spawned", "booted"} :
                  step' = [step EXCEPT ![g] = k]
      BY <2>10 DEF OnSpawned, OnBootstrapped, SpawnFails, BootReadsPort,
         BootConnects, BootPolls, BootTimesOut, spawnVars, fileVars, torVars,
         callVars
    <3> QED BY <3>1 DEF BridgesQuiet, TypeOK
  <2>11. ASSUME NEW p \in Procs,
                \/ KillTask(p) \/ CloseTask(p) \/ TorOpensPorts(p)
                \/ TorBuildsCircuit(p) \/ TorAppliesNewnym(p) \/ TorExits(p)
         PROVE  BridgesQuiet
    <3>1. UNCHANGED <<bridgeVars, spec_mode, torrc_mode, tor_mode, step>>
      BY <2>11 DEF KillTask, CloseTask, TorOpensPorts, TorBuildsCircuit,
         TorAppliesNewnym, TorExits, launchVars, spawnVars, fileVars, torVars,
         callVars
    <3>2. \/ UNCHANGED tor_state
          \/ tor_state' = [tor_state EXCEPT ![p] = "dead"]
          \/ /\ tor_state[p] = "configured"
             /\ tor_state' = [tor_state EXCEPT ![p] = "listening"]
      BY <2>11 DEF KillTask, CloseTask, TorOpensPorts, TorBuildsCircuit,
         TorAppliesNewnym, TorExits, torVars
    <3> QED BY <3>1, <3>2 DEF BridgesQuiet, TypeOK
  <2>12. ASSUME \/ \E e \in ExitCalls : SetExitCountry(e) \/ ExitTask(e)
                \/ \E s \in SignalCalls :
                     SendNewIdentitySignal(s) \/ SignalTask(s)
                \/ UNCHANGED vars
         PROVE  BridgesQuiet
    BY <2>12 DEF SetExitCountry, ExitTask, ExitCallSets, ExitCallSignals,
       ExitCallFails, SendNewIdentitySignal, SignalTask, SignalSubscribes,
       SignalSends, SignalHears, SignalFails, BridgesQuiet, vars, launchVars,
       spawnVars, fileVars, torVars, callVars
  <2> QED
    BY <2>1, <2>2, <2>5, <2>6, <2>7, <2>8, <2>9, <2>10, <2>11, <2>12
       DEF Next, Tor, LaunchTask
<1> QED BY <1>1, <1>2, TypeCorrect, PTL DEF Spec

\* Whatever launches and calls of SetBridgeSettings() do at the same time, a tor
\* the browser can use has bridges the user chose, or none at all from a
\* bridges.json caught while it was rewritten.
THEOREM BridgesAlwaysKept == Spec => []BridgesKept
<1>1. BridgeInv => BridgesKept
  BY DEF BridgeInv, AllowedModes, BridgesKept
<1> QED BY <1>1, BridgeInvariant, PTL

\* TorManager implements TorLifecycle: the races of Launch(), Stop(),
\* OnSpawned() and OnBootstrapped() are invisible to callers.
THEOREM LifecycleImplemented == Spec => ImplementsLifecycle
<1>1. Init => Lifecycle!Init
  BY DEF Init, Lifecycle!Init, Status, IsRunning
<1>2. TypeOK /\ LaunchInv /\ [Next]_vars
        => [Lifecycle!Next]_Lifecycle!lifecycleVars
  <2> SUFFICES ASSUME TypeOK, LaunchInv, [Next]_vars
               PROVE  [Lifecycle!Next]_Lifecycle!lifecycleVars
    OBVIOUS
  <2> USE DEF uiVars
  <2>1. CASE Stop
    <3>1. Status' = "off"
      BY <2>1 DEF Stop, TearDownChild, FinishLaunch, Status, IsRunning, TypeOK
    <3>2. Lifecycle!AnswerPending("failed")
      <4>1. CASE launching
        BY <2>1, <4>1 DEF Stop, FinishLaunch, Lifecycle!AnswerPending
      <4>2. CASE ~launching
        <5>1. \A r \in Requests : answer[r] # "pending"
          BY <4>2 DEF LaunchInv, LaunchInFlight, PendingLaunches
        <5>2. answer' = answer
          BY <2>1, <4>2 DEF Stop
        <5> QED BY <5>1, <5>2 DEF Lifecycle!AnswerPending, TypeOK
      <4> QED BY <4>1, <4>2
    <3> QED BY <3>1, <3>2 DEF Lifecycle!Next, Lifecycle!Stop
  <2>2. ASSUME NEW r \in Requests, LaunchWarm(r)
        PROVE  Lifecycle!Check(r)
    BY <2>2 DEF LaunchWarm, Status, IsRunning, Lifecycle!Check
  <2>3. ASSUME NEW r \in Requests, LaunchCoalesced(r) \/ LaunchCold(r)
        PROVE  Lifecycle!Ask(r)
    BY <2>3 DEF LaunchCoalesced, LaunchCold, TearDownChild, Status, IsRunning,
       Lifecycle!Ask
  <2>4. ASSUME NEW r \in Requests, LaunchRefused(r)
        PROVE  Lifecycle!Refuse(r)
    BY <2>4 DEF LaunchRefused, Status, IsRunning, Lifecycle!Refuse
  <2>5. ASSUME NEW r \in Requests, WarmCheckEnds(r)
        PROVE  Lifecycle!CheckEnds(r)
    BY <2>5 DEF WarmCheckEnds, Status, IsRunning, Lifecycle!CheckEnds
  <2>6. ASSUME NEW g \in Generations, OnSpawned(g)
        PROVE  Lifecycle!StartEnds \/ UNCHANGED <<Status, answer>>
    <3>1. CASE g # generation
      BY <2>6, <3>1 DEF OnSpawned, Status, IsRunning
    <3>2. step[g] = "spawned"
      BY <2>6 DEF OnSpawned
    <3>3. ASSUME g = generation
          PROVE  launching /\ ports = NoProc /\ Status = "starting"
      BY <3>2, <3>3 DEF LaunchInv, LaunchInFlight, RunningMeansBootstrapped,
         Status, IsRunning
    <3>4. CASE g = generation /\ spawned[g] = NoProc
      BY <2>6, <3>3, <3>4 DEF OnSpawned, FinishLaunch, Status, IsRunning,
         Lifecycle!StartEnds, Lifecycle!AnswerPending
    <3>5. CASE g = generation /\ spawned[g] # NoProc
      <4>1. UNCHANGED <<ports, launching, answer>>
        BY <2>6, <3>5 DEF OnSpawned
      <4> QED BY <3>3, <3>5, <4>1 DEF Status, IsRunning
    <3> QED BY <3>1, <3>4, <3>5
  <2>7. ASSUME NEW g \in Generations, OnBootstrapped(g)
        PROVE  Lifecycle!StartEnds \/ UNCHANGED <<Status, answer>>
    <3>1. CASE g # generation
      BY <2>7, <3>1 DEF OnBootstrapped, Status, IsRunning
    <3>2. step[g] = "booted"
      BY <2>7 DEF OnBootstrapped
    <3>3. ASSUME g = generation
          PROVE  /\ launching /\ ports = NoProc /\ Status = "starting"
                 /\ child # NoProc
      BY <3>2, <3>3 DEF LaunchInv, LaunchInFlight, RunningMeansBootstrapped,
         ChildInUse, Status, IsRunning
    <3>4. CASE g = generation /\ ~boot_ok[g]
      <4>1. Status' = "off"
        BY <2>7, <3>4 DEF OnBootstrapped, TearDownChild, FinishLaunch, Status,
           IsRunning
      <4>2. Lifecycle!AnswerPending("failed")
        BY <2>7, <3>4 DEF OnBootstrapped, FinishLaunch,
           Lifecycle!AnswerPending
      <4> QED BY <3>3, <3>4, <4>1, <4>2 DEF Lifecycle!StartEnds
    <3>5. CASE g = generation /\ boot_ok[g]
      <4>1. boot_port[g] # NoProc
        BY <3>2, <3>5 DEF LaunchInv, BootResults
      <4>2. Status' = "on"
        BY <2>7, <3>3, <3>5, <4>1 DEF OnBootstrapped, Status, IsRunning
      <4>3. Lifecycle!AnswerPending("ok")
        BY <2>7, <3>5 DEF OnBootstrapped, FinishLaunch,
           Lifecycle!AnswerPending
      <4> QED BY <3>3, <3>5, <4>2, <4>3 DEF Lifecycle!StartEnds
    <3> QED BY <3>1, <3>4, <3>5
  <2>8. ASSUME \/ \E g \in Generations : LaunchTask(g)
               \/ \E p \in Procs : KillTask(p) \/ CloseTask(p) \/ Tor(p)
        PROVE  UNCHANGED <<uiVars, answer>>
    BY <2>8 DEF LaunchTask, SpawnPrepares, SpawnFails, SpawnOpensTorrc, SpawnStarts,
       BootReadsPort, BootConnects, BootPolls, BootTimesOut, KillTask,
       CloseTask, Tor, TorReadsConfig, TorOpensPorts, TorBuildsCircuit,
       TorAppliesNewnym, TorExits, requestVars
  <2>9. ASSUME \/ \E e \in ExitCalls : SetExitCountry(e) \/ ExitTask(e)
               \/ \E s \in SignalCalls :
                    SendNewIdentitySignal(s) \/ SignalTask(s)
               \/ \E b \in BridgeCalls : SetBridgeSettings(b) \/ BridgeTask(b)
               \/ UNCHANGED vars
        PROVE  UNCHANGED <<uiVars, answer>>
    BY <2>9 DEF SetExitCountry, ExitTask, ExitCallSets, ExitCallSignals,
       ExitCallFails, SendNewIdentitySignal, SignalTask, SignalSubscribes,
       SignalSends, SignalHears, SignalFails, SetBridgeSettings, BridgeTask,
       BridgeWriteOpens, BridgeWriteEnds, BridgeWriteFails, vars, requestVars
  <2>10. UNCHANGED <<uiVars, answer>> => UNCHANGED <<Status, answer>>
    BY DEF Status, IsRunning
  <2> QED
    BY <2>1, <2>2, <2>3, <2>4, <2>5, <2>6, <2>7, <2>8, <2>9, <2>10
       DEF Next, Launch, Lifecycle!Next, Lifecycle!lifecycleVars
<1> QED
  BY <1>1, <1>2, TypeCorrect, LaunchInvariant, PTL
     DEF Spec, ImplementsLifecycle, Lifecycle!Spec
=============================================================================
