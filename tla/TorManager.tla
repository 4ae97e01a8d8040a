------------------------------ MODULE TorManager ------------------------------
(***************************************************************************)
(* MoltNet's Tor: the browser-wide singleton that starts, owns, configures *)
(* and stops one tor process (chrome/browser/molt_ai/tor/tor_manager.cc).  *)
(*                                                                         *)
(* The UI thread runs the public operations and the replies of its tasks,  *)
(* each one atomic.  SpawnTorBlocking, BootstrapBlocking, the warm check,  *)
(* the control commands, the file writes, the kills and the closing of an  *)
(* owning control connection run on the thread pool with no sequence of    *)
(* their own, so they interleave with the UI thread, with one another and  *)
(* with the tor processes.                                                 *)
(*                                                                         *)
(* A port number, a cookie and a control connection are represented by the *)
(* tor process they belong to: that is all any property tells apart.       *)
(***************************************************************************)
EXTENDS Naturals, FiniteSets

CONSTANTS
  Requests,       \* calls of Launch(), each with its on_ready callback
  Procs,          \* the tor processes LaunchProcess can create
  NoProc,         \* port 0, an invalid process, no connection, no file
  Countries,      \* exit countries; AnyExit is the empty string
  AnyExit,
  Modes,          \* BridgeSettings::Mode; NoBridges is kNone
  NoBridges,
  Unresolved,     \* the error of bridges that cannot be used
  Truncated,      \* a file opened for writing and still empty
  InitialMode,    \* what bridges.json holds when the browser starts
  ExitCalls,      \* calls of SetExitCountry()
  SignalCalls,    \* calls of SendNewIdentitySignal()
  BridgeCalls,    \* calls of SetBridgeSettings()
  MaxGeneration   \* bound on the calls of Stop()

ASSUME ConstantsAssumption ==
  /\ NoProc \notin Procs
  /\ AnyExit \in Countries
  /\ NoBridges \in Modes
  /\ Unresolved \notin Modes /\ Truncated \notin Modes
  /\ InitialMode \in Modes
  /\ MaxGeneration \in Nat

VARIABLES
  (* UI thread: members of TorManager *)
  child,            \* child_
  launching,        \* launching_
  generation,       \* generation_
  ports,            \* socks_port_ and control_port_ (always set together)
  owner_connection, \* owner_connection_
  exit_country,     \* exit_country_
  (* per Launch() call *)
  answer,           \* what its on_ready callback has been told
  warm_target,      \* the tor its warm check asks
  (* per generation: its launch on the thread pool *)
  step,             \* SpawnTorBlocking, BootstrapBlocking or their replies
  spec_country,     \* SpawnSpec::exit_country
  spec_mode,        \* the bridges SpawnTorBlocking resolved
  spawned,          \* TorSpawnResult::process
  boot_port,        \* endpoint.port in BootstrapBlocking
  boot_owner,       \* TorBootstrapResult::owner
  boot_ok,          \* TorBootstrapResult::success
  (* posted tasks *)
  killing,          \* processes a posted task will terminate
  closing,          \* owning connections a posted task will destroy
  (* the tor data directory *)
  port_file,        \* control_port, written by a tor
  cookie_file,      \* its authentication cookie
  torrc_country,    \* the torrc the next tor reads
  torrc_mode,
  bridges_file,     \* bridges.json
  (* per tor process *)
  tor_state,
  tor_country,
  tor_mode,
  circuit,          \* status/circuit-established
  newnyms,          \* how many NEWNYM signals it has applied
  deferred,         \* one is accepted and waits for the ten second limit
  (* per SetExitCountry() call *)
  exit_state, exit_target, exit_arg,
  (* per SendNewIdentitySignal() call *)
  signal_state, signal_target, signal_event,
  signal_from,      \* history: newnyms of its tor when the call was made
  (* per SetBridgeSettings() call *)
  bridge_state, bridge_arg,
  chosen            \* history: the bridge modes the user has chosen so far

uiVars      == <<child, launching, generation, ports, owner_connection>>
requestVars == <<answer, warm_target>>
spawnVars   == <<spec_country, spec_mode, spawned>>
bootVars    == <<boot_port, boot_owner, boot_ok>>
launchVars  == <<step, spawnVars, bootVars>>
taskVars    == <<killing, closing>>
fileVars    == <<port_file, cookie_file, torrc_country, torrc_mode>>
torVars     == <<tor_state, tor_country, tor_mode, circuit, newnyms, deferred>>
exitVars    == <<exit_state, exit_target, exit_arg>>
signalVars  == <<signal_state, signal_target, signal_event, signal_from>>
bridgeVars  == <<bridge_state, bridge_arg, bridges_file, chosen>>
callVars    == <<exitVars, signalVars, bridgeVars>>
vars == <<uiVars, exit_country, requestVars, launchVars, taskVars, fileVars,
          torVars, callVars>>

-----------------------------------------------------------------------------
(* State *)

Generations == 0..MaxGeneration
ProcOrNone  == Procs \cup {NoProc}

\* SpawnTorBlocking: before it, once bridges are resolved, within the write of
\* the torrc.
Spawning == {"spawn", "prepared", "writing"}

\* One launch: SpawnTorBlocking, its reply ("spawned"), BootstrapBlocking
\* ("boot") and its reply ("booted").
LaunchSteps == Spawning \cup {"idle", "spawned", "boot", "booted"}

\* A stray tor found its torrc empty: it runs with tor's defaults, without
\* bridges and without a control port.
TorStates == {"unborn", "starting", "stray", "configured", "listening", "dead"}

Alive(p) == tor_state[p] \in {"starting", "stray", "configured", "listening"}

\* pending_launches_
PendingLaunches == {r \in Requests : answer[r] = "pending"}

IsRunning == child # NoProc /\ ports # NoProc

\* ConnectAndAuthenticate() to p's control port: kOk needs a tor that
\* listens and the cookie file that tor wrote (SAFECOOKIE proves both sides
\* hold it).  With another tor's cookie the server hash does not match:
\* kAuthenticationFailed.  Everything else is kTransientFailure.
AuthOk(p)     == tor_state[p] = "listening" /\ cookie_file = p
AuthFailed(p) == tor_state[p] = "listening" /\ cookie_file \notin {p, NoProc}

Init ==
  /\ child = NoProc /\ launching = FALSE /\ generation = 0
  /\ ports = NoProc /\ owner_connection = NoProc
  /\ exit_country = AnyExit
  /\ answer = [r \in Requests |-> "unused"]
  /\ warm_target = [r \in Requests |-> NoProc]
  /\ step = [g \in Generations |-> "idle"]
  /\ spec_country = [g \in Generations |-> AnyExit]
  /\ spec_mode = [g \in Generations |-> NoBridges]
  /\ spawned = [g \in Generations |-> NoProc]
  /\ boot_port = [g \in Generations |-> NoProc]
  /\ boot_owner = [g \in Generations |-> NoProc]
  /\ boot_ok = [g \in Generations |-> FALSE]
  /\ killing = {} /\ closing = {}
  /\ port_file = NoProc /\ cookie_file = NoProc
  /\ torrc_country = AnyExit /\ torrc_mode = NoBridges
  /\ tor_state = [p \in Procs |-> "unborn"]
  /\ tor_country = [p \in Procs |-> AnyExit]
  /\ tor_mode = [p \in Procs |-> NoBridges]
  /\ circuit = [p \in Procs |-> FALSE]
  /\ newnyms = [p \in Procs |-> 0]
  /\ deferred = [p \in Procs |-> FALSE]
  /\ exit_state = [e \in ExitCalls |-> "unused"]
  /\ exit_target = [e \in ExitCalls |-> NoProc]
  /\ exit_arg = [e \in ExitCalls |-> AnyExit]
  /\ signal_state = [s \in SignalCalls |-> "unused"]
  /\ signal_target = [s \in SignalCalls |-> NoProc]
  /\ signal_event = [s \in SignalCalls |-> FALSE]
  /\ signal_from = [s \in SignalCalls |-> 0]
  /\ bridge_state = [b \in BridgeCalls |-> "unused"]
  /\ bridge_arg = [b \in BridgeCalls |-> NoBridges]
  /\ bridges_file = InitialMode
  /\ chosen = {InitialMode}

-----------------------------------------------------------------------------
(* Launch(), Stop() and the replies of a launch: UI thread *)

\* A bug: no check that child_ is a valid process.
TearDownChildUnchecked(also) ==
  /\ ports' = NoProc
  /\ closing' = closing \cup (({owner_connection} \cup also) \ {NoProc})
  /\ owner_connection' = NoProc
  /\ killing' = killing \cup {child}
  /\ child' = NoProc

\* A bug: the member is not reset when its process is handed to the task.
TearDownChildKeepsMember(also) ==
  /\ ports' = NoProc
  /\ closing' = closing \cup (({owner_connection} \cup also) \ {NoProc})
  /\ owner_connection' = NoProc
  /\ killing' = killing \cup ({child} \ {NoProc})
  /\ UNCHANGED child

\* TearDownChild(), in a handler that also closes the connections in |also|.
TearDownChild(also) ==
  /\ ports' = NoProc
  /\ closing' = closing \cup (({owner_connection} \cup also) \ {NoProc})
  /\ owner_connection' = NoProc
  /\ killing' = killing \cup ({child} \ {NoProc})
  /\ child' = NoProc

\* FinishLaunch(): every coalesced caller gets the same result.
FinishLaunch(result) ==
  /\ launching' = FALSE
  /\ answer' = [r \in Requests |-> IF answer[r] = "pending" THEN result
                                                            ELSE answer[r]]

\* Already running: only a warm check, answered straight to the caller.
LaunchWarm(r) ==
  /\ answer[r] = "unused"
  /\ IsRunning
  /\ answer' = [answer EXCEPT ![r] = "checking"]
  /\ warm_target' = [warm_target EXCEPT ![r] = ports]
  /\ UNCHANGED <<uiVars, exit_country, launchVars, taskVars, fileVars,
                 torVars, callVars>>

\* Coalesced into the launch in flight.
LaunchCoalesced(r) ==
  /\ answer[r] = "unused"
  /\ ~IsRunning
  /\ launching
  /\ answer' = [answer EXCEPT ![r] = "pending"]
  /\ UNCHANGED <<uiVars, exit_country, warm_target, launchVars, taskVars,
                 fileVars, torVars, callVars>>

\* A processor MoltNet refuses, or no usable tor binary.
LaunchRefused(r) ==
  /\ answer[r] = "unused"
  /\ ~IsRunning
  /\ ~launching
  /\ answer' = [answer EXCEPT ![r] = "failed"]
  /\ UNCHANGED <<uiVars, exit_country, warm_target, launchVars, taskVars,
                 fileVars, torVars, callVars>>

\* Tears down what an earlier launch left and posts SpawnTorBlocking with
\* the exit country of this moment.
LaunchCold(r) ==
  /\ answer[r] = "unused"
  /\ ~IsRunning
  /\ ~launching
  /\ answer' = [answer EXCEPT ![r] = "pending"]
  /\ launching' = TRUE
  /\ TearDownChild({})
  /\ step' = [step EXCEPT ![generation] = "spawn"]
  /\ spec_country' = [spec_country EXCEPT ![generation] = exit_country]
  /\ spawned' = [spawned EXCEPT ![generation] = NoProc]
  /\ boot_port' = [boot_port EXCEPT ![generation] = NoProc]
  /\ boot_owner' = [boot_owner EXCEPT ![generation] = NoProc]
  /\ boot_ok' = [boot_ok EXCEPT ![generation] = FALSE]
  /\ UNCHANGED <<generation, exit_country, warm_target, spec_mode, fileVars,
                 torVars, callVars>>

Launch(r) ==
  LaunchWarm(r) \/ LaunchCoalesced(r) \/ LaunchRefused(r) \/ LaunchCold(r)

\* A bug: a stale reply is dropped together with the process it carries.
OnSpawnedDropsStale(g) ==
  /\ step[g] = "spawned"
  /\ \/ /\ g # generation
        /\ step' = [step EXCEPT ![g] = "idle"]
        /\ UNCHANGED <<uiVars, answer>>
     \/ /\ g = generation /\ spawned[g] = NoProc
        /\ step' = [step EXCEPT ![g] = "idle"]
        /\ FinishLaunch("failed")
        /\ UNCHANGED <<child, generation, ports, owner_connection>>
     \/ /\ g = generation /\ spawned[g] # NoProc
        /\ child' = spawned[g]
        /\ step' = [step EXCEPT ![g] = "boot"]
        /\ UNCHANGED <<launching, generation, ports, owner_connection, answer>>
  /\ UNCHANGED <<exit_country, warm_target, spawnVars, bootVars, taskVars,
                 fileVars, torVars, callVars>>

\* OnSpawned(): a child of an abandoned launch is killed; the current one
\* becomes child_ and BootstrapBlocking is posted.
OnSpawned(g) ==
  /\ step[g] = "spawned"
  /\ \/ /\ g # generation
        /\ killing' = killing \cup ({spawned[g]} \ {NoProc})
        /\ step' = [step EXCEPT ![g] = "idle"]
        /\ UNCHANGED <<uiVars, answer>>
     \/ /\ g = generation /\ spawned[g] = NoProc
        /\ step' = [step EXCEPT ![g] = "idle"]
        /\ FinishLaunch("failed")
        /\ UNCHANGED <<child, generation, ports, owner_connection, killing>>
     \/ /\ g = generation /\ spawned[g] # NoProc
        /\ child' = spawned[g]
        /\ step' = [step EXCEPT ![g] = "boot"]
        /\ UNCHANGED <<launching, generation, ports, owner_connection,
                       killing, answer>>
  /\ UNCHANGED <<exit_country, warm_target, spawnVars, bootVars, closing,
                 fileVars, torVars, callVars>>

\* A bug: the generation is not compared.
OnBootstrappedAnyGeneration(g) ==
  /\ step[g] = "booted"
  /\ step' = [step EXCEPT ![g] = "idle"]
  /\ \/ /\ ~boot_ok[g]
        /\ TearDownChild({boot_owner[g]})
        /\ FinishLaunch("failed")
        /\ UNCHANGED generation
     \/ /\ boot_ok[g]
        /\ ports' = boot_port[g]
        /\ owner_connection' = boot_owner[g]
        /\ FinishLaunch("ok")
        /\ UNCHANGED <<child, generation, killing, closing>>
  /\ UNCHANGED <<exit_country, warm_target, spawnVars, bootVars, fileVars,
                 torVars, callVars>>

\* OnBootstrapped(): the connection of a stale or failed bootstrap is closed
\* (its tor exits with it); a current success publishes the ports.
OnBootstrapped(g) ==
  /\ step[g] = "booted"
  /\ step' = [step EXCEPT ![g] = "idle"]
  /\ \/ /\ g # generation
        /\ closing' = closing \cup ({boot_owner[g]} \ {NoProc})
        /\ UNCHANGED <<uiVars, killing, answer>>
     \/ /\ g = generation /\ ~boot_ok[g]
        /\ TearDownChild({boot_owner[g]})
        /\ FinishLaunch("failed")
        /\ UNCHANGED generation
     \/ /\ g = generation /\ boot_ok[g]
        /\ ports' = boot_port[g]
        /\ owner_connection' = boot_owner[g]
        /\ FinishLaunch("ok")
        /\ UNCHANGED <<child, generation, killing, closing>>
  /\ UNCHANGED <<exit_country, warm_target, spawnVars, bootVars, fileVars,
                 torVars, callVars>>

\* A bug: the callers of the launch in flight are left to its replies.
StopForgetsCallers ==
  /\ generation < MaxGeneration
  /\ generation' = generation + 1
  /\ TearDownChild({})
  /\ UNCHANGED <<launching, answer, exit_country, warm_target, launchVars,
                 fileVars, torVars, callVars>>

\* Stop(): replies of the launch in flight become stale.
Stop ==
  /\ generation < MaxGeneration
  /\ generation' = generation + 1
  /\ TearDownChild({})
  /\ IF launching THEN FinishLaunch("failed")
                  ELSE UNCHANGED <<launching, answer>>
  /\ UNCHANGED <<exit_country, warm_target, launchVars, fileVars, torVars,
                 callVars>>

-----------------------------------------------------------------------------
(* SpawnTorBlocking and BootstrapBlocking: thread pool *)

\* ReadBridgeSettingsBlocking(): what cannot be parsed reads as kNone.
ReadBridgeSettings == IF bridges_file \in Modes THEN bridges_file
                                                ELSE NoBridges

\* A bug: unusable bridges fall back to a direct connection.
ResolveBridgeLinesOrNone(mode) == {mode, NoBridges}

\* ResolveBridgeLinesBlocking() and FindTransport(): kNone needs nothing; any
\* other mode has its bridge lines and their transports, or is an error.
ResolveBridgeLines(mode) ==
  IF mode = NoBridges THEN {NoBridges} ELSE {mode, Unresolved}

\* The port file, the cookie and the legacy file of a previous run are
\* deleted and the bridges are resolved; unusable ones are reported instead
\* of a process.
SpawnPrepares(g) ==
  /\ step[g] = "spawn"
  /\ port_file' = NoProc /\ cookie_file' = NoProc
  /\ \E mode \in ResolveBridgeLines(ReadBridgeSettings) :
       \/ /\ mode # Unresolved
          /\ spec_mode' = [spec_mode EXCEPT ![g] = mode]
          /\ step' = [step EXCEPT ![g] = "prepared"]
       \/ /\ mode = Unresolved
          /\ step' = [step EXCEPT ![g] = "spawned"]
          /\ UNCHANGED spec_mode
  /\ UNCHANGED <<uiVars, exit_country, requestVars, spec_country, spawned,
                 bootVars, taskVars, torrc_country, torrc_mode, torVars,
                 callVars>>

\* An unusable directory, a torrc that is not safe or cannot be written:
\* reported instead of a process.
SpawnFails(g) ==
  /\ step[g] \in Spawning
  /\ step' = [step EXCEPT ![g] = "spawned"]
  /\ UNCHANGED <<uiVars, exit_country, requestVars, spawnVars, bootVars,
                 taskVars, fileVars, torVars, callVars>>

\* base::WriteFile empties the torrc, which a tor of another launch may be
\* about to read ...
SpawnOpensTorrc(g) ==
  /\ step[g] = "prepared"
  /\ torrc_country' = AnyExit
  /\ torrc_mode' = Truncated
  /\ step' = [step EXCEPT ![g] = "writing"]
  /\ UNCHANGED <<uiVars, exit_country, requestVars, spawnVars, bootVars,
                 taskVars, port_file, cookie_file, torVars, callVars>>

\* ... and writes it; tor is started, unless the defaults file cannot be
\* written or LaunchProcess fails.
SpawnStarts(g) ==
  /\ step[g] = "writing"
  /\ torrc_country' = spec_country[g]
  /\ torrc_mode' = spec_mode[g]
  /\ step' = [step EXCEPT ![g] = "spawned"]
  /\ \/ UNCHANGED <<tor_state, spawned>>
     \/ \E p \in Procs :
          /\ tor_state[p] = "unborn"
          /\ tor_state' = [tor_state EXCEPT ![p] = "starting"]
          /\ spawned' = [spawned EXCEPT ![g] = p]
  /\ UNCHANGED <<uiVars, exit_country, requestVars, spec_country, spec_mode,
                 bootVars, taskVars, port_file, cookie_file, tor_country,
                 tor_mode, circuit, newnyms, deferred, callVars>>

\* One poll: the control port, once the file has one.
BootReadsPort(g) ==
  /\ step[g] = "boot"
  /\ boot_port[g] = NoProc
  /\ port_file # NoProc
  /\ boot_port' = [boot_port EXCEPT ![g] = port_file]
  /\ UNCHANGED <<uiVars, exit_country, requestVars, step, spawnVars,
                 boot_owner, boot_ok, taskVars, fileVars, torVars, callVars>>

\* One poll: authenticate, take ownership, ask for the SOCKS port.  A failed
\* authentication or a refused TAKEOWNERSHIP ends the bootstrap; so does a
\* missing listener, which drops a connection that already owns the tor.
BootConnects(g) ==
  /\ step[g] = "boot"
  /\ boot_port[g] # NoProc /\ boot_owner[g] = NoProc
  /\ \/ /\ AuthOk(boot_port[g])
        /\ boot_owner' = [boot_owner EXCEPT ![g] = boot_port[g]]
        /\ UNCHANGED <<step, closing>>
     \/ /\ AuthOk(boot_port[g])
        /\ step' = [step EXCEPT ![g] = "booted"]
        /\ closing' = closing \cup {boot_port[g]}
        /\ UNCHANGED boot_owner
     \/ /\ AuthOk(boot_port[g]) \/ AuthFailed(boot_port[g])
        /\ step' = [step EXCEPT ![g] = "booted"]
        /\ UNCHANGED <<boot_owner, closing>>
  /\ UNCHANGED <<uiVars, exit_country, requestVars, spawnVars, boot_port,
                 boot_ok, killing, fileVars, torVars, callVars>>

\* A bug: an owned tor is ready before it has a circuit.
BootPollsNoCircuit(g) ==
  /\ step[g] = "boot"
  /\ boot_owner[g] # NoProc
  /\ \/ /\ Alive(boot_owner[g])
        /\ boot_ok' = [boot_ok EXCEPT ![g] = TRUE]
        /\ UNCHANGED boot_owner
     \/ /\ ~Alive(boot_owner[g])
        /\ boot_owner' = [boot_owner EXCEPT ![g] = NoProc]
        /\ UNCHANGED boot_ok
  /\ step' = [step EXCEPT ![g] = "booted"]
  /\ UNCHANGED <<uiVars, exit_country, requestVars, spawnVars, boot_port,
                 taskVars, fileVars, torVars, callVars>>

\* One poll: ready once tor has a circuit, lost once tor is gone.
BootPolls(g) ==
  /\ step[g] = "boot"
  /\ boot_owner[g] # NoProc
  /\ \/ /\ Alive(boot_owner[g]) /\ circuit[boot_owner[g]]
        /\ boot_ok' = [boot_ok EXCEPT ![g] = TRUE]
        /\ UNCHANGED boot_owner
     \/ /\ ~Alive(boot_owner[g])
        /\ boot_owner' = [boot_owner EXCEPT ![g] = NoProc]
        /\ UNCHANGED boot_ok
  /\ step' = [step EXCEPT ![g] = "booted"]
  /\ UNCHANGED <<uiVars, exit_country, requestVars, spawnVars, boot_port,
                 taskVars, fileVars, torVars, callVars>>

\* kColdBootstrapMs is over.
BootTimesOut(g) ==
  /\ step[g] = "boot"
  /\ step' = [step EXCEPT ![g] = "booted"]
  /\ UNCHANGED <<uiVars, exit_country, requestVars, spawnVars, bootVars,
                 taskVars, fileVars, torVars, callVars>>

\* CheckCircuitBlocking(): only a tor with a circuit passes.
WarmCheckEnds(r) ==
  /\ answer[r] = "checking"
  /\ \/ /\ AuthOk(warm_target[r]) /\ circuit[warm_target[r]]
        /\ answer' = [answer EXCEPT ![r] = "ok"]
     \/ answer' = [answer EXCEPT ![r] = "failed"]
  /\ UNCHANGED <<uiVars, exit_country, warm_target, launchVars, taskVars,
                 fileVars, torVars, callVars>>

\* The task that terminates a process: SIGTERM, then SIGKILL.
KillTask(p) ==
  /\ p \in killing
  /\ killing' = killing \ {p}
  /\ tor_state' = [tor_state EXCEPT ![p] = "dead"]
  /\ UNCHANGED <<uiVars, exit_country, requestVars, launchVars, closing,
                 fileVars, tor_country, tor_mode, circuit, newnyms, deferred,
                 callVars>>

\* The task that destroys an owning connection: tor exits with it.
CloseTask(p) ==
  /\ p \in closing
  /\ closing' = closing \ {p}
  /\ tor_state' = [tor_state EXCEPT ![p] = "dead"]
  /\ UNCHANGED <<uiVars, exit_country, requestVars, launchVars, killing,
                 fileVars, tor_country, tor_mode, circuit, newnyms, deferred,
                 callVars>>

-----------------------------------------------------------------------------
(* Exit country, New Identity and bridges *)

\* SetExitCountry(): an invalid code is rejected; otherwise remembered, and a
\* running tor is told on the thread pool.
SetExitCountry(e) ==
  /\ exit_state[e] = "unused"
  /\ \/ /\ exit_state' = [exit_state EXCEPT ![e] = "failed"]
        /\ UNCHANGED <<exit_country, exit_target, exit_arg>>
     \/ \E c \in Countries :
          /\ exit_country' = c
          /\ exit_arg' = [exit_arg EXCEPT ![e] = c]
          /\ \/ /\ ~IsRunning
                /\ exit_state' = [exit_state EXCEPT ![e] = "ok"]
                /\ UNCHANGED exit_target
             \/ /\ IsRunning
                /\ exit_state' = [exit_state EXCEPT ![e] = "posted"]
                /\ exit_target' = [exit_target EXCEPT ![e] = ports]
  /\ UNCHANGED <<uiVars, requestVars, launchVars, taskVars, fileVars,
                 torVars, signalVars, bridgeVars>>

\* RunCommandsBlocking(): SETCONF ExitNodes or RESETCONF ...
ExitCallSets(e) ==
  /\ exit_state[e] = "posted"
  /\ AuthOk(exit_target[e])
  /\ tor_country' = [tor_country EXCEPT ![exit_target[e]] = exit_arg[e]]
  /\ exit_state' = [exit_state EXCEPT ![e] = "set"]
  /\ UNCHANGED <<uiVars, exit_country, requestVars, launchVars, taskVars,
                 fileVars, tor_state, tor_mode, circuit, newnyms, deferred,
                 exit_target, exit_arg, signalVars, bridgeVars>>

\* ... then SIGNAL NEWNYM, which tor acknowledges before it applies it.
ExitCallSignals(e) ==
  /\ exit_state[e] = "set"
  /\ Alive(exit_target[e])
  /\ deferred' = [deferred EXCEPT ![exit_target[e]] = TRUE]
  /\ exit_state' = [exit_state EXCEPT ![e] = "ok"]
  /\ UNCHANGED <<uiVars, exit_country, requestVars, launchVars, taskVars,
                 fileVars, tor_state, tor_country, tor_mode, circuit,
                 newnyms, exit_target, exit_arg, signalVars, bridgeVars>>

\* No authenticated connection, a rejected command or a lost reply.
ExitCallFails(e) ==
  /\ exit_state[e] \in {"posted", "set"}
  /\ exit_state' = [exit_state EXCEPT ![e] = "failed"]
  /\ UNCHANGED <<uiVars, exit_country, requestVars, launchVars, taskVars,
                 fileVars, torVars, exit_target, exit_arg, signalVars,
                 bridgeVars>>

\* SendNewIdentitySignal()
SendNewIdentitySignal(s) ==
  /\ signal_state[s] = "unused"
  /\ \/ /\ ~IsRunning
        /\ signal_state' = [signal_state EXCEPT ![s] = "failed"]
        /\ UNCHANGED <<signal_target, signal_from>>
     \/ /\ IsRunning
        /\ signal_state' = [signal_state EXCEPT ![s] = "posted"]
        /\ signal_target' = [signal_target EXCEPT ![s] = ports]
        /\ signal_from' = [signal_from EXCEPT ![s] = newnyms[ports]]
  /\ UNCHANGED <<uiVars, exit_country, requestVars, launchVars, taskVars,
                 fileVars, torVars, exitVars, signal_event, bridgeVars>>

\* SignalNewnymAndWaitBlocking(): SETEVENTS SIGNAL ...
SignalSubscribes(s) ==
  /\ signal_state[s] = "posted"
  /\ AuthOk(signal_target[s])
  /\ signal_state' = [signal_state EXCEPT ![s] = "subscribed"]
  /\ UNCHANGED <<uiVars, exit_country, requestVars, launchVars, taskVars,
                 fileVars, torVars, exitVars, signal_target, signal_event,
                 signal_from, bridgeVars>>

\* A bug: tor's "250 OK" is taken for the switch.
SignalSendsTrustsReply(s) ==
  /\ signal_state[s] = "subscribed"
  /\ Alive(signal_target[s])
  /\ deferred' = [deferred EXCEPT ![signal_target[s]] = TRUE]
  /\ signal_state' = [signal_state EXCEPT ![s] = "ok"]
  /\ UNCHANGED <<uiVars, exit_country, requestVars, launchVars, taskVars,
                 fileVars, tor_state, tor_country, tor_mode, circuit,
                 newnyms, exitVars, signal_target, signal_event, signal_from,
                 bridgeVars>>

\* ... SIGNAL NEWNYM; an event that came before its reply is skipped ...
SignalSends(s) ==
  /\ signal_state[s] = "subscribed"
  /\ Alive(signal_target[s])
  /\ deferred' = [deferred EXCEPT ![signal_target[s]] = TRUE]
  /\ signal_event' = [signal_event EXCEPT ![s] = FALSE]
  /\ signal_state' = [signal_state EXCEPT ![s] = "signalled"]
  /\ UNCHANGED <<uiVars, exit_country, requestVars, launchVars, taskVars,
                 fileVars, tor_state, tor_country, tor_mode, circuit,
                 newnyms, exitVars, signal_target, signal_from, bridgeVars>>

\* ... and success once tor's event says it has switched.
SignalHears(s) ==
  /\ signal_state[s] = "signalled"
  /\ signal_event[s]
  /\ signal_state' = [signal_state EXCEPT ![s] = "ok"]
  /\ UNCHANGED <<uiVars, exit_country, requestVars, launchVars, taskVars,
                 fileVars, torVars, exitVars, signal_target, signal_event,
                 signal_from, bridgeVars>>

\* A bug: the wait for the event has no deadline.
SignalFailsNoDeadline(s) ==
  /\ signal_state[s] \in {"posted", "subscribed"}
  /\ signal_state' = [signal_state EXCEPT ![s] = "failed"]
  /\ UNCHANGED <<uiVars, exit_country, requestVars, launchVars, taskVars,
                 fileVars, torVars, exitVars, signal_target, signal_event,
                 signal_from, bridgeVars>>

\* Not connected, rejected, or no event within kNewnymAppliedTimeout.
SignalFails(s) ==
  /\ signal_state[s] \in {"posted", "subscribed", "signalled"}
  /\ signal_state' = [signal_state EXCEPT ![s] = "failed"]
  /\ UNCHANGED <<uiVars, exit_country, requestVars, launchVars, taskVars,
                 fileVars, torVars, exitVars, signal_target, signal_event,
                 signal_from, bridgeVars>>

\* SetBridgeSettings(): custom lines that do not parse are rejected before
\* anything is written; otherwise the write is posted.
SetBridgeSettings(b) ==
  /\ bridge_state[b] = "unused"
  /\ \/ /\ bridge_state' = [bridge_state EXCEPT ![b] = "rejected"]
        /\ UNCHANGED <<bridge_arg, chosen>>
     \/ \E m \in Modes :
          /\ bridge_state' = [bridge_state EXCEPT ![b] = "posted"]
          /\ bridge_arg' = [bridge_arg EXCEPT ![b] = m]
          /\ chosen' = chosen \cup {m}
  /\ UNCHANGED <<uiVars, exit_country, requestVars, launchVars, taskVars,
                 fileVars, torVars, exitVars, signalVars, bridges_file>>

\* WriteBridgeSettingsBlocking(): base::WriteFile truncates the file ...
BridgeWriteOpens(b) ==
  /\ bridge_state[b] = "posted"
  /\ bridges_file' = Truncated
  /\ bridge_state' = [bridge_state EXCEPT ![b] = "writing"]
  /\ UNCHANGED <<uiVars, exit_country, requestVars, launchVars, taskVars,
                 fileVars, torVars, exitVars, signalVars, bridge_arg, chosen>>

\* ... then writes it.
BridgeWriteEnds(b) ==
  /\ bridge_state[b] = "writing"
  /\ bridges_file' = bridge_arg[b]
  /\ bridge_state' = [bridge_state EXCEPT ![b] = "ok"]
  /\ UNCHANGED <<uiVars, exit_country, requestVars, launchVars, taskVars,
                 fileVars, torVars, exitVars, signalVars, bridge_arg, chosen>>

\* The file cannot be opened, or is opened and cannot be written.
BridgeWriteFails(b) ==
  /\ \/ /\ bridge_state[b] = "posted"
        /\ bridge_state' = [bridge_state EXCEPT ![b] = "rejected"]
     \/ /\ bridge_state[b] = "writing"
        /\ bridge_state' = [bridge_state EXCEPT ![b] = "failed"]
  /\ UNCHANGED <<uiVars, exit_country, requestVars, launchVars, taskVars,
                 fileVars, torVars, exitVars, signalVars, bridge_arg,
                 bridges_file, chosen>>

-----------------------------------------------------------------------------
(* The tor processes (external) *)

TorReadsConfig(p) ==
  /\ tor_state[p] = "starting"
  /\ \/ /\ torrc_mode # Truncated
        /\ tor_state' = [tor_state EXCEPT ![p] = "configured"]
        /\ tor_mode' = [tor_mode EXCEPT ![p] = torrc_mode]
     \/ /\ torrc_mode = Truncated
        /\ tor_state' = [tor_state EXCEPT ![p] = "stray"]
        /\ tor_mode' = [tor_mode EXCEPT ![p] = NoBridges]
  /\ tor_country' = [tor_country EXCEPT ![p] = torrc_country]
  /\ UNCHANGED <<uiVars, exit_country, requestVars, launchVars, taskVars,
                 fileVars, circuit, newnyms, deferred, callVars>>

\* Tor locks its data directory before it writes the cookie and the port.
TorOpensPorts(p) ==
  /\ tor_state[p] = "configured"
  /\ \A q \in Procs : tor_state[q] # "listening"
  /\ tor_state' = [tor_state EXCEPT ![p] = "listening"]
  /\ port_file' = p /\ cookie_file' = p
  /\ UNCHANGED <<uiVars, exit_country, requestVars, launchVars, taskVars,
                 torrc_country, torrc_mode, tor_country, tor_mode, circuit,
                 newnyms, deferred, callVars>>

TorBuildsCircuit(p) ==
  /\ tor_state[p] = "listening"
  /\ ~circuit[p]
  /\ circuit' = [circuit EXCEPT ![p] = TRUE]
  /\ UNCHANGED <<uiVars, exit_country, requestVars, launchVars, taskVars,
                 fileVars, tor_state, tor_country, tor_mode, newnyms,
                 deferred, callVars>>

\* The ten seconds are up: new streams get new circuits from here on, and
\* every connection that asked for SIGNAL events is told.
TorAppliesNewnym(p) ==
  /\ tor_state[p] = "listening"
  /\ deferred[p]
  /\ deferred' = [deferred EXCEPT ![p] = FALSE]
  /\ newnyms' = [newnyms EXCEPT ![p] = newnyms[p] + 1]
  /\ signal_event' = [s \in SignalCalls |->
                        \/ signal_event[s]
                        \/ /\ signal_target[s] = p
                           /\ signal_state[s] \in {"subscribed", "signalled"}]
  /\ UNCHANGED <<uiVars, exit_country, requestVars, launchVars, taskVars,
                 fileVars, tor_state, tor_country, tor_mode, circuit,
                 exitVars, signal_state, signal_target, signal_from,
                 bridgeVars>>

\* Crashes, or gives up on a locked data directory.
TorExits(p) ==
  /\ Alive(p)
  /\ tor_state' = [tor_state EXCEPT ![p] = "dead"]
  /\ UNCHANGED <<uiVars, exit_country, requestVars, launchVars, taskVars,
                 fileVars, tor_country, tor_mode, circuit, newnyms, deferred,
                 callVars>>

-----------------------------------------------------------------------------
(* Specification *)

LaunchTask(g) ==
  \/ SpawnPrepares(g) \/ SpawnFails(g) \/ SpawnOpensTorrc(g) \/ SpawnStarts(g)
  \/ BootReadsPort(g) \/ BootConnects(g) \/ BootPolls(g) \/ BootTimesOut(g)

ExitTask(e) == ExitCallSets(e) \/ ExitCallSignals(e) \/ ExitCallFails(e)

SignalTask(s) ==
  SignalSubscribes(s) \/ SignalSends(s) \/ SignalHears(s) \/ SignalFails(s)

BridgeTask(b) == BridgeWriteOpens(b) \/ BridgeWriteEnds(b) \/ BridgeWriteFails(b)

Tor(p) ==
  \/ TorReadsConfig(p) \/ TorOpensPorts(p) \/ TorBuildsCircuit(p)
  \/ TorAppliesNewnym(p) \/ TorExits(p)

Next ==
  \/ Stop
  \/ \E r \in Requests : Launch(r) \/ WarmCheckEnds(r)
  \/ \E g \in Generations : OnSpawned(g) \/ OnBootstrapped(g) \/ LaunchTask(g)
  \/ \E p \in Procs : KillTask(p) \/ CloseTask(p) \/ Tor(p)
  \/ \E e \in ExitCalls : SetExitCountry(e) \/ ExitTask(e)
  \/ \E s \in SignalCalls : SendNewIdentitySignal(s) \/ SignalTask(s)
  \/ \E b \in BridgeCalls : SetBridgeSettings(b) \/ BridgeTask(b)

Spec == Init /\ [][Next]_vars

\* The thread pool and the UI thread run what is posted to them; the two
\* bootstrap loops and the event wait end at their deadlines.  Nothing is
\* assumed of tor or of the user.
Fairness ==
  /\ \A g \in Generations :
       /\ WF_vars(OnSpawned(g))
       /\ WF_vars(OnBootstrapped(g))
       /\ WF_vars(LaunchTask(g))
  /\ \A r \in Requests : WF_vars(WarmCheckEnds(r))
  /\ \A p \in Procs : WF_vars(KillTask(p)) /\ WF_vars(CloseTask(p))
  /\ \A e \in ExitCalls : WF_vars(ExitTask(e))
  /\ \A s \in SignalCalls : WF_vars(SignalTask(s))
  /\ \A b \in BridgeCalls : WF_vars(BridgeTask(b))

FairSpec == Spec /\ Fairness

-----------------------------------------------------------------------------
(* Properties *)

\* Every variable has its type: in particular a published port and an owning
\* connection are always those of some tor this browser started.
TypeOK ==
  /\ child \in ProcOrNone /\ launching \in BOOLEAN
  /\ generation \in Generations
  /\ ports \in ProcOrNone /\ owner_connection \in ProcOrNone
  /\ exit_country \in Countries
  /\ answer \in [Requests ->
                   {"unused", "pending", "checking", "ok", "failed"}]
  /\ warm_target \in [Requests -> ProcOrNone]
  /\ step \in [Generations -> LaunchSteps]
  /\ spec_country \in [Generations -> Countries]
  /\ spec_mode \in [Generations -> Modes]
  /\ spawned \in [Generations -> ProcOrNone]
  /\ boot_port \in [Generations -> ProcOrNone]
  /\ boot_owner \in [Generations -> ProcOrNone]
  /\ boot_ok \in [Generations -> BOOLEAN]
  /\ killing \subseteq Procs /\ closing \subseteq Procs
  /\ port_file \in ProcOrNone /\ cookie_file \in ProcOrNone
  /\ torrc_country \in Countries /\ torrc_mode \in Modes \cup {Truncated}
  /\ tor_state \in [Procs -> TorStates]
  /\ tor_country \in [Procs -> Countries]
  /\ tor_mode \in [Procs -> Modes]
  /\ circuit \in [Procs -> BOOLEAN]
  /\ newnyms \in [Procs -> Nat]
  /\ deferred \in [Procs -> BOOLEAN]
  /\ exit_state \in [ExitCalls -> {"unused", "posted", "set", "ok", "failed"}]
  /\ exit_target \in [ExitCalls -> ProcOrNone]
  /\ exit_arg \in [ExitCalls -> Countries]
  /\ signal_state \in [SignalCalls -> {"unused", "posted", "subscribed",
                                       "signalled", "ok", "failed"}]
  /\ signal_target \in [SignalCalls -> ProcOrNone]
  /\ signal_event \in [SignalCalls -> BOOLEAN]
  /\ signal_from \in [SignalCalls -> Nat]
  /\ bridge_state \in [BridgeCalls ->
                         {"unused", "posted", "writing", "ok", "failed",
                          "rejected"}]
  /\ bridge_arg \in [BridgeCalls -> Modes]
  /\ bridges_file \in Modes \cup {Truncated}
  /\ chosen \subseteq Modes

\* A call of SetBridgeSettings() has got as far as emptying bridges.json.
BridgesRewritten ==
  \E b \in BridgeCalls : bridge_state[b] \in {"writing", "ok", "failed"}

\* launching_ is true exactly while callers wait in pending_launches_, and
\* exactly while the launch of the current generation has a task or a reply
\* in flight: a caller is never left waiting on a launch that is over, and a
\* second SpawnTorBlocking never starts beside a current one.
LaunchInFlight ==
  /\ launching <=> PendingLaunches # {}
  /\ launching <=> step[generation] # "idle"

\* No tor outlives the browser's interest in it: whatever Stop(), Launch()
\* and the replies did in between, a live tor is child_, or the reply that
\* carries it is on its way to OnSpawned(), or a task that kills it is posted.
NoOrphanTor ==
  \A p \in Procs : Alive(p) =>
    \/ child = p
    \/ p \in killing
    \/ \E g \in Generations : step[g] = "spawned" /\ spawned[g] = p

\* The task TearDownChild() or OnSpawned() posts never kills the tor the
\* browser is using: child_ was moved out of the member first.
KillsSpareChild == child \notin killing

\* "True once our child Tor has bootstrapped": ports are only published with
\* a child, an owning connection to the same tor, and a circuit that tor had.
RunningMeansBootstrapped ==
  /\ ports = owner_connection
  /\ ports # NoProc => child # NoProc /\ circuit[ports] /\ ~launching

\* A tor the browser can use runs with bridges the user has chosen, or, once
\* some call has begun to rewrite bridges.json, without any: never with others,
\* and never without any because the chosen ones cannot be used.
BridgesKept ==
  \A p \in Procs : tor_state[p] \in {"configured", "listening"} =>
    tor_mode[p] \in chosen \/ (tor_mode[p] = NoBridges /\ BridgesRewritten)

\* "Tor is never started without the bridges the user chose."
ChosenBridgesOnly ==
  \A p \in Procs : Alive(p) /\ tor_state[p] # "starting" =>
    tor_mode[p] \in chosen

\* SendNewIdentitySignal() reports success only if its tor has applied a
\* NEWNYM since the call, although tor acknowledges the command at once and
\* may defer it, and although other calls' events arrive on the same tor.
NewIdentityMeansNewCircuits ==
  \A s \in SignalCalls : signal_state[s] = "ok" =>
    newnyms[signal_target[s]] > signal_from[s]

\* The published port is the SOCKS port of child_, the tor that this launch
\* started.
PortsAreChilds == ports # NoProc => ports = child

\* A stale launch has no effect on the tor of the current one: no posted task
\* closes an owning connection to the tor whose ports are published.
StaleLaunchLeavesTor == ports \notin closing

\* An exit country SetExitCountry() has accepted is the one the running tor
\* uses once no call is under way.
ExitCountryApplied ==
  IsRunning /\ (\A e \in ExitCalls : exit_state[e] \in {"unused", "ok"})
    => tor_country[ports] = exit_country

\* What the callers of Launch() and Stop() see of it all.
Status == IF IsRunning THEN "on" ELSE IF launching THEN "starting" ELSE "off"

Lifecycle == INSTANCE TorLifecycle WITH status <- Status

\* TorManager implements TorLifecycle: through every race of Launch(), Stop()
\* and the replies, callers see off, starting and on, one result per start,
\* and no way back from on but Stop().
ImplementsLifecycle == Lifecycle!Spec

\* ... and under the thread pool's fairness starts and checks come to an end.
ImplementsFairLifecycle == Lifecycle!FairSpec

\* Every Launch() call is answered, whatever tor does.
EveryLaunchAnswered ==
  \A r \in Requests :
    answer[r] \in {"pending", "checking"}
      ~> answer[r] \in {"ok", "failed"}

\* A tor that is not the child any more, or was spawned for an abandoned
\* launch, dies.
AbandonedTorsDie ==
  \A p \in Procs :
    (Alive(p) /\ child # p
       /\ ~(step[generation] = "spawned" /\ spawned[generation] = p))
      ~> ~Alive(p)

\* SetExitCountry(), SendNewIdentitySignal() and SetBridgeSettings() answer.
EveryCallAnswered ==
  /\ \A e \in ExitCalls : exit_state[e] # "unused"
                            ~> exit_state[e] \in {"ok", "failed"}
  /\ \A s \in SignalCalls : signal_state[s] # "unused"
                              ~> signal_state[s] \in {"ok", "failed"}
  /\ \A b \in BridgeCalls : bridge_state[b] # "unused"
                              ~> bridge_state[b] \in {"ok", "failed", "rejected"}

-----------------------------------------------------------------------------
(* The inductive invariant behind the launch properties *)

\* Generations that have not begun have no launch.
FutureIdle == \A g \in Generations : g > generation => step[g] = "idle"

\* child_ is held exactly while its bootstrap runs or its ports are published.
ChildInUse ==
  child # NoProc <=> ports # NoProc \/ step[generation] \in {"boot", "booted"}

\* A process on its way to OnSpawned() is nobody else's.
SpawnedUnshared ==
  \A g \in Generations : step[g] = "spawned" /\ spawned[g] # NoProc =>
    /\ tor_state[spawned[g]] # "unborn"
    /\ spawned[g] # child
    /\ spawned[g] \notin killing
    /\ \A h \in Generations :
         step[h] = "spawned" /\ spawned[h] = spawned[g] => h = g

\* SpawnTorBlocking has no process before LaunchProcess.
SpawnsOnce ==
  \A g \in Generations : step[g] \in Spawning => spawned[g] = NoProc

\* Only processes that exist are held or killed.
HeldTorsBorn ==
  /\ child # NoProc => tor_state[child] # "unborn"
  /\ \A p \in killing : tor_state[p] # "unborn"

\* A bootstrap succeeds with an owning connection to the tor whose port it
\* read, once that tor has a circuit.
BootResults ==
  \A g \in Generations :
    /\ step[g] \in Spawning \cup {"spawned"} => boot_owner[g] = NoProc
    /\ step[g] \in Spawning \cup {"spawned", "boot"} => ~boot_ok[g]
    /\ step[g] \in {"boot", "booted"} /\ boot_owner[g] # NoProc =>
         boot_owner[g] = boot_port[g]
    /\ step[g] = "booted" /\ boot_ok[g] =>
         boot_owner[g] # NoProc /\ circuit[boot_owner[g]]

\* The four launch properties, with what makes them inductive: every step of
\* the UI thread, of the thread pool and of a tor preserves it.
LaunchInv ==
  /\ LaunchInFlight
  /\ NoOrphanTor
  /\ KillsSpareChild
  /\ RunningMeansBootstrapped
  /\ FutureIdle
  /\ ChildInUse
  /\ SpawnedUnshared
  /\ SpawnsOnce
  /\ HeldTorsBorn
  /\ BootResults

\* Behind NewIdentityMeansNewCircuits: a call under way has a tor, and an
\* event it will act on was sent after a NEWNYM applied since the call.
SignalInv ==
  \A s \in SignalCalls :
    /\ signal_state[s] \in {"posted", "subscribed", "signalled", "ok"} =>
         /\ signal_target[s] \in Procs
         /\ newnyms[signal_target[s]] >= signal_from[s]
    /\ \/ signal_state[s] = "signalled" /\ signal_event[s]
       \/ signal_state[s] = "ok"
       => newnyms[signal_target[s]] > signal_from[s]

\* The modes a tor may find in its torrc: what the user chose and, once
\* bridges.json may have been caught empty, no bridges.
AllowedModes == chosen \cup (IF BridgesRewritten THEN {NoBridges} ELSE {})

\* Behind BridgesKept: a mode on its way from bridges.json through a launch and
\* the torrc to a tor is an allowed one.
BridgeInv ==
  /\ bridges_file \in chosen \/ (bridges_file = Truncated /\ BridgesRewritten)
  /\ \A b \in BridgeCalls : bridge_state[b] \in {"posted", "writing"} =>
       bridge_arg[b] \in chosen
  /\ \A g \in Generations : step[g] \in {"prepared", "writing"} =>
       spec_mode[g] \in AllowedModes
  /\ (\E p \in Procs : tor_state[p] = "starting") =>
       torrc_mode \in AllowedModes \cup {Truncated}
  /\ \A p \in Procs : tor_state[p] \in {"configured", "listening"} =>
       tor_mode[p] \in AllowedModes
=============================================================================
