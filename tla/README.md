# A TLA+ verification of MoltBrowser

MoltBrowser is Chromium with patches and about thirty components of its own under
`src/chrome/browser/molt_ai`.  Paths below are relative to the repository's root; `tor/`,
`runtime/`, `models/` and `update/` are short for the directories of that name in
`src/chrome/browser/molt_ai/`.  The project models the parts whose correctness depends on the order
of events in several threads and processes:

* **MoltNet**, the private windows that go through a bundled Tor: `TorManager`, which owns the tor
  process, and the *identities* (off-the-record profiles) whose windows use it;
* **updates**: what the in-app updater downloads, verifies and installs;
* **model downloads**: the files of a language model on their way to the disk;
* **on-device inference**: worker threads, the UI thread and helper processes that may hang or die.

Each is model-checked on small instances, has its safety invariants proved for all values of the
constants, and is proved to implement a short abstract specification of what it promises.

## 1. Inventory

| component | state it keeps | operations | what is hard |
|---|---|---|---|
| Tor manager (`tor/tor_manager.cc`) | child process, launch flag and waiting callers, generation, ports, owning control connection, exit country; files of the tor data directory | `Launch`, `Stop`, `SetExitCountry`, `SendNewIdentitySignal`, `SetBridgeSettings`; replies `OnSpawned`, `OnBootstrapped` | blocking tasks on an unordered thread pool, abandoned launches that keep running, shared files, a process that dies at any time, deadlines |
| Tor control connection (`tor/tor_control_connection.cc`) | socket, line buffer | authenticate, command, wait for event | deferred NEWNYM, events of other calls |
| MoltNet windows (`tor/molt_net_window.cc`) | current profile, calls under way, profiles switching identity, reaper tasks | `Open`, `NewIdentity`, `TurnOff`, `DestroyIfUnused`, `EndIdentityAndCloseWindows` | a call spans five asynchronous stages; anything may happen in between |
| MoltNet routing (`tor/molt_net_routing.cc`) | ended mark, outstanding answers, refusal check | `EndIdentity`, `NetworkEnd`, `RefusalCheck`, `RoutingCheck` | two processes, messages on different pipes, service crash, deadlines against late answers |
| Live guard (`tor/molt_net_live_guard.cc`) | watches | a setting changes, a profile goes | ends an identity that New Identity is ending too |
| Memory valve (`tor/molt_net_memory_valve.cc`) | atomics `ended_`, `reading_`, `last_reading_us_` | sample, end for memory | several threads over three atomics |
| Network service side (`chrome/browser/net/proxy_config_monitor.cc`, patches to `services/network`) | each context's proxy configuration | make a context, end it, admit a request | requests already in a pipe when the end arrives |
| AI runtime (`runtime/browser_ai_runtime.cc`) | loaded model, `load_mutex`, requests under way, mailboxes | `LoadModel`, `UnloadModel`, `UnloadIfIdle`, `Generate`, `Wait`, `OnModelProcessLost` | threads that block on answers of the UI thread and give up when it stalls; a loaded model that is stale when used |
| Inference process host (`runtime/inference_process_host.cc`) | current, loading and retired process, each with its queue, clocks, load mailbox and exit waiters | `Load`, `StartGeneration`, `Cancel`, `Unload`, `Shutdown`; replies, timers, exits | a load deadline against a late answer, a queue of which only the first request is timed, a process that ends while it serves |
| Model downloads (`models/`, `ui/webui/molt_ai/molt_ai_chat_handler.cc`) | `.partial` file, hash so far, job, queue of files | start, resume, cancel, verify, rename | crash between any two of these; two jobs of one file; a server that answers anything |
| Updates (`update/`) | release, manifest, loader, installer on disk, helper | check, download, verify, install | a second check under a download, a hash that comes back late, a file that changes after it was verified |
| Memory (`molt_ai/memory`) | SQLite rows, embedding jobs | add, search, re-embed, clear | jobs that come back after a model change or `ClearAll()` |
| Automations, agents, Web AI, voice, translation, shield, vault, keys, OCR, import, page features | see `PROJECT.json` | | mostly text classification, UI or one file with one owner |

Interactions: a MoltNet window's `Open()` asks the parental controls, then `TorManager::Launch()`,
then makes a profile whose proxy is Tor's SOCKS port, then has its network context verified, then
opens.  `NewIdentity()` ends every MoltNet profile, waits until they are gone, calls
`TorManager::SendNewIdentitySignal()`, then runs `Open()` for its own window.  The live guard, the
memory valve and New Identity all end identities through `MoltNetRouting::EndIdentity()`.  Chat
pages, agents and the Web AI API call the AI runtime from worker threads; the runtime posts to the
inference process host on the UI thread and waits on a mailbox.  A model gets onto the disk through
a model download before it can be loaded.  The updater talks to no other component.

The components that are not modelled, with the reason for each, are in `PROJECT.json`, as are the
hazards, each at its line.

## 2. Modules

| module | models | kind |
|---|---|---|
| `TorLifecycle` | what `tor_manager.h` promises callers: off, starting, on; one result per start | abstract specification |
| `TorManager` | `tor_manager.cc` with the tor processes, the data directory and the control connection as it uses them | detailed specification |
| `TorManagerProofs` | theorems about it, the refinement included | proofs |
| `IdentityLife` | what `molt_net_window.h` and `molt_net_routing.h` promise: one identity in use, an end that is final | abstract specification |
| `MoltNetIdentity` | `molt_net_window.cc`, `molt_net_routing.cc`, `molt_net_live_guard.cc` and the network service's half of an end | detailed specification |
| `MoltNetIdentityProofs` | theorems about it | proofs |
| `IdentityLifeProofs` | it implements `IdentityLife` | proofs |
| `SignedUpdate` | what the updater promises: one update, from a signed manifest to the installed app | abstract specification |
| `UpdateManager` | `update_manager.cc` with the manifest policy of `release_manifest.cc` and the detached helper | detailed specification |
| `UpdateManagerProofs` | theorems about it, the refinement included | proofs |
| `ModelStore` | what the model directory promises: a file in place is whole and stays so | abstract specification |
| `ModelDownload` | `model_download_job.cc`, `model_download_plan.cc`, `download_policy.cc`, the chat handler's part, and the disk | detailed specification |
| `ModelDownloadProofs` | theorems about it | proofs |
| `ModelStoreProofs` | it implements `ModelStore` | proofs |
| `AiCalls` | what the runtime promises its callers: one answer for each call, which means what the caller takes it for | abstract specification |
| `AiRuntime` | `browser_ai_runtime.cc` and `inference_process_host.cc`, composed | detailed specification |
| `AiRuntimeProofs` | theorems about it | proofs |
| `AiCallsProofs` | it implements `AiCalls` | proofs |
| `MCTorManager`, `MCMoltNetIdentity`, `MCUpdateManager`, `MCModelDownload`, `MCAiRuntime` | small instances for TLC, with their symmetry | model checking |

### TorManager

The UI thread runs the public operations and the replies of its tasks; each is one action.
Everything posted to the thread pool is cut where another thread can see a difference.
`SpawnTorBlocking` is `SpawnPrepares` (stale files deleted, `bridges.json` read and the bridges
resolved), `SpawnOpensTorrc` (the torrc emptied), then `SpawnStarts` (the torrc's text written,
`LaunchProcess`).  Resolving the bridges (`ResolveBridgeLines`) gives the lines of the mode, or an
error (no usable line, no transport for one), which is reported instead of a process.  `BootstrapBlocking` is `BootReadsPort`, `BootConnects` (connect,
authenticate, take ownership), `BootPolls` (circuit established) and `BootTimesOut`.  A launch is
indexed by its `generation`, so launches that `Stop()` abandoned keep running beside the current
one, as in the code.  A port number, a cookie and a control connection are each represented by the
tor they belong to.  Tor itself is external: it reads its torrc, locks its directory, writes its
cookie and port files, builds a circuit, applies a deferred NEWNYM, and may exit at any moment.
`bridges.json` and the torrc are written in two steps each, because `base::WriteFile` truncates
first: a launch may find no settings, which it takes for the default, and a tor may read an empty
torrc and then runs with tor's own defaults, which no bootstrap ever finds.

`TorLifecycle`'s status is *on* while ports are published, else *starting* while a launch is in
flight, else *off* (`Status`).

### MoltNetIdentity

`profile`, `current`, `ended`, `watched`, `switching` are the browser's user data and sets; `phase`
is how far each `Open()` or `NewIdentity()` call has come; `chain` is each caller's
`EndIdentityAndCloseWindows()` for an identity (`posted`, `waiting` for the network, `confirming`
the refusal, `closing` the windows).  `ctx` is the network service's view of each context and
`queued` what sits unread in its pipe.  `EndIdentity` marks the identity, sends every running
context the end and waits for their answers (`holds`); `ContextEnds`, `Answered` and
`NetworkEndDeadline` race.  Circuits are known by `epoch`, the number of NEWNYM signals Tor has
applied; `sent` is history, the epochs in which an identity's requests left.  TorManager appears
only through what it promises: it comes up at any time (`TorStarts`; `Open()` and the chat page's
handler launch it) or refuses (`OnTorReadyRefuses`), and a
successful `SendNewIdentitySignal()` means that a NEWNYM has been applied since the call, which is
`TorManager`'s `NewIdentityMeansNewCircuits`.

`MoltEndIdentity()` is one step, because it is one task of the network service.  What a request
becomes below the admission point (sockets, cache, WebSockets) is not modelled.

In `IdentityLife` an identity is *open* while it is the current profile, *left* once it is not,
*ending* once it is marked and *silent* once every context had the end or a refusal was confirmed
(`Life`); a window is *shown* (`Shown`); `epoch` and `sent` are the same in both.

### UpdateManager

One run of the browser.  All of the updater but the hashing of the installer runs on the UI thread,
so each handler is one action.  There is one `loader_`; starting a transfer destroys the one before
it with its callback, so the outstanding transfer is the value of `loader`.  Servers answer any tag,
manifest, signature or installer.  Cryptography is ideal: a signature verifies only over a manifest
of `Signed`, and two files have the same size and SHA-256 only if they are the same file.  `disk`
may go bad at any time after a file was written.  The detached helper's script hashes the file once
more (`HelperChecks`) and then hands its path to the platform's installer (`HelperInstalls`), which
may ask for a password first; the file may go bad in between too, and `recheck` records that
(*spoiled*).  The further check of the code signature that the macOS script makes is left out, so
the model allows there what that check would refuse.  That the helpers of two runs of the browser
meet is not modelled.

In `SignedUpdate` an update is *accepted* from the moment its installer is fetched, *ready* in
`kDownloaded`, *handed* once the helper has it and *checked* once the helper has hashed it
(`Stage`); what it is of (`Offer`) is the tag and
the file the updater remembers, so the refinement fails if anything changes these under way.

### ModelDownload

A page's handler fetches the files of a unit (the weights and perhaps a projector), one
`ModelDownloadJob` each.  A job lives on the UI thread; its `Writer` lives on a file sequence that
goes on after the job is destroyed, so `tasks[j]` outlives `phase[j]`.  The disk is modelled as POSIX
has it: `partial` and `final` are paths that name inodes, `handle` an open inode, `content` its
blocks, `synced` what a power failure spares.  A block is "good" if it is what the pin has at that
place; a digest is the sequence of blocks hashed.  The server may ignore the range, send another
one, too little, too much or other bytes, or fall silent; writes, flushes, renames and unlinks may
fail; the browser may be killed and the power may fail at any time.

Both removals go path by path, and other jobs, other pages and a crash come in between.  A cancelled
job's `Writer::Discard()` deletes its `.partial` file and then each of `DownloadUnitPaths()`
(`discards[j]` counts what is left).  The user's deletion is `HandleDeleteModel()`, which posts to a
worker, and `DeleteModel`, that worker's steps: `BrowserAIRuntime::DeleteModel()` removes the weights
and the projector, its caller the `.partial` files (`deletes`).  No caller looks at the result of an
unlink, so `Unlink` may leave what it should delete.  `mixed` (inodes that were open while another
job had the file open) and `wiped` (the paths a cancel must leave empty, less those it could not
delete) are history.  `OnRetry()` is left out: nothing sets a retry option on the loader.

`ModelStore` sees only what is at the two paths of a pinned file: nothing, the whole pinned file, or
a file that two jobs had open (`Part`, `Place`), and whether a removal is under way (`Removing`).  A
removal is asked for, deletes single paths, and ends with all of it done or not; outside of one no
file in place is ever lost.  `Place` may also be *broken*, a value no action of `ModelStore`
produces.

### AiRuntime

Workers (threads in `LoadModel()`, `UnloadModel()` or `Generate()`) and the UI thread's host meet
only through `tasks`, mailboxes and `loaded_model_id`.  A worker's `pc` says where it is: *ending*
(an old process, when memory is low), *launch* and *load*, *unload*, *pinned* and *gen*, and the
steps after a failed generation in which `loaded_model_id` was read but not yet cleared.  `outcome`
is what a mailbox was finished with: *lost* stands for `kProcessGone`, `kTimedOut` and
`kMemoryExceeded`, *failed* for every other error, because those are what `LoadModel()` and
`Generate()` tell apart.  `order[p]` is a process's `queue_order`; a token in `queued` has no clock
running.  A process may answer in any order, break the protocol, hang or die at any time.
`OnModelProcessLost()` reads what is loaded in `KillProcess` and clears it in a second step, and a
worker may run in between; `forgetting` is that point, and the UI thread does nothing else before it
(`LossSettled`).  What the model merges, because no other thread can come in between or see the
difference: the check and the post of `UnloadIfIdle()` and `UnloadModel()` (setting a model takes
`load_mutex`), the two exit timers of an ending process, and `DestroySoon()`.  What it
over-approximates: whether a launch succeeds, whether a process that was asked to use the GPU is on
it, and when a worker gives up (`GivesUp` stands for the ping, the cancel confirmation and the
backstop of `Wait()`, which need a clock).

In `AiCalls` there are only callers and models.  A call is what the worker is in (`Job`), its answer
is what its mailbox was finished with (`Answer`), the model that runs a request is that of the
process whose queue has it (`By`), and the model that takes requests is that of the host's current
process (`Serving`).  The exit that a load first waits for when memory is low is no answer to the
load.  `AiCalls` does not say that a request runs on the model it names, because it may not
(finding 8).

## 3. What TLC checks

| run | instance | shows |
|---|---|---|
| `TorManagerLaunch` | 2 callers, 2 tors, 1 `Stop()` | callers wait exactly while their launch is in flight; no tor is lost; a posted kill never hits the tor in use; published ports mean a bootstrapped, owned tor; `LaunchInv` holds; every `Launch()` is answered and abandoned tors die; `TorLifecycle` is implemented, with its fairness |
| `TorManagerControl` | 2 signals, 1 exit country, 1 bridge call, 1 tor | success of New Identity's signal means new circuits; bridges that cannot be used never become none, and a usable tor has chosen ones unless `bridges.json` was being rewritten (`BridgesKept`); every call is answered |
| `MoltNetSwitch` | 2 identities, 1 window, 1 popup, 1 New Identity, requests of both | windows, profiles and circuits of two identities never mix; `IdentityInv` holds; `IdentityLife` is implemented; every call is answered, but for one whose routing check the network service never answers; ended pages stop |
| `MoltNetEnd` | 1 identity, 2 contexts, the live guard and New Identity ending it at once | the end reaches every context, crashes included; pages stop after their network; a confirmed refusal is one |
| `UpdateManagerInstall` | 3 releases (one running), 3 files, 2 download directories | a busy updater is always served; what is offered and launched is what a signed manifest lists for a newer release, and so is what is installed unless it went bad after the helper's own check; with honest servers an update arrives again and again; `SignedUpdate` is implemented |
| `ModelDownloadSerial` | 2 files, of which a server may send a block too many, one job at a time, 3 inodes, a deletion | a file in place is the pinned one; a cancelled download leaves nothing but what could not be deleted; every download ends or waits for the server; retries converge; `ModelStore` is implemented |
| `AiRuntimeWaits` | 1 loading and 1 chatting thread, 1 model that may use the GPU, 2 processes, 2 mailboxes, a UI thread that stalls | nothing a worker waits for is lost or unwatched (`RuntimeInv`); every wait ends; a model nobody serves is forgotten; `AiCalls` is implemented |
| `TorManagerStalePorts`, `TorManagerBridges`, `MoltNetBehind`, `ModelDownloadShared`, `AiRuntimeWrongModel` | the smallest that shows it | findings 1, 4, 5, 6 and 8 of section 5 |

**Bounds.**  `MaxGeneration` bounds the `Stop()` calls; one gives an abandoned launch beside a
current one.  Two tors are enough for one being killed beside one that starts; two callers are
coalesced, or the second finds Tor running.  Two identities are an old and
a new one; two contexts let one answer while the other has not; `MaxEpoch` 1 is the one NEWNYM a New
Identity waits for; `ForceRounds` (the code's `kMaxForceCloseRounds`) needs only to be positive.
`Senders` picks the identities whose requests are followed: in `MoltNetEnd` none, since `ctx` alone
carries its properties, in `MoltNetSwitch` all.  `Watchers` picks who besides New Identity may end
an identity.  Two newer releases let a check replace the release under a download, two directories
let an old installer lie beside a new one.  In `ModelDownload`, `Jobs` are the jobs whose `Writer`
still exists, a number is used again after; `MaxAtWork` 1 has a download asked for when the jobs
before it are done with, 2 lets them overlap (run `ModelDownloadShared`), so that a download beside
the queue of a destroyed job is covered by that run and by the proofs only; one `DeleteModel` is at
work at a time; three inodes are the two files in place or partial and one that is unlinked
but open.  In `AiRuntime`, `Procs` and `Boxes` bound the process objects and mailboxes that exist at
a time; two of each give a process that retires beside one that loads, and a request of a worker
that gave up beside its next one.  The theorems of section 4 remove all these bounds for safety.
`RuntimeInv` was also checked with two models, two processes and three mailboxes (6.75 million
states), `DownloadInv` with two overlapping jobs (4.6 million); both are too slow to keep as runs.

**Deadlock** is not checked: once the finite supply of calls is used up and every task has run,
the program has nothing left to do.

**Sizes.**  The largest runs are `MoltNetEnd` (3.1 million states), `MoltNetSwitch` (474 thousand,
with its liveness) and `ModelDownloadSerial` (215 thousand, with its liveness).

**Fairness.**  `TorManager` assumes that the thread pool and the UI thread run what was posted to
them and that the deadlines in the code's loops (the `total_ms` of the bootstrap and of the warm
check, `kNewnymAppliedTimeout`, the control connection's read deadline) expire.  Nothing is assumed of tor, so every liveness
property holds for a tor that hangs or dies.  `MoltNetIdentity` assumes only that the UI thread does
not stop while it has a task or an expired timer (`UiTask`, which includes TorManager's answers, its
own liveness).  Nothing is assumed of the network service: no answer to an end, so that
`EndedPagesStop` rests on the deadline alone, and none to a routing check, so that
`EveryRequestAnswered` has to except a call that waits for one for ever (finding 11).

`UpdateManager` assumes the UI thread, the thread pool and the timers that call `CheckForUpdates()`,
and that transfers end; `CheckForUpdates` has strong fairness because a check is refused while the
updater is busy.  `AutoUpdateArrives` also needs `Honest`: a server that again and again offers a
newer release with its signed manifest and installer, and a disk that keeps it.  That is an
assumption about the world, without which no update could arrive; dishonest answers stay possible in
between.  `ModelDownload` assumes the UI thread and the file sequences, and nothing of the network:
the loader has no timeout and a body no limit.  So `DownloadEnds` says that a download ends or is the
server's turn (`NetworkTurn`), which leaves no wait that the browser's own threads could forget.
`RetriesConverge` states its assumptions itself: from some time on every step is `Benign`, it is not
the server's turn for ever, and the page goes on asking.  `AiRuntime` assumes that
threads run, that the UI thread runs its tasks, and that the load deadline, the clocks of a process's
first request and the exit timer fire when what they watch does not end by itself.  Nothing is
assumed of a process, and `GivesUp` is not fair: `WaitsEnd` does not rest on workers that give up.
Posting a request has strong fairness only because the model bounds mailboxes and processes; the
code does not.  `StaleIsForgotten` assumes that users go on chatting (`Pin`), and excludes in its
statement a UI thread that stalls again and again.

## 4. What is proved

All theorems hold for every value of the constants that satisfies the module's assumption
(`ConstantsAssumption`, `IdentityAssumption`, `VersionAssumption`, `UnitAssumption`,
`RuntimeAssumption`), which only say that the special values differ from the others, that the kinds
of calls are disjoint and that sizes and bounds are natural numbers; `UnitAssumption` adds what
`CheckUnit()` enforces, that both files of a unit with a projector are pinned.

*TorManagerProofs.*  `TypeCorrect`; `LaunchInvariant` (`LaunchInv`), from which `LaunchInFlight`,
`NoOrphanTor`, `KillsSpareChild` and `RunningMeansBootstrapped` follow; `NewIdentityAlways`;
`BridgeInvariant`; `LifecycleImplemented`, the refinement of `TorLifecycle`.  None of the four launch properties is
inductive alone.  `NoOrphanTor` survives `OnSpawned()` only if the reply's process is nobody else's
(`SpawnedUnshared`) and `SpawnTorBlocking` had none before (`SpawnsOnce`); `LaunchInFlight` survives
`Stop()` only if later generations are idle (`FutureIdle`); `RunningMeansBootstrapped` needs what a
bootstrap's result carries (`BootResults`) and when `child_` is held (`ChildInUse`).  `SignalInv`
carries the NEWNYM argument: an event a call will act on was sent after a NEWNYM applied since the
call.  `BridgeInv` (`BridgeInvariant`) follows a bridge mode from `bridges.json`, which any number of
calls rewrite, through a launch and the torrc, which launches empty under each other's tors, into a
tor.  `BridgesAlwaysKept` proves `BridgesKept` with it: a usable tor has bridges the user chose, and
has none only if the user chose none or a call had begun to rewrite `bridges.json`.  The stronger
`ChosenBridgesOnly`, which the header promises, is false (finding 4).

*MoltNetIdentityProofs.*  Five invariants, each proved with the help of the ones before, whose
conjunction is `IdentityInv` (`IdentityCorrect`):

1. `TypeCorrect`: types, and `CallHasProfile`.
2. `ProfileInvariant`: `CurrentInUse` (the current profile is live and has not ended) makes
   `WindowsOutlivedByProfile` and `OneIdentity` inductive.
3. `EndInvariant`: `EndProgress` orders the stages of an end; with `EndReachesContexts` it gives
   `PagesStopAfterNetwork`, and `confirmed` being part of `ended` makes `ConfirmedMeansRefusing`
   survive contexts made later.
4. `SwitchInvariant`: one New Identity at a time (`OneSwitch`) and it retires all there is
   (`RetiresAll`), so nothing makes a profile during the switch: `SwitchIsExclusive`.
5. `CircuitInvariant`: a profile that was never made has sent nothing (`UnmadeIsSilent`), nothing is
   sent on circuits to come (`SentBefore`), and the NEWNYM a New Identity waited for lies between
   what the old identities sent and what the new one sends (`SwitchSeparates`).  The lemma
   `PastIsKept` says what no step undoes.  `NewIdentityIsSeparate` follows.

*IdentityLifeProofs.*  `IdentityLifeImplemented`.  That only the identity in use gets a window needs
`CurrentInUse` and `WindowOfCall` (`WindowOfCallAlways`: the window of a call is there only when the
call succeeded, so opening it replaces no other); that a silent identity never sends again needs `EndInvariant`, because a
context made after the end, or after a crash of the network service, must be born ended.

*UpdateManagerProofs.*  `UpdateInvariant` (`UpdateInv`), from which `TypeCorrect`, `BusyServed`,
`ReadySigned` and `InstalledSigned` follow.  `ReadyIsSignedRelease` is not inductive: a check that
comes back could change `latest_tag_` under a verified installer.  `Outstanding` says in which states
a transfer, a hash or the helper can be under way, so that a check never is while a download is;
`ExpectedIsSigned` carries the signed manifest from its verification to the installer; and
`HelperIsSigned` carries it into the helper, which outlives the browser.  `RecheckHolds` spans the
helper's two steps: it checks only once the browser is gone, so what it found good is what it
installs unless the file was spoiled since, the one case that `InstalledIsSigned` leaves open and
`InstalledAlwaysSigned` would not (finding 12).  `SignedUpdateImplemented` is the refinement; it needs
`HelperHasOffer`, that nothing the updater does after it launched the helper changes what it
remembers of the update.

*ModelDownloadProofs.*  `DownloadInvariant` (`DownloadInv`) for any number of pages, jobs, inodes and
blocks, overlapping jobs included, with `TypeCorrect` and `InPlacePinned`.  The argument: a file
sequence's queue has one of few shapes (`QueueShape`), so a finish is never behind a write that
failed; the running hash is that of what is open (`HashIsContent`), unless another job had it open
too; what would be renamed is what is open (`PathIsOurs`), two writers of one file are recorded in
`mixed` (`SharedIsMixed`), an inode is of one file (`OneFile`), and nobody has a file in place open
(`InPlaceIsClosed`), so it stays as it was verified and is on the disk for good (`InPlaceIsDurable`).
`CancelWipes` proves `CancelLeavesNothing` with an invariant of its own, `Wiping`: a path of `wiped`
that is still there is one that the cancelled job has still to delete (`StillToDelete`), and its
`Discard()` is the last task of its queue (`WillDiscard`), so nothing it does later puts a file back.
`UnitPathsCover` shows that `Discard()` comes past every path of the unit.

*ModelStoreProofs.*  `ModelStoreImplemented`, from `DownloadInvariant`: `InPlaceIsDurable` leaves no
broken file in place, before and after any step (`PlaceOf`, `PlaceAfter`), so what remains is who
was shared: `InPlaceIsClosed` and `OneFile` show that a job that opens a file makes nothing else
`mixed` (`OpenedBegins`), and `MovedPuts` that a rename carries the mark along.  `UnlinkRemoves` maps
an unlink, successful or not, to the removal of one path while a removal is under way, and
`AskOrEnd` everything that begins or breaks off one.

*AiRuntimeProofs.*  `RuntimeInvariant` (`RuntimeInv`, inductive with `TypeOK`) and `TypeCorrect`.
Worker steps leave the host alone and host steps leave the workers alone, but for the mailboxes, so
the proof has one lemma for each: `WaitsOnPost` and `WaitOver` for a worker that starts or ends a
wait, `HostAnswers` for a host step, which keeps `WaitsAreOwed` if every mailbox it lets go of is one
it finishes.  `GenerationFinished` is the arithmetic of the queue: after any request leaves, from any
place, the first and only the first is timed (`FirstIsTimed`).  `SlotsFit` ties states to slots;
without it `Load()` could overwrite a slot whose mailbox is still owed.

*AiCallsProofs.*  `AnswerInvariant` (`AnswerInv`) and `AiCallsImplemented`.  `RuntimeInv` says that a
worker's mailbox is not forgotten; it does not say that its answer is the right one.  `AnswerInv`
does: the mailbox is in one place, answered or with one task or with one process (`OnePlace`); the
task or process has it for what the worker waits for, a load of the very model included (`Fits`);
and loads name a model (`LoadsName`).  The proof is organised by what a step does to the mailboxes:
`Shrinks` for steps that only let go of some, `Moves` for a task that hands one to a process,
`PostsFresh` for a worker that takes a new one.  `HostTells` turns what a host step finishes into the
set of workers it answers, and one lemma per operation (`EndMaps`, `FinishMaps`, `StartMaps`,
`LoadMaps`, ...) finds the step of `AiCalls`.  When a process ends, those who wait for its exit are
answered with it; `RuntimeInv`'s one loader at a time makes that one unloading worker at most.  TLC
checked `AnswerInv` on the instance of `AiRuntimeWaits` before it was proved.

*Only model-checked:* liveness and the fair refinement (`EveryLaunchAnswered`, `AbandonedTorsDie`,
`ImplementsFairLifecycle`, `EveryCallAnswered`, `EveryRequestAnswered`, `EndedPagesStop`,
`AutoUpdateArrives`, `DownloadEnds`, `RetriesConverge`, `WaitsEnd`, `StaleIsForgotten`), which are
out of the prover's reach.  Every safety property of a passing run is a theorem.  The refinements
that are proved are of safety: that a step of the abstract specification eventually happens is said
only by the liveness properties.

## 5. Findings

Those marked (run) have a run that shows them.  For the others the module states the property that
TLC refutes; replacing the property of a run of the same module by it, with the calls named in the
finding among the constants, shows the behaviour.  Findings 11, 13 and 14 are what a property of
section 3 had to leave open.

1. (run) **A launch can publish another tor's ports** (`PortsAreChilds`, `tor/tor_manager.cc:473`).
   The control port file has a fixed name.  A tor whose kill is only posted may write it after the
   next launch deleted it; that launch then authenticates to the dying tor.
2. **An abandoned bootstrap can own the next tor** (`StaleLaunchLeavesTor`, `tor/tor_manager.cc:489`).
   It keeps polling after `Stop()`, takes ownership of the next launch's tor, and its stale reply
   closes that connection, with which the tor in use exits.
3. **An exit country set while Tor starts is not applied** (`ExitCountryApplied`,
   `tor/tor_manager.cc:990`), although the call reports success; and of two calls to a running tor
   the older may be applied last (`tor/tor_manager.cc:1007`).
4. (run) **A launch that reads `bridges.json` while it is rewritten starts tor without bridges**
   (`ChosenBridgesOnly`, `tor/tor_manager.cc:258`), against `tor/tor_manager.h:210-211`.  Without any
   bridge call a launch that `Stop()` abandoned may still empty the torrc (`tor/tor_manager.cc:418`)
   under the next launch's tor, which then runs without bridges; but such a tor has no port file
   either and is never used.
5. (run) **New circuits can be asked for while an old network context still routes**
   (`NothingBehindTheSwitch`, `tor/molt_net_window.cc:755`), against the comment there: only the
   browser's profile object is waited for.  `NewIdentitySeparates` states what is still guaranteed,
   namely separation for every identity whose network had the end.
6. (run) **Two downloads of one model can put an unverified file in place**
   (`InPlaceAlwaysPinned`, `models/model_download_job.cc:75`).  Each page guards its own download
   only; one job empties the `.partial` file that the other, which has hashed it as it wrote, is
   about to rename.
7. **A page that is reloaded while it downloads refuses later downloads**
   (`BusyMeansDownloading`, `ui/webui/molt_ai/molt_ai_chat_handler.cc:447`): the job goes,
   `downloading_model_id_` stays.
8. (run) **A request can run on another model than the one it pinned** (`RequestRunsOnItsModel`,
   `runtime/browser_ai_runtime.cc:2201`).  `Generate()` checks what is loaded and posts; a load of
   another model swaps the processes before the task runs, and nothing compares again.
9. **A finished update is forgotten by the next check** (`AvailableNotDownloaded`,
   `update/update_manager.cc:181`): `CheckForUpdates()` runs in `kDownloaded` and sets `kAvailable`,
   from which it has to be downloaded again.
10. **A model that serves can be taken for unloaded** (`ServingIsLoaded`,
   `runtime/browser_ai_runtime.cc:1585`).  `OnModelProcessLost()` forgets by model, not by process,
   and in two steps; a newer process of the same model is then never ended by the idle timer.  No
   caller is harmed: the next load replaces the process.
11. **A network service that hangs leaves a call unanswered** (`EveryRequestAnswered` without its
   exception, `tor/molt_net_routing.cc:386`).  The routing check has no deadline, unlike the end of
   an identity.  If the call is a New Identity, its profile stays among those that switch, and
   further windows and New Identities are refused until the service dies.
12. **The installer can change between the helper's check and the installation**
   (`InstalledAlwaysSigned`, `update/update_manager.cc:854`), although the comment at
   `update/update_manager.cc:742-744` says that after the re-check nothing can swap the file.
13. **Half a unit can stay on the disk** (`models/model_download_job.cc:97`,
   `runtime/browser_ai_runtime.cc:2009`): removals go file by file, ignore what could not be deleted
   and are not taken up again after a crash.  `ModelStore` and `CancelLeavesNothing` promise no more.
14. **A download waits for a silent or endless server until the user cancels it**
   (`models/model_download_job.cc:252`): the loader has no timeout and the body no limit.

A remark on comments: `molt_net_window.cc:439-442` speaks of the "same SOCKS credentials" for two
identities, while the comment a few lines above 750 says that a new profile's context has "a SOCKS
password of its own".

## 6. Plan

Done: `TorManager`, `MoltNetIdentity`, `UpdateManager`, `ModelDownload` and `AiRuntime`, each with
its safety proofs, an abstract specification and the proof that it implements it.  What would come
next:

1. `MoltNet`: TorManager and the identities composed through `TorLifecycle` and the NEWNYM contract,
   with `OnTorStateChanged()` re-pointing live profiles when Tor comes back on another port.
2. `AiCalls` strengthened to answers of the model a request names, once finding 8 is settled.
3. The embedding process host, which repeats the inference host's pattern with its own queue, and on
   top of it `MemoryBackend`: background embeddings against a model change and `ClearAll()`.
4. `MemoryValve`: the sampling threads over three atomics.
5. Smaller candidates: automation storage and scheduling, Web AI sessions and quotas, filter list
   updates, the activation guard's window.

## 7. Not modelled

Control protocol parsing, torrc text, pluggable transports' command lines (pure functions over text,
tested input by input); sockets and HTTP; cryptography; language model output and everything driven
by it; user interface wording and layout.  In `MoltNetIdentity`: letterboxing, legacy pref migration,
re-pointing the proxy (planned), and which settings the live guard refuses (one boolean).  In
`UpdateManager`: release notes, sizes, progress, observers, and more than one run of the browser.  In
`ModelDownload`: progress, the license and disk-space checks (a refusal), the embedding model's own
downloader.  In `AiRuntime`: time (`browser_ai_runtime.cc:95-98` argues that the backstop of a wait
is longer than what it backs; how many queued generations fit into it cannot be said without clocks),
the model registry and its files, the crash-loop and GPU guards, which only refuse a load or the
GPU, what `StreamValidator` counts in a stream, `BrowserAIRuntime::Shutdown()`, which nothing calls.
The memory valve's atomics appear only through their effect, an end at any time.
