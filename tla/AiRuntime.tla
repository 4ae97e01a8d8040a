----------------------------- MODULE AiRuntime -----------------------------
(***************************************************************************)
(* On-device inference in the browser process:                             *)
(*   chrome/browser/molt_ai/runtime/browser_ai_runtime.cc  (the workers)   *)
(*   chrome/browser/molt_ai/runtime/inference_process_host.cc  (the host)  *)
(*                                                                         *)
(* Workers block in LoadModel(), UnloadModel() and Generate().  They share *)
(* what is loaded under short locks, post tasks to the host and wait on    *)
(* mailboxes.  The host lives on the UI thread: it runs the posted tasks   *)
(* in order and, between them, what its processes, pipes and timers bring. *)
(* A process may answer anything, hang or die at any time.                 *)
(*                                                                         *)
(* Outcomes are told apart as their readers do: "lost" is kProcessGone,    *)
(* kTimedOut or kMemoryExceeded (a load on the GPU is tried again on the   *)
(* CPU), "failed" every other error, a cancellation included.              *)
(***************************************************************************)
EXTENDS Naturals, Sequences, FiniteSets

CONSTANTS
  Loaders,         \* the threads that load and unload models
  Chats,           \* the threads that send requests; they may do both
  NoWorker,
  Models, NoModel,
  GpuModels,       \* the models a load may ask the GPU for
  Procs, NoProc,   \* bound: the ModelProcess objects there are at a time
  Boxes, NoBox,    \* bound: the mailboxes somebody still refers to
  UiStalls         \* the UI thread may stop answering the workers' pings

Workers == Loaders \cup Chats

ASSUME RuntimeAssumption ==
  /\ NoWorker \notin Workers
  /\ NoModel \notin Models /\ GpuModels \subseteq Models
  /\ NoProc \notin Procs
  /\ NoBox \notin Boxes
  /\ UiStalls \in BOOLEAN

VARIABLES
  \* BrowserAIRuntime
  loaded,      \* loaded_model_id
  loader,      \* the worker that holds load_mutex
  pc,          \* where a worker is
  target,      \* the model a worker loads, or pinned
  box,         \* the mailbox a worker waits on; a generation's is its token
  gpu,         \* the load under way asks for the GPU
  cancelling,  \* the workers that asked the host to cancel
  outcome,     \* what a mailbox was finished with; "none": not yet
  \* the UI thread
  tasks,       \* what the workers posted, in order
  forgetting,  \* OnModelProcessLost() is about to clear loaded_model_id
  down,        \* the app is terminating
  \* InferenceProcessHost
  current, loading,
  state,       \* of a ModelProcess; "free": there is none
  model,       \* model_id()
  onGpu,       \* gpu_requested(); such a process may be on the GPU
  order,       \* queue_order, the tokens of generations
  queued,      \* the tokens whose clocks do not run yet
  loadBox,     \* load_mailbox
  waiters      \* exit_waiters

workerVars == <<pc, target, box, gpu, cancelling>>
procVars == <<state, model, onGpu, order, queued, loadBox, waiters>>
hostVars == <<current, loading, procVars>>
vars == <<loaded, loader, workerVars, outcome, tasks, forgetting, down,
          hostVars>>

Init ==
  /\ loaded = NoModel
  /\ loader = NoWorker
  /\ pc = [w \in Workers |-> "idle"]
  /\ target = [w \in Workers |-> NoModel]
  /\ box = [w \in Workers |-> NoBox]
  /\ gpu = [w \in Workers |-> FALSE]
  /\ cancelling = {}
  /\ outcome = [b \in Boxes |-> "none"]
  /\ tasks = <<>>
  /\ forgetting = FALSE
  /\ down = FALSE
  /\ current = NoProc
  /\ loading = NoProc
  /\ state = [p \in Procs |-> "free"]
  /\ model = [p \in Procs |-> NoModel]
  /\ onGpu = [p \in Procs |-> FALSE]
  /\ order = [p \in Procs |-> <<>>]
  /\ queued = {}
  /\ loadBox = [p \in Procs |-> NoBox]
  /\ waiters = [p \in Procs |-> {}]

-----------------------------------------------------------------------------
(* Mailboxes and tasks *)

Tokens(p) == {order[p][n] : n \in DOMAIN order[p]}

\* Nobody refers to the mailbox, as when base::MakeRefCounted makes it.
Fresh(b) ==
  /\ \A w \in Workers : box[w] # b
  /\ \A n \in DOMAIN tasks : tasks[n].box # b
  /\ \A p \in Procs :
       /\ b \notin Tokens(p)
       /\ loadBox[p] # b
       /\ b \notin waiters[p]

\* A member of S, if it has one.  Which one does not matter: the unused
\* mailboxes, or process objects, are all alike.
Some(S) == IF S = {} THEN {} ELSE {CHOOSE x \in S : TRUE}
FreshBoxes == Some({b \in Boxes : Fresh(b)})

\* InferenceMailbox::Finish() of every mailbox in S.  The first outcome wins.
\* One whose worker gave up is gone with the host's reference to it.
Finished(S, kind) ==
  [b \in Boxes |->
    IF /\ b \in S
       /\ outcome[b] = "none"
       /\ \E w \in Workers : box[w] = b
    THEN kind
    ELSE outcome[b]]

Task(op, b, m, g) == [op |-> op, box |-> b, model |-> m, gpu |-> g]
Post(t) == tasks' = Append(tasks, t)

FreeProcs == {p \in Procs : state[p] = "free"}
LoadsPosted == {n \in DOMAIN tasks : tasks[n].op = "load"}

-----------------------------------------------------------------------------
(* The workers: BrowserAIRuntime *)

Waits == {"ending", "load", "unload", "gen"}
Generating == {"pinned", "gen", "forget", "drop", "post"}

\* LoadModel(), up to its first post.  What refuses the load before (an
\* unknown model, memory, the file, the crash-loop guard) changes nothing.
\* When memory is low the old model's process is to end first.
LoadModel(w, m, low) ==
  /\ w \in Loaders
  /\ pc[w] = "idle" /\ loader = NoWorker
  /\ ~down
  /\ loaded # m
  /\ low => loaded # NoModel
  /\ loader' = w
  /\ target' = [target EXCEPT ![w] = m]
  /\ \E g \in BOOLEAN :
       (g => m \in GpuModels) /\ gpu' = [gpu EXCEPT ![w] = g]
  /\ IF low
     THEN \E b \in FreshBoxes :
            /\ loaded' = NoModel
            /\ box' = [box EXCEPT ![w] = b]
            /\ Post(Task("unload", b, NoModel, FALSE))
            /\ pc' = [pc EXCEPT ![w] = "ending"]
     ELSE /\ pc' = [pc EXCEPT ![w] = "launch"]
          /\ UNCHANGED <<loaded, box, tasks>>
  /\ UNCHANGED <<cancelling, outcome, forgetting, down, hostVars>>

\* run_load() posts the load.
RunLoad(w) ==
  /\ pc[w] = "launch"
  /\ Cardinality(FreeProcs) > Cardinality(LoadsPosted)
  /\ \E b \in FreshBoxes :
       /\ box' = [box EXCEPT ![w] = b]
       /\ Post(Task("load", b, target[w], gpu[w]))
  /\ pc' = [pc EXCEPT ![w] = "load"]
  /\ UNCHANGED <<loaded, loader, target, gpu, cancelling, outcome, forgetting,
                 down, hostVars>>

\* UnloadModel() of the loaded model; of any other it returns at once.
UnloadModel(w, m) ==
  /\ w \in Loaders
  /\ pc[w] = "idle" /\ loader = NoWorker
  /\ loaded = m
  /\ loader' = w
  /\ loaded' = NoModel
  /\ \E b \in FreshBoxes :
       /\ box' = [box EXCEPT ![w] = b]
       /\ Post(Task("unload", b, NoModel, FALSE))
  /\ pc' = [pc EXCEPT ![w] = "unload"]
  /\ UNCHANGED <<target, gpu, cancelling, outcome, forgetting, down, hostVars>>

\* The idle timer, or critical memory pressure.  Nobody can set
\* loaded_model_id between the check and the post: that takes load_mutex.
UnloadIfIdle ==
  /\ loader = NoWorker
  /\ loaded # NoModel
  /\ \A w \in Workers : pc[w] \notin Generating
  /\ loaded' = NoModel
  /\ Post(Task("unload", NoBox, NoModel, FALSE))
  /\ UNCHANGED <<loader, workerVars, outcome, forgetting, down, hostVars>>

\* Generate() pins what is loaded.
Pin(w) ==
  /\ w \in Chats
  /\ pc[w] = "idle"
  /\ loaded # NoModel
  /\ target' = [target EXCEPT ![w] = loaded]
  /\ pc' = [pc EXCEPT ![w] = "pinned"]
  /\ UNCHANGED <<loaded, loader, box, gpu, cancelling, outcome, tasks,
                 forgetting, down, hostVars>>

\* Generate() posts the request.
Send(w) ==
  /\ pc[w] = "pinned"
  /\ \E b \in FreshBoxes :
       /\ box' = [box EXCEPT ![w] = b]
       /\ Post(Task("start", b, NoModel, FALSE))
  /\ pc' = [pc EXCEPT ![w] = "gen"]
  /\ UNCHANGED <<loaded, loader, target, gpu, cancelling, outcome, forgetting,
                 down, hostVars>>

\* Wait() sees the cancellation and asks the host, once.
CancelRequest(w) ==
  /\ pc[w] = "gen" /\ w \notin cancelling
  /\ outcome[box[w]] = "none"
  /\ cancelling' = cancelling \cup {w}
  /\ Post(Task("cancel", box[w], NoModel, FALSE))
  /\ UNCHANGED <<loaded, loader, pc, target, box, gpu, outcome, forgetting,
                 down, hostVars>>

\* Wait() returns and the worker drops the mailbox.
Returns(w) ==
  /\ box' = [box EXCEPT ![w] = NoBox]
  /\ outcome' = [outcome EXCEPT ![box[w]] = "none"]
  /\ cancelling' = cancelling \ {w}

\* The call returns.
Done(w) ==
  /\ pc' = [pc EXCEPT ![w] = "idle"]
  /\ target' = [target EXCEPT ![w] = NoModel]
  /\ gpu' = [gpu EXCEPT ![w] = FALSE]

\* The old process has exited, or the worker gave up on it.
AfterEnding(w) ==
  /\ pc' = [pc EXCEPT ![w] = "launch"]
  /\ UNCHANGED <<loaded, loader, target, gpu>>

AfterLoad(w, kind) ==
  IF kind = "lost" /\ gpu[w]
  THEN /\ pc' = [pc EXCEPT ![w] = "launch"]
       /\ gpu' = [gpu EXCEPT ![w] = FALSE]
       /\ UNCHANGED <<loaded, loader, target>>
  ELSE /\ Done(w)
       /\ loader' = NoWorker
       /\ loaded' = IF kind = "ok" THEN target[w] ELSE loaded

AfterUnload(w) ==
  /\ Done(w)
  /\ loader' = NoWorker
  /\ UNCHANGED loaded

\* A version of AfterGeneration that keeps the model after kNoModel.
KeepsModel(w, kind) ==
  /\ IF kind = "backendFailed" /\ loaded = target[w]
     THEN pc' = [pc EXCEPT ![w] = "drop"] /\ UNCHANGED <<target, gpu>>
     ELSE Done(w)
  /\ UNCHANGED <<loaded, loader>>

\* What Generate() does about an outcome, to the point where it has read
\* loaded_model_id.
AfterGeneration(w, kind) ==
  /\ IF kind \in {"noModel", "backendFailed"} /\ loaded = target[w]
     THEN /\ pc' = [pc EXCEPT ![w] = IF kind = "noModel" THEN "forget" ELSE "drop"]
          /\ UNCHANGED <<target, gpu>>
     ELSE Done(w)
  /\ UNCHANGED <<loaded, loader>>

Return(w, kind) ==
  /\ Returns(w)
  /\ \/ pc[w] = "ending" /\ AfterEnding(w)
     \/ pc[w] = "load" /\ AfterLoad(w, kind)
     \/ pc[w] = "unload" /\ AfterUnload(w)
     \/ pc[w] = "gen" /\ AfterGeneration(w, kind)
  /\ UNCHANGED <<tasks, forgetting, down, hostVars>>

\* Wait() finds the mailbox finished.
Answered(w) ==
  /\ pc[w] \in Waits
  /\ outcome[box[w]] # "none"
  /\ Return(w, outcome[box[w]])

\* Wait() sees that the app is terminating.
Closing(w) ==
  /\ pc[w] \in Waits
  /\ down
  /\ pc[w] = "gen" => w \in cancelling
  /\ outcome[box[w]] = "none"
  /\ Return(w, "failed")

\* Wait() returns early: a ping, a cancellation or the backstop was not
\* answered in time.
GivesUp(w) ==
  /\ pc[w] \in Waits
  /\ UiStalls
  /\ outcome[box[w]] = "none"
  /\ \E kind \in {"failed", "lost"} : Return(w, kind)

\* SetLoaded("") after kNoModel.
Forget(w) ==
  /\ pc[w] = "forget"
  /\ loaded' = NoModel
  /\ Done(w)
  /\ UNCHANGED <<loader, box, cancelling, outcome, tasks, forgetting, down,
                 hostVars>>

\* SetLoaded("") after kBackendFailed.
Drop(w) ==
  /\ pc[w] = "drop"
  /\ loaded' = NoModel
  /\ pc' = [pc EXCEPT ![w] = "post"]
  /\ UNCHANGED <<loader, target, box, gpu, cancelling, outcome, tasks,
                 forgetting, down, hostVars>>

\* The GPU failed under the model: its process is to end now.
PostUnload(w) ==
  /\ pc[w] = "post"
  /\ Post(Task("unloadNow", NoBox, NoModel, FALSE))
  /\ Done(w)
  /\ UNCHANGED <<loaded, loader, box, cancelling, outcome, forgetting, down,
                 hostVars>>

-----------------------------------------------------------------------------
(* The host: tasks *)

\* Retire(): a process with nothing to finish ends.
Retired(p) == IF order[p] = <<>> THEN "ending" ELSE "retired"

\* Before it does anything else the UI thread has left OnModelProcessLost(),
\* which ends with SetLoaded("").
LossSettled == loaded' = IF forgetting THEN NoModel ELSE loaded

\* The UI thread takes the task at the head of its queue.
Run(op) ==
  /\ LossSettled /\ forgetting' = FALSE
  /\ tasks # <<>> /\ Head(tasks).op = op
  /\ tasks' = Tail(tasks)
  /\ UNCHANGED <<loader, workerVars, down>>

\* Load().  A load still under way is abandoned.
Load ==
  /\ Run("load")
  /\ LET t == Head(tasks)
         stale == loading
     IN  IF down
         THEN /\ outcome' = Finished({t.box}, "failed")
              /\ UNCHANGED hostVars
         ELSE \E p \in Some(FreeProcs) :
                /\ outcome' = IF stale = NoProc THEN outcome
                              ELSE Finished({loadBox[stale]}, "noModel")
                /\ state' = [q \in Procs |->
                     IF q = p THEN "loading"
                     ELSE IF q = stale THEN "ending" ELSE state[q]]
                /\ loadBox' = [q \in Procs |->
                     IF q = p THEN t.box
                     ELSE IF q = stale THEN NoBox ELSE loadBox[q]]
                /\ model' = [model EXCEPT ![p] = t.model]
                /\ onGpu' = [onGpu EXCEPT ![p] = t.gpu]
                /\ loading' = p
                /\ UNCHANGED <<current, order, queued, waiters>>

\* A version of StartGeneration that stops the clocks of every request.
QueuesFirst ==
  /\ Run("start")
  /\ LET b == Head(tasks).box
     IN  IF down \/ current = NoProc \/ \E p \in Procs : b \in Tokens(p)
         THEN /\ outcome' = Finished({b}, IF down THEN "failed" ELSE "noModel")
              /\ UNCHANGED hostVars
         ELSE /\ order' = [order EXCEPT ![current] = Append(@, b)]
              /\ queued' = queued \cup {b}
              /\ UNCHANGED <<outcome, current, loading, state, model, onGpu,
                             loadBox, waiters>>

\* A version of StartGeneration that refuses requests during a load.
RefusesDuringLoad ==
  /\ Run("start")
  /\ LET b == Head(tasks).box
     IN  IF \/ down \/ current = NoProc \/ loading # NoProc
            \/ \E p \in Procs : b \in Tokens(p)
         THEN /\ outcome' = Finished({b}, IF down THEN "failed" ELSE "noModel")
              /\ UNCHANGED hostVars
         ELSE /\ order' = [order EXCEPT ![current] = Append(@, b)]
              /\ queued' = IF order[current] = <<>> THEN queued \ {b}
                           ELSE queued \cup {b}
              /\ UNCHANGED <<outcome, current, loading, state, model, onGpu,
                             loadBox, waiters>>

\* StartGeneration().
StartGeneration ==
  /\ Run("start")
  /\ LET b == Head(tasks).box
     IN  IF down \/ current = NoProc \/ \E p \in Procs : b \in Tokens(p)
         THEN /\ outcome' = Finished({b}, IF down THEN "failed" ELSE "noModel")
              /\ UNCHANGED hostVars
         ELSE /\ order' = [order EXCEPT ![current] = Append(@, b)]
              /\ queued' = IF order[current] = <<>> THEN queued \ {b}
                           ELSE queued \cup {b}
              /\ UNCHANGED <<outcome, current, loading, state, model, onGpu,
                             loadBox, waiters>>

\* The queue without its n-th token.
Without(s, n) ==
  [i \in 1..(Len(s) - 1) |-> IF i < n THEN s[i] ELSE s[i + 1]]

\* A version of FinishGeneration that does not activate the next request.
NextStaysQueued(p, n, kind) ==
  /\ outcome' = Finished({order[p][n]}, kind)
  /\ order' = [order EXCEPT ![p] = Without(@, n)]
  /\ queued' = queued \ {order[p][n]}
  /\ state' = [state EXCEPT ![p] =
                 IF @ = "retired" /\ Len(order[p]) = 1 THEN "ending" ELSE @]
  /\ UNCHANGED <<current, loading, model, onGpu, loadBox, waiters>>

\* FinishGeneration() of the n-th token in p's queue, with RemoveFromQueue():
\* the clocks of the next one start.  A retired process ends after its last.
FinishGeneration(p, n, kind) ==
  /\ outcome' = Finished({order[p][n]}, kind)
  /\ order' = [order EXCEPT ![p] = Without(@, n)]
  /\ queued' = (queued \ {order[p][n]})
                 \ (IF n = 1 /\ Len(order[p]) > 1 THEN {order[p][2]} ELSE {})
  /\ state' = [state EXCEPT ![p] =
                 IF @ = "retired" /\ Len(order[p]) = 1 THEN "ending" ELSE @]
  /\ UNCHANGED <<current, loading, model, onGpu, loadBox, waiters>>

\* Cancel().
Cancel ==
  /\ Run("cancel")
  /\ LET b == Head(tasks).box
     IN  \/ \E p \in Procs : \E n \in DOMAIN order[p] :
              order[p][n] = b /\ FinishGeneration(p, n, "failed")
         \/ /\ \A p \in Procs : b \notin Tokens(p)
            /\ UNCHANGED <<outcome, hostVars>>

\* Unload(kGraceful).
Unload ==
  /\ Run("unload")
  /\ LET b == Head(tasks).box
     IN  IF current = NoProc
         THEN /\ outcome' = Finished({b}, "ok")
              /\ UNCHANGED hostVars
         ELSE /\ waiters' = [waiters EXCEPT ![current] = @ \cup ({b} \ {NoBox})]
              /\ state' = [state EXCEPT ![current] = Retired(current)]
              /\ current' = NoProc
              /\ UNCHANGED <<outcome, loading, model, onGpu, order, queued,
                             loadBox>>

\* Unload(kNow), without a waiter.  queue_order, which is left as it is, is
\* not read again.
UnloadNow ==
  /\ Run("unloadNow")
  /\ IF current = NoProc
     THEN UNCHANGED <<outcome, hostVars>>
     ELSE /\ outcome' = Finished(Tokens(current), "noModel")
          /\ order' = [order EXCEPT ![current] = <<>>]
          /\ queued' = queued \ Tokens(current)
          /\ state' = [state EXCEPT ![current] = "ending"]
          /\ current' = NoProc
          /\ UNCHANGED <<loading, model, onGpu, loadBox, waiters>>

RunTask == Load \/ StartGeneration \/ Cancel \/ Unload \/ UnloadNow

-----------------------------------------------------------------------------
(* The host: what processes and timers bring *)

Event ==
  /\ LossSettled /\ forgetting' = FALSE
  /\ UNCHANGED <<loader, workerVars, tasks, down>>

\* OnLoadReply(kOk): the model takes over; the one before it finishes what it
\* is running.
LoadReplyOk(p) ==
  /\ Event
  /\ p = loading
  /\ outcome' = Finished({loadBox[p]}, "ok")
  /\ state' = [q \in Procs |->
       IF q = p THEN "ready"
       ELSE IF q = current THEN Retired(q) ELSE state[q]]
  /\ loadBox' = [loadBox EXCEPT ![p] = NoBox]
  /\ current' = p
  /\ loading' = NoProc
  /\ UNCHANGED <<model, onGpu, order, queued, waiters>>

\* OnLoadReply() with a failure.
LoadReplyFailed(p) ==
  /\ Event
  /\ p = loading
  /\ outcome' = Finished({loadBox[p]}, "failed")
  /\ state' = [state EXCEPT ![p] = "ending"]
  /\ loadBox' = [loadBox EXCEPT ![p] = NoBox]
  /\ loading' = NoProc
  /\ UNCHANGED <<current, model, onGpu, order, queued, waiters>>

\* KillProcess(), and OnModelProcessLost() until it has read what is loaded.
KillProcess(p, kind) ==
  /\ LossSettled
  /\ state[p] \in {"loading", "ready", "retired"}
  /\ outcome' = Finished(Tokens(p) \cup {loadBox[p]}, kind)
  /\ order' = [order EXCEPT ![p] = <<>>]
  /\ queued' = queued \ Tokens(p)
  /\ loadBox' = [loadBox EXCEPT ![p] = NoBox]
  /\ state' = [state EXCEPT ![p] = "ending"]
  /\ current' = IF current = p THEN NoProc ELSE current
  /\ loading' = IF loading = p THEN NoProc ELSE loading
  /\ forgetting' = (~forgetting /\ loaded = model[p])
  /\ UNCHANGED <<loader, workerVars, tasks, down, model, onGpu, waiters>>

\* The end of OnModelProcessLost().
ForgetLost ==
  /\ forgetting
  /\ LossSettled /\ forgetting' = FALSE
  /\ UNCHANGED <<loader, workerVars, outcome, tasks, down, hostVars>>

\* OnLoadTimeout().
OnLoadTimeout(p) ==
  state[p] = "loading" /\ KillProcess(p, "lost")

\* OnTick() finds that the n-th generation of p, whose clocks run, is stuck.
OnTick(p, n) ==
  /\ n \in DOMAIN order[p] /\ order[p][n] \notin queued
  /\ KillProcess(p, "lost")

\* A pipe closed or the process exited by itself.  One that was loading and
\* had not started counts as not launched.
OnProcessLost(p) ==
  \/ KillProcess(p, "lost")
  \/ state[p] = "loading" /\ KillProcess(p, "failed")

\* A message that breaks the protocol, of a load or of a generation.
OnViolation(p) ==
  /\ state[p] = "loading" \/ order[p] # <<>>
  /\ KillProcess(p, "failed")

\* OnFootprintSample() over the limit.
OnFootprintSample(p) == KillProcess(p, "lost")

\* OnComplete(), or OnChunk() with a stop sequence.  The process serves its
\* requests one at a time, but nothing holds it to that.
OnComplete(p, n) ==
  /\ Event
  /\ \/ FinishGeneration(p, n, "ok")
     \/ onGpu[p] /\ FinishGeneration(p, n, "backendFailed")

\* DestroyNow().
DestroyNow(p) ==
  /\ outcome' = Finished(waiters[p], "ok")
  /\ waiters' = [waiters EXCEPT ![p] = {}]
  /\ state' = [state EXCEPT ![p] = "free"]
  /\ model' = [model EXCEPT ![p] = NoModel]
  /\ onGpu' = [onGpu EXCEPT ![p] = FALSE]
  /\ UNCHANGED <<current, loading, order, queued, loadBox>>

\* The exit of an ending process is reported, or OnExitTimeout() gives up on
\* it: its timer, started by EndProcess(), is started once more when the
\* process has to be killed.
OnProcessExited(p) ==
  /\ Event
  /\ state[p] = "ending"
  /\ DestroyNow(p)

\* OnAppTerminating(), with the host's Shutdown().
OnAppTerminating ==
  /\ LossSettled /\ forgetting' = FALSE
  /\ ~down /\ down' = TRUE
  /\ outcome' = Finished(UNION {Tokens(p) \cup waiters[p] \cup {loadBox[p]} :
                                  p \in Procs}, "failed")
  /\ current' = NoProc
  /\ loading' = NoProc
  /\ state' = [p \in Procs |-> "free"]
  /\ model' = [p \in Procs |-> NoModel]
  /\ onGpu' = [p \in Procs |-> FALSE]
  /\ order' = [p \in Procs |-> <<>>]
  /\ queued' = {}
  /\ loadBox' = [p \in Procs |-> NoBox]
  /\ waiters' = [p \in Procs |-> {}]
  /\ UNCHANGED <<loader, workerVars, tasks>>

-----------------------------------------------------------------------------
(* The specification *)

Worker(w) ==
  \/ \E m \in Models, low \in BOOLEAN : LoadModel(w, m, low)
  \/ RunLoad(w)
  \/ \E m \in Models : UnloadModel(w, m)
  \/ Pin(w) \/ Send(w) \/ CancelRequest(w)
  \/ Answered(w) \/ Closing(w) \/ GivesUp(w)
  \/ Forget(w) \/ Drop(w) \/ PostUnload(w)

Process(p) ==
  \/ LoadReplyOk(p) \/ LoadReplyFailed(p) \/ OnLoadTimeout(p)
  \/ \E n \in DOMAIN order[p] : OnTick(p, n) \/ OnComplete(p, n)
  \/ OnProcessLost(p) \/ OnViolation(p) \/ OnFootprintSample(p)
  \/ OnProcessExited(p)

Next ==
  \/ \E w \in Workers : Worker(w)
  \/ UnloadIfIdle
  \/ RunTask
  \/ \E p \in Procs : Process(p)
  \/ ForgetLost
  \/ OnAppTerminating

Spec == Init /\ [][Next]_vars

\* What a worker does by itself once it has begun.
Goes(w) ==
  \/ Answered(w) \/ Closing(w)
  \/ Forget(w) \/ Drop(w) \/ PostUnload(w)
  \/ down /\ CancelRequest(w)

\* A generation whose clocks run is found stuck.
Ticks(b) ==
  \E p \in Procs : \E n \in DOMAIN order[p] :
    order[p][n] = b /\ OnTick(p, n)

\* Threads run; the UI thread runs its tasks, and its timers fire if what they
\* watch does not end by itself.  Nothing is asked of a process, and nothing
\* says that a wait is given up.  A post waits for the bounds on mailboxes and
\* processes, which the code does not have: hence its strong fairness.  Users
\* go on chatting.
Fairness ==
  /\ \A w \in Workers : WF_vars(Goes(w)) /\ SF_vars(RunLoad(w) \/ Send(w))
  /\ WF_vars(RunTask)
  /\ WF_vars(ForgetLost)
  /\ \A p \in Procs : WF_vars(OnLoadTimeout(p)) /\ WF_vars(OnProcessExited(p))
  /\ \A b \in Boxes : WF_vars(Ticks(b))
  /\ \A w \in Chats : WF_vars(Pin(w))

FairSpec == Spec /\ Fairness

-----------------------------------------------------------------------------
(* Properties *)

ProcStates == {"free", "loading", "ready", "retired", "ending"}
Kinds == {"none", "ok", "noModel", "backendFailed", "lost", "failed"}
Ops == {"load", "start", "cancel", "unload", "unloadNow"}
MaybeBox == Boxes \cup {NoBox}
MaybeModel == Models \cup {NoModel}

TaskSet == [op : Ops, box : MaybeBox, model : MaybeModel, gpu : BOOLEAN]

\* Every variable has its type.
TypeOK ==
  /\ loaded \in MaybeModel
  /\ loader \in Workers \cup {NoWorker}
  /\ pc \in [Workers -> {"idle", "launch"} \cup Waits \cup Generating]
  /\ target \in [Workers -> MaybeModel]
  /\ box \in [Workers -> MaybeBox]
  /\ gpu \in [Workers -> BOOLEAN]
  /\ cancelling \subseteq Workers
  /\ outcome \in [Boxes -> Kinds]
  /\ tasks \in Seq(TaskSet)
  /\ forgetting \in BOOLEAN
  /\ down \in BOOLEAN
  /\ current \in Procs \cup {NoProc}
  /\ loading \in Procs \cup {NoProc}
  /\ state \in [Procs -> ProcStates]
  /\ model \in [Procs -> MaybeModel]
  /\ onGpu \in [Procs -> BOOLEAN]
  /\ order \in [Procs -> Seq(Boxes)]
  /\ queued \subseteq Boxes
  /\ loadBox \in [Procs -> MaybeBox]
  /\ waiters \in [Procs -> SUBSET Boxes]

\* A task the host has not run brings the mailbox.
InTasks(b) == \E n \in DOMAIN tasks : tasks[n].box = b /\ tasks[n].op # "cancel"

\* A process has it.
Holds(p, b) == loadBox[p] = b \/ b \in Tokens(p) \/ b \in waiters[p]
Held(b) == \E p \in Procs : Holds(p, b)

\* The host has yet to finish the mailbox.
Owed(b) == InTasks(b) \/ Held(b)

\* A worker that waits is owed an answer or has it, and no other worker waits
\* for the same one.
WaitsAreOwed ==
  /\ \A w \in Workers :
       /\ pc[w] \in Waits <=> box[w] # NoBox
       /\ \A b \in Boxes : box[w] = b => outcome[b] # "none" \/ Owed(b)
       /\ \A v \in Workers : box[v] = box[w] /\ v # w => box[w] = NoBox
  /\ \A b \in Boxes : outcome[b] # "none" => \E w \in Workers : box[w] = b

\* load_mutex is held by the worker that loads or unloads.
OneLoads ==
  \A w \in Workers :
    loader = w <=> pc[w] \in {"ending", "launch", "load", "unload"}

\* The processes in the slots are the ones that serve and load; load_mailbox
\* and exit_waiters are where a timer watches.
SlotsFit ==
  \A p \in Procs :
    /\ state[p] = "ready" <=> current = p
    /\ state[p] = "loading" <=> loading = p
    /\ state[p] = "loading" <=> loadBox[p] # NoBox
    /\ waiters[p] # {} => state[p] \in {"retired", "ending"}
    /\ order[p] # <<>> => state[p] \in {"ready", "retired"}
    /\ state[p] = "retired" => order[p] # <<>>

\* A token is in one queue, once, and of every queue exactly the first has
\* its clocks running: it alone can be found stuck.
FirstIsTimed ==
  \A p \in Procs : \A n \in DOMAIN order[p] :
    /\ order[p][n] \in queued <=> n # 1
    /\ \A q \in Procs : \A i \in DOMAIN order[q] :
         order[q][i] = order[p][n] => q = p /\ i = n

\* What is posted with a mailbox or a token has one; Unload(kNow) has none.
TasksCarry ==
  \A n \in DOMAIN tasks :
    /\ tasks[n].op \in {"load", "start", "cancel"} => tasks[n].box # NoBox
    /\ tasks[n].op = "unloadNow" => tasks[n].box = NoBox

\* Nothing a worker waits for is lost between the runtime, the tasks and the
\* processes, and something watches it: the task queue, the load deadline,
\* the clocks of the first request or the exit timer.
RuntimeInv == WaitsAreOwed /\ OneLoads /\ SlotsFit /\ FirstIsTimed /\ TasksCarry

\* Every wait ends, whatever the processes do or fail to do: a load, also
\* one tried again on the CPU, a generation behind others, and the exit of an
\* old process.
WaitsEnd == \A w \in Workers : pc[w] \in Waits ~> pc[w] = "idle"

\* A model that is said to be loaded while no process serves it (it crashed
\* before LoadModel() noted it, say) is forgotten, or served again, once a
\* chat sends, unless the UI thread stalls again and again.
StaleIsForgotten ==
  <>[][\A w \in Workers : ~GivesUp(w)]_vars =>
    (loaded # NoModel /\ current = NoProc)
      ~> (loaded = NoModel \/ current # NoProc \/ down)

\* A request runs on the model it pinned, the one its result names.
RequestRunsOnItsModel ==
  \A w \in Workers, p \in Procs :
    pc[w] = "gen" /\ box[w] \in Tokens(p) => model[p] = target[w]

\* At rest, the model of the process that takes requests is the one said to
\* be loaded: nothing else ever unloads it.
ServingIsLoaded ==
  (/\ \A w \in Workers : pc[w] = "idle"
   /\ tasks = <<>> /\ ~forgetting
   /\ current # NoProc)
  => loaded = model[current]

-----------------------------------------------------------------------------
(* The promise to the callers *)

Job ==
  [w \in Workers |->
     IF pc[w] \in {"ending", "launch", "load"} THEN "load"
     ELSE IF pc[w] \in {"pinned", "gen"} THEN "ask"
     ELSE IF pc[w] \in {"forget", "drop", "post"} THEN "forget"
     ELSE pc[w]]

\* The exit a load waits for first is no answer to it.
Answer ==
  [w \in Workers |->
     IF pc[w] \in {"load", "unload", "gen"} THEN outcome[box[w]] ELSE "none"]

By == [w \in Workers |-> {model[p] : p \in {q \in Procs : box[w] \in Tokens(q)}}]

Serving == {model[p] : p \in Procs \cap {current}}

Calls ==
  INSTANCE AiCalls WITH
    job <- Job, on <- target, answer <- Answer, by <- By, serving <- Serving

\* AiRuntime implements AiCalls: through stalls, deadlines, crashes, retries
\* and late replies of calls that were given up, every answer reaches the call
\* it belongs to, and means what the caller takes it for.
ImplementsAiCalls == Calls!Spec

-----------------------------------------------------------------------------
(* The inductive invariant behind it *)

\* A load names a model, from its call to the process.
LoadsName ==
  /\ \A w \in Workers : pc[w] \in {"ending", "launch", "load"} => target[w] \in Models
  /\ \A n \in DOMAIN tasks : tasks[n].op = "load" => tasks[n].model \in Models
  /\ \A p \in Procs : state[p] # "free" => model[p] \in Models

\* The task and the process that have the mailbox a worker waits on have it
\* for what the worker waits for.
FitsTask(w, t) ==
  \/ t.op = "load" /\ pc[w] = "load" /\ t.model = target[w]
  \/ t.op \in {"start", "cancel"} /\ pc[w] = "gen"
  \/ t.op = "unload" /\ pc[w] \in {"ending", "unload"}

FitsProcess(w, p) ==
  /\ loadBox[p] = box[w] => pc[w] = "load" /\ model[p] = target[w]
  /\ box[w] \in Tokens(p) => pc[w] = "gen"
  /\ box[w] \in waiters[p] => pc[w] \in {"ending", "unload"}

Fits(w) ==
  /\ \A n \in DOMAIN tasks : tasks[n].box = box[w] => FitsTask(w, tasks[n])
  /\ \A p \in Procs : FitsProcess(w, p)

\* The mailbox is answered, or with one task, or with one process.
OnePlace(w) ==
  /\ outcome[box[w]] # "none" => ~Owed(box[w])
  /\ InTasks(box[w]) => ~Held(box[w])
  /\ \A m, n \in DOMAIN tasks :
       /\ tasks[m].box = box[w] /\ tasks[m].op # "cancel"
       /\ tasks[n].box = box[w] /\ tasks[n].op # "cancel"
       => m = n
  /\ \A p, q \in Procs : Holds(p, box[w]) /\ Holds(q, box[w]) => p = q

\* No call is answered twice, none with another one's answer.
AnswerInv ==
  /\ LoadsName
  /\ \A w \in Workers : box[w] # NoBox => Fits(w) /\ OnePlace(w)
=============================================================================
