-------------------------- MODULE AiRuntimeProofs --------------------------
(***************************************************************************)
(* RuntimeInv is an inductive invariant of AiRuntime, with TypeOK.  The    *)
(* workers leave the host alone and the host leaves the workers alone, but *)
(* for the mailboxes: a host step keeps WaitsAreOwed when every mailbox it *)
(* lets go of is one it finishes (HostAnswers).                            *)
(***************************************************************************)
EXTENDS AiRuntime, TLAPS

\* Posting a task.
LEMMA Posting ==
  ASSUME NEW s \in Seq(TaskSet), NEW t \in TaskSet
  PROVE  /\ Append(s, t) \in Seq(TaskSet)
         /\ DOMAIN Append(s, t) = DOMAIN s \cup {Len(s) + 1}
         /\ \A n \in DOMAIN s : Append(s, t)[n] = s[n]
         /\ Append(s, t)[Len(s) + 1] = t
  OBVIOUS

\* Taking the task at the head.
LEMMA Taking ==
  ASSUME NEW s \in Seq(TaskSet), s # <<>>
  PROVE  /\ Tail(s) \in Seq(TaskSet)
         /\ Head(s) \in TaskSet
         /\ Head(s) = s[1] /\ 1 \in DOMAIN s
         /\ \A n \in DOMAIN Tail(s) : n + 1 \in DOMAIN s /\ Tail(s)[n] = s[n + 1]
         /\ \A n \in DOMAIN s : n # 1 =>
              n - 1 \in DOMAIN Tail(s) /\ Tail(s)[n - 1] = s[n]
  OBVIOUS

\* Picking one of a set.
LEMMA Picking ==
  ASSUME NEW S, NEW x \in Some(S)
  PROVE  x \in S
  BY DEF Some

\* What Finish() of some mailboxes does to every mailbox.
LEMMA Finishing ==
  ASSUME TypeOK, NEW S, NEW kind \in Kinds
  PROVE  /\ Finished(S, kind) \in [Boxes -> Kinds]
         /\ \A b \in Boxes : outcome[b] # "none" =>
              Finished(S, kind)[b] = outcome[b]
         /\ \A b \in Boxes : Finished(S, kind)[b] # "none" =>
              outcome[b] # "none" \/ \E w \in Workers : box[w] = b
         /\ \A b \in Boxes :
              b \in S /\ kind # "none" /\ (\E w \in Workers : box[w] = b) =>
                Finished(S, kind)[b] # "none"
  <1>1. outcome \in [Boxes -> Kinds]
    BY DEF TypeOK
  <1> QED
    BY <1>1 DEF Finished

\* The queue without a token.
LEMMA Removing ==
  ASSUME NEW s \in Seq(Boxes), NEW n \in DOMAIN s
  PROVE  /\ Without(s, n) \in Seq(Boxes)
         /\ DOMAIN Without(s, n) = 1..(Len(s) - 1)
         /\ \A i \in DOMAIN Without(s, n) :
              /\ i < n => i \in DOMAIN s /\ Without(s, n)[i] = s[i]
              /\ i >= n => i + 1 \in DOMAIN s /\ Without(s, n)[i] = s[i + 1]
         /\ \A i \in DOMAIN s :
              /\ i < n => i \in DOMAIN Without(s, n) /\ Without(s, n)[i] = s[i]
              /\ i > n => i - 1 \in DOMAIN Without(s, n)
                            /\ Without(s, n)[i - 1] = s[i]
         /\ Without(s, n) = <<>> <=> Len(s) = 1
  <1>1. Len(s) \in Nat /\ Len(s) >= 1 /\ n \in 1..Len(s)
    OBVIOUS
  <1>2. Without(s, n) \in [1..(Len(s) - 1) -> Boxes]
    BY <1>1 DEF Without
  <1>3. Without(s, n) \in Seq(Boxes) /\ Len(Without(s, n)) = Len(s) - 1
    BY <1>1, <1>2
  <1>4. DOMAIN Without(s, n) = 1..(Len(s) - 1)
    BY <1>2
  <1>5. ASSUME NEW i \in 1..(Len(s) - 1)
        PROVE  /\ i < n => i \in DOMAIN s /\ Without(s, n)[i] = s[i]
               /\ i >= n => i + 1 \in DOMAIN s /\ Without(s, n)[i] = s[i + 1]
    BY <1>1 DEF Without
  <1>6. ASSUME NEW i \in DOMAIN s
        PROVE  /\ i < n => i \in 1..(Len(s) - 1)
               /\ i > n => i - 1 \in 1..(Len(s) - 1) /\ i - 1 >= n /\ i - 1 + 1 = i
    BY <1>1
  <1>7. Without(s, n) = <<>> <=> Len(s) = 1
    BY <1>1, <1>3
  <1>8. ASSUME NEW i \in DOMAIN s
        PROVE  /\ i < n => Without(s, n)[i] = s[i]
               /\ i > n => Without(s, n)[i - 1] = s[i]
    BY <1>5, <1>6
  <1> QED
    BY <1>3, <1>4, <1>5, <1>6, <1>7, <1>8

\* A host step that finishes every mailbox it lets go of keeps the waits owed.
LEMMA HostAnswers ==
  ASSUME TypeOK, WaitsAreOwed, UNCHANGED <<pc, box>>,
         NEW S, NEW kind \in Kinds \ {"none"}, outcome' = Finished(S, kind),
         \A b \in Boxes : Owed(b) => Owed(b)' \/ b \in S
  PROVE  WaitsAreOwed'
  <1>1. ASSUME NEW w \in Workers, NEW b \in Boxes, box'[w] = b
        PROVE  outcome'[b] # "none" \/ Owed(b)'
    <2>1. outcome[b] # "none" \/ Owed(b)
      BY <1>1 DEF WaitsAreOwed
    <2> QED
      BY <1>1, <2>1, Finishing
  <1>2. \A b \in Boxes : outcome'[b] # "none" => \E w \in Workers : box'[w] = b
    BY Finishing DEF WaitsAreOwed
  <1> QED
    BY <1>1, <1>2 DEF WaitsAreOwed

\* The same for a step that finishes none.
LEMMA HostKeeps ==
  ASSUME TypeOK, WaitsAreOwed, UNCHANGED <<pc, box, outcome>>,
         \A b \in Boxes : Owed(b) => Owed(b)'
  PROVE  WaitsAreOwed'
  <1>1. ASSUME NEW w \in Workers, NEW b \in Boxes, box'[w] = b
        PROVE  outcome'[b] # "none" \/ Owed(b)'
    BY <1>1 DEF WaitsAreOwed
  <1> QED
    BY <1>1 DEF WaitsAreOwed

\* Steps that leave the processes alone.
LEMMA HostAlone ==
  ASSUME SlotsFit, FirstIsTimed, UNCHANGED hostVars
  PROVE  SlotsFit' /\ FirstIsTimed'
  BY DEF SlotsFit, FirstIsTimed, hostVars, procVars

\* A post adds to what the host owes.
LEMMA PostOwes ==
  ASSUME TypeOK, UNCHANGED hostVars, NEW t \in TaskSet, Post(t)
  PROVE  /\ \A b \in Boxes : Owed(b) => Owed(b)'
         /\ \A b \in Boxes : t.box = b /\ t.op # "cancel" => Owed(b)'
         /\ tasks' \in Seq(TaskSet)
         /\ /\ TasksCarry
            /\ t.op \in {"load", "start", "cancel"} => t.box # NoBox
            /\ t.op = "unloadNow" => t.box = NoBox
            => TasksCarry'
  <1>1. tasks \in Seq(TaskSet)
    BY DEF TypeOK
  <1>2. /\ tasks' \in Seq(TaskSet)
        /\ DOMAIN tasks' = DOMAIN tasks \cup {Len(tasks) + 1}
        /\ \A n \in DOMAIN tasks : tasks'[n] = tasks[n]
        /\ tasks'[Len(tasks) + 1] = t
    BY <1>1, Posting DEF Post
  <1>3. ASSUME NEW b \in Boxes, Owed(b)
        PROVE  Owed(b)'
    BY <1>2, <1>3 DEF Owed, InTasks, Held, Holds, Tokens, hostVars, procVars
  <1>4. ASSUME NEW b \in Boxes, t.box = b, t.op # "cancel"
        PROVE  Owed(b)'
    BY <1>2, <1>4 DEF Owed, InTasks
  <1>5. ASSUME TasksCarry, t.op = "unloadNow" => t.box = NoBox,
               t.op \in {"load", "start", "cancel"} => t.box # NoBox
        PROVE  TasksCarry'
    BY <1>2, <1>5 DEF TasksCarry
  <1> QED
    BY <1>2, <1>3, <1>4, <1>5

\* A worker that posts with a new mailbox waits on it.
LEMMA WaitsOnPost ==
  ASSUME TypeOK, WaitsAreOwed, UNCHANGED <<outcome, hostVars>>,
         NEW w \in Workers, pc[w] \notin Waits,
         NEW b \in Boxes, Fresh(b), box' = [box EXCEPT ![w] = b],
         NEW t \in TaskSet, t.box = b, t.op # "cancel", Post(t),
         NEW x \in Waits, pc' = [pc EXCEPT ![w] = x]
  PROVE  WaitsAreOwed'
  <1>1. /\ pc \in [Workers -> {"idle", "launch"} \cup Waits \cup Generating]
        /\ box \in [Workers -> MaybeBox]
        /\ b # NoBox
    BY RuntimeAssumption DEF TypeOK
  <1>2. ASSUME NEW v \in Workers
        PROVE  /\ pc'[v] \in Waits <=> box'[v] # NoBox
               /\ \A u \in Workers : box'[u] = box'[v] /\ u # v => box'[v] = NoBox
    BY <1>1 DEF WaitsAreOwed, Fresh
  <1>3. ASSUME NEW v \in Workers, NEW c \in Boxes, box'[v] = c
        PROVE  outcome'[c] # "none" \/ Owed(c)'
    BY <1>1, <1>3, PostOwes DEF WaitsAreOwed
  <1>4. ASSUME NEW c \in Boxes, outcome'[c] # "none"
        PROVE  \E v \in Workers : box'[v] = c
    <2>1. PICK v \in Workers : box[v] = c
      BY <1>4 DEF WaitsAreOwed
    <2>2. box[w] = NoBox /\ c # NoBox
      BY RuntimeAssumption DEF WaitsAreOwed
    <2> QED
      BY <1>1, <2>1, <2>2
  <1> QED
    BY <1>2, <1>3, <1>4 DEF WaitsAreOwed

\* A worker that stays out of its waits, while what is posted only grows.
LEMMA WaitsElsewhere ==
  ASSUME TypeOK, WaitsAreOwed, UNCHANGED <<box, outcome>>,
         \A b \in Boxes : Owed(b) => Owed(b)',
         \A v \in Workers : pc'[v] \in Waits <=> pc[v] \in Waits
  PROVE  WaitsAreOwed'
  <1>1. ASSUME NEW v \in Workers, NEW c \in Boxes, box'[v] = c
        PROVE  outcome'[c] # "none" \/ Owed(c)'
    BY <1>1 DEF WaitsAreOwed
  <1> QED
    BY <1>1 DEF WaitsAreOwed

\* A worker that returns from its wait.
LEMMA WaitOver ==
  ASSUME TypeOK, WaitsAreOwed, NEW w \in Workers, Returns(w),
         UNCHANGED <<tasks, hostVars>>,
         NEW x, x \notin Waits, pc' = [pc EXCEPT ![w] = x]
  PROVE  WaitsAreOwed'
  <1>1. /\ pc \in [Workers -> {"idle", "launch"} \cup Waits \cup Generating]
        /\ box \in [Workers -> MaybeBox]
        /\ outcome \in [Boxes -> Kinds]
    BY DEF TypeOK
  <1>2. box' = [box EXCEPT ![w] = NoBox] /\ outcome' = [outcome EXCEPT ![box[w]] = "none"]
    BY DEF Returns
  <1>3. ASSUME NEW v \in Workers
        PROVE  /\ pc'[v] \in Waits <=> box'[v] # NoBox
               /\ \A u \in Workers : box'[u] = box'[v] /\ u # v => box'[v] = NoBox
    BY <1>1, <1>2 DEF WaitsAreOwed
  <1>4. ASSUME NEW v \in Workers, NEW c \in Boxes, box'[v] = c
        PROVE  outcome'[c] # "none" \/ Owed(c)'
    <2>1. v # w /\ box[v] = c /\ c # NoBox
      BY <1>1, <1>2, <1>4, RuntimeAssumption
    <2>2. c # box[w]
      BY <2>1 DEF WaitsAreOwed
    <2>3. outcome'[c] = outcome[c]
      BY <1>1, <1>2, <2>2
    <2>4. Owed(c) => Owed(c)'
      BY DEF Owed, InTasks, Held, Holds, Tokens, hostVars, procVars
    <2> QED
      BY <2>1, <2>3, <2>4 DEF WaitsAreOwed
  <1>5. ASSUME NEW c \in Boxes, outcome'[c] # "none"
        PROVE  \E v \in Workers : box'[v] = c
    <2>1. outcome[c] # "none" /\ c # box[w]
      BY <1>1, <1>2, <1>5
    <2>2. PICK v \in Workers : box[v] = c
      BY <2>1 DEF WaitsAreOwed
    <2> QED
      BY <1>1, <1>2, <2>1, <2>2
  <1> QED
    BY <1>3, <1>4, <1>5 DEF WaitsAreOwed

\* A step that leaves every wait, and what is owed, as they are.
LEMMA SameOwed ==
  ASSUME UNCHANGED <<tasks, hostVars>>
  PROVE  \A b \in Boxes : Owed(b) => Owed(b)'
  BY DEF Owed, InTasks, Held, Holds, Tokens, hostVars, procVars

\* A worker's step keeps the invariant.
LEMMA WorkerStep ==
  ASSUME TypeOK, RuntimeInv, NEW w \in Workers, Worker(w)
  PROVE  TypeOK' /\ RuntimeInv'
  <1> DEFINE PCs == {"idle", "launch"} \cup Waits \cup Generating
  <1>0. /\ WaitsAreOwed /\ OneLoads /\ SlotsFit /\ FirstIsTimed /\ TasksCarry
        /\ pc \in [Workers -> PCs]
        /\ target \in [Workers -> MaybeModel]
        /\ box \in [Workers -> MaybeBox]
        /\ gpu \in [Workers -> BOOLEAN]
        /\ outcome \in [Boxes -> Kinds]
        /\ tasks \in Seq(TaskSet)
        /\ loaded \in MaybeModel
        /\ loader \in Workers \cup {NoWorker}
        /\ w # NoWorker
    BY RuntimeAssumption DEF TypeOK, RuntimeInv
  <1>1. UNCHANGED hostVars /\ UNCHANGED <<forgetting, down>>
    BY DEF Worker, LoadModel, RunLoad, UnloadModel, Pin, Send, CancelRequest,
           Answered, Closing, GivesUp, Return, Forget, Drop, PostUnload
  <1>2. SlotsFit' /\ FirstIsTimed'
    BY <1>0, <1>1, HostAlone
  <1>3. /\ forgetting' \in BOOLEAN /\ down' \in BOOLEAN
        /\ current' \in Procs \cup {NoProc}
        /\ loading' \in Procs \cup {NoProc}
        /\ state' \in [Procs -> ProcStates]
        /\ model' \in [Procs -> MaybeModel]
        /\ onGpu' \in [Procs -> BOOLEAN]
        /\ order' \in [Procs -> Seq(Boxes)]
        /\ queued' \subseteq Boxes
        /\ loadBox' \in [Procs -> MaybeBox]
        /\ waiters' \in [Procs -> SUBSET Boxes]
    BY <1>1 DEF TypeOK, hostVars, procVars
  <1> DEFINE Kept == /\ loaded' \in MaybeModel
                     /\ loader' \in Workers \cup {NoWorker}
                     /\ pc' \in [Workers -> PCs]
                     /\ target' \in [Workers -> MaybeModel]
                     /\ box' \in [Workers -> MaybeBox]
                     /\ gpu' \in [Workers -> BOOLEAN]
                     /\ cancelling' \subseteq Workers
                     /\ outcome' \in [Boxes -> Kinds]
                     /\ tasks' \in Seq(TaskSet)
                     /\ WaitsAreOwed' /\ OneLoads' /\ TasksCarry'
  <1>4. SUFFICES Kept
    BY <1>2, <1>3 DEF TypeOK, RuntimeInv
  <1>5. ASSUME NEW m \in Models, NEW low \in BOOLEAN, LoadModel(w, m, low)
        PROVE  Kept
    <2>0. \E g \in BOOLEAN : gpu' = [gpu EXCEPT ![w] = g]
      BY <1>5 DEF LoadModel
    <2>1. CASE ~low
      <3>1. /\ pc' = [pc EXCEPT ![w] = "launch"] /\ pc[w] = "idle"
            /\ loader' = w /\ loader = NoWorker
            /\ UNCHANGED <<loaded, box, tasks, cancelling, outcome>>
            /\ target' = [target EXCEPT ![w] = m]
        BY <1>5, <2>1 DEF LoadModel
      <3>2. pc' \in [Workers -> PCs] /\ target' \in [Workers -> MaybeModel]
            /\ gpu' \in [Workers -> BOOLEAN]
        BY <1>0, <2>0, <3>1 DEF MaybeModel
      <3>3. WaitsAreOwed'
        BY <1>0, <1>1, <3>1, WaitsElsewhere, SameOwed DEF Waits
      <3>4. OneLoads'
        BY <1>0, <3>1, RuntimeAssumption DEF OneLoads
      <3>5. TasksCarry'
        BY <1>0, <3>1 DEF TasksCarry
      <3> QED
        BY <1>0, <3>1, <3>2, <3>3, <3>4, <3>5 DEF TypeOK
    <2>2. CASE low
      <3>0. PICK b \in FreshBoxes :
              /\ box' = [box EXCEPT ![w] = b]
              /\ Post(Task("unload", b, NoModel, FALSE))
        BY <1>5, <2>2 DEF LoadModel
      <3>1. /\ pc' = [pc EXCEPT ![w] = "ending"] /\ pc[w] = "idle"
            /\ loader' = w /\ loader = NoWorker
            /\ UNCHANGED <<cancelling, outcome>>
            /\ loaded' = NoModel
            /\ target' = [target EXCEPT ![w] = m]
        BY <1>5, <2>2 DEF LoadModel
      <3>2. pc' \in [Workers -> PCs] /\ target' \in [Workers -> MaybeModel]
            /\ gpu' \in [Workers -> BOOLEAN] /\ loaded' \in MaybeModel
        BY <1>0, <2>0, <3>1 DEF MaybeModel, Waits
      <3>3. b \in Boxes /\ Fresh(b)
        BY Picking DEF FreshBoxes
      <3>4. PICK t \in TaskSet : t = Task("unload", b, NoModel, FALSE)
        BY <3>3 DEF TaskSet, Task, Ops, MaybeBox, MaybeModel
      <3>5. t.box = b /\ t.op = "unload" /\ Post(t)
        BY <3>0, <3>4 DEF Task
      <3>6. WaitsAreOwed'
        BY <1>0, <1>1, <3>0, <3>1, <3>3, <3>5, WaitsOnPost DEF Waits
      <3>7. OneLoads'
        BY <1>0, <3>1, RuntimeAssumption DEF OneLoads
      <3>8. TasksCarry' /\ tasks' \in Seq(TaskSet)
        BY <1>0, <1>1, <3>5, PostOwes
      <3>9. box' \in [Workers -> MaybeBox]
        BY <1>0, <3>0, <3>3 DEF MaybeBox
      <3> QED
        BY <1>0, <3>1, <3>2, <3>6, <3>7, <3>8, <3>9 DEF TypeOK
    <2> QED
      BY <2>1, <2>2
  <1>6. CASE RunLoad(w)
    <2>0. PICK b \in FreshBoxes :
            /\ box' = [box EXCEPT ![w] = b]
            /\ Post(Task("load", b, target[w], gpu[w]))
      BY <1>6 DEF RunLoad
    <2>1. /\ pc' = [pc EXCEPT ![w] = "load"] /\ pc[w] = "launch"
          /\ UNCHANGED <<loaded, loader, target, gpu, cancelling, outcome>>
      BY <1>6 DEF RunLoad
    <2>2. pc' \in [Workers -> PCs]
      BY <1>0, <2>1 DEF Waits
    <2>3. b \in Boxes /\ Fresh(b) /\ b # NoBox
      BY Picking, RuntimeAssumption DEF FreshBoxes
    <2>4. PICK t \in TaskSet : t = Task("load", b, target[w], gpu[w])
      BY <1>0, <2>3 DEF TaskSet, Task, Ops, MaybeBox
    <2>5. t.box = b /\ t.op = "load" /\ Post(t)
      BY <2>0, <2>4 DEF Task
    <2>6. WaitsAreOwed'
      BY <1>0, <1>1, <2>0, <2>1, <2>3, <2>5, WaitsOnPost DEF Waits
    <2>7. OneLoads'
      BY <1>0, <2>1, RuntimeAssumption DEF OneLoads
    <2>8. TasksCarry' /\ tasks' \in Seq(TaskSet)
      BY <1>0, <1>1, <2>3, <2>5, PostOwes
    <2>9. box' \in [Workers -> MaybeBox]
      BY <1>0, <2>0, <2>3 DEF MaybeBox
    <2> QED
      BY <1>0, <2>1, <2>2, <2>6, <2>7, <2>8, <2>9 DEF TypeOK
  <1>7. ASSUME NEW m \in Models, UnloadModel(w, m)
        PROVE  Kept
    <2>0. PICK b \in FreshBoxes :
            /\ box' = [box EXCEPT ![w] = b]
            /\ Post(Task("unload", b, NoModel, FALSE))
      BY <1>7 DEF UnloadModel
    <2>1. /\ pc' = [pc EXCEPT ![w] = "unload"] /\ pc[w] = "idle"
          /\ loader' = w /\ loader = NoWorker /\ loaded' = NoModel
          /\ UNCHANGED <<target, gpu, cancelling, outcome>>
      BY <1>7 DEF UnloadModel
    <2>2. pc' \in [Workers -> PCs] /\ loaded' \in MaybeModel
      BY <1>0, <2>1 DEF Waits, MaybeModel
    <2>3. b \in Boxes /\ Fresh(b)
      BY Picking DEF FreshBoxes
    <2>4. PICK t \in TaskSet : t = Task("unload", b, NoModel, FALSE)
      BY <2>3 DEF TaskSet, Task, Ops, MaybeBox, MaybeModel
    <2>5. t.box = b /\ t.op = "unload" /\ Post(t)
      BY <2>0, <2>4 DEF Task
    <2>6. WaitsAreOwed'
      BY <1>0, <1>1, <2>0, <2>1, <2>3, <2>5, WaitsOnPost DEF Waits
    <2>7. OneLoads'
      BY <1>0, <2>1, RuntimeAssumption DEF OneLoads
    <2>8. TasksCarry' /\ tasks' \in Seq(TaskSet)
      BY <1>0, <1>1, <2>5, PostOwes
    <2>9. box' \in [Workers -> MaybeBox]
      BY <1>0, <2>0, <2>3 DEF MaybeBox
    <2> QED
      BY <1>0, <2>1, <2>2, <2>6, <2>7, <2>8, <2>9 DEF TypeOK
  <1>8. CASE Pin(w)
    <2>1. /\ pc' = [pc EXCEPT ![w] = "pinned"] /\ pc[w] = "idle"
          /\ target' = [target EXCEPT ![w] = loaded]
          /\ UNCHANGED <<loaded, loader, box, gpu, cancelling, outcome, tasks>>
      BY <1>8 DEF Pin
    <2>2. pc' \in [Workers -> PCs] /\ target' \in [Workers -> MaybeModel]
      BY <1>0, <2>1 DEF Generating
    <2>3. WaitsAreOwed'
      BY <1>0, <1>1, <2>1, WaitsElsewhere, SameOwed DEF Waits
    <2>4. OneLoads' /\ TasksCarry'
      BY <1>0, <2>1 DEF OneLoads, TasksCarry
    <2> QED
      BY <1>0, <2>1, <2>2, <2>3, <2>4 DEF TypeOK
  <1>9. CASE Send(w)
    <2>0. PICK b \in FreshBoxes :
            /\ box' = [box EXCEPT ![w] = b]
            /\ Post(Task("start", b, NoModel, FALSE))
      BY <1>9 DEF Send
    <2>1. /\ pc' = [pc EXCEPT ![w] = "gen"] /\ pc[w] = "pinned"
          /\ UNCHANGED <<loaded, loader, target, gpu, cancelling, outcome>>
      BY <1>9 DEF Send
    <2>2. pc' \in [Workers -> PCs]
      BY <1>0, <2>1 DEF Waits
    <2>3. b \in Boxes /\ Fresh(b) /\ b # NoBox
      BY Picking, RuntimeAssumption DEF FreshBoxes
    <2>4. PICK t \in TaskSet : t = Task("start", b, NoModel, FALSE)
      BY <2>3 DEF TaskSet, Task, Ops, MaybeBox, MaybeModel
    <2>5. t.box = b /\ t.op = "start" /\ Post(t)
      BY <2>0, <2>4 DEF Task
    <2>6. WaitsAreOwed'
      BY <1>0, <1>1, <2>0, <2>1, <2>3, <2>5, WaitsOnPost DEF Waits
    <2>7. OneLoads'
      BY <1>0, <2>1, RuntimeAssumption DEF OneLoads
    <2>8. TasksCarry' /\ tasks' \in Seq(TaskSet)
      BY <1>0, <1>1, <2>3, <2>5, PostOwes
    <2>9. box' \in [Workers -> MaybeBox]
      BY <1>0, <2>0, <2>3 DEF MaybeBox
    <2> QED
      BY <1>0, <2>1, <2>2, <2>6, <2>7, <2>8, <2>9 DEF TypeOK
  <1>10. CASE CancelRequest(w)
    <2>1. /\ cancelling' = cancelling \cup {w} /\ pc[w] = "gen"
          /\ UNCHANGED <<loaded, loader, pc, target, box, gpu, outcome>>
          /\ Post(Task("cancel", box[w], NoModel, FALSE))
      BY <1>10 DEF CancelRequest
    <2>2. PICK t \in TaskSet : t = Task("cancel", box[w], NoModel, FALSE)
      BY <1>0 DEF TaskSet, Task, Ops, MaybeModel
    <2>3. t.box # NoBox /\ t.op = "cancel" /\ Post(t)
      BY <1>0, <2>1, <2>2 DEF Task, WaitsAreOwed, Waits
    <2>4. WaitsAreOwed'
      BY <1>0, <1>1, <2>1, <2>3, WaitsElsewhere, PostOwes
    <2>5. TasksCarry' /\ tasks' \in Seq(TaskSet)
      BY <1>0, <1>1, <2>3, PostOwes
    <2>6. OneLoads'
      BY <1>0, <2>1, RuntimeAssumption DEF OneLoads
    <2> QED
      BY <1>0, <2>1, <2>4, <2>5, <2>6 DEF TypeOK
  <1>11. ASSUME NEW kind \in Kinds, pc[w] \in Waits, Return(w, kind)
         PROVE  Kept
    <2>1. /\ Returns(w)
          /\ UNCHANGED tasks
          /\ box' = [box EXCEPT ![w] = NoBox]
          /\ outcome' = [outcome EXCEPT ![box[w]] = "none"]
          /\ cancelling' = cancelling \ {w}
      BY <1>11 DEF Return, Returns
    <2>2. box' \in [Workers -> MaybeBox] /\ outcome' \in [Boxes -> Kinds]
          /\ TasksCarry'
      BY <1>0, <2>1 DEF MaybeBox, Kinds, TasksCarry
    <2>3. \E x \in {"idle", "launch", "forget", "drop"} :
            /\ pc' = [pc EXCEPT ![w] = x]
            /\ \/ x = "launch" /\ UNCHANGED loader
                  /\ pc[w] \in {"ending", "load"}
               \/ x = "idle" /\ loader' = NoWorker
                  /\ pc[w] \in {"load", "unload"}
               \/ x # "launch" /\ UNCHANGED loader /\ pc[w] = "gen"
      BY <1>11 DEF Return, AfterEnding, AfterLoad, AfterUnload, AfterGeneration, Done
    <2>4. /\ loaded' \in {loaded, target[w]}
          /\ target' \in {target, [target EXCEPT ![w] = NoModel]}
          /\ gpu' \in {gpu, [gpu EXCEPT ![w] = FALSE]}
      BY <1>11 DEF Return, AfterEnding, AfterLoad, AfterUnload, AfterGeneration, Done
    <2>5. /\ loaded' \in MaybeModel /\ target' \in [Workers -> MaybeModel]
          /\ gpu' \in [Workers -> BOOLEAN]
      BY <1>0, <2>4 DEF MaybeModel
    <2>6. PICK x \in {"idle", "launch", "forget", "drop"} :
            /\ pc' = [pc EXCEPT ![w] = x]
            /\ \/ x = "launch" /\ UNCHANGED loader
                  /\ pc[w] \in {"ending", "load"}
               \/ x = "idle" /\ loader' = NoWorker
                  /\ pc[w] \in {"load", "unload"}
               \/ x # "launch" /\ UNCHANGED loader /\ pc[w] = "gen"
      BY <2>3
    <2>7. WaitsAreOwed'
      BY <1>0, <1>1, <2>1, <2>6, WaitOver DEF Waits
    <2>8. OneLoads'
      BY <1>0, <2>6, RuntimeAssumption DEF OneLoads
    <2>9. pc' \in [Workers -> PCs] /\ loader' \in Workers \cup {NoWorker}
      BY <1>0, <2>6 DEF Generating
    <2> QED
      BY <1>0, <2>1, <2>2, <2>5, <2>7, <2>8, <2>9 DEF TypeOK
  <1>12. CASE Answered(w) \/ Closing(w) \/ GivesUp(w)
    <2>1. CASE Answered(w)
      <3>1. box[w] \in Boxes
        BY <1>0, <2>1 DEF Answered, WaitsAreOwed, MaybeBox
      <3>2. PICK k \in Kinds : k = outcome[box[w]]
        BY <1>0, <3>1
      <3> QED
        BY <1>11, <2>1, <3>2 DEF Answered
    <2>2. CASE Closing(w)
      BY <1>11, <2>2 DEF Closing, Kinds
    <2>3. CASE GivesUp(w)
      BY <1>11, <2>3 DEF GivesUp, Kinds
    <2> QED
      BY <1>12, <2>1, <2>2, <2>3
  <1>13. CASE Forget(w) \/ Drop(w)
    <2>1. PICK x \in {"idle", "post"} :
            /\ pc' = [pc EXCEPT ![w] = x] /\ pc[w] \in {"forget", "drop"}
            /\ loaded' = NoModel
            /\ target' \in {target, [target EXCEPT ![w] = NoModel]}
            /\ gpu' \in {gpu, [gpu EXCEPT ![w] = FALSE]}
            /\ UNCHANGED <<loader, box, cancelling, outcome, tasks>>
      BY <1>13 DEF Forget, Drop, Done
    <2>2. /\ pc' \in [Workers -> PCs] /\ target' \in [Workers -> MaybeModel]
          /\ gpu' \in [Workers -> BOOLEAN] /\ loaded' \in MaybeModel
      BY <1>0, <2>1 DEF Generating, MaybeModel
    <2>3. WaitsAreOwed'
      BY <1>0, <1>1, <2>1, WaitsElsewhere, SameOwed DEF Waits
    <2>4. OneLoads' /\ TasksCarry'
      BY <1>0, <2>1 DEF OneLoads, TasksCarry
    <2> QED
      BY <1>0, <2>1, <2>2, <2>3, <2>4 DEF TypeOK
  <1>14. CASE PostUnload(w)
    <2>1. /\ pc' = [pc EXCEPT ![w] = "idle"] /\ pc[w] = "post"
          /\ target' = [target EXCEPT ![w] = NoModel]
          /\ gpu' = [gpu EXCEPT ![w] = FALSE]
          /\ UNCHANGED <<loaded, loader, box, cancelling, outcome>>
          /\ Post(Task("unloadNow", NoBox, NoModel, FALSE))
      BY <1>14 DEF PostUnload, Done
    <2>2. PICK t \in TaskSet : t = Task("unloadNow", NoBox, NoModel, FALSE)
      BY DEF TaskSet, Task, Ops, MaybeModel, MaybeBox
    <2>3. t.op = "unloadNow" /\ t.box = NoBox /\ Post(t)
      BY <2>1, <2>2 DEF Task
    <2>4. TasksCarry' /\ tasks' \in Seq(TaskSet)
          /\ \A b \in Boxes : Owed(b) => Owed(b)'
      BY <1>0, <1>1, <2>3, PostOwes
    <2>5. WaitsAreOwed'
      BY <1>0, <2>1, <2>4, WaitsElsewhere DEF Waits
    <2>6. /\ pc' \in [Workers -> PCs] /\ target' \in [Workers -> MaybeModel]
          /\ gpu' \in [Workers -> BOOLEAN]
      BY <1>0, <2>1 DEF MaybeModel
    <2>7. OneLoads'
      BY <1>0, <2>1, RuntimeAssumption DEF OneLoads
    <2> QED
      BY <1>0, <2>1, <2>4, <2>5, <2>6, <2>7 DEF TypeOK
  <1> HIDE DEF Kept
  <1> QED
    BY <1>5, <1>6, <1>7, <1>8, <1>9, <1>10, <1>12, <1>13, <1>14 DEF Worker

-----------------------------------------------------------------------------

\* The host's part of TypeOK.
ProcsTyped ==
  /\ current \in Procs \cup {NoProc}
  /\ loading \in Procs \cup {NoProc}
  /\ state \in [Procs -> ProcStates]
  /\ model \in [Procs -> MaybeModel]
  /\ onGpu \in [Procs -> BOOLEAN]
  /\ order \in [Procs -> Seq(Boxes)]
  /\ queued \subseteq Boxes
  /\ loadBox \in [Procs -> MaybeBox]
  /\ waiters \in [Procs -> SUBSET Boxes]

\* What remains to be shown of a step of the UI thread.
LEMMA UiStep ==
  ASSUME TypeOK, RuntimeInv, UNCHANGED <<loader, workerVars>>, LossSettled,
         forgetting' \in BOOLEAN, down' \in BOOLEAN,
         tasks' \in Seq(TaskSet), TasksCarry', outcome' \in [Boxes -> Kinds],
         ProcsTyped', SlotsFit', FirstIsTimed', WaitsAreOwed'
  PROVE  TypeOK' /\ RuntimeInv'
  <1>1. loaded' \in MaybeModel
    BY DEF TypeOK, LossSettled, MaybeModel
  <1>2. OneLoads'
    BY DEF RuntimeInv, OneLoads, workerVars
  <1>3. TypeOK'
    BY <1>1 DEF TypeOK, ProcsTyped, workerVars
  <1> QED
    BY <1>2, <1>3 DEF RuntimeInv

\* A step of the UI thread that finishes mailboxes.
LEMMA UiAnswers ==
  ASSUME TypeOK, RuntimeInv, UNCHANGED <<loader, workerVars>>, LossSettled,
         forgetting' \in BOOLEAN, down' \in BOOLEAN,
         tasks' \in Seq(TaskSet), TasksCarry',
         NEW S, NEW kind \in Kinds \ {"none"}, outcome' = Finished(S, kind),
         \A b \in Boxes : Owed(b) => Owed(b)' \/ b \in S,
         ProcsTyped', SlotsFit', FirstIsTimed'
  PROVE  TypeOK' /\ RuntimeInv'
  <1>1. outcome' \in [Boxes -> Kinds]
    BY Finishing
  <1>2. WaitsAreOwed'
    BY HostAnswers DEF RuntimeInv, workerVars
  <1> QED
    BY <1>1, <1>2, UiStep

\* One that finishes none.
LEMMA UiKeeps ==
  ASSUME TypeOK, RuntimeInv, UNCHANGED <<loader, workerVars, outcome>>, LossSettled,
         forgetting' \in BOOLEAN, down' \in BOOLEAN,
         tasks' \in Seq(TaskSet), TasksCarry',
         \A b \in Boxes : Owed(b) => Owed(b)',
         ProcsTyped', SlotsFit', FirstIsTimed'
  PROVE  TypeOK' /\ RuntimeInv'
  <1>1. outcome' \in [Boxes -> Kinds]
    BY DEF TypeOK
  <1>2. WaitsAreOwed'
    BY HostKeeps DEF RuntimeInv, workerVars
  <1> QED
    BY <1>1, <1>2, UiStep

\* The task that is run is the only one that leaves the queue.
LEMMA TaskTaken ==
  ASSUME TypeOK, TasksCarry, NEW op \in Ops, Run(op)
  PROVE  /\ Head(tasks) \in TaskSet
         /\ Head(tasks).op = op
         /\ op \in {"load", "start", "cancel"} => Head(tasks).box \in Boxes
         /\ op = "unloadNow" => Head(tasks).box = NoBox
         /\ tasks' \in Seq(TaskSet)
         /\ TasksCarry'
         /\ \A b \in Boxes : InTasks(b) =>
              InTasks(b)' \/ (b = Head(tasks).box /\ op # "cancel")
  <1>1. tasks \in Seq(TaskSet) /\ tasks # <<>> /\ tasks' = Tail(tasks)
        /\ Head(tasks).op = op
    BY DEF TypeOK, Run
  <1>2. /\ tasks' \in Seq(TaskSet)
        /\ Head(tasks) \in TaskSet
        /\ Head(tasks) = tasks[1] /\ 1 \in DOMAIN tasks
        /\ \A n \in DOMAIN tasks' : n + 1 \in DOMAIN tasks /\ tasks'[n] = tasks[n + 1]
        /\ \A n \in DOMAIN tasks : n # 1 =>
             n - 1 \in DOMAIN tasks' /\ tasks'[n - 1] = tasks[n]
    BY <1>1, Taking
  <1>3. /\ op \in {"load", "start", "cancel"} => Head(tasks).box \in Boxes
        /\ op = "unloadNow" => Head(tasks).box = NoBox
    BY <1>1, <1>2 DEF TasksCarry, TaskSet, MaybeBox
  <1>4. TasksCarry'
    BY <1>2 DEF TasksCarry
  <1>5. ASSUME NEW b \in Boxes, InTasks(b)
        PROVE  InTasks(b)' \/ (b = Head(tasks).box /\ op # "cancel")
    <2>1. PICK n \in DOMAIN tasks : tasks[n].box = b /\ tasks[n].op # "cancel"
      BY <1>5 DEF InTasks
    <2>2. CASE n = 1
      BY <1>1, <1>2, <2>1, <2>2
    <2>3. CASE n # 1
      <3>1. PICK k \in DOMAIN tasks' : tasks'[k] = tasks[n]
        BY <1>2, <2>3
      <3> QED
        BY <2>1, <3>1 DEF InTasks
    <2> QED
      BY <2>2, <2>3
  <1> QED
    BY <1>1, <1>2, <1>3, <1>4, <1>5

\* Finishing one generation.
LEMMA GenerationFinished ==
  ASSUME TypeOK, SlotsFit, FirstIsTimed, NEW p \in Procs,
         NEW n \in DOMAIN order[p], NEW kind, FinishGeneration(p, n, kind)
  PROVE  /\ ProcsTyped' /\ SlotsFit' /\ FirstIsTimed'
         /\ outcome' = Finished({order[p][n]}, kind)
         /\ \A b \in Boxes : Held(b) => Held(b)' \/ b \in {order[p][n]}
  <1>0. PICK s \in Seq(Boxes) : s = order[p]
    BY DEF TypeOK
  <1>1. PICK r \in Seq(Boxes) : r = Without(s, n)
    BY <1>0, Removing
  <1>2. /\ n \in DOMAIN s /\ DOMAIN s = 1..Len(s) /\ Len(s) \in Nat
        /\ DOMAIN r = 1..(Len(s) - 1)
        /\ \A i \in DOMAIN r :
             /\ i < n => i \in DOMAIN s /\ r[i] = s[i]
             /\ i >= n => i + 1 \in DOMAIN s /\ r[i] = s[i + 1]
        /\ \A i \in DOMAIN s :
             /\ i < n => i \in DOMAIN r /\ r[i] = s[i]
             /\ i > n => i - 1 \in DOMAIN r /\ r[i - 1] = s[i]
        /\ r = <<>> <=> Len(s) = 1
    BY <1>0, <1>1, Removing
  <1>3. /\ order \in [Procs -> Seq(Boxes)] /\ state \in [Procs -> ProcStates]
        /\ queued \subseteq Boxes
        /\ order' = [order EXCEPT ![p] = r]
        /\ state' = [state EXCEPT ![p] =
                       IF @ = "retired" /\ Len(s) = 1 THEN "ending" ELSE @]
        /\ queued' = (queued \ {s[n]}) \ (IF n = 1 /\ Len(s) > 1 THEN {s[2]} ELSE {})
        /\ UNCHANGED <<current, loading, model, onGpu, loadBox, waiters>>
    BY <1>0, <1>1 DEF TypeOK, FinishGeneration
  <1>4. ProcsTyped'
    BY <1>3 DEF TypeOK, ProcsTyped, ProcStates
  <1>5. SlotsFit'
    <2>1. s # <<>> /\ state[p] \in {"ready", "retired"}
      BY <1>0, <1>2 DEF SlotsFit
    <2>2. ASSUME NEW q \in Procs, q # p
          PROVE  order'[q] = order[q] /\ state'[q] = state[q]
      BY <1>3, <2>2
    <2>3. order'[p] = r
          /\ state'[p] = IF state[p] = "retired" /\ Len(s) = 1 THEN "ending" ELSE state[p]
      BY <1>3
    <2> QED
      BY <1>2, <1>3, <2>1, <2>2, <2>3 DEF SlotsFit
  <1>6. FirstIsTimed'
    <2>1. ASSUME NEW q \in Procs, NEW i \in DOMAIN order'[q]
          PROVE  \E k \in DOMAIN order[q] :
                   /\ order'[q][i] = order[q][k]
                   /\ q # p => k = i
                   /\ q = p => k # n /\ k = (IF i < n THEN i ELSE i + 1)
      <3>1. CASE q # p
        BY <1>3, <2>1, <3>1
      <3>2. CASE q = p
        <4>1. i \in DOMAIN r /\ order'[q] = r
          BY <1>3, <2>1, <3>2
        <4>2. i \in Nat /\ n \in Nat
          BY <1>2, <4>1
        <4>3. CASE i < n
          <5>1. i \in DOMAIN s /\ r[i] = s[i]
            BY <1>2, <4>1, <4>3
          <5>2. i # n
            BY <4>2, <4>3
          <5> QED
            BY <1>0, <3>2, <4>1, <4>3, <5>1, <5>2
        <4>4. CASE ~(i < n)
          <5>1. i + 1 \in DOMAIN s /\ r[i] = s[i + 1]
            BY <1>2, <4>1, <4>2, <4>4
          <5>2. i + 1 # n
            BY <4>2, <4>4
          <5> QED
            BY <1>0, <3>2, <4>1, <4>4, <5>1, <5>2
        <4> QED
          BY <4>3, <4>4
      <3> QED
        BY <3>1, <3>2
    <2>2. ASSUME NEW q \in Procs, NEW i \in DOMAIN order'[q]
          PROVE  order'[q][i] \in queued' <=> i # 1
      <3>1. PICK k \in DOMAIN order[q] :
              /\ order'[q][i] = order[q][k]
              /\ q # p => k = i
              /\ q = p => k # n /\ k = (IF i < n THEN i ELSE i + 1)
        BY <2>1
      <3>2. order[q][k] \in queued <=> k # 1
        BY DEF FirstIsTimed
      <3>3. order[q][k] # s[n]
        BY <1>0, <1>2, <3>1 DEF FirstIsTimed
      <3>4. CASE n = 1 /\ Len(s) > 1
        <4>1. 2 \in DOMAIN s
          BY <1>2, <3>4
        <4>2. order[q][k] = s[2] <=> q = p /\ k = 2
          BY <1>0, <4>1 DEF FirstIsTimed
        <4>3. order'[q][i] \in queued' <=> k # 1 /\ ~(q = p /\ k = 2)
          BY <1>3, <3>1, <3>2, <3>3, <3>4, <4>2
        <4>4. i \in Nat /\ i >= 1
          BY <1>0, <1>2, <1>3
        <4> QED
          BY <3>1, <3>4, <4>3, <4>4
      <3>5. CASE ~(n = 1 /\ Len(s) > 1)
        <4>1. order'[q][i] \in queued' <=> k # 1
          BY <1>3, <3>1, <3>2, <3>3, <3>5
        <4>2. i \in Nat /\ i >= 1 /\ (q = p => i <= Len(s) - 1)
          BY <1>0, <1>2, <1>3
        <4>3. n \in Nat /\ n >= 1
          BY <1>2
        <4> QED
          BY <1>2, <3>1, <3>5, <4>1, <4>2, <4>3
      <3> QED
        BY <3>4, <3>5
    <2>3. ASSUME NEW q \in Procs, NEW i \in DOMAIN order'[q],
                 NEW u \in Procs, NEW j \in DOMAIN order'[u],
                 order'[u][j] = order'[q][i]
          PROVE  u = q /\ j = i
      <3>1. PICK k \in DOMAIN order[q] :
              /\ order'[q][i] = order[q][k]
              /\ q # p => k = i
              /\ q = p => k # n /\ k = (IF i < n THEN i ELSE i + 1)
        BY <2>1
      <3>2. PICK l \in DOMAIN order[u] :
              /\ order'[u][j] = order[u][l]
              /\ u # p => l = j
              /\ u = p => l # n /\ l = (IF j < n THEN j ELSE j + 1)
        BY <2>1
      <3>3. u = q /\ k = l
        BY <2>3, <3>1, <3>2 DEF FirstIsTimed
      <3>4. i \in Nat /\ j \in Nat /\ n \in Nat
        BY SMTT(30), <1>2, <1>3
      <3> QED
        BY <3>1, <3>2, <3>3, <3>4
    <2> QED
      BY <2>2, <2>3 DEF FirstIsTimed
  <1>7. ASSUME NEW b \in Boxes, Held(b), b # s[n]
        PROVE  Held(b)'
    <2>1. PICK q \in Procs : loadBox[q] = b \/ b \in Tokens(q) \/ b \in waiters[q]
      BY <1>7 DEF Held, Holds
    <2>2. CASE loadBox[q] = b \/ b \in waiters[q]
      BY <1>3, <2>2 DEF Held, Holds
    <2>3. CASE b \in Tokens(q)
      <3>1. PICK i \in DOMAIN order[q] : b = order[q][i]
        BY <2>3 DEF Tokens
      <3>2. \E j \in DOMAIN order'[q] : order'[q][j] = b
        BY SMTT(30), <1>0, <1>2, <1>3, <1>7, <3>1
      <3> QED
        BY <3>2 DEF Held, Holds, Tokens
    <2> QED
      BY <2>1, <2>2, <2>3
  <1>8. outcome' = Finished({order[p][n]}, kind)
    BY DEF FinishGeneration
  <1> QED
    BY <1>0, <1>4, <1>5, <1>6, <1>7, <1>8

\* What FirstIsTimed says of two queues, when one of them is given up.
LEMMA QueueGivenUp ==
  ASSUME TypeOK, FirstIsTimed, NEW p \in Procs,
         order' = [order EXCEPT ![p] = <<>>], queued' = queued \ Tokens(p)
  PROVE  FirstIsTimed'
  <1>1. order \in [Procs -> Seq(Boxes)]
    BY DEF TypeOK
  <1>2. ASSUME NEW q \in Procs, NEW i \in DOMAIN order'[q]
        PROVE  q # p /\ i \in DOMAIN order[q] /\ order'[q] = order[q]
    BY <1>1, <1>2
  <1>3. ASSUME NEW q \in Procs, NEW i \in DOMAIN order'[q]
        PROVE  order'[q][i] \in queued' <=> i # 1
    <2>1. order[q][i] \notin Tokens(p)
      BY <1>2 DEF Tokens, FirstIsTimed
    <2> QED
      BY <1>2, <2>1 DEF FirstIsTimed
  <1>4. ASSUME NEW q \in Procs, NEW i \in DOMAIN order'[q],
               NEW u \in Procs, NEW j \in DOMAIN order'[u],
               order'[u][j] = order'[q][i]
        PROVE  u = q /\ j = i
    BY <1>2, <1>4 DEF FirstIsTimed
  <1> QED
    BY <1>3, <1>4 DEF FirstIsTimed

\* A step that leaves the queues alone.
LEMMA QueuesAlone ==
  ASSUME FirstIsTimed, UNCHANGED <<order, queued>>
  PROVE  FirstIsTimed'
  BY DEF FirstIsTimed

\* What the step proofs use of TypeOK and RuntimeInv.
LEMMA HostFacts ==
  ASSUME TypeOK, RuntimeInv
  PROVE  /\ SlotsFit /\ FirstIsTimed /\ TasksCarry
         /\ tasks \in Seq(TaskSet)
         /\ current \in Procs \cup {NoProc}
         /\ loading \in Procs \cup {NoProc}
         /\ state \in [Procs -> ProcStates]
         /\ model \in [Procs -> MaybeModel]
         /\ onGpu \in [Procs -> BOOLEAN]
         /\ order \in [Procs -> Seq(Boxes)]
         /\ queued \subseteq Boxes
         /\ loadBox \in [Procs -> MaybeBox]
         /\ waiters \in [Procs -> SUBSET Boxes]
         /\ NoProc \notin Procs /\ NoBox \notin Boxes
  BY RuntimeAssumption DEF TypeOK, RuntimeInv

\* Ending a process at once.
LEMMA Killed ==
  ASSUME TypeOK, RuntimeInv, NEW p \in Procs,
         NEW kind \in Kinds \ {"none"}, KillProcess(p, kind)
  PROVE  TypeOK' /\ RuntimeInv'
  <1>0. /\ SlotsFit /\ FirstIsTimed /\ TasksCarry
        /\ tasks \in Seq(TaskSet)
        /\ current \in Procs \cup {NoProc}
        /\ loading \in Procs \cup {NoProc}
        /\ state \in [Procs -> ProcStates]
        /\ order \in [Procs -> Seq(Boxes)]
        /\ queued \subseteq Boxes
        /\ loadBox \in [Procs -> MaybeBox]
        /\ NoProc \notin Procs /\ NoBox \notin Boxes
    BY HostFacts
  <1>1. /\ order' = [order EXCEPT ![p] = <<>>]
        /\ queued' = queued \ Tokens(p)
        /\ loadBox' = [loadBox EXCEPT ![p] = NoBox]
        /\ state' = [state EXCEPT ![p] = "ending"]
        /\ current' = IF current = p THEN NoProc ELSE current
        /\ loading' = IF loading = p THEN NoProc ELSE loading
        /\ UNCHANGED <<loader, workerVars, tasks, down, model, onGpu, waiters>>
        /\ LossSettled /\ forgetting' \in BOOLEAN
        /\ outcome' = Finished(Tokens(p) \cup {loadBox[p]}, kind)
        /\ state[p] \in {"loading", "ready", "retired"}
    BY DEF KillProcess
  <1>2. FirstIsTimed'
    BY <1>0, <1>1, QueueGivenUp
  <1>3. ProcsTyped'
    BY <1>0, <1>1, HostFacts DEF ProcsTyped, ProcStates, MaybeBox
  <1>4. SlotsFit'
    <2>1. ASSUME NEW q \in Procs, q # p
          PROVE  /\ order'[q] = order[q] /\ state'[q] = state[q]
                 /\ loadBox'[q] = loadBox[q] /\ waiters'[q] = waiters[q]
                 /\ current' = q <=> current = q
                 /\ loading' = q <=> loading = q
      BY <1>0, <1>1, <2>1
    <2>2. /\ order'[p] = <<>> /\ state'[p] = "ending" /\ loadBox'[p] = NoBox
          /\ current' # p /\ loading' # p
      BY <1>0, <1>1
    <2> QED
      BY ZenonT(60), <1>0, <2>1, <2>2 DEF SlotsFit
  <1>5. ASSUME NEW b \in Boxes, Owed(b), b \notin Tokens(p) \cup {loadBox[p]}
        PROVE  Owed(b)'
    <2>1. CASE InTasks(b)
      BY <1>1, <2>1 DEF Owed, InTasks
    <2>2. CASE Held(b)
      <3>1. PICK q \in Procs : loadBox[q] = b \/ b \in Tokens(q) \/ b \in waiters[q]
        BY <2>2 DEF Held, Holds
      <3>2. CASE b \in waiters[q]
        BY <1>1, <3>2 DEF Owed, Held, Holds
      <3>3. CASE loadBox[q] = b \/ b \in Tokens(q)
        <4>1. q # p
          BY <1>5, <3>3
        <4>2. order'[q] = order[q] /\ loadBox'[q] = loadBox[q]
          BY <1>0, <1>1, <4>1
        <4> QED
          BY <3>3, <4>2 DEF Owed, Held, Holds, Tokens
      <3> QED
        BY <3>1, <3>2, <3>3
    <2> QED
      BY <1>5, <2>1, <2>2 DEF Owed
  <1>6. TasksCarry' /\ tasks' \in Seq(TaskSet) /\ down' \in BOOLEAN
    BY <1>0, <1>1 DEF TasksCarry, TypeOK
  <1> DEFINE S == Tokens(p) \cup {loadBox[p]}
  <1>7. outcome' = Finished(S, kind) /\ \A b \in Boxes : Owed(b) => Owed(b)' \/ b \in S
    BY <1>1, <1>5
  <1> HIDE DEF S
  <1>8. UNCHANGED <<loader, workerVars>> /\ LossSettled /\ forgetting' \in BOOLEAN
    BY <1>1
  <1>9. PICK T : T = S
    OBVIOUS
  <1> QED
    BY <1>2, <1>3, <1>4, <1>6, <1>7, <1>8, <1>9, UiAnswers

\* A task that leaves the processes alone and at most finishes its mailbox.
LEMMA OnlyAnswers ==
  ASSUME TypeOK, RuntimeInv, NEW op \in Ops, Run(op), UNCHANGED hostVars,
         NEW kind \in Kinds \ {"none"},
         outcome' = Finished({Head(tasks).box}, kind)
  PROVE  TypeOK' /\ RuntimeInv'
  <1>1. PICK T : T = {Head(tasks).box}
    OBVIOUS
  <1>2. SlotsFit /\ FirstIsTimed /\ TasksCarry
    BY DEF RuntimeInv
  <1>3. \A b \in Boxes : Owed(b) => Owed(b)' \/ b \in T
    <2>1. \A b \in Boxes : InTasks(b) => InTasks(b)' \/ b \in T
      BY <1>1, <1>2, TaskTaken
    <2>2. \A b \in Boxes : Held(b) => Held(b)'
      BY DEF Held, Holds, Tokens, hostVars, procVars
    <2> QED
      BY <2>1, <2>2 DEF Owed
  <1>4. ProcsTyped' /\ down' \in BOOLEAN
    BY DEF TypeOK, ProcsTyped, hostVars, procVars, Run
  <1>5. SlotsFit' /\ FirstIsTimed'
    BY <1>2, HostAlone
  <1>6. tasks' \in Seq(TaskSet) /\ TasksCarry'
    BY <1>2, TaskTaken
  <1>7. UNCHANGED <<loader, workerVars>> /\ LossSettled /\ forgetting' \in BOOLEAN
    BY DEF Run
  <1>8. outcome' = Finished(T, kind)
    BY <1>1
  <1> QED
    BY <1>3, <1>4, <1>5, <1>6, <1>7, <1>8, UiAnswers

\* Load() keeps the invariant.
LEMMA LoadStep ==
  ASSUME TypeOK, RuntimeInv, Load
  PROVE  TypeOK' /\ RuntimeInv'
  <1>1. Run("load") /\ "load" \in Ops
    BY DEF Load, Ops
  <1>2. CASE down
    <2>1. outcome' = Finished({Head(tasks).box}, "failed") /\ UNCHANGED hostVars
      BY <1>2 DEF Load
    <2> QED
      BY <1>1, <2>1, OnlyAnswers DEF Kinds
  <1>3. CASE ~down
    <2>0. PICK t \in TaskSet : t = Head(tasks)
      BY <1>1, TaskTaken DEF RuntimeInv
    <2>1. PICK p \in Some(FreeProcs) :
            /\ outcome' = IF loading = NoProc THEN outcome
                          ELSE Finished({loadBox[loading]}, "noModel")
            /\ state' = [q \in Procs |->
                 IF q = p THEN "loading"
                 ELSE IF q = loading THEN "ending" ELSE state[q]]
            /\ loadBox' = [q \in Procs |->
                 IF q = p THEN t.box
                 ELSE IF q = loading THEN NoBox ELSE loadBox[q]]
            /\ model' = [model EXCEPT ![p] = t.model]
            /\ onGpu' = [onGpu EXCEPT ![p] = t.gpu]
            /\ loading' = p
            /\ UNCHANGED <<current, order, queued, waiters>>
      BY <1>3, <2>0 DEF Load
    <2>2. p \in Procs /\ state[p] = "free"
      BY Picking DEF FreeProcs
    <2>3. /\ t.box \in Boxes /\ t.op = "load"
          /\ tasks' \in Seq(TaskSet) /\ TasksCarry'
          /\ \A b \in Boxes : InTasks(b) => InTasks(b)' \/ b = t.box
      BY <1>1, <2>0, TaskTaken DEF RuntimeInv
    <2>4. /\ UNCHANGED <<loader, workerVars>> /\ LossSettled
          /\ forgetting' \in BOOLEAN /\ down' \in BOOLEAN
      BY <1>1 DEF Run, TypeOK
    <2>5. t.box \in MaybeBox /\ t.model \in MaybeModel /\ t.gpu \in BOOLEAN
      BY <2>0 DEF TaskSet
    <2>6. ProcsTyped'
      BY <2>1, <2>2, <2>5, HostFacts DEF ProcsTyped, ProcStates, MaybeBox
    <2>7. SlotsFit'
      <3>1. SlotsFit /\ t.box # NoBox /\ loading # p /\ current # p
        BY <2>2, <2>3, RuntimeAssumption DEF RuntimeInv, SlotsFit
      <3>2. /\ state'[p] = "loading" /\ loadBox'[p] = t.box
            /\ order'[p] = <<>> /\ waiters'[p] = {}
        BY <2>1, <2>2, <3>1 DEF SlotsFit
      <3>3. ASSUME NEW q \in Procs, q # p, q # loading
            PROVE  state'[q] = state[q] /\ loadBox'[q] = loadBox[q]
        BY <2>1, <3>3
      <3>4. ASSUME NEW q \in Procs, q # p, q = loading
            PROVE  state'[q] = "ending" /\ loadBox'[q] = NoBox /\ order[q] = <<>>
        BY <2>1, <3>1, <3>4 DEF SlotsFit
      <3> QED
        BY <2>1, <2>2, <3>1, <3>2, <3>3, <3>4 DEF SlotsFit
    <2>8. FirstIsTimed'
      BY <2>1, HostFacts, QueuesAlone
    <2>9. ASSUME NEW b \in Boxes, Owed(b),
                 loading # NoProc => b # loadBox[loading]
          PROVE  Owed(b)'
      <3>1. b = t.box => Held(b)'
        BY <2>1, <2>2 DEF Held, Holds
      <3>2. ASSUME Held(b)
            PROVE  Held(b)'
        <4>1. PICK q \in Procs : loadBox[q] = b \/ b \in Tokens(q) \/ b \in waiters[q]
          BY <3>2 DEF Held, Holds
        <4>2. CASE b \in Tokens(q) \/ b \in waiters[q]
          BY <2>1, <4>2 DEF Held, Holds, Tokens
        <4>3. CASE loadBox[q] = b
          <5>1. q # p /\ q # loading
            BY <2>2, <2>9, <4>3, RuntimeAssumption DEF RuntimeInv, SlotsFit
          <5>2. loadBox'[q] = b
            BY <2>1, <4>3, <5>1
          <5> QED
            BY <5>2 DEF Held, Holds
        <4> QED
          BY <4>1, <4>2, <4>3
      <3> QED
        BY <2>3, <2>9, <3>1, <3>2 DEF Owed
    <2>10. CASE loading = NoProc
      BY <2>1, <2>3, <2>4, <2>6, <2>7, <2>8, <2>9, <2>10, UiKeeps
    <2>11. CASE loading # NoProc
      <3>1. PICK T : T = {loadBox[loading]}
        OBVIOUS
      <3>2. outcome' = Finished(T, "noModel")
            /\ \A b \in Boxes : Owed(b) => Owed(b)' \/ b \in T
        BY <2>1, <2>9, <2>11, <3>1
      <3> QED
        BY <2>3, <2>4, <2>6, <2>7, <2>8, <3>2, UiAnswers DEF Kinds
    <2> QED
      BY <2>10, <2>11
  <1> QED
    BY <1>2, <1>3

\* StartGeneration() keeps the invariant.
LEMMA StartStep ==
  ASSUME TypeOK, RuntimeInv, StartGeneration
  PROVE  TypeOK' /\ RuntimeInv'
  <1>1. Run("start") /\ "start" \in Ops
    BY DEF StartGeneration, Ops
  <1>0. PICK b \in Boxes : b = Head(tasks).box
    BY <1>1, TaskTaken DEF RuntimeInv
  <1>2. CASE down \/ current = NoProc \/ \E p \in Procs : b \in Tokens(p)
    <2>1. PICK k \in Kinds \ {"none"} : k = IF down THEN "failed" ELSE "noModel"
      BY DEF Kinds
    <2>2. outcome' = Finished({Head(tasks).box}, k) /\ UNCHANGED hostVars
      BY <1>0, <1>2, <2>1 DEF StartGeneration
    <2> QED
      BY <1>1, <2>2, OnlyAnswers
  <1>3. CASE ~(down \/ current = NoProc \/ \E p \in Procs : b \in Tokens(p))
    <2>0. PICK c \in Procs : c = current
      BY <1>3, HostFacts
    <2>1. /\ order' = [order EXCEPT ![c] = Append(@, b)]
          /\ queued' = IF order[c] = <<>> THEN queued \ {b} ELSE queued \cup {b}
          /\ UNCHANGED <<outcome, current, loading, state, model, onGpu,
                         loadBox, waiters>>
      BY <1>0, <1>3, <2>0 DEF StartGeneration
    <2>2. PICK s \in Seq(Boxes) : s = order[c]
      BY HostFacts
    <2>3. PICK r \in Seq(Boxes) : r = Append(s, b)
      <3>1. Append(s, b) \in Seq(Boxes)
        OBVIOUS
      <3> QED
        BY <3>1
    <2>4. /\ DOMAIN r = DOMAIN s \cup {Len(s) + 1}
          /\ \A n \in DOMAIN s : r[n] = s[n]
          /\ r[Len(s) + 1] = b /\ r # <<>> /\ Len(s) \in Nat
          /\ DOMAIN s = 1..Len(s) /\ (s = <<>> <=> Len(s) = 0)
      BY <2>2, <2>3
    <2>5. /\ order' = [order EXCEPT ![c] = r] /\ order \in [Procs -> Seq(Boxes)]
      BY <2>1, <2>2, <2>3, HostFacts
    <2>6. ProcsTyped'
      BY <2>1, <2>5, HostFacts DEF ProcsTyped
    <2>7. SlotsFit'
      <3>1. SlotsFit /\ state[c] = "ready" /\ order'[c] = r
        BY <2>0, <2>5, HostFacts DEF SlotsFit
      <3>2. \A q \in Procs : q # c => order'[q] = order[q]
        BY <2>5
      <3> QED
        BY <2>1, <2>4, <3>1, <3>2 DEF SlotsFit
    <2>8. FirstIsTimed'
      <3>1. \A q \in Procs : \A i \in DOMAIN order[q] : order[q][i] # b
        BY <1>3 DEF Tokens
      <3>2. ASSUME NEW q \in Procs, NEW i \in DOMAIN order'[q]
            PROVE  \/ i \in DOMAIN order[q] /\ order'[q][i] = order[q][i]
                   \/ q = c /\ i = Len(s) + 1 /\ order'[q][i] = b
        BY <2>2, <2>4, <2>5, <3>2
      <3>3. ASSUME NEW q \in Procs, NEW i \in DOMAIN order'[q]
            PROVE  order'[q][i] \in queued' <=> i # 1
        <4>1. CASE i \in DOMAIN order[q] /\ order'[q][i] = order[q][i]
          BY <2>1, <3>1, <4>1, HostFacts DEF FirstIsTimed
        <4>2. CASE q = c /\ i = Len(s) + 1 /\ order'[q][i] = b
          BY <2>1, <2>2, <2>4, <4>2
        <4> QED
          BY <3>2, <4>1, <4>2
      <3>4. ASSUME NEW q \in Procs, NEW i \in DOMAIN order'[q],
                   NEW u \in Procs, NEW j \in DOMAIN order'[u],
                   order'[u][j] = order'[q][i]
            PROVE  u = q /\ j = i
        <4>1. FirstIsTimed
          BY HostFacts
        <4>2. \/ i \in DOMAIN order[q] /\ order'[q][i] = order[q][i]
              \/ q = c /\ i = Len(s) + 1 /\ order'[q][i] = b
          BY <3>2
        <4>3. \/ j \in DOMAIN order[u] /\ order'[u][j] = order[u][j]
              \/ u = c /\ j = Len(s) + 1 /\ order'[u][j] = b
          BY <3>2
        <4> QED
          BY <3>1, <3>4, <4>1, <4>2, <4>3 DEF FirstIsTimed
      <3> QED
        BY <3>3, <3>4 DEF FirstIsTimed
    <2>9. ASSUME NEW e \in Boxes, Owed(e)
          PROVE  Owed(e)'
      <3>1. e = b => Held(e)'
        <4>1. Len(s) + 1 \in DOMAIN order'[c] /\ order'[c][Len(s) + 1] = b
          BY <2>4, <2>5
        <4>2. b \in Tokens(c)'
          BY <4>1 DEF Tokens
        <4> QED
          BY <4>2 DEF Held, Holds
      <3>2. Held(e) => Held(e)'
        <4>1. ASSUME NEW q \in Procs, e \in Tokens(q)
              PROVE  e \in Tokens(q)'
          <5>1. PICK i \in DOMAIN order[q] : e = order[q][i]
            BY <4>1 DEF Tokens
          <5>2. i \in DOMAIN order'[q] /\ order'[q][i] = e
            BY <2>2, <2>4, <2>5, <5>1
          <5> QED
            BY <5>2 DEF Tokens
        <4> QED
          BY <2>1, <4>1 DEF Held, Holds
      <3>3. InTasks(e) => InTasks(e)' \/ e = b
        BY <1>0, <1>1, TaskTaken DEF RuntimeInv
      <3> QED
        BY <2>9, <3>1, <3>2, <3>3 DEF Owed
    <2>10. /\ tasks' \in Seq(TaskSet) /\ TasksCarry'
           /\ UNCHANGED <<loader, workerVars>> /\ LossSettled
           /\ forgetting' \in BOOLEAN /\ down' \in BOOLEAN
      BY <1>1, TaskTaken DEF RuntimeInv, Run, TypeOK
    <2> QED
      BY <2>1, <2>6, <2>7, <2>8, <2>9, <2>10, UiKeeps
  <1> QED
    BY <1>2, <1>3

\* Cancel() keeps the invariant.
LEMMA CancelStep ==
  ASSUME TypeOK, RuntimeInv, Cancel
  PROVE  TypeOK' /\ RuntimeInv'
  <1>1. Run("cancel") /\ "cancel" \in Ops
    BY DEF Cancel, Ops
  <1>2. /\ tasks' \in Seq(TaskSet) /\ TasksCarry'
        /\ UNCHANGED <<loader, workerVars>> /\ LossSettled
        /\ forgetting' \in BOOLEAN /\ down' \in BOOLEAN
        /\ \A b \in Boxes : InTasks(b) => InTasks(b)'
    BY <1>1, TaskTaken DEF RuntimeInv, Run, TypeOK
  <1>3. CASE UNCHANGED <<outcome, hostVars>>
    <2>1. \A b \in Boxes : Held(b) => Held(b)'
      BY <1>3 DEF Held, Holds, Tokens, hostVars, procVars
    <2>2. ProcsTyped' /\ SlotsFit' /\ FirstIsTimed'
      BY <1>3, HostFacts, HostAlone DEF ProcsTyped, hostVars, procVars
    <2> QED
      BY <1>2, <1>3, <2>1, <2>2, UiKeeps DEF Owed
  <1>4. ASSUME NEW p \in Procs, NEW n \in DOMAIN order[p],
               FinishGeneration(p, n, "failed")
        PROVE  TypeOK' /\ RuntimeInv'
    <2>1. PICK T : T = {order[p][n]}
      OBVIOUS
    <2>2. /\ ProcsTyped' /\ SlotsFit' /\ FirstIsTimed'
          /\ outcome' = Finished(T, "failed")
          /\ \A b \in Boxes : Held(b) => Held(b)' \/ b \in T
      BY <1>4, <2>1, HostFacts, GenerationFinished
    <2> QED
      BY <1>2, <2>2, UiAnswers DEF Owed, Kinds
  <1> QED
    BY <1>3, <1>4 DEF Cancel

\* Unload(kGraceful) keeps the invariant.
LEMMA UnloadStep ==
  ASSUME TypeOK, RuntimeInv, Unload
  PROVE  TypeOK' /\ RuntimeInv'
  <1>1. Run("unload") /\ "unload" \in Ops
    BY DEF Unload, Ops
  <1>2. CASE current = NoProc
    <2>1. outcome' = Finished({Head(tasks).box}, "ok") /\ UNCHANGED hostVars
      BY <1>2 DEF Unload
    <2> QED
      BY <1>1, <2>1, OnlyAnswers DEF Kinds
  <1>3. CASE current # NoProc
    <2>0. PICK c \in Procs : c = current
      BY <1>3, HostFacts
    <2>1. PICK b \in MaybeBox : b = Head(tasks).box
      BY <1>1, TaskTaken DEF RuntimeInv, TaskSet
    <2>2. /\ waiters' = [waiters EXCEPT ![c] = @ \cup ({b} \ {NoBox})]
          /\ state' = [state EXCEPT ![c] = Retired(c)]
          /\ current' = NoProc
          /\ UNCHANGED <<outcome, loading, model, onGpu, order, queued, loadBox>>
      BY <1>3, <2>0, <2>1 DEF Unload
    <2>3. ProcsTyped'
      BY <2>2, HostFacts DEF ProcsTyped, ProcStates, Retired, MaybeBox
    <2>4. SlotsFit'
      <3>1. SlotsFit /\ state[c] = "ready" /\ loading # c /\ loadBox[c] = NoBox
        BY <2>0, HostFacts DEF SlotsFit
      <3>2. \A q \in Procs : q # c => state'[q] = state[q] /\ waiters'[q] = waiters[q]
        BY <2>2, HostFacts
      <3>3. state'[c] = IF order[c] = <<>> THEN "ending" ELSE "retired"
        BY <2>2, HostFacts DEF Retired
      <3> QED
        BY <2>0, <2>2, <3>1, <3>2, <3>3, HostFacts DEF SlotsFit
    <2>5. FirstIsTimed'
      BY <2>2, HostFacts, QueuesAlone
    <2>6. ASSUME NEW e \in Boxes, Owed(e)
          PROVE  Owed(e)'
      <3>1. e = b => Held(e)'
        <4>1. e = b => e \in waiters'[c]
          BY <2>2, HostFacts
        <4> QED
          BY <4>1 DEF Held, Holds
      <3>2. Held(e) => Held(e)'
        <4>1. \A q \in Procs : e \in waiters[q] => e \in waiters'[q]
          BY <2>2, HostFacts
        <4> QED
          BY <2>2, <4>1 DEF Held, Holds, Tokens
      <3>3. InTasks(e) => InTasks(e)' \/ e = b
        BY <1>1, <2>1, TaskTaken DEF RuntimeInv
      <3> QED
        BY <2>6, <3>1, <3>2, <3>3 DEF Owed
    <2>7. /\ tasks' \in Seq(TaskSet) /\ TasksCarry'
          /\ UNCHANGED <<loader, workerVars>> /\ LossSettled
          /\ forgetting' \in BOOLEAN /\ down' \in BOOLEAN
      BY <1>1, TaskTaken DEF RuntimeInv, Run, TypeOK
    <2> QED
      BY <2>2, <2>3, <2>4, <2>5, <2>6, <2>7, UiKeeps
  <1> QED
    BY <1>2, <1>3

\* Unload(kNow) keeps the invariant.
LEMMA UnloadNowStep ==
  ASSUME TypeOK, RuntimeInv, UnloadNow
  PROVE  TypeOK' /\ RuntimeInv'
  <1>1. Run("unloadNow") /\ "unloadNow" \in Ops
    BY DEF UnloadNow, Ops
  <1>2. /\ tasks' \in Seq(TaskSet) /\ TasksCarry'
        /\ UNCHANGED <<loader, workerVars>> /\ LossSettled
        /\ forgetting' \in BOOLEAN /\ down' \in BOOLEAN
    BY <1>1, TaskTaken DEF RuntimeInv, Run, TypeOK
  <1>3. \A b \in Boxes : InTasks(b) => InTasks(b)'
    BY <1>1, TaskTaken, HostFacts
  <1>4. CASE current = NoProc
    <2>1. UNCHANGED <<outcome, hostVars>>
      BY <1>4 DEF UnloadNow
    <2>2. \A b \in Boxes : Held(b) => Held(b)'
      BY <2>1 DEF Held, Holds, Tokens, hostVars, procVars
    <2>3. ProcsTyped' /\ SlotsFit' /\ FirstIsTimed'
      BY <2>1, HostFacts, HostAlone DEF ProcsTyped, hostVars, procVars
    <2> QED
      BY <1>2, <1>3, <2>1, <2>2, <2>3, UiKeeps DEF Owed
  <1>5. CASE current # NoProc
    <2>0. PICK c \in Procs : c = current
      BY <1>5, HostFacts
    <2>1. PICK T : T = Tokens(c)
      OBVIOUS
    <2>2. /\ outcome' = Finished(T, "noModel")
          /\ order' = [order EXCEPT ![c] = <<>>]
          /\ queued' = queued \ Tokens(c)
          /\ state' = [state EXCEPT ![c] = "ending"]
          /\ current' = NoProc
          /\ UNCHANGED <<loading, model, onGpu, loadBox, waiters>>
      BY <1>5, <2>0, <2>1 DEF UnloadNow
    <2>3. ProcsTyped'
      BY <2>2, HostFacts DEF ProcsTyped, ProcStates
    <2>4. SlotsFit'
      <3>1. SlotsFit /\ state[c] = "ready" /\ loading # c /\ loadBox[c] = NoBox
        BY <2>0, HostFacts DEF SlotsFit
      <3>2. \A q \in Procs : q # c => state'[q] = state[q] /\ order'[q] = order[q]
        BY <2>2, HostFacts
      <3>3. state'[c] = "ending" /\ order'[c] = <<>>
        BY <2>2, HostFacts
      <3> QED
        BY <2>0, <2>2, <3>1, <3>2, <3>3, HostFacts DEF SlotsFit
    <2>5. FirstIsTimed'
      BY <2>2, HostFacts, QueueGivenUp
    <2>6. ASSUME NEW b \in Boxes, Held(b), b \notin T
          PROVE  Held(b)'
      <3>1. PICK q \in Procs : loadBox[q] = b \/ b \in Tokens(q) \/ b \in waiters[q]
        BY <2>6 DEF Held, Holds
      <3>2. CASE loadBox[q] = b \/ b \in waiters[q]
        BY <2>2, <3>2 DEF Held, Holds
      <3>3. CASE b \in Tokens(q)
        <4>1. order'[q] = order[q]
          BY <2>1, <2>2, <2>6, <3>3, HostFacts
        <4> QED
          BY <3>3, <4>1 DEF Held, Holds, Tokens
      <3> QED
        BY <3>1, <3>2, <3>3
    <2> QED
      BY <1>2, <1>3, <2>2, <2>3, <2>4, <2>5, <2>6, UiAnswers DEF Owed, Kinds
  <1> QED
    BY <1>4, <1>5

\* What a process or a timer brings keeps the invariant.
LEMMA ProcessStep ==
  ASSUME TypeOK, RuntimeInv, NEW p \in Procs, Process(p)
  PROVE  TypeOK' /\ RuntimeInv'
  <1>1. CASE \E kind \in Kinds \ {"none"} : KillProcess(p, kind)
    BY <1>1, Killed
  <1>2. ASSUME Event
        PROVE  /\ tasks' \in Seq(TaskSet) /\ TasksCarry'
               /\ UNCHANGED <<loader, workerVars>> /\ LossSettled
               /\ forgetting' \in BOOLEAN /\ down' \in BOOLEAN
               /\ \A b \in Boxes : InTasks(b) => InTasks(b)'
    BY <1>2, HostFacts DEF Event, TypeOK, TasksCarry, InTasks
  <1>3. CASE LoadReplyOk(p)
    <2>1. PICK T : T = {loadBox[p]}
      OBVIOUS
    <2>2. /\ Event /\ p = loading
          /\ outcome' = Finished(T, "ok")
          /\ state' = [q \in Procs |->
               IF q = p THEN "ready"
               ELSE IF q = current THEN Retired(q) ELSE state[q]]
          /\ loadBox' = [loadBox EXCEPT ![p] = NoBox]
          /\ current' = p
          /\ loading' = NoProc
          /\ UNCHANGED <<model, onGpu, order, queued, waiters>>
      BY <1>3, <2>1 DEF LoadReplyOk
    <2>3. ProcsTyped'
      BY <2>2, HostFacts DEF ProcsTyped, ProcStates, Retired, MaybeBox
    <2>4. SlotsFit'
      <3>1. /\ SlotsFit /\ state[p] = "loading" /\ p # current
            /\ waiters[p] = {} /\ order[p] = <<>>
        BY <2>2, HostFacts DEF SlotsFit
      <3>2. state'[p] = "ready" /\ loadBox'[p] = NoBox
        BY <2>2, HostFacts
      <3>3. ASSUME NEW q \in Procs, q # p
            PROVE  /\ loadBox'[q] = loadBox[q]
                   /\ q # current => state'[q] = state[q]
                   /\ q = current => state'[q] = IF order[q] = <<>> THEN "ending" ELSE "retired"
        BY <2>2, <3>3, HostFacts DEF Retired
      <3> QED
        BY <2>2, <3>1, <3>2, <3>3, HostFacts DEF SlotsFit
    <2>5. FirstIsTimed'
      BY <2>2, HostFacts, QueuesAlone
    <2>6. ASSUME NEW b \in Boxes, Held(b), b \notin T
          PROVE  Held(b)'
      BY <2>1, <2>2, <2>6, HostFacts DEF Held, Holds, Tokens
    <2> QED
      BY <1>2, <2>2, <2>3, <2>4, <2>5, <2>6, UiAnswers DEF Owed, Kinds
  <1>4. CASE LoadReplyFailed(p)
    <2>1. PICK T : T = {loadBox[p]}
      OBVIOUS
    <2>2. /\ Event /\ p = loading
          /\ outcome' = Finished(T, "failed")
          /\ state' = [state EXCEPT ![p] = "ending"]
          /\ loadBox' = [loadBox EXCEPT ![p] = NoBox]
          /\ loading' = NoProc
          /\ UNCHANGED <<current, model, onGpu, order, queued, waiters>>
      BY <1>4, <2>1 DEF LoadReplyFailed
    <2>3. ProcsTyped'
      BY <2>2, HostFacts DEF ProcsTyped, ProcStates, MaybeBox
    <2>4. SlotsFit'
      <3>1. /\ SlotsFit /\ state[p] = "loading" /\ p # current
            /\ waiters[p] = {} /\ order[p] = <<>>
        BY <2>2, HostFacts DEF SlotsFit
      <3>2. state'[p] = "ending" /\ loadBox'[p] = NoBox
        BY <2>2, HostFacts
      <3>3. ASSUME NEW q \in Procs, q # p
            PROVE  loadBox'[q] = loadBox[q] /\ state'[q] = state[q]
        BY <2>2, <3>3, HostFacts
      <3> QED
        BY <2>2, <3>1, <3>2, <3>3, HostFacts DEF SlotsFit
    <2>5. FirstIsTimed'
      BY <2>2, HostFacts, QueuesAlone
    <2>6. ASSUME NEW b \in Boxes, Held(b), b \notin T
          PROVE  Held(b)'
      BY <2>1, <2>2, <2>6, HostFacts DEF Held, Holds, Tokens
    <2> QED
      BY <1>2, <2>2, <2>3, <2>4, <2>5, <2>6, UiAnswers DEF Owed, Kinds
  <1>5. ASSUME NEW n \in DOMAIN order[p], OnComplete(p, n)
        PROVE  TypeOK' /\ RuntimeInv'
    <2>1. PICK kind \in Kinds \ {"none"} : FinishGeneration(p, n, kind)
      BY <1>5 DEF OnComplete, Kinds
    <2>2. PICK T : T = {order[p][n]}
      OBVIOUS
    <2>3. /\ ProcsTyped' /\ SlotsFit' /\ FirstIsTimed'
          /\ outcome' = Finished(T, kind)
          /\ \A b \in Boxes : Held(b) => Held(b)' \/ b \in T
      BY <2>1, <2>2, HostFacts, GenerationFinished
    <2>4. Event
      BY <1>5 DEF OnComplete
    <2> QED
      BY <1>2, <2>3, <2>4, UiAnswers DEF Owed
  <1>6. CASE OnProcessExited(p)
    <2>1. PICK T : T = waiters[p]
      OBVIOUS
    <2>2. /\ Event /\ state[p] = "ending"
          /\ outcome' = Finished(T, "ok")
          /\ waiters' = [waiters EXCEPT ![p] = {}]
          /\ state' = [state EXCEPT ![p] = "free"]
          /\ model' = [model EXCEPT ![p] = NoModel]
          /\ onGpu' = [onGpu EXCEPT ![p] = FALSE]
          /\ UNCHANGED <<current, loading, order, queued, loadBox>>
      BY <1>6, <2>1 DEF OnProcessExited, DestroyNow
    <2>3. ProcsTyped'
      BY <2>2, HostFacts DEF ProcsTyped, ProcStates, MaybeModel
    <2>4. SlotsFit'
      <3>1. SlotsFit /\ state'[p] = "free" /\ waiters'[p] = {}
        BY <2>2, HostFacts
      <3>2. ASSUME NEW q \in Procs, q # p
            PROVE  waiters'[q] = waiters[q] /\ state'[q] = state[q]
        BY <2>2, <3>2, HostFacts
      <3> QED
        BY <2>2, <3>1, <3>2 DEF SlotsFit
    <2>5. FirstIsTimed'
      BY <2>2, HostFacts, QueuesAlone
    <2>6. ASSUME NEW b \in Boxes, Held(b), b \notin T
          PROVE  Held(b)'
      BY <2>1, <2>2, <2>6, HostFacts DEF Held, Holds, Tokens
    <2> QED
      BY <1>2, <2>2, <2>3, <2>4, <2>5, <2>6, UiAnswers DEF Owed, Kinds
  <1> QED
    BY <1>1, <1>3, <1>4, <1>5, <1>6
    DEF Process, OnLoadTimeout, OnTick, OnProcessLost, OnViolation,
        OnFootprintSample, Kinds

\* The end of the app keeps the invariant.
LEMMA TerminatingStep ==
  ASSUME TypeOK, RuntimeInv, OnAppTerminating
  PROVE  TypeOK' /\ RuntimeInv'
  <1>1. PICK T : T = UNION {Tokens(p) \cup waiters[p] \cup {loadBox[p]} : p \in Procs}
    OBVIOUS
  <1>2. /\ outcome' = Finished(T, "failed")
        /\ current' = NoProc
        /\ loading' = NoProc
        /\ state' = [p \in Procs |-> "free"]
        /\ model' = [p \in Procs |-> NoModel]
        /\ onGpu' = [p \in Procs |-> FALSE]
        /\ order' = [p \in Procs |-> <<>>]
        /\ queued' = {}
        /\ loadBox' = [p \in Procs |-> NoBox]
        /\ waiters' = [p \in Procs |-> {}]
        /\ UNCHANGED <<loader, workerVars, tasks>>
        /\ LossSettled /\ forgetting' \in BOOLEAN /\ down' \in BOOLEAN
    BY <1>1 DEF OnAppTerminating
  <1>3. ProcsTyped'
    BY <1>2 DEF ProcsTyped, ProcStates, MaybeModel, MaybeBox
  <1>4. SlotsFit' /\ FirstIsTimed'
    BY <1>2, RuntimeAssumption DEF SlotsFit, FirstIsTimed
  <1>5. \A b \in Boxes : InTasks(b) => InTasks(b)'
    BY <1>2 DEF InTasks
  <1>6. \A b \in Boxes : Held(b) => b \in T
    BY <1>1 DEF Held, Holds
  <1>7. tasks' \in Seq(TaskSet) /\ TasksCarry'
    BY <1>2, HostFacts DEF TasksCarry
  <1> QED
    BY <1>2, <1>3, <1>4, <1>5, <1>6, <1>7, UiAnswers DEF Owed, Kinds

\* The idle timer's step keeps the invariant.
LEMMA IdleStep ==
  ASSUME TypeOK, RuntimeInv, UnloadIfIdle
  PROVE  TypeOK' /\ RuntimeInv'
  <1>1. /\ loaded' = NoModel
        /\ Post(Task("unload", NoBox, NoModel, FALSE))
        /\ UNCHANGED <<loader, workerVars, outcome, forgetting, down, hostVars>>
    BY DEF UnloadIfIdle
  <1>2. PICK t \in TaskSet : t = Task("unload", NoBox, NoModel, FALSE)
    BY DEF TaskSet, Task, Ops, MaybeModel, MaybeBox
  <1>3. t.op = "unload" /\ Post(t)
    BY <1>1, <1>2 DEF Task
  <1>4. /\ WaitsAreOwed /\ OneLoads /\ SlotsFit /\ FirstIsTimed /\ TasksCarry
    BY DEF RuntimeInv
  <1>5. TasksCarry' /\ tasks' \in Seq(TaskSet)
        /\ \A b \in Boxes : Owed(b) => Owed(b)'
    BY <1>1, <1>3, <1>4, PostOwes
  <1>6. WaitsAreOwed'
    BY <1>1, <1>4, <1>5, HostKeeps DEF workerVars
  <1>7. OneLoads' /\ SlotsFit' /\ FirstIsTimed'
    BY <1>1, <1>4, HostAlone DEF OneLoads, workerVars
  <1>8. TypeOK'
    BY <1>1, <1>5 DEF TypeOK, workerVars, hostVars, procVars, MaybeModel
  <1> QED
    BY <1>5, <1>6, <1>7, <1>8 DEF RuntimeInv

\* The end of OnModelProcessLost() keeps the invariant.
LEMMA ForgetStep ==
  ASSUME TypeOK, RuntimeInv, ForgetLost
  PROVE  TypeOK' /\ RuntimeInv'
  <1>1. /\ LossSettled /\ forgetting' \in BOOLEAN /\ down' \in BOOLEAN
        /\ UNCHANGED <<loader, workerVars, outcome, tasks, down, hostVars>>
    BY DEF ForgetLost, TypeOK
  <1>2. ProcsTyped' /\ SlotsFit' /\ FirstIsTimed'
    BY <1>1, HostFacts, HostAlone DEF ProcsTyped, hostVars, procVars
  <1>3. TasksCarry' /\ tasks' \in Seq(TaskSet)
    BY <1>1, HostFacts DEF TasksCarry
  <1>4. \A b \in Boxes : Owed(b) => Owed(b)'
    BY <1>1, SameOwed
  <1> QED
    BY <1>1, <1>2, <1>3, <1>4, UiKeeps

\* The runtime starts in the invariant.
LEMMA Starts == Init => TypeOK /\ RuntimeInv
<1> SUFFICES ASSUME Init PROVE TypeOK /\ RuntimeInv
  OBVIOUS
<1>1. TypeOK
  <2>1. tasks \in Seq(TaskSet) /\ order \in [Procs -> Seq(Boxes)]
    BY DEF Init
  <2>2. /\ pc \in [Workers -> {"idle", "launch"} \cup Waits \cup Generating]
        /\ box \in [Workers -> MaybeBox] /\ target \in [Workers -> MaybeModel]
        /\ gpu \in [Workers -> BOOLEAN] /\ outcome \in [Boxes -> Kinds]
    BY DEF Init, MaybeModel, MaybeBox, Kinds
  <2>3. /\ state \in [Procs -> ProcStates] /\ model \in [Procs -> MaybeModel]
        /\ onGpu \in [Procs -> BOOLEAN] /\ loadBox \in [Procs -> MaybeBox]
        /\ waiters \in [Procs -> SUBSET Boxes]
    BY DEF Init, MaybeModel, MaybeBox, ProcStates
  <2> QED
    BY <2>1, <2>2, <2>3 DEF Init, TypeOK, MaybeModel
<1>2. WaitsAreOwed /\ OneLoads
  BY RuntimeAssumption DEF Init, WaitsAreOwed, OneLoads, Waits
<1>3. SlotsFit /\ FirstIsTimed /\ TasksCarry
  BY RuntimeAssumption DEF Init, SlotsFit, FirstIsTimed, TasksCarry
<1> QED
  BY <1>1, <1>2, <1>3 DEF RuntimeInv

\* Every step keeps it.
LEMMA Steps == TypeOK /\ RuntimeInv /\ [Next]_vars => TypeOK' /\ RuntimeInv'
<1> SUFFICES ASSUME TypeOK, RuntimeInv, [Next]_vars
             PROVE  TypeOK' /\ RuntimeInv'
  OBVIOUS
<1>1. CASE \E w \in Workers : Worker(w)
  BY <1>1, WorkerStep
<1>2. CASE UnloadIfIdle
  BY <1>2, IdleStep
<1>3. CASE RunTask
  BY <1>3, LoadStep, StartStep, CancelStep, UnloadStep, UnloadNowStep DEF RunTask
<1>4. CASE \E p \in Procs : Process(p)
  BY <1>4, ProcessStep
<1>5. CASE ForgetLost
  BY <1>5, ForgetStep
<1>6. CASE OnAppTerminating
  BY <1>6, TerminatingStep
<1>7. CASE UNCHANGED vars
  <2>1. TypeOK'
    BY <1>7 DEF vars, workerVars, hostVars, procVars, TypeOK
  <2>2. SlotsFit' /\ FirstIsTimed'
    BY <1>7, HostFacts, HostAlone DEF vars
  <2>3. WaitsAreOwed'
    BY <1>7, SameOwed, HostKeeps DEF vars, workerVars, RuntimeInv
  <2>4. OneLoads' /\ TasksCarry'
    BY <1>7 DEF vars, workerVars, RuntimeInv, OneLoads, TasksCarry
  <2> QED
    BY <2>1, <2>2, <2>3, <2>4 DEF RuntimeInv
<1> QED
  BY <1>1, <1>2, <1>3, <1>4, <1>5, <1>6, <1>7 DEF Next

\* Nothing a worker of the runtime waits for is ever lost, and something
\* watches it, for any number of workers, models, processes and mailboxes:
\* every mailbox is in a task, in load_mailbox, in queue_order or among
\* exit_waiters until it is finished, load_mutex has one holder, and of every
\* queue exactly the first request is timed.
THEOREM RuntimeInvariant == Spec => []RuntimeInv
<1>1. Init => TypeOK /\ RuntimeInv
  BY Starts
<1>2. TypeOK /\ RuntimeInv /\ [Next]_vars => TypeOK' /\ RuntimeInv'
  BY Steps
<1> QED
  BY <1>1, <1>2, PTL DEF Spec

\* Every variable of the runtime keeps its type.
THEOREM TypeCorrect == Spec => []TypeOK
<1>1. Init => TypeOK /\ RuntimeInv
  BY Starts
<1>2. TypeOK /\ RuntimeInv /\ [Next]_vars => TypeOK' /\ RuntimeInv'
  BY Steps
<1> QED
  BY <1>1, <1>2, PTL DEF Spec
=============================================================================
