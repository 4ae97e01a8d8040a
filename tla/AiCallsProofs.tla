--------------------------- MODULE AiCallsProofs ---------------------------
(***************************************************************************)
(* AiRuntime implements AiCalls, for any number of workers, models,        *)
(* processes and mailboxes.  The inductive invariant is AnswerInv: a       *)
(* mailbox somebody waits on is in one place, and fits there.              *)
(***************************************************************************)
EXTENDS AiRuntimeProofs

\* The tasks with mailbox b are tasks there were before: all of them, or all
\* behind the head.
TasksFewer(b) ==
  \E k \in {0, 1} : \A n \in DOMAIN tasks' :
    tasks'[n].box = b => n + k \in DOMAIN tasks /\ tasks'[n] = tasks[n + k]

\* A process that has mailbox b had it before, for the same.
PlacesFewer(b) ==
  \A p \in Procs :
    /\ loadBox'[p] = b => loadBox[p] = b /\ model'[p] = model[p]
    /\ b \in Tokens(p)' => b \in Tokens(p)
    /\ b \in waiters'[p] => b \in waiters[p]

-----------------------------------------------------------------------------
(* Where a mailbox is *)

\* Mailboxes leave tasks and processes; one that is answered has left.
LEMMA Shrinks ==
  ASSUME TypeOK, tasks' \in Seq(TaskSet), NEW w \in Workers, Fits(w), OnePlace(w),
         NEW b \in Boxes, box[w] = b, box'[w] = b,
         pc'[w] = pc[w], target'[w] = target[w], TasksFewer(b), PlacesFewer(b),
         outcome'[b] = outcome[b] \/ ~Owed(b)'
  PROVE  Fits(w)' /\ OnePlace(w)'
  <1>1. PICK k \in {0, 1} : \A n \in DOMAIN tasks' :
          tasks'[n].box = b => n + k \in DOMAIN tasks /\ tasks'[n] = tasks[n + k]
    BY DEF TasksFewer
  <1>2. \A n \in DOMAIN tasks' : tasks'[n].box = b => FitsTask(w, tasks'[n])
    BY <1>1 DEF Fits
  <1>3. (\A n \in DOMAIN tasks : tasks[n].box = b => FitsTask(w, tasks[n]))'
    BY <1>2 DEF FitsTask
  <1>4. (\A p \in Procs : FitsProcess(w, p))'
    BY DEF Fits, FitsProcess, PlacesFewer
  <1>5. InTasks(b)' => InTasks(b)
    BY <1>1 DEF InTasks
  <1>6. \A p \in Procs : Holds(p, b)' => Holds(p, b)
    BY DEF Holds, PlacesFewer
  <1>7. Held(b)' => Held(b)
    BY <1>6 DEF Held
  <1>8. ASSUME NEW m \in DOMAIN tasks', NEW n \in DOMAIN tasks',
               tasks'[m].box = b, tasks'[m].op # "cancel",
               tasks'[n].box = b, tasks'[n].op # "cancel"
        PROVE  m = n
    <2>1. m + k \in DOMAIN tasks /\ n + k \in DOMAIN tasks
          /\ tasks'[m] = tasks[m + k] /\ tasks'[n] = tasks[n + k]
      BY <1>1, <1>8
    <2>2. m + k = n + k
      BY <1>8, <2>1 DEF OnePlace
    <2>3. m \in Nat /\ n \in Nat
      OBVIOUS
    <2> QED
      BY <2>2, <2>3
  <1>9. outcome'[b] # "none" => ~Owed(b)'
    BY <1>5, <1>7 DEF OnePlace, Owed
  <1>10. InTasks(b)' => ~Held(b)'
    BY <1>5, <1>7 DEF OnePlace
  <1>11. \A p, q \in Procs : Holds(p, b)' /\ Holds(q, b)' => p = q
    BY <1>6 DEF OnePlace
  <1>12. Fits(w)'
    BY <1>3, <1>4 DEF Fits
  <1>13. OnePlace(w)'
    BY <1>8, <1>9, <1>10, <1>11 DEF OnePlace
  <1> QED
    BY <1>12, <1>13

\* A mailbox at the head of the queue is nowhere else, and not answered.
LEMMA HeadOnly ==
  ASSUME TypeOK, TasksCarry, NEW op \in Ops \ {"cancel"}, Run(op),
         NEW w \in Workers, OnePlace(w),
         NEW b \in Boxes, box[w] = b, Head(tasks).box = b
  PROVE  InTasks(b) /\ ~InTasks(b)' /\ ~Held(b) /\ outcome[b] = "none"
  <1>1. tasks \in Seq(TaskSet) /\ tasks # <<>> /\ tasks' = Tail(tasks)
        /\ Head(tasks).op = op
    BY DEF TypeOK, Run
  <1>2. /\ Head(tasks) = tasks[1] /\ 1 \in DOMAIN tasks
        /\ \A n \in DOMAIN tasks' : n + 1 \in DOMAIN tasks /\ tasks'[n] = tasks[n + 1]
    BY <1>1, Taking
  <1>3. InTasks(b)
    BY <1>1, <1>2 DEF InTasks
  <1>4. ~Held(b) /\ outcome[b] = "none"
    BY <1>3 DEF OnePlace, Owed
  <1>5. ASSUME NEW n \in DOMAIN tasks', tasks'[n].box = b, tasks'[n].op # "cancel"
        PROVE  FALSE
    <2>1. n + 1 \in DOMAIN tasks /\ tasks'[n] = tasks[n + 1]
      BY <1>2
    <2>2. n + 1 = 1
      BY <1>1, <1>2, <1>5, <2>1 DEF OnePlace
    <2>3. n \in Nat /\ n >= 1
      BY <1>1, Taking
    <2> QED
      BY <2>2, <2>3
  <1> QED
    BY <1>3, <1>4, <1>5 DEF InTasks

\* It fits its task.
LEMMA HeadFits ==
  ASSUME TypeOK, NEW op, Run(op), NEW w \in Workers, Fits(w), box[w] = Head(tasks).box
  PROVE  FitsTask(w, Head(tasks)) /\ Head(tasks).op = op
  <1>1. tasks \in Seq(TaskSet) /\ tasks # <<>> /\ Head(tasks).op = op
    BY DEF TypeOK, Run
  <1>2. Head(tasks) = tasks[1] /\ 1 \in DOMAIN tasks
    BY <1>1, Taking
  <1> QED
    BY <1>1, <1>2 DEF Fits

\* The mailbox at the head of the queue goes to process p.
LEMMA Moves ==
  ASSUME TypeOK, TasksCarry, NEW op \in Ops \ {"cancel"}, Run(op),
         tasks' \in Seq(TaskSet), NEW w \in Workers, Fits(w), OnePlace(w),
         NEW b \in Boxes, box[w] = b, Head(tasks).box = b, outcome'[b] = outcome[b],
         TasksFewer(b), NEW p \in Procs, FitsProcess(w, p)',
         \A q \in Procs : q # p => ~Holds(q, b)'
  PROVE  Fits(w)' /\ OnePlace(w)'
  <1>1. pc'[w] = pc[w] /\ target'[w] = target[w] /\ box'[w] = b
    BY DEF Run, workerVars
  <1>2. ~InTasks(b)' /\ outcome'[b] = "none"
    BY HeadOnly
  <1>3. \A n \in DOMAIN tasks' : tasks'[n].box = b => FitsTask(w, tasks'[n])
    BY DEF Fits, TasksFewer
  <1>4. (\A n \in DOMAIN tasks : tasks[n].box = b => FitsTask(w, tasks[n]))'
    BY <1>1, <1>3 DEF FitsTask
  <1>5. (\A q \in Procs : FitsProcess(w, q))'
    <2>1. ASSUME NEW q \in Procs, q # p
          PROVE  FitsProcess(w, q)'
      BY <1>1, <2>1 DEF Holds, FitsProcess
    <2> QED
      BY <2>1
  <1>6. Fits(w)'
    BY <1>1, <1>4, <1>5 DEF Fits
  <1>7. \A m, n \in DOMAIN tasks' :
          /\ tasks'[m].box = b /\ tasks'[m].op # "cancel"
          /\ tasks'[n].box = b /\ tasks'[n].op # "cancel"
          => m = n
    BY <1>2 DEF InTasks
  <1>8. OnePlace(w)'
    <2>1. \A q, r \in Procs : Holds(q, b)' /\ Holds(r, b)' => q = r
      OBVIOUS
    <2> QED
      BY <1>1, <1>2, <1>7, <2>1 DEF OnePlace
  <1> QED
    BY <1>6, <1>8

\* A process that has a mailbox has it for one thing, and nobody else has it.
LEMMA HeldOnce ==
  ASSUME NEW w \in Workers, Fits(w), OnePlace(w), NEW p \in Procs, Holds(p, box[w])
  PROVE  /\ ~InTasks(box[w])
         /\ outcome[box[w]] = "none"
         /\ \A q \in Procs : q # p => ~Holds(q, box[w])
         /\ loadBox[p] = box[w] =>
              pc[w] = "load" /\ box[w] \notin Tokens(p) /\ box[w] \notin waiters[p]
         /\ box[w] \in Tokens(p) =>
              pc[w] = "gen" /\ loadBox[p] # box[w] /\ box[w] \notin waiters[p]
         /\ box[w] \in waiters[p] =>
              pc[w] \in {"ending", "unload"} /\ loadBox[p] # box[w] /\ box[w] \notin Tokens(p)
  <1>1. Held(box[w])
    BY DEF Held
  <1>2. ~InTasks(box[w]) /\ outcome[box[w]] = "none"
    BY <1>1 DEF OnePlace, Owed
  <1>3. \A q \in Procs : q # p => ~Holds(q, box[w])
    BY DEF OnePlace
  <1>4. FitsProcess(w, p)
    BY DEF Fits
  <1> QED
    BY <1>2, <1>3, <1>4 DEF FitsProcess

-----------------------------------------------------------------------------
(* The queue *)

LEMMA RunFewer ==
  ASSUME TypeOK, TasksCarry, NEW op \in Ops, Run(op)
  PROVE  \A b : TasksFewer(b)
  <1>1. tasks \in Seq(TaskSet) /\ tasks # <<>> /\ tasks' = Tail(tasks)
    BY DEF TypeOK, Run
  <1>2. \A n \in DOMAIN tasks' : n + 1 \in DOMAIN tasks /\ tasks'[n] = tasks[n + 1]
    BY <1>1, Taking
  <1> QED
    BY <1>2 DEF TasksFewer

LEMMA SameFewer ==
  ASSUME TypeOK, UNCHANGED tasks
  PROVE  \A b : TasksFewer(b)
  <1>1. \A n \in DOMAIN tasks : n \in Nat
    BY DEF TypeOK
  <1>2. \A n \in DOMAIN tasks : n + 0 \in DOMAIN tasks /\ tasks[n] = tasks[n + 0]
    BY <1>1
  <1> QED
    BY <1>2 DEF TasksFewer

LEMMA PostFewer ==
  ASSUME TypeOK, NEW t \in TaskSet, Post(t)
  PROVE  /\ tasks' \in Seq(TaskSet)
         /\ \A b : t.box # b => TasksFewer(b)
         /\ \A n \in DOMAIN tasks' : (n \in DOMAIN tasks /\ tasks'[n] = tasks[n]) \/ tasks'[n] = t
         /\ \A n \in DOMAIN tasks : n \in DOMAIN tasks' /\ tasks'[n] = tasks[n]
         /\ \E i \in DOMAIN tasks' : tasks'[i] = t /\ \A n \in DOMAIN tasks' : n \notin DOMAIN tasks => n = i
  <1>1. tasks \in Seq(TaskSet) /\ tasks' = Append(tasks, t)
    BY DEF TypeOK, Post
  <1>2. /\ tasks' \in Seq(TaskSet)
        /\ DOMAIN tasks' = DOMAIN tasks \cup {Len(tasks) + 1}
        /\ \A n \in DOMAIN tasks : tasks'[n] = tasks[n]
        /\ tasks'[Len(tasks) + 1] = t
    BY <1>1, Posting
  <1>3. \A n \in DOMAIN tasks : n \in Nat
    BY <1>1
  <1>4. ASSUME NEW b, t.box # b
        PROVE  TasksFewer(b)
    <2>1. \A n \in DOMAIN tasks' : tasks'[n].box = b =>
            n + 0 \in DOMAIN tasks /\ tasks'[n] = tasks[n + 0]
      BY <1>2, <1>3, <1>4
    <2> QED
      BY <2>1 DEF TasksFewer
  <1> QED
    BY <1>2, <1>4
-----------------------------------------------------------------------------
(* Steps of the host that answer and let go *)

\* The workers whose calls Finish() of the mailboxes in T answers.
Told(T) == {w \in Workers : box[w] \in T /\ box[w] \in Boxes /\ pc[w] \in {"load", "unload", "gen"}}

\* A load keeps its model.
LEMMA NamesKept ==
  ASSUME TypeOK, LoadsName, UNCHANGED workerVars, \A b : TasksFewer(b),
         \A p \in Procs : state'[p] # "free" =>
           (state[p] # "free" /\ model'[p] = model[p]) \/ model'[p] \in Models
  PROVE  LoadsName'
  <1>1. ASSUME NEW n \in DOMAIN tasks', tasks'[n].op = "load"
        PROVE  tasks'[n].model \in Models
    <2>1. TasksFewer(tasks'[n].box)
      OBVIOUS
    <2>2. PICK k \in {0, 1} : n + k \in DOMAIN tasks /\ tasks'[n] = tasks[n + k]
      BY <2>1 DEF TasksFewer
    <2> QED
      BY <1>1, <2>2 DEF LoadsName
  <1>2. \A w \in Workers :
          pc'[w] \in {"ending", "launch", "load"} => target'[w] \in Models
    BY DEF LoadsName, workerVars
  <1>3. \A p \in Procs : state'[p] # "free" => model'[p] \in Models
    BY DEF LoadsName
  <1> QED
    BY <1>1, <1>2, <1>3 DEF LoadsName

\* What callers see of a step that finishes the mailboxes of T with kind.
LEMMA HostSays ==
  ASSUME TypeOK, RuntimeInv, UNCHANGED workerVars,
         NEW T, NEW kind \in Kinds \ {"none"}, outcome' = Finished(T, kind),
         \A w \in Workers, b \in Boxes : box[w] = b /\ b \in T => outcome[b] = "none"
  PROVE  /\ Job' = Job /\ target' = target
         /\ Answer' = [w \in Workers |-> IF w \in Told(T) THEN kind ELSE Answer[w]]
         /\ \A w \in Told(T) : Answer[w] = "none" /\ Job[w] \in {"load", "unload", "ask"}
         /\ \A w \in Workers, b \in Boxes : box[w] = b /\ b \notin T => outcome'[b] = outcome[b]
  <1>1. /\ outcome \in [Boxes -> Kinds] /\ box \in [Workers -> MaybeBox]
        /\ UNCHANGED <<pc, target, box>>
    BY DEF TypeOK, workerVars
  <1>2. \A w \in Workers : pc[w] \in Waits <=> box[w] # NoBox
    BY DEF RuntimeInv, WaitsAreOwed
  <1>3. ASSUME NEW w \in Workers, NEW b \in Boxes, box[w] = b
        PROVE  /\ b \in T => outcome[b] = "none" /\ outcome'[b] = kind
               /\ b \notin T => outcome'[b] = outcome[b]
    BY <1>1, <1>3 DEF Finished
  <1>4. Job' = Job
    BY <1>1 DEF Job
  <1>5. ASSUME NEW w \in Workers
        PROVE  /\ Answer'[w] = IF w \in Told(T) THEN kind ELSE Answer[w]
               /\ w \in Told(T) => Answer[w] = "none" /\ Job[w] \in {"load", "unload", "ask"}
    <2>1. CASE pc[w] \in {"load", "unload", "gen"}
      <3>1. PICK b \in Boxes : b = box[w]
        BY <1>1, <1>2, <2>1 DEF Waits, MaybeBox
      <3>2. Answer[w] = outcome[b] /\ Answer'[w] = outcome'[b]
        BY <1>1, <2>1, <3>1 DEF Answer
      <3>3. w \in Told(T) <=> b \in T
        BY <2>1, <3>1 DEF Told
      <3>4. Job[w] \in {"load", "unload", "ask"}
        BY <2>1 DEF Job
      <3> QED
        BY <1>3, <3>1, <3>2, <3>3, <3>4
    <2>2. CASE pc[w] \notin {"load", "unload", "gen"}
      BY <1>1, <2>2 DEF Answer, Told
    <2> QED
      BY <2>1, <2>2
  <1>6. Answer' = [w \in Workers |-> IF w \in Told(T) THEN kind ELSE Answer[w]]
    BY <1>5 DEF Answer
  <1> QED
    BY <1>1, <1>3, <1>4, <1>5, <1>6 DEF Told

\* The same where the host had the mailboxes of T and lets go of them.
LEMMA HostTells ==
  ASSUME TypeOK, RuntimeInv, AnswerInv, UNCHANGED workerVars, tasks' \in Seq(TaskSet),
         LoadsName', \A b \in Boxes : TasksFewer(b),
         NEW T, NEW kind \in Kinds \ {"none"}, outcome' = Finished(T, kind),
         \A w \in Workers, b \in Boxes : box[w] = b =>
           PlacesFewer(b) /\ (b \in T => Owed(b) /\ ~Owed(b)')
  PROVE  /\ AnswerInv'
         /\ Job' = Job /\ target' = target
         /\ Answer' = [w \in Workers |-> IF w \in Told(T) THEN kind ELSE Answer[w]]
         /\ \A w \in Told(T) : Answer[w] = "none" /\ Job[w] \in {"load", "unload", "ask"}
  <1>1. /\ box \in [Workers -> MaybeBox] /\ UNCHANGED <<pc, target, box>>
        /\ NoBox \notin Boxes
    BY RuntimeAssumption DEF TypeOK, workerVars
  <1>2. ASSUME NEW w \in Workers, NEW b \in Boxes, box[w] = b
        PROVE  Fits(w) /\ OnePlace(w) /\ (b \in T => outcome[b] = "none")
    BY <1>1, <1>2 DEF AnswerInv, OnePlace
  <1>3. /\ Job' = Job /\ target' = target
        /\ Answer' = [w \in Workers |-> IF w \in Told(T) THEN kind ELSE Answer[w]]
        /\ \A w \in Told(T) : Answer[w] = "none" /\ Job[w] \in {"load", "unload", "ask"}
        /\ \A w \in Workers, b \in Boxes : box[w] = b /\ b \notin T => outcome'[b] = outcome[b]
    BY <1>2, HostSays
  <1>4. ASSUME NEW w \in Workers, box[w] # NoBox
        PROVE  Fits(w)' /\ OnePlace(w)'
    <2>1. PICK b \in Boxes : b = box[w]
      BY <1>1, <1>4 DEF MaybeBox
    <2>2. Fits(w) /\ OnePlace(w) /\ (outcome'[b] = outcome[b] \/ ~Owed(b)')
      BY <1>2, <1>3, <2>1
    <2>3. TasksFewer(b) /\ PlacesFewer(b) /\ box'[w] = b
      BY <1>1, <2>1
    <2> QED
      BY <1>1, <2>1, <2>2, <2>3, Shrinks
  <1>5. AnswerInv'
    BY <1>1, <1>4 DEF AnswerInv
  <1> QED
    BY <1>3, <1>5

\* The requests of S leave their processes, the others stay.
LEMMA ByDrops ==
  ASSUME UNCHANGED box, NEW S,
         \A w \in Workers \ S, p \in Procs :
           /\ box[w] \in Tokens(p)' <=> box[w] \in Tokens(p)
           /\ box[w] \in Tokens(p) => model'[p] = model[p],
         \A w \in Workers \cap S, p \in Procs : box[w] \notin Tokens(p)'
  PROVE  By' = [w \in Workers |-> IF w \in S THEN {} ELSE By[w]]
  <1>1. By' = [w \in Workers |-> {model'[p] : p \in {q \in Procs : box[w] \in Tokens(q)'}}]
    BY DEF By
  <1>2. ASSUME NEW w \in Workers, w \notin S
        PROVE  {model'[p] : p \in {q \in Procs : box[w] \in Tokens(q)'}} = By[w]
    BY <1>2 DEF By
  <1>3. ASSUME NEW w \in Workers, w \in S
        PROVE  {model'[p] : p \in {q \in Procs : box[w] \in Tokens(q)'}} = {}
    BY <1>3
  <1> QED
    BY <1>1, <1>2, <1>3

LEMMA ByStays ==
  ASSUME UNCHANGED <<box, order>>,
         \A p \in Procs : order[p] # <<>> => model'[p] = model[p], TypeOK
  PROVE  By' = By
  <1>1. \A p \in Procs : order[p] \in Seq(Boxes)
    BY DEF TypeOK
  <1>2. \A w \in Workers, p \in Procs :
          /\ box[w] \in Tokens(p)' <=> box[w] \in Tokens(p)
          /\ box[w] \in Tokens(p) => model'[p] = model[p]
    BY <1>1 DEF Tokens
  <1>3. PICK S : S = {}
    OBVIOUS
  <1>4. /\ UNCHANGED box
        /\ \A w \in Workers \ S, p \in Procs :
             /\ box[w] \in Tokens(p)' <=> box[w] \in Tokens(p)
             /\ box[w] \in Tokens(p) => model'[p] = model[p]
        /\ \A w \in Workers \cap S, p \in Procs : box[w] \notin Tokens(p)'
    BY <1>2, <1>3
  <1>5. By' = [w \in Workers |-> IF w \in S THEN {} ELSE By[w]]
    BY <1>4, ByDrops
  <1> QED
    BY <1>3, <1>5 DEF By

\* What runs a request.
LEMMA ByOne ==
  ASSUME NEW w \in Workers, Fits(w), OnePlace(w)
  PROVE  /\ \A p \in Procs : box[w] \in Tokens(p) => By[w] = {model[p]}
         /\ (\A p \in Procs : box[w] \notin Tokens(p)) => By[w] = {}
  <1>1. ASSUME NEW p \in Procs, box[w] \in Tokens(p)
        PROVE  {q \in Procs : box[w] \in Tokens(q)} = {p}
    BY <1>1 DEF OnePlace, Holds
  <1>2. ASSUME NEW p \in Procs, box[w] \in Tokens(p)
        PROVE  By[w] = {model[p]}
    BY <1>1, <1>2 DEF By
  <1>3. ASSUME \A p \in Procs : box[w] \notin Tokens(p)
        PROVE  By[w] = {}
    BY <1>3 DEF By
  <1> QED
    BY <1>2, <1>3

LEMMA ServingOne ==
  ASSUME TypeOK
  PROVE  /\ current = NoProc => Serving = {}
         /\ \A p \in Procs : current = p => Serving = {model[p]}
         /\ current' = NoProc => Serving' = {}
         /\ \A p \in Procs : current' = p => Serving' = {model'[p]}
  <1>1. ASSUME NEW p \in Procs, current = p
        PROVE  Procs \cap {current} = {p}
    BY <1>1
  <1>2. ASSUME NEW p \in Procs, current' = p
        PROVE  Procs \cap {current'} = {p}
    BY <1>2
  <1> QED
    BY <1>1, <1>2, RuntimeAssumption DEF Serving
\* A process lets go of a mailbox it has.
LEMMA LetsGo ==
  ASSUME NEW w \in Workers, Fits(w), OnePlace(w), NEW b \in Boxes, box[w] = b,
         TasksFewer(b), PlacesFewer(b), NEW p \in Procs, Holds(p, b), ~Holds(p, b)'
  PROVE  Owed(b) /\ ~Owed(b)'
  <1>1. Held(b) /\ ~InTasks(b) /\ \A q \in Procs : q # p => ~Holds(q, b)
    BY HeldOnce DEF Held
  <1>2. ~InTasks(b)'
    BY <1>1 DEF InTasks, TasksFewer
  <1>3. \A q \in Procs : ~Holds(q, b)'
    BY <1>1 DEF Holds, PlacesFewer
  <1> QED
    BY <1>1, <1>2, <1>3 DEF Owed, Held

LEMMA Emptied ==
  ASSUME TypeOK, NEW p \in Procs, order' = [order EXCEPT ![p] = <<>>]
  PROVE  Tokens(p)' = {} /\ \A q \in Procs : q # p => Tokens(q)' = Tokens(q)
  <1>1. order \in [Procs -> Seq(Boxes)]
    BY DEF TypeOK
  <1>2. order'[p] = <<>> /\ \A q \in Procs : q # p => order'[q] = order[q]
    BY <1>1
  <1> QED
    BY <1>2 DEF Tokens

\* The loss of the loaded model is noticed, or not.
LEMMA Noticed ==
  ASSUME LossSettled
  PROVE  loaded' \in {loaded, NoModel}
  BY DEF LossSettled

\* What the step proofs use of AnswerInv.
LEMMA Live ==
  ASSUME AnswerInv, TypeOK
  PROVE  /\ \A w \in Workers, b \in Boxes : box[w] = b => Fits(w) /\ OnePlace(w)
         /\ \A w \in Workers : box[w] = NoBox \/ box[w] \in Boxes
         /\ LoadsName /\ NoBox \notin Boxes
  BY RuntimeAssumption DEF AnswerInv, TypeOK, MaybeBox

\* A process ends with its load and its requests.
LEMMA EndMaps ==
  ASSUME TypeOK, RuntimeInv, AnswerInv, UNCHANGED workerVars, LossSettled,
         tasks' \in Seq(TaskSet), \A b : TasksFewer(b),
         NEW p \in Procs, state[p] \in {"loading", "ready", "retired"},
         NEW kind \in {"noModel", "lost", "failed"}, kind = "noModel" => current = p,
         outcome' = Finished(Tokens(p) \cup {loadBox[p]}, kind),
         order' = [order EXCEPT ![p] = <<>>],
         loadBox' = [loadBox EXCEPT ![p] = NoBox],
         state' = [state EXCEPT ![p] = "ending"],
         current' = IF current = p THEN NoProc ELSE current,
         UNCHANGED <<model, waiters>>
  PROVE  AnswerInv' /\ \E S \in SUBSET Workers : Calls!Fail(S, kind)
  <1>0. /\ SlotsFit /\ LoadsName /\ NoBox \notin Boxes /\ NoProc \notin Procs
        /\ state \in [Procs -> ProcStates] /\ order \in [Procs -> Seq(Boxes)]
        /\ loadBox \in [Procs -> MaybeBox]
        /\ current \in Procs \cup {NoProc}
    BY HostFacts, Live
  <1>1. PICK T : T = Tokens(p) \cup {loadBox[p]}
    OBVIOUS
  <1>2. outcome' = Finished(T, kind)
    BY <1>1
  <1>3. /\ Tokens(p)' = {} /\ \A q \in Procs : q # p => Tokens(q)' = Tokens(q)
        /\ loadBox'[p] = NoBox /\ \A q \in Procs : q # p => loadBox'[q] = loadBox[q]
    BY <1>0, Emptied
  <1>5. LoadsName'
    BY <1>0, NamesKept
  <1>6. \A b \in Boxes : PlacesFewer(b)
    BY <1>0, <1>3 DEF PlacesFewer
  <1>7. ASSUME NEW w \in Workers, NEW b \in Boxes, box[w] = b, b \in T
        PROVE  /\ Owed(b) /\ ~Owed(b)'
               /\ pc[w] \in {"load", "gen"}
               /\ \A q \in Procs : b \notin Tokens(q)'
               /\ By[w] = IF state[p] = "loading" THEN {} ELSE {model[p]}
    <2>1. Fits(w) /\ OnePlace(w) /\ Holds(p, b)
      BY <1>1, <1>7, Live DEF Holds
    <2>2. /\ \A q \in Procs : q # p => ~Holds(q, b)
          /\ loadBox[p] = b => pc[w] = "load" /\ b \notin Tokens(p) /\ b \notin waiters[p]
          /\ b \in Tokens(p) => pc[w] = "gen" /\ b \notin waiters[p]
      BY <1>7, <2>1, HeldOnce
    <2>3. ~Holds(p, b)'
      BY <1>0, <1>1, <1>3, <1>7, <2>2 DEF Holds
    <2>4. Owed(b) /\ ~Owed(b)'
      BY <1>6, <1>7, <2>1, <2>3, LetsGo
    <2>5. pc[w] \in {"load", "gen"}
      BY <1>1, <1>7, <2>2
    <2>6. \A q \in Procs : b \notin Tokens(q)'
      BY <1>3, <2>2 DEF Holds
    <2>7. CASE state[p] = "loading"
      <3>1. order[p] = <<>>
        BY <1>0, <2>7 DEF SlotsFit
      <3>2. \A q \in Procs : b \notin Tokens(q)
        BY <2>2, <3>1 DEF Holds, Tokens
      <3> QED
        BY <1>7, <2>1, <2>4, <2>5, <2>6, <2>7, <3>2, ByOne
    <2>8. CASE state[p] # "loading"
      <3>1. loadBox[p] = NoBox
        BY <1>0, <2>8 DEF SlotsFit
      <3>2. b \in Tokens(p)
        BY <1>0, <1>1, <1>7, <3>1
      <3> QED
        BY <1>7, <2>1, <2>4, <2>5, <2>6, <2>8, <3>2, ByOne
    <2> QED
      BY <2>7, <2>8
  <1>8. kind \in Kinds \ {"none"}
    BY DEF Kinds
  <1>9. /\ AnswerInv'
        /\ Job' = Job /\ target' = target
        /\ Answer' = [w \in Workers |-> IF w \in Told(T) THEN kind ELSE Answer[w]]
        /\ \A w \in Told(T) : Answer[w] = "none"
    BY <1>2, <1>5, <1>6, <1>7, <1>8, HostTells
  <1>10. PICK S : S = Told(T)
    OBVIOUS
  <1>11. S \in SUBSET Workers /\ \A w \in Workers : w \in S <=> box[w] \in T \cap Boxes
    BY <1>7, <1>10 DEF Told
  <1>12. By' = [w \in Workers |-> IF w \in S THEN {} ELSE By[w]]
    <2>1. ASSUME NEW w \in Workers, w \notin S, NEW q \in Procs
          PROVE  box[w] \in Tokens(q)' <=> box[w] \in Tokens(q)
      <3>1. box[w] \in Tokens(p) => box[w] \in Boxes
        BY <1>0 DEF Tokens
      <3> QED
        BY <1>1, <1>3, <1>11, <2>1, <3>1
    <2>2. \A w \in Workers \cap S, q \in Procs : box[w] \notin Tokens(q)'
      BY <1>7, <1>11
    <2> QED
      BY <2>1, <2>2, ByDrops DEF workerVars
  <1>13. Serving' \in {Serving, {}} /\ (kind = "noModel" => Serving' = {})
    <2>1. CASE current = p
      BY <2>1, ServingOne
    <2>2. CASE current # p
      BY <2>2 DEF Serving
    <2> QED
      BY <2>1, <2>2
  <1>14. /\ \A w \in S : Job[w] \in {"load", "ask"} /\ Answer[w] = "none"
         /\ \A v, w \in S : By[v] = By[w]
    <2>1. ASSUME NEW w \in S
          PROVE  Job[w] \in {"load", "ask"} /\ Answer[w] = "none"
                 /\ By[w] = IF state[p] = "loading" THEN {} ELSE {model[p]}
      <3>1. w \in Workers /\ pc[w] \in {"load", "gen"} /\ Answer[w] = "none"
            /\ By[w] = IF state[p] = "loading" THEN {} ELSE {model[p]}
        BY <1>7, <1>9, <1>10, <1>11
      <3> QED
        BY <3>1 DEF Job
    <2> QED
      BY <2>1
  <1>15. Calls!Fail(S, kind)
    BY <1>9, <1>10, <1>12, <1>13, <1>14, Noticed DEF Calls!Fail, Calls!Notice
  <1> QED
    BY <1>9, <1>11, <1>15

\* It is killed.
LEMMA KillMaps ==
  ASSUME TypeOK, RuntimeInv, AnswerInv, NEW p \in Procs,
         NEW kind \in {"lost", "failed"}, KillProcess(p, kind)
  PROVE  AnswerInv' /\ \E S \in SUBSET Workers : Calls!Fail(S, kind)
  <1>1. tasks' \in Seq(TaskSet) /\ \A b : TasksFewer(b)
    BY SameFewer DEF KillProcess, TypeOK
  <1> QED
    BY <1>1, EndMaps DEF KillProcess

\* One mailbox answers one call at most.
LEMMA ToldOne ==
  ASSUME RuntimeInv, NEW c, NEW T, \A b : b \in T <=> b = c
  PROVE  Told(T) = {} \/ \E w \in Workers : Told(T) = {w} /\ box[w] = c /\ c \in Boxes
  <1>1. ASSUME NEW w \in Told(T), NEW v \in Told(T)
        PROVE  v = w
    <2>1. v \in Workers /\ w \in Workers /\ box[v] = box[w] /\ box[w] \in Boxes
      BY DEF Told
    <2> QED
      BY <2>1, RuntimeAssumption DEF RuntimeInv, WaitsAreOwed
  <1>2. ASSUME NEW w \in Told(T)
        PROVE  Told(T) = {w} /\ w \in Workers /\ box[w] = c /\ c \in Boxes
    BY <1>1 DEF Told
  <1> QED
    BY <1>2

\* Nobody is told anything.
LEMMA NobodyTold ==
  ASSUME NEW S, S = {}, NEW kind, Job' = Job, target' = target, LossSettled,
         Answer' = [w \in Workers |-> IF w \in S THEN kind ELSE Answer[w]],
         By' = By, Serving' = Serving
  PROVE  Calls!Lost
  <1>1. Answer' = Answer
    BY DEF Answer
  <1> QED
    BY <1>1, Noticed DEF Calls!Lost, Calls!Notice

LEMMA TokensWithout ==
  ASSUME TypeOK, FirstIsTimed, NEW p \in Procs, NEW n \in DOMAIN order[p],
         order' = [order EXCEPT ![p] = Without(@, n)]
  PROVE  /\ Tokens(p)' = Tokens(p) \ {order[p][n]}
         /\ \A q \in Procs : q # p => Tokens(q)' = Tokens(q)
  <1>0. order \in [Procs -> Seq(Boxes)]
    BY DEF TypeOK
  <1>1. PICK s \in Seq(Boxes) : s = order[p]
    BY <1>0
  <1>2. PICK r \in Seq(Boxes) : r = Without(s, n)
    BY <1>1, Removing
  <1>3. /\ n \in DOMAIN s /\ DOMAIN s = 1..Len(s) /\ DOMAIN r = 1..(Len(s) - 1)
        /\ \A i \in DOMAIN r :
             /\ i < n => i \in DOMAIN s /\ r[i] = s[i]
             /\ i >= n => i + 1 \in DOMAIN s /\ r[i] = s[i + 1]
        /\ \A i \in DOMAIN s :
             /\ i < n => i \in DOMAIN r /\ r[i] = s[i]
             /\ i > n => i - 1 \in DOMAIN r /\ r[i - 1] = s[i]
    BY <1>1, <1>2, Removing
  <1>4. order'[p] = r /\ \A q \in Procs : q # p => order'[q] = order[q]
    BY <1>0, <1>1, <1>2
  <1>5. \A i \in DOMAIN s : s[i] = s[n] => i = n
    BY <1>1 DEF FirstIsTimed
  <1>6. ASSUME NEW i \in DOMAIN r
        PROVE  \E k \in DOMAIN s : k # n /\ r[i] = s[k]
    <2>1. i \in Nat /\ n \in Nat
      BY <1>3
    <2>2. CASE i < n
      BY <1>3, <2>1, <2>2
    <2>3. CASE i >= n
      BY <1>3, <2>1, <2>3
    <2> QED
      BY <2>1, <2>2, <2>3
  <1>7. ASSUME NEW i \in DOMAIN s, i # n
        PROVE  \E k \in DOMAIN r : r[k] = s[i]
    <2>1. i \in Nat /\ n \in Nat
      BY <1>3
    <2>2. CASE i < n
      BY <1>3, <2>2
    <2>3. CASE i > n
      BY <1>3, <2>3
    <2> QED
      BY <1>7, <2>1, <2>2, <2>3
  <1>8. {r[k] : k \in DOMAIN r} = {s[i] : i \in DOMAIN s} \ {s[n]}
    BY <1>5, <1>6, <1>7
  <1>9. Tokens(p) = {s[i] : i \in DOMAIN s} /\ Tokens(p)' = {r[k] : k \in DOMAIN r}
    BY <1>1, <1>4 DEF Tokens
  <1>10. \A q \in Procs : q # p => Tokens(q)' = Tokens(q)
    BY <1>4 DEF Tokens
  <1> QED
    BY <1>1, <1>8, <1>9, <1>10

\* A request ends, with a result or without.
LEMMA FinishMaps ==
  ASSUME TypeOK, RuntimeInv, AnswerInv, UNCHANGED workerVars, LossSettled,
         tasks' \in Seq(TaskSet), \A b : TasksFewer(b),
         NEW p \in Procs, NEW n \in DOMAIN order[p],
         NEW kind \in {"ok", "backendFailed", "failed"}, FinishGeneration(p, n, kind)
  PROVE  /\ AnswerInv'
         /\ \/ Calls!Lost
            \/ \E w \in Workers :
                 /\ kind = "failed" => Calls!Fail({w}, "failed")
                 /\ kind # "failed" => Calls!Complete(w, kind)
  <1>0. /\ SlotsFit /\ FirstIsTimed /\ LoadsName /\ NoBox \notin Boxes
        /\ state \in [Procs -> ProcStates] /\ order \in [Procs -> Seq(Boxes)]
    BY HostFacts, Live
  <1>1. PICK c \in Boxes : c = order[p][n]
    BY <1>0
  <1>2. /\ outcome' = Finished({c}, kind)
        /\ order' = [order EXCEPT ![p] = Without(@, n)]
        /\ state' = [state EXCEPT ![p] =
                       IF @ = "retired" /\ Len(order[p]) = 1 THEN "ending" ELSE @]
        /\ UNCHANGED <<current, model, loadBox, waiters>>
    BY <1>1 DEF FinishGeneration
  <1>3. Tokens(p)' = Tokens(p) \ {c} /\ \A q \in Procs : q # p => Tokens(q)' = Tokens(q)
    BY <1>0, <1>1, <1>2, TokensWithout
  <1>4. c \in Tokens(p)
    BY <1>1 DEF Tokens
  <1>5. LoadsName'
    <2>1. state[p] # "free"
      BY <1>0, <1>1 DEF SlotsFit
    <2>2. \A q \in Procs : state'[q] # "free" => state[q] # "free" /\ model'[q] = model[q]
      BY <1>0, <1>2, <2>1
    <2> QED
      BY <1>0, <2>2, NamesKept
  <1>6. \A b \in Boxes : PlacesFewer(b)
    BY <1>2, <1>3 DEF PlacesFewer
  <1>7. ASSUME NEW w \in Workers, box[w] = c
        PROVE  /\ Owed(c) /\ ~Owed(c)'
               /\ pc[w] = "gen"
               /\ \A q \in Procs : c \notin Tokens(q)'
               /\ By[w] = {model[p]}
    <2>1. Fits(w) /\ OnePlace(w) /\ Holds(p, c)
      BY <1>4, <1>7, Live DEF Holds
    <2>2. /\ \A q \in Procs : q # p => ~Holds(q, c)
          /\ pc[w] = "gen" /\ loadBox[p] # c /\ c \notin waiters[p]
      BY <1>4, <1>7, <2>1, HeldOnce
    <2>3. ~Holds(p, c)'
      BY <1>2, <1>3, <2>2 DEF Holds
    <2>4. Owed(c) /\ ~Owed(c)'
      BY <1>6, <1>7, <2>1, <2>3, LetsGo
    <2>5. \A q \in Procs : c \notin Tokens(q)'
      BY <1>3, <2>2 DEF Holds
    <2> QED
      BY <1>4, <1>7, <2>1, <2>2, <2>4, <2>5, ByOne
  <1>8. PICK T : T = {c}
    OBVIOUS
  <1>9. /\ AnswerInv'
        /\ Job' = Job /\ target' = target
        /\ Answer' = [w \in Workers |-> IF w \in Told(T) THEN kind ELSE Answer[w]]
        /\ \A w \in Told(T) : Answer[w] = "none"
    <2>1. kind \in Kinds \ {"none"}
      BY DEF Kinds
    <2>2. \A w \in Workers, b \in Boxes : box[w] = b =>
            PlacesFewer(b) /\ (b \in T => Owed(b) /\ ~Owed(b)')
      BY <1>6, <1>7, <1>8
    <2>3. outcome' = Finished(T, kind)
      BY <1>2, <1>8
    <2> QED
      BY <1>5, <2>1, <2>2, <2>3, HostTells
  <1>10. PICK S : S = Told(T)
    OBVIOUS
  <1>11. By' = [w \in Workers |-> IF w \in S THEN {} ELSE By[w]]
    <2>1. \A w \in Workers : w \in S <=> box[w] = c
      BY <1>7, <1>8, <1>10 DEF Told
    <2>2. ASSUME NEW w \in Workers, w \notin S, NEW q \in Procs
          PROVE  box[w] \in Tokens(q)' <=> box[w] \in Tokens(q)
      BY <1>3, <2>1, <2>2
    <2>3. \A w \in Workers \cap S, q \in Procs : box[w] \notin Tokens(q)'
      BY <1>7, <2>1
    <2> QED
      BY <1>2, <2>2, <2>3, ByDrops DEF workerVars
  <1>12. Serving' = Serving
    BY <1>2 DEF Serving
  <1>13. CASE S = {}
    <2>1. By' = By
      BY <1>11, <1>13 DEF By
    <2> QED
      BY <1>9, <1>10, <1>12, <1>13, <2>1, NobodyTold
  <1>14. ASSUME NEW w \in Workers, S = {w}, box[w] = c
         PROVE  /\ kind = "failed" => Calls!Fail({w}, "failed")
                /\ kind # "failed" => Calls!Complete(w, kind)
    <2>1. Job[w] = "ask" /\ Answer[w] = "none" /\ By[w] # {}
      BY <1>7, <1>9, <1>10, <1>14 DEF Job
    <2>2. /\ Answer' = [v \in Workers |-> IF v \in {w} THEN kind ELSE Answer[v]]
          /\ By' = [v \in Workers |-> IF v \in {w} THEN {} ELSE By[v]]
      BY <1>9, <1>10, <1>11, <1>14
    <2>3. Calls!Notice
      BY <1>9, Noticed DEF Calls!Notice
    <2>4. kind = "failed" => Calls!Fail({w}, "failed")
      BY <1>12, <2>1, <2>2, <2>3 DEF Calls!Fail
    <2>5. kind # "failed" => Calls!Complete(w, kind)
      <3>1. Answer' = [Answer EXCEPT ![w] = kind] /\ By' = [By EXCEPT ![w] = {}]
        BY <2>2 DEF Answer, By
      <3> QED
        BY <1>12, <2>1, <2>3, <3>1 DEF Calls!Complete
    <2> QED
      BY <2>4, <2>5
  <1>15. S = {} \/ \E w \in Workers : S = {w} /\ box[w] = c
    <2>1. \A b : b \in T <=> b = c
      BY <1>8
    <2> QED
      BY <1>10, <2>1, ToldOne
  <1> QED
    BY <1>9, <1>13, <1>14, <1>15
-----------------------------------------------------------------------------
(* Tasks *)

\* A task that is answered at once.
LEMMA AnsweredAtOnce ==
  ASSUME TypeOK, RuntimeInv, AnswerInv, NEW op \in {"load", "start", "unload"}, Run(op),
         UNCHANGED hostVars, NEW kind \in Kinds \ {"none"},
         NEW c, c = Head(tasks).box, NEW T, \A b : b \in T <=> b = c,
         outcome' = Finished(T, kind)
  PROVE  /\ AnswerInv'
         /\ Job' = Job /\ target' = target /\ By' = By /\ Serving' = Serving
         /\ LossSettled
         /\ Answer' = [w \in Workers |-> IF w \in Told(T) THEN kind ELSE Answer[w]]
         /\ \A w \in Told(T) :
              /\ Answer[w] = "none" /\ By[w] = {} /\ FitsTask(w, Head(tasks))
              /\ \A p \in Procs : box[w] \notin Tokens(p)
  <1>0. /\ TasksCarry /\ LoadsName /\ op \in Ops \ {"cancel"}
        /\ UNCHANGED workerVars /\ LossSettled
        /\ UNCHANGED <<current, state, model, order, loadBox, waiters>>
    BY HostFacts, Live DEF Ops, Run, hostVars, procVars
  <1>1. tasks' \in Seq(TaskSet) /\ \A b : TasksFewer(b)
    BY <1>0, TaskTaken, RunFewer
  <1>2. LoadsName'
    BY <1>0, <1>1, NamesKept
  <1>3. \A b \in Boxes : PlacesFewer(b)
    BY <1>0 DEF PlacesFewer, Tokens
  <1>4. ASSUME NEW w \in Workers, NEW b \in Boxes, box[w] = b, b = c
        PROVE  /\ Owed(b) /\ ~Owed(b)'
               /\ FitsTask(w, Head(tasks))
               /\ By[w] = {}
               /\ \A p \in Procs : box[w] \notin Tokens(p)
    <2>1. Fits(w) /\ OnePlace(w) /\ Head(tasks).box = b
      BY <1>4, Live
    <2>2. InTasks(b) /\ ~InTasks(b)' /\ ~Held(b)
      BY <1>0, <1>4, <2>1, HeadOnly
    <2>3. ~Held(b)'
      BY <1>0, <2>2 DEF Held, Holds, Tokens
    <2>4. \A p \in Procs : box[w] \notin Tokens(p)
      BY <1>4, <2>2 DEF Held, Holds
    <2> QED
      BY <1>4, <2>1, <2>2, <2>3, <2>4, HeadFits, ByOne DEF Owed
  <1>6. /\ AnswerInv'
        /\ Job' = Job /\ target' = target
        /\ Answer' = [w \in Workers |-> IF w \in Told(T) THEN kind ELSE Answer[w]]
        /\ \A w \in Told(T) : Answer[w] = "none"
    <2>1. \A w \in Workers, b \in Boxes : box[w] = b =>
            PlacesFewer(b) /\ (b \in T => Owed(b) /\ ~Owed(b)')
      BY <1>3, <1>4
    <2> QED
      BY <1>0, <1>1, <1>2, <2>1, HostTells
  <1>7. By' = By
    BY <1>0, ByStays DEF workerVars
  <1>8. Serving' = Serving
    BY <1>0 DEF Serving
  <1>9. \A w \in Told(T) : w \in Workers /\ box[w] \in Boxes /\ box[w] = c
    BY DEF Told
  <1> QED
    BY <1>0, <1>4, <1>6, <1>7, <1>8, <1>9

\* It ends one call, or none.
LEMMA TellsOne ==
  ASSUME NEW w \in Workers, NEW kind,
         Answer' = [v \in Workers |-> IF v \in {w} THEN kind ELSE Answer[v]]
  PROVE  Answer' = [Answer EXCEPT ![w] = kind]
  BY DEF Answer

LEMMA RefusalMaps ==
  ASSUME TypeOK, RuntimeInv, AnswerInv, NEW op \in {"load", "start"}, Run(op),
         UNCHANGED hostVars, NEW kind \in {"noModel", "failed"},
         NEW c, c = Head(tasks).box, outcome' = Finished({c}, kind),
         kind = "noModel" => current = NoProc \/ \E p \in Procs : c \in Tokens(p)
  PROVE  AnswerInv' /\ (Calls!Lost \/ \E w \in Workers : Calls!Refuse(w, kind))
  <1>0. PICK T : (\A b : b \in T <=> b = c) /\ outcome' = Finished(T, kind)
    OBVIOUS
  <1>1. kind \in Kinds \ {"none"} /\ op \in {"load", "start", "unload"}
    BY DEF Kinds
  <1>2. /\ AnswerInv'
        /\ Job' = Job /\ target' = target /\ By' = By /\ Serving' = Serving
        /\ LossSettled
        /\ Answer' = [w \in Workers |-> IF w \in Told(T) THEN kind ELSE Answer[w]]
        /\ \A w \in Told(T) :
             /\ Answer[w] = "none" /\ By[w] = {} /\ FitsTask(w, Head(tasks))
             /\ \A p \in Procs : box[w] \notin Tokens(p)
    BY <1>0, <1>1, AnsweredAtOnce
  <1>3. CASE Told(T) = {}
    BY <1>2, <1>3, NobodyTold
  <1>4. ASSUME NEW w \in Workers, Told(T) = {w}, box[w] = c
        PROVE  Calls!Refuse(w, kind)
    <2>1. Head(tasks).op = op
      BY DEF Run
    <2>2. Job[w] \in {"load", "ask"}
      BY <1>2, <1>4, <2>1 DEF FitsTask, Job
    <2>3. kind = "noModel" => Serving = {}
      BY <1>2, <1>4, ServingOne
    <2>4. Answer' = [Answer EXCEPT ![w] = kind]
      BY <1>2, <1>4, TellsOne
    <2> QED
      BY <1>2, <1>4, <2>2, <2>3, <2>4, Noticed DEF Calls!Refuse, Calls!Notice
  <1>5. Told(T) = {} \/ \E w \in Workers : Told(T) = {w} /\ box[w] = c
    BY <1>0, ToldOne
  <1> QED
    BY <1>2, <1>3, <1>4, <1>5

\* Finish() of nothing.
LEMMA NothingFinished ==
  ASSUME TypeOK, UNCHANGED outcome, NEW T, T = {}, NEW kind
  PROVE  outcome' = Finished(T, kind) /\ Told(T) = {}
  BY DEF TypeOK, Finished, Told

\* Nothing is answered, and every process keeps what it has.
LEMMA Quiet ==
  ASSUME TypeOK, RuntimeInv, AnswerInv, UNCHANGED workerVars,
         tasks' \in Seq(TaskSet), LoadsName', \A b \in Boxes : TasksFewer(b),
         UNCHANGED <<outcome, hostVars>>, loaded' \in {loaded, NoModel}
  PROVE  AnswerInv' /\ Calls!Lost
  <1>1. PICK T : T = {}
    OBVIOUS
  <1>2. /\ UNCHANGED <<current, state, model, order, loadBox, waiters>>
        /\ "failed" \in Kinds \ {"none"}
    BY DEF hostVars, procVars, Kinds
  <1>3. outcome' = Finished(T, "failed") /\ Told(T) = {}
    BY <1>1, NothingFinished
  <1>4. \A b \in Boxes : PlacesFewer(b)
    BY <1>2 DEF PlacesFewer, Tokens
  <1>5. /\ AnswerInv'
        /\ Job' = Job /\ target' = target
        /\ Answer' = [w \in Workers |-> IF w \in Told(T) THEN "failed" ELSE Answer[w]]
    BY <1>1, <1>2, <1>3, <1>4, HostTells
  <1>6. By' = By /\ Serving' = Serving
    BY <1>2, ByStays DEF workerVars, Serving
  <1>7. Answer' = Answer
    BY <1>3, <1>5 DEF Answer
  <1> QED
    BY <1>5, <1>6, <1>7 DEF Calls!Lost, Calls!Notice

\* Cancel().
LEMMA CancelMaps ==
  ASSUME TypeOK, RuntimeInv, AnswerInv, Cancel
  PROVE  AnswerInv' /\ (Calls!Lost \/ \E w \in Workers : Calls!Fail({w}, "failed"))
  <1>1. Run("cancel") /\ "cancel" \in Ops /\ TasksCarry
    BY HostFacts DEF Cancel, Ops
  <1>2. /\ tasks' \in Seq(TaskSet) /\ \A b : TasksFewer(b)
        /\ UNCHANGED workerVars /\ LossSettled
    BY <1>1, TaskTaken, RunFewer DEF Run
  <1>3. CASE UNCHANGED <<outcome, hostVars>>
    <2>1. LoadsName'
      BY <1>2, <1>3, NamesKept DEF AnswerInv, hostVars, procVars
    <2> QED
      BY <1>2, <1>3, <2>1, Quiet, Noticed
  <1>4. CASE \E p \in Procs : \E n \in DOMAIN order[p] : FinishGeneration(p, n, "failed")
    BY <1>2, <1>4, FinishMaps
  <1> QED
    BY <1>3, <1>4 DEF Cancel

\* Unload(kNow).
LEMMA UnloadNowMaps ==
  ASSUME TypeOK, RuntimeInv, AnswerInv, UnloadNow
  PROVE  AnswerInv' /\ (Calls!Lost \/ \E S \in SUBSET Workers : Calls!Fail(S, "noModel"))
  <1>0. /\ SlotsFit /\ TasksCarry /\ NoBox \notin Boxes /\ NoProc \notin Procs
        /\ current \in Procs \cup {NoProc} /\ loadBox \in [Procs -> MaybeBox]
    BY HostFacts
  <1>1. Run("unloadNow") /\ "unloadNow" \in Ops
    BY DEF UnloadNow, Ops
  <1>2. /\ tasks' \in Seq(TaskSet) /\ \A b : TasksFewer(b)
        /\ UNCHANGED workerVars /\ LossSettled
    BY <1>0, <1>1, TaskTaken, RunFewer DEF Run
  <1>3. CASE current = NoProc
    <2>1. UNCHANGED <<outcome, hostVars>>
      BY <1>3 DEF UnloadNow
    <2>2. LoadsName'
      BY <1>2, <2>1, NamesKept DEF AnswerInv, hostVars, procVars
    <2> QED
      BY <1>2, <2>1, <2>2, Quiet, Noticed
  <1>4. CASE current # NoProc
    <2>1. PICK p \in Procs : p = current
      BY <1>0, <1>4
    <2>2. /\ outcome' = Finished(Tokens(p), "noModel")
          /\ order' = [order EXCEPT ![p] = <<>>]
          /\ state' = [state EXCEPT ![p] = "ending"]
          /\ current' = NoProc
          /\ UNCHANGED <<model, loadBox, waiters>>
      BY <1>4, <2>1 DEF UnloadNow
    <2>3. state[p] = "ready" /\ loadBox[p] = NoBox
      BY <1>0, <2>1 DEF SlotsFit
    <2>4. loadBox' = [loadBox EXCEPT ![p] = NoBox]
      BY <1>0, <2>2, <2>3
    <2>5. outcome' = Finished(Tokens(p) \cup {loadBox[p]}, "noModel")
      BY <1>0, <2>2, <2>3 DEF Finished
    <2> QED
      BY <1>2, <2>1, <2>2, <2>3, <2>4, <2>5, EndMaps
  <1> QED
    BY <1>3, <1>4

\* A task that gives its mailbox to process p, while the mailboxes of T, which
\* the host had, are finished with kind and let go.
LEMMA HostMoves ==
  ASSUME TypeOK, RuntimeInv, AnswerInv, NEW op \in {"load", "start", "unload"}, Run(op),
         LoadsName', NEW p \in Procs,
         NEW T, NEW kind \in Kinds \ {"none"}, outcome' = Finished(T, kind),
         NEW c, c = Head(tasks).box,
         \A w \in Workers, b \in Boxes : box[w] = b /\ b # c =>
           PlacesFewer(b) /\ (b \in T => Owed(b) /\ ~Owed(b)'),
         \A w \in Workers : box[w] = c /\ c \in Boxes =>
           /\ c \notin T
           /\ FitsProcess(w, p)'
           /\ \A q \in Procs : q # p => ~Holds(q, c)'
  PROVE  /\ AnswerInv'
         /\ Job' = Job /\ target' = target
         /\ Answer' = [w \in Workers |-> IF w \in Told(T) THEN kind ELSE Answer[w]]
         /\ \A w \in Told(T) : Answer[w] = "none"
  <1>1. /\ UNCHANGED workerVars /\ UNCHANGED <<pc, target, box>>
        /\ TasksCarry /\ op \in Ops \ {"cancel"} /\ NoBox \notin Boxes
    BY HostFacts, Live DEF Run, workerVars, Ops
  <1>2. tasks' \in Seq(TaskSet) /\ \A b : TasksFewer(b)
    BY <1>1, TaskTaken, RunFewer
  <1>3. \A w \in Workers, b \in Boxes : box[w] = b /\ b \in T => outcome[b] = "none"
    BY Live DEF OnePlace
  <1>4. /\ Job' = Job /\ target' = target
        /\ Answer' = [w \in Workers |-> IF w \in Told(T) THEN kind ELSE Answer[w]]
        /\ \A w \in Told(T) : Answer[w] = "none"
        /\ \A w \in Workers, b \in Boxes : box[w] = b /\ b \notin T => outcome'[b] = outcome[b]
    BY <1>1, <1>3, HostSays
  <1>5. ASSUME NEW w \in Workers, box[w] # NoBox
        PROVE  Fits(w)' /\ OnePlace(w)'
    <2>1. PICK b \in Boxes : b = box[w] /\ b = box'[w]
      BY <1>1, <1>5, Live
    <2>2. Fits(w) /\ OnePlace(w) /\ TasksFewer(b) /\ pc'[w] = pc[w] /\ target'[w] = target[w]
      BY <1>1, <1>2, <2>1, Live
    <2>3. CASE b = c
      <3>1. /\ outcome'[b] = outcome[b] /\ Head(tasks).box = b /\ FitsProcess(w, p)'
            /\ \A q \in Procs : q # p => ~Holds(q, b)'
        BY <1>4, <2>1, <2>3
      <3> QED
        BY <1>1, <1>2, <2>1, <2>2, <3>1, Moves
    <2>4. CASE b # c
      <3>1. PlacesFewer(b) /\ (outcome'[b] = outcome[b] \/ ~Owed(b)')
        BY <1>4, <2>1, <2>4
      <3> QED
        BY <1>1, <1>2, <2>1, <2>2, <3>1, Shrinks
    <2> QED
      BY <2>3, <2>4
  <1>6. AnswerInv'
    BY <1>1, <1>5 DEF AnswerInv
  <1> QED
    BY <1>4, <1>6

\* StartGeneration().
LEMMA StartMaps ==
  ASSUME TypeOK, RuntimeInv, AnswerInv, StartGeneration
  PROVE  /\ AnswerInv'
         /\ \/ Calls!Lost
            \/ \E w \in Workers, kind \in {"noModel", "failed"} : Calls!Refuse(w, kind)
            \/ \E w \in Workers : Calls!Accept(w)
  <1>0. /\ Run("start") /\ "start" \in Ops \ {"cancel"} /\ LossSettled
        /\ SlotsFit /\ TasksCarry /\ LoadsName /\ NoBox \notin Boxes /\ NoProc \notin Procs
        /\ current \in Procs \cup {NoProc} /\ order \in [Procs -> Seq(Boxes)]
    BY HostFacts, Live DEF StartGeneration, Ops, Run
  <1>1. PICK c \in Boxes : c = Head(tasks).box
    BY <1>0, TaskTaken
  <1>2. CASE down \/ current = NoProc \/ \E p \in Procs : c \in Tokens(p)
    <2>1. PICK k \in {"noModel", "failed"} : k = IF down THEN "failed" ELSE "noModel"
      OBVIOUS
    <2>2. outcome' = Finished({c}, k) /\ UNCHANGED hostVars
      BY <1>1, <1>2, <2>1 DEF StartGeneration
    <2>3. k = "noModel" => current = NoProc \/ \E p \in Procs : c \in Tokens(p)
      BY <1>2, <2>1
    <2>4. AnswerInv' /\ (Calls!Lost \/ \E w \in Workers : Calls!Refuse(w, k))
      BY <1>0, <1>1, <2>2, <2>3, RefusalMaps
    <2> QED
      BY <2>4
  <1>3. CASE ~(down \/ current = NoProc \/ \E p \in Procs : c \in Tokens(p))
    <2>0. PICK p \in Procs : p = current
      BY <1>0, <1>3
    <2>1. /\ order' = [order EXCEPT ![p] = Append(@, c)]
          /\ UNCHANGED <<outcome, current, state, model, loadBox, waiters>>
      BY <1>1, <1>3, <2>0 DEF StartGeneration
    <2>2. Tokens(p)' = Tokens(p) \cup {c} /\ \A q \in Procs : q # p => Tokens(q)' = Tokens(q)
      <3>1. PICK s \in Seq(Boxes) : s = order[p]
        BY <1>0
      <3>2. order'[p] = Append(s, c) /\ \A q \in Procs : q # p => order'[q] = order[q]
        BY <1>0, <2>1, <3>1
      <3>3. {Append(s, c)[n] : n \in DOMAIN Append(s, c)} = {s[n] : n \in DOMAIN s} \cup {c}
        <4>1. /\ DOMAIN Append(s, c) = DOMAIN s \cup {Len(s) + 1}
              /\ \A n \in DOMAIN s : Append(s, c)[n] = s[n]
              /\ Append(s, c)[Len(s) + 1] = c
          OBVIOUS
        <4> QED
          BY <4>1
      <3>4. Tokens(p) = {s[n] : n \in DOMAIN s}
            /\ Tokens(p)' = {Append(s, c)[n] : n \in DOMAIN Append(s, c)}
        BY <3>1, <3>2 DEF Tokens
      <3>5. \A q \in Procs : q # p => Tokens(q)' = Tokens(q)
        BY <3>2 DEF Tokens
      <3> QED
        BY <3>3, <3>4, <3>5
    <2>3. LoadsName'
      BY <1>0, <2>1, RunFewer, NamesKept DEF Run
    <2>4. ASSUME NEW w \in Workers, box[w] = c
          PROVE  /\ FitsProcess(w, p)'
                 /\ \A q \in Procs : q # p => ~Holds(q, c)'
                 /\ pc[w] = "gen" /\ outcome[c] = "none" /\ ~Held(c)
      <3>1. Fits(w) /\ OnePlace(w)
        BY <2>4, Live
      <3>2. ~Held(c) /\ outcome[c] = "none"
        BY <1>0, <1>1, <2>4, <3>1, HeadOnly
      <3>3. pc[w] = "gen"
        BY <1>0, <1>1, <2>4, <3>1, HeadFits DEF FitsTask
      <3>4. \A q \in Procs : ~Holds(q, c)
        BY <3>2 DEF Held
      <3>5. \A q \in Procs : q # p => ~Holds(q, c)'
        BY <2>1, <2>2, <3>4 DEF Holds
      <3>6. pc'[w] = pc[w] /\ box'[w] = c
        BY <1>0, <2>4 DEF Run, workerVars
      <3>7. FitsProcess(w, p)'
        BY <2>1, <3>3, <3>4, <3>6 DEF FitsProcess, Holds
      <3> QED
        BY <3>2, <3>3, <3>5, <3>7
    <2>5. \A b \in Boxes : b # c => PlacesFewer(b)
      BY <2>1, <2>2 DEF PlacesFewer
    <2>6. PICK T : T = {}
      OBVIOUS
    <2>7. /\ AnswerInv'
          /\ Job' = Job /\ target' = target /\ Answer' = Answer
      <3>1. "lost" \in Kinds \ {"none"} /\ "start" \in {"load", "start", "unload"}
        BY DEF Kinds
      <3>2. outcome' = Finished(T, "lost") /\ Told(T) = {}
        BY <2>1, <2>6, NothingFinished
      <3>3. \A w \in Workers, b \in Boxes : box[w] = b /\ b # c =>
              PlacesFewer(b) /\ (b \in T => Owed(b) /\ ~Owed(b)')
        BY <2>5, <2>6
      <3>4. \A w \in Workers : box[w] = c /\ c \in Boxes =>
              /\ c \notin T
              /\ FitsProcess(w, p)'
              /\ \A q \in Procs : q # p => ~Holds(q, c)'
        BY <2>4, <2>6
      <3>5. /\ AnswerInv' /\ Job' = Job /\ target' = target
            /\ Answer' = [w \in Workers |-> IF w \in Told(T) THEN "lost" ELSE Answer[w]]
        BY <1>0, <1>1, <2>3, <3>1, <3>2, <3>3, <3>4, HostMoves
      <3> QED
        BY <3>2, <3>5 DEF Answer
    <2>8. Serving' = Serving /\ Serving = {model[p]} /\ Serving # {}
      BY <2>0, <2>1, ServingOne DEF Serving
    <2>9. Calls!Notice
      BY <1>0, <2>7, Noticed DEF Calls!Notice
    <2>10. UNCHANGED box
      BY <1>0 DEF Run, workerVars
    <2>11. ASSUME NEW v \in Workers, box[v] # c
           PROVE  {q \in Procs : box[v] \in Tokens(q)'} = {q \in Procs : box[v] \in Tokens(q)}
      BY <2>2, <2>11
    <2>12. By' = [v \in Workers |-> IF box[v] = c THEN Serving ELSE By[v]]
      <3>1. By' = [v \in Workers |-> {model[q] : q \in {r \in Procs : box[v] \in Tokens(r)'}}]
        BY <2>1, <2>10 DEF By
      <3>2. ASSUME NEW v \in Workers, box[v] # c
            PROVE  {model[q] : q \in {r \in Procs : box[v] \in Tokens(r)'}} = By[v]
        BY <2>11, <3>2 DEF By
      <3>3. ASSUME NEW v \in Workers, box[v] = c
            PROVE  {model[q] : q \in {r \in Procs : box[v] \in Tokens(r)'}} = Serving
        <4>1. {r \in Procs : box[v] \in Tokens(r)'} = {p}
          BY <2>2, <2>4, <3>3 DEF Held, Holds
        <4> QED
          BY <2>8, <4>1
      <3> QED
        BY <3>1, <3>2, <3>3
    <2>13. CASE \A v \in Workers : box[v] # c
      <3>1. By' = By
        BY <2>12, <2>13 DEF By
      <3> QED
        BY <2>7, <2>8, <2>9, <3>1 DEF Calls!Lost
    <2>14. ASSUME NEW w \in Workers, box[w] = c
           PROVE  Calls!Accept(w)
      <3>1. Job[w] = "ask" /\ Answer[w] = "none"
        BY <2>4, <2>14 DEF Job, Answer
      <3>2. By[w] = {}
        BY <2>4, <2>14 DEF By, Held, Holds
      <3>3. \A v \in Workers : box[v] = c <=> v = w
        BY <1>0, <2>14 DEF RuntimeInv, WaitsAreOwed
      <3>4. By' = [By EXCEPT ![w] = Serving]
        BY <2>12, <3>3 DEF By
      <3> QED
        BY <2>7, <2>8, <2>9, <3>1, <3>2, <3>4 DEF Calls!Accept
    <2> QED
      BY <2>7, <2>13, <2>14
  <1> QED
    BY <1>2, <1>3

\* Unload(kGraceful).
LEMMA UnloadMaps ==
  ASSUME TypeOK, RuntimeInv, AnswerInv, Unload
  PROVE  /\ AnswerInv'
         /\ \/ Calls!Lost
            \/ \E w \in Workers : Calls!Gone(w)
            \/ \E S \in SUBSET Workers : Calls!Fail(S, "lost")
  <1>0. /\ Run("unload") /\ "unload" \in Ops \ {"cancel"} /\ LossSettled
        /\ SlotsFit /\ TasksCarry /\ LoadsName /\ NoBox \notin Boxes /\ NoProc \notin Procs
        /\ current \in Procs \cup {NoProc} /\ order \in [Procs -> Seq(Boxes)]
        /\ state \in [Procs -> ProcStates] /\ waiters \in [Procs -> SUBSET Boxes]
    BY HostFacts, Live DEF Unload, Ops, Run
  <1>1. PICK c : c = Head(tasks).box
    OBVIOUS
  <1>op. PICK op \in {"load", "start", "unload"} : Run(op)
    BY <1>0
  <1>kind. "ok" \in Kinds \ {"none"} /\ "lost" \in Kinds \ {"none"}
    BY DEF Kinds
  <1>2. CASE current = NoProc
    <2>1. PICK T : (\A b : b \in T <=> b = c) /\ outcome' = Finished(T, "ok")
      BY <1>1, <1>2 DEF Unload
    <2>hostVars. UNCHANGED hostVars
      BY <1>2 DEF Unload
    <2>2. /\ AnswerInv'
          /\ Job' = Job /\ target' = target /\ By' = By /\ Serving' = Serving
          /\ Answer' = [w \in Workers |-> IF w \in Told(T) THEN "ok" ELSE Answer[w]]
          /\ \A w \in Told(T) : Answer[w] = "none" /\ FitsTask(w, Head(tasks))
      BY <1>op, <1>kind, <1>1, <2>1, <2>hostVars, AnsweredAtOnce
    <2>3. CASE Told(T) = {}
      BY ZenonT(60), <1>0, <2>2, <2>3, NobodyTold
    <2>4. ASSUME NEW w \in Workers, Told(T) = {w}
          PROVE  Calls!Gone(w)
      <3>1. Head(tasks).op = "unload" /\ pc[w] \in {"load", "unload", "gen"}
        BY <1>0, <2>4 DEF Run, Told
      <3>2. Job[w] = "unload"
        BY <2>2, <2>4, <3>1 DEF FitsTask, Job
      <3>3. Answer' = [Answer EXCEPT ![w] = "ok"]
        BY <2>2, <2>4, TellsOne
      <3> QED
        BY <1>0, <2>2, <2>4, <3>2, <3>3, Noticed DEF Calls!Gone, Calls!Notice
    <2> QED
      BY SMTT(30), <2>1, <2>2, <2>3, <2>4, ToldOne
  <1>3. CASE current # NoProc
    <2>0. PICK p \in Procs : p = current
      BY <1>0, <1>3
    <2>1. /\ waiters' = [waiters EXCEPT ![p] = @ \cup ({c} \ {NoBox})]
          /\ state' = [state EXCEPT ![p] = Retired(p)]
          /\ current' = NoProc
          /\ UNCHANGED <<outcome, model, order, loadBox>>
      BY <1>1, <1>3, <2>0 DEF Unload
    <2>2. /\ waiters'[p] \subseteq waiters[p] \cup {c}
          /\ \A q \in Procs : q # p => waiters'[q] = waiters[q]
          /\ \A q \in Procs : Tokens(q)' = Tokens(q)
      BY <1>0, <2>1 DEF Tokens
    <2>3. LoadsName'
      <3>1. state[p] # "free"
        BY <1>0, <2>0 DEF SlotsFit
      <3>2. \A q \in Procs : state'[q] # "free" => state[q] # "free" /\ model'[q] = model[q]
        BY <1>0, <2>1, <3>1
      <3> QED
        BY <1>0, <3>2, RunFewer, NamesKept DEF Run
    <2>4. ASSUME NEW w \in Workers, box[w] = c, c \in Boxes
          PROVE  /\ FitsProcess(w, p)'
                 /\ \A q \in Procs : q # p => ~Holds(q, c)'
      <3>1. Fits(w) /\ OnePlace(w)
        BY <2>4, Live
      <3>2. ~Held(c)
        BY <1>0, <1>1, <2>4, <3>1, HeadOnly
      <3>3. pc[w] \in {"ending", "unload"}
        BY <1>0, <1>1, <2>4, <3>1, HeadFits DEF FitsTask
      <3>4. \A q \in Procs : ~Holds(q, c)
        BY <3>2 DEF Held
      <3>5. \A q \in Procs : q # p => ~Holds(q, c)'
        BY <2>1, <2>2, <3>4 DEF Holds
      <3>6. pc'[w] = pc[w] /\ box'[w] = c
        BY <1>0, <2>4 DEF Run, workerVars
      <3>7. FitsProcess(w, p)'
        BY <2>1, <2>2, <3>3, <3>4, <3>6 DEF FitsProcess, Holds
      <3> QED
        BY <3>5, <3>7
    <2>5. \A b \in Boxes : b # c => PlacesFewer(b)
      BY <2>1, <2>2 DEF PlacesFewer
    <2>6. PICK T : T = {}
      OBVIOUS
    <2>7. AnswerInv' /\ Job' = Job /\ target' = target /\ Answer' = Answer
      <3>2. outcome' = Finished(T, "lost") /\ Told(T) = {}
        BY <2>1, <2>6, NothingFinished
      <3>3. \A w \in Workers, b \in Boxes : box[w] = b /\ b # c =>
              PlacesFewer(b) /\ (b \in T => Owed(b) /\ ~Owed(b)')
        BY <2>5, <2>6
      <3>4. \A w \in Workers : box[w] = c /\ c \in Boxes =>
              /\ c \notin T
              /\ FitsProcess(w, p)'
              /\ \A q \in Procs : q # p => ~Holds(q, c)'
        BY <2>4, <2>6
      <3>5. /\ AnswerInv' /\ Job' = Job /\ target' = target
            /\ Answer' = [w \in Workers |-> IF w \in Told(T) THEN "lost" ELSE Answer[w]]
        BY <1>op, <1>kind, <1>1, <2>3, <3>2, <3>3, <3>4, HostMoves
      <3> QED
        BY <3>2, <3>5 DEF Answer
    <2>8. By' = By /\ Serving' = {}
      BY <1>0, <2>1, ByStays, ServingOne DEF Run, workerVars
    <2>9. /\ Answer' = [w \in Workers |-> IF w \in T THEN "lost" ELSE Answer[w]]
          /\ By' = [w \in Workers |-> IF w \in T THEN {} ELSE By[w]]
      BY <2>6, <2>7, <2>8 DEF Answer, By
    <2>10. Calls!Fail(T, "lost")
      BY <1>0, <2>6, <2>7, <2>8, <2>9, Noticed DEF Calls!Fail, Calls!Notice
    <2> QED
      BY <2>6, <2>7, <2>10
  <1> QED
    BY <1>2, <1>3

\* Load().
LEMMA LoadMaps ==
  ASSUME TypeOK, RuntimeInv, AnswerInv, Load
  PROVE  /\ AnswerInv'
         /\ \/ Calls!Lost
            \/ \E w \in Workers : Calls!Refuse(w, "failed")
            \/ \E S \in SUBSET Workers : Calls!Fail(S, "noModel")
  <1>0. /\ Run("load") /\ "load" \in Ops \ {"cancel"} /\ LossSettled
        /\ SlotsFit /\ TasksCarry /\ LoadsName /\ NoBox \notin Boxes /\ NoProc \notin Procs
        /\ current \in Procs \cup {NoProc} /\ loading \in Procs \cup {NoProc}
        /\ state \in [Procs -> ProcStates] /\ model \in [Procs -> MaybeModel]
        /\ loadBox \in [Procs -> MaybeBox]
    BY HostFacts, Live DEF Load, Ops, Run
  <1>1. PICK c \in Boxes : c = Head(tasks).box
    BY <1>0, TaskTaken
  <1>op. PICK op \in {"load", "start"} : Run(op)
    BY <1>0
  <1>2. CASE down
    <2>1. outcome' = Finished({c}, "failed") /\ UNCHANGED hostVars
      BY <1>1, <1>2 DEF Load
    <2>2. PICK kind \in {"noModel", "failed"} : kind = "failed"
      OBVIOUS
    <2>3. AnswerInv' /\ (Calls!Lost \/ \E w \in Workers : Calls!Refuse(w, kind))
      BY <1>op, <1>1, <2>1, <2>2, RefusalMaps
    <2> QED
      BY <2>2, <2>3
  <1>3. CASE ~down
    <2>0. PICK p \in Some(FreeProcs) :
            /\ outcome' = IF loading = NoProc THEN outcome
                          ELSE Finished({loadBox[loading]}, "noModel")
            /\ state' = [q \in Procs |->
                 IF q = p THEN "loading"
                 ELSE IF q = loading THEN "ending" ELSE state[q]]
            /\ loadBox' = [q \in Procs |->
                 IF q = p THEN c
                 ELSE IF q = loading THEN NoBox ELSE loadBox[q]]
            /\ model' = [model EXCEPT ![p] = Head(tasks).model]
            /\ UNCHANGED <<current, order, waiters>>
      BY <1>1, <1>3 DEF Load
    <2>1. /\ p \in Procs /\ current # p /\ loading # p
          /\ loadBox[p] = NoBox /\ order[p] = <<>> /\ waiters[p] = {}
      <3>1. p \in Procs /\ state[p] = "free"
        BY Picking DEF FreeProcs
      <3> QED
        BY <1>0, <3>1 DEF SlotsFit
    <2>2. PICK T : T = IF loading = NoProc THEN {} ELSE {loadBox[loading]}
      OBVIOUS
    <2>3. outcome' = Finished(T, "noModel")
      <3>1. CASE loading = NoProc
        BY <2>0, <2>2, <3>1, NothingFinished
      <3>2. CASE loading # NoProc
        BY <2>0, <2>2, <3>2
      <3> QED
        BY <3>1, <3>2
    <2>4. \A q \in Procs : Tokens(q)' = Tokens(q) /\ waiters'[q] = waiters[q]
      BY <2>0 DEF Tokens
    <2>5. /\ loadBox'[p] = c
          /\ \A q \in Procs : q # p => model'[q] = model[q] /\ loadBox'[q] \in {loadBox[q], NoBox}
          /\ loading # NoProc => loadBox'[loading] = NoBox
          /\ model'[p] = Head(tasks).model
      BY <1>0, <2>0, <2>1
    <2>6. LoadsName'
      <3>1. tasks \in Seq(TaskSet) /\ tasks # <<>> /\ Head(tasks).op = "load"
        BY <1>0 DEF TypeOK, Run
      <3>2. Head(tasks) = tasks[1] /\ 1 \in DOMAIN tasks
        BY <3>1, Taking
      <3>3. Head(tasks).model \in Models
        BY <1>0, <3>1, <3>2 DEF LoadsName
      <3>4. \A q \in Procs : state'[q] # "free" =>
              (state[q] # "free" /\ model'[q] = model[q]) \/ model'[q] \in Models
        <4>1. loading # NoProc => state[loading] # "free"
          BY <1>0 DEF SlotsFit
        <4> QED
          BY <1>0, <2>0, <2>5, <3>3, <4>1
      <3> QED
        BY <1>0, <3>4, RunFewer, NamesKept DEF Run
    <2>7. \A b \in Boxes : b # c => PlacesFewer(b)
      BY <1>0, <2>4, <2>5 DEF PlacesFewer
    <2>8. \A b \in Boxes : TasksFewer(b)
      BY <1>0, RunFewer
    <2>9. ASSUME NEW w \in Workers, box[w] = c
          PROVE  /\ c \notin T
                 /\ FitsProcess(w, p)'
                 /\ \A q \in Procs : q # p => ~Holds(q, c)'
      <3>1. Fits(w) /\ OnePlace(w)
        BY <2>9, Live
      <3>2. ~Held(c)
        BY <1>0, <1>1, <2>9, <3>1, HeadOnly
      <3>3. pc[w] = "load" /\ Head(tasks).model = target[w]
        BY <1>0, <1>1, <2>9, <3>1, HeadFits DEF FitsTask
      <3>4. \A q \in Procs : ~Holds(q, c)
        BY <3>2 DEF Held
      <3>5. \A q \in Procs : q # p => ~Holds(q, c)'
        BY <1>0, <2>4, <2>5, <3>4 DEF Holds
      <3>6. pc'[w] = pc[w] /\ box'[w] = c /\ target'[w] = target[w]
        BY <1>0, <2>9 DEF Run, workerVars
      <3>7. FitsProcess(w, p)'
        BY <2>1, <2>4, <2>5, <3>3, <3>4, <3>6 DEF FitsProcess, Holds
      <3>8. c \notin T
        BY <1>0, <2>2, <3>4 DEF Holds
      <3> QED
        BY <3>5, <3>7, <3>8
    <2>10. ASSUME NEW w \in Workers, NEW b \in Boxes, box[w] = b, b \in T
           PROVE  /\ Owed(b) /\ ~Owed(b)'
                  /\ pc[w] = "load" /\ By[w] = {}
      <3>1. Fits(w) /\ OnePlace(w) /\ b # c
        BY <2>9, <2>10, Live
      <3>2. PICK q \in Procs : q = loading /\ loadBox[q] = b
        BY <1>0, <2>2, <2>10
      <3>3. Holds(q, b)
        BY <3>2 DEF Holds
      <3>4. /\ \A r \in Procs : r # q => ~Holds(r, b)
            /\ pc[w] = "load" /\ b \notin Tokens(q) /\ b \notin waiters[q]
        BY <2>10, <3>1, <3>2, <3>3, HeldOnce
      <3>5. ~Holds(q, b)'
        BY <1>0, <2>4, <2>5, <3>2, <3>4 DEF Holds
      <3>6. Owed(b) /\ ~Owed(b)'
        BY <2>7, <2>8, <2>10, <3>1, <3>3, <3>5, LetsGo
      <3>7. \A r \in Procs : box[w] \notin Tokens(r)
        BY <2>10, <3>4 DEF Holds
      <3> QED
        BY <3>1, <3>4, <3>6, <3>7, ByOne
    <2>11. /\ AnswerInv' /\ Job' = Job /\ target' = target
           /\ Answer' = [w \in Workers |-> IF w \in Told(T) THEN "noModel" ELSE Answer[w]]
           /\ \A w \in Told(T) : Answer[w] = "none"
      <3>1. PICK o \in {"load", "start", "unload"} : Run(o)
        BY <1>0
      <3>2. "noModel" \in Kinds \ {"none"}
        BY DEF Kinds
      <3>3. \A w \in Workers, b \in Boxes : box[w] = b /\ b # c =>
              PlacesFewer(b) /\ (b \in T => Owed(b) /\ ~Owed(b)')
        BY <2>7, <2>10
      <3>4. \A w \in Workers : box[w] = c /\ c \in Boxes =>
              /\ c \notin T
              /\ FitsProcess(w, p)'
              /\ \A q \in Procs : q # p => ~Holds(q, c)'
        BY <2>9
      <3> QED
        BY <1>1, <2>1, <2>3, <2>6, <3>1, <3>2, <3>3, <3>4, HostMoves
    <2>12. By' = By /\ Serving' = Serving
      <3>1. By' = By
        BY <1>0, <2>0, <2>1, <2>5, ByStays DEF Run, workerVars
      <3>2. Serving' = Serving
        <4>1. CASE current = NoProc
          BY <2>0, <4>1, ServingOne
        <4>2. CASE current # NoProc
          BY <1>0, <2>0, <2>1, <2>5, <4>2, ServingOne
        <4> QED
          BY <4>1, <4>2
      <3> QED
        BY <3>1, <3>2
    <2>13. PICK S : S = Told(T)
      OBVIOUS
    <2>14. /\ S \in SUBSET Workers
           /\ \A w \in S : Job[w] = "load" /\ Answer[w] = "none" /\ By[w] = {}
      <3>1. \A w \in S : w \in Workers /\ pc[w] = "load" /\ By[w] = {}
        BY <2>10, <2>13 DEF Told
      <3> QED
        BY <2>11, <2>13, <3>1 DEF Job
    <2>15. By' = [w \in Workers |-> IF w \in S THEN {} ELSE By[w]]
      BY <2>12, <2>14 DEF By
    <2>16. Calls!Fail(S, "noModel")
      BY <1>0, <2>11, <2>12, <2>13, <2>14, <2>15, Noticed DEF Calls!Fail, Calls!Notice
    <2> QED
      BY <2>11, <2>14, <2>16
  <1> QED
    BY <1>2, <1>3

-----------------------------------------------------------------------------
(* Events *)

LEMMA EventFacts ==
  ASSUME TypeOK, Event
  PROVE  /\ UNCHANGED workerVars /\ LossSettled
         /\ tasks' \in Seq(TaskSet) /\ \A b : TasksFewer(b)
  BY SameFewer DEF TypeOK, Event

\* OnLoadReply(kOk): the load is granted, or its caller gave up.
LEMMA GrantMaps ==
  ASSUME TypeOK, RuntimeInv, AnswerInv, NEW p \in Procs, LoadReplyOk(p)
  PROVE  /\ AnswerInv'
         /\ \/ \E w \in Workers : Calls!Grant(w)
            \/ \E m \in Models : Calls!TakeOver(m)
  <1>0. /\ SlotsFit /\ LoadsName /\ NoBox \notin Boxes /\ NoProc \notin Procs
        /\ state \in [Procs -> ProcStates] /\ loadBox \in [Procs -> MaybeBox]
    BY HostFacts, Live
  <1>1. /\ UNCHANGED workerVars /\ LossSettled
        /\ tasks' \in Seq(TaskSet) /\ \A b : TasksFewer(b)
    BY EventFacts DEF LoadReplyOk
  <1>2. state[p] = "loading" /\ loadBox[p] # NoBox
    BY <1>0 DEF SlotsFit, LoadReplyOk
  <1>3. PICK c \in Boxes : c = loadBox[p]
    BY <1>0, <1>2 DEF MaybeBox
  <1>4. /\ outcome' = Finished({c}, "ok")
        /\ state' = [q \in Procs |->
             IF q = p THEN "ready"
             ELSE IF q = current THEN Retired(q) ELSE state[q]]
        /\ loadBox' = [loadBox EXCEPT ![p] = NoBox]
        /\ current' = p
        /\ UNCHANGED <<model, order, waiters>>
    BY <1>3 DEF LoadReplyOk
  <1>5. /\ loadBox'[p] = NoBox /\ \A q \in Procs : q # p => loadBox'[q] = loadBox[q]
        /\ \A q \in Procs : Tokens(q)' = Tokens(q)
    BY <1>0, <1>4 DEF Tokens
  <1>6. LoadsName'
    <2>1. \A q \in Procs : q = current => state[q] # "free"
      BY <1>0 DEF SlotsFit
    <2>2. \A q \in Procs : state'[q] # "free" => state[q] # "free" /\ model'[q] = model[q]
      BY <1>0, <1>2, <1>4, <2>1
    <2> QED
      BY <1>0, <1>1, <2>2, NamesKept
  <1>7. \A b \in Boxes : PlacesFewer(b)
    BY <1>0, <1>4, <1>5 DEF PlacesFewer
  <1>8. ASSUME NEW w \in Workers, box[w] = c
        PROVE  Owed(c) /\ ~Owed(c)' /\ pc[w] = "load" /\ model[p] = target[w]
    <2>1. Fits(w) /\ OnePlace(w) /\ Holds(p, c)
      BY <1>3, <1>8, Live DEF Holds
    <2>2. pc[w] = "load" /\ c \notin Tokens(p) /\ c \notin waiters[p]
      BY <1>3, <1>8, <2>1, HeldOnce
    <2>3. ~Holds(p, c)'
      BY <1>0, <1>4, <1>5, <2>2 DEF Holds
    <2>4. Owed(c) /\ ~Owed(c)'
      BY <1>1, <1>7, <1>8, <2>1, <2>3, LetsGo
    <2>5. model[p] = target[w]
      BY <1>3, <1>8, <2>1 DEF Fits, FitsProcess
    <2> QED
      BY <2>2, <2>4, <2>5
  <1>9. PICK T : T = {c}
    OBVIOUS
  <1>10. /\ AnswerInv' /\ Job' = Job /\ target' = target
         /\ Answer' = [w \in Workers |-> IF w \in Told(T) THEN "ok" ELSE Answer[w]]
         /\ \A w \in Told(T) : Answer[w] = "none"
    <2>1. "ok" \in Kinds \ {"none"}
      BY DEF Kinds
    <2>2. \A w \in Workers, b \in Boxes : box[w] = b =>
            PlacesFewer(b) /\ (b \in T => Owed(b) /\ ~Owed(b)')
      BY <1>7, <1>8, <1>9
    <2>3. outcome' = Finished(T, "ok")
      BY <1>4, <1>9
    <2> QED
      BY <1>1, <1>6, <2>1, <2>2, <2>3, HostTells
  <1>11. By' = By /\ Serving' = {model[p]} /\ Calls!Notice
    BY <1>1, <1>4, <1>10, ByStays, ServingOne, Noticed DEF workerVars, Calls!Notice
  <1>12. CASE Told(T) = {}
    <2>1. Answer' = Answer
      BY <1>10, <1>12 DEF Answer
    <2>2. model[p] \in Models
      BY <1>0, <1>2 DEF LoadsName
    <2> QED
      BY <1>10, <1>11, <2>1, <2>2 DEF Calls!TakeOver
  <1>13. ASSUME NEW w \in Workers, Told(T) = {w}, box[w] = c
         PROVE  Calls!Grant(w)
    <2>1. Job[w] = "load" /\ Answer[w] = "none" /\ Serving' = {target[w]}
      BY <1>8, <1>10, <1>11, <1>13 DEF Job
    <2>2. Answer' = [Answer EXCEPT ![w] = "ok"]
      BY <1>10, <1>13, TellsOne
    <2> QED
      BY <1>11, <2>1, <2>2 DEF Calls!Grant
  <1>14. \A b : b \in T <=> b = c
    BY <1>9
  <1> QED
    BY <1>10, <1>12, <1>13, <1>14, ToldOne

\* OnLoadReply() with a failure.
LEMMA LoadFailedMaps ==
  ASSUME TypeOK, RuntimeInv, AnswerInv, NEW p \in Procs, LoadReplyFailed(p)
  PROVE  AnswerInv' /\ \E S \in SUBSET Workers : Calls!Fail(S, "failed")
  <1>1. /\ UNCHANGED workerVars /\ LossSettled
        /\ tasks' \in Seq(TaskSet) /\ \A b : TasksFewer(b)
    BY EventFacts DEF LoadReplyFailed
  <1>2. /\ state[p] = "loading" /\ current # p /\ order[p] = <<>>
        /\ order \in [Procs -> Seq(Boxes)]
    BY HostFacts DEF SlotsFit, LoadReplyFailed
  <1>3. /\ outcome' = Finished({loadBox[p]}, "failed")
        /\ state' = [state EXCEPT ![p] = "ending"]
        /\ loadBox' = [loadBox EXCEPT ![p] = NoBox]
        /\ UNCHANGED <<current, model, order, waiters>>
    BY DEF LoadReplyFailed
  <1>4. order' = [order EXCEPT ![p] = <<>>] /\ current' = IF current = p THEN NoProc ELSE current
    BY <1>2, <1>3
  <1>5. outcome' = Finished(Tokens(p) \cup {loadBox[p]}, "failed")
    <2>1. Tokens(p) \cup {loadBox[p]} = {loadBox[p]}
      BY <1>2 DEF Tokens
    <2> QED
      BY <1>3, <2>1
  <1> QED
    BY <1>1, <1>2, <1>3, <1>4, <1>5, EndMaps

\* OnComplete().
LEMMA CompleteMaps ==
  ASSUME TypeOK, RuntimeInv, AnswerInv, NEW p \in Procs, NEW n \in DOMAIN order[p],
         OnComplete(p, n)
  PROVE  /\ AnswerInv'
         /\ \/ Calls!Lost
            \/ \E w \in Workers, kind \in {"ok", "backendFailed"} : Calls!Complete(w, kind)
  <1>1. /\ UNCHANGED workerVars /\ LossSettled
        /\ tasks' \in Seq(TaskSet) /\ \A b : TasksFewer(b)
    BY EventFacts DEF OnComplete
  <1>2. ASSUME NEW kind \in {"ok", "backendFailed"}, FinishGeneration(p, n, kind)
        PROVE  AnswerInv' /\ (Calls!Lost \/ \E w \in Workers : Calls!Complete(w, kind))
    BY <1>1, <1>2, FinishMaps
  <1> QED
    BY <1>2 DEF OnComplete

\* The exit of a process answers the unload that waits for it: load_mutex
\* lets only one wait.
LEMMA ExitMaps ==
  ASSUME TypeOK, RuntimeInv, AnswerInv, NEW p \in Procs, OnProcessExited(p)
  PROVE  AnswerInv' /\ (Calls!Lost \/ \E w \in Workers : Calls!Gone(w))
  <1>0. /\ SlotsFit /\ LoadsName /\ NoBox \notin Boxes /\ NoProc \notin Procs
        /\ state \in [Procs -> ProcStates] /\ waiters \in [Procs -> SUBSET Boxes]
        /\ model \in [Procs -> MaybeModel] /\ current \in Procs \cup {NoProc}
    BY HostFacts, Live
  <1>1. /\ UNCHANGED workerVars /\ LossSettled
        /\ tasks' \in Seq(TaskSet) /\ \A b : TasksFewer(b)
    BY EventFacts DEF OnProcessExited
  <1>2. state[p] = "ending" /\ order[p] = <<>> /\ loadBox[p] = NoBox /\ current # p
    BY <1>0 DEF SlotsFit, OnProcessExited
  <1>3. PICK T : T = waiters[p]
    OBVIOUS
  <1>4. /\ outcome' = Finished(T, "ok")
        /\ waiters' = [waiters EXCEPT ![p] = {}]
        /\ state' = [state EXCEPT ![p] = "free"]
        /\ model' = [model EXCEPT ![p] = NoModel]
        /\ UNCHANGED <<current, order, loadBox>>
    BY <1>3 DEF OnProcessExited, DestroyNow
  <1>5. /\ \A q \in Procs : Tokens(q)' = Tokens(q)
        /\ waiters'[p] = {} /\ \A q \in Procs : q # p => waiters'[q] = waiters[q]
        /\ \A q \in Procs : q # p => model'[q] = model[q]
    BY <1>0, <1>4 DEF Tokens
  <1>6. LoadsName'
    <2>1. \A q \in Procs : state'[q] # "free" => state[q] # "free" /\ model'[q] = model[q]
      BY <1>0, <1>4, <1>5
    <2> QED
      BY <1>0, <1>1, <2>1, NamesKept
  <1>7. \A b \in Boxes : PlacesFewer(b)
    BY <1>0, <1>2, <1>4, <1>5 DEF PlacesFewer
  <1>8. ASSUME NEW w \in Workers, NEW b \in Boxes, box[w] = b, b \in T
        PROVE  Owed(b) /\ ~Owed(b)' /\ pc[w] \in {"ending", "unload"}
    <2>1. Fits(w) /\ OnePlace(w) /\ Holds(p, b)
      BY <1>3, <1>8, Live DEF Holds
    <2>2. pc[w] \in {"ending", "unload"} /\ b \notin Tokens(p)
      BY <1>3, <1>8, <2>1, HeldOnce
    <2>3. ~Holds(p, b)'
      BY <1>0, <1>2, <1>4, <1>5, <2>2 DEF Holds
    <2>4. Owed(b) /\ ~Owed(b)'
      BY <1>1, <1>7, <1>8, <2>1, <2>3, LetsGo
    <2> QED
      BY <2>2, <2>4
  <1>9. /\ AnswerInv' /\ Job' = Job /\ target' = target
        /\ Answer' = [w \in Workers |-> IF w \in Told(T) THEN "ok" ELSE Answer[w]]
        /\ \A w \in Told(T) : Answer[w] = "none"
    <2>1. "ok" \in Kinds \ {"none"}
      BY DEF Kinds
    <2>2. \A w \in Workers, b \in Boxes : box[w] = b =>
            PlacesFewer(b) /\ (b \in T => Owed(b) /\ ~Owed(b)')
      BY <1>7, <1>8
    <2> QED
      BY <1>1, <1>4, <1>6, <2>1, <2>2, HostTells
  <1>10. By' = By
    BY <1>1, <1>2, <1>4, <1>5, ByStays DEF workerVars
  <1>11. Serving' = Serving
    <2>1. CASE current = NoProc
      BY <1>4, <2>1, ServingOne
    <2>2. CASE current # NoProc
      BY <1>0, <1>2, <1>4, <1>5, <2>2, ServingOne
    <2> QED
      BY <2>1, <2>2
  <1>12. \A w \in Told(T) : w \in Workers /\ pc[w] = "unload"
    BY <1>8 DEF Told
  <1>13. \A v, w \in Told(T) : v = w
    BY <1>12 DEF RuntimeInv, OneLoads
  <1>14. CASE Told(T) = {}
    BY <1>1, <1>9, <1>10, <1>11, <1>14, NobodyTold
  <1>15. ASSUME NEW w \in Told(T)
         PROVE  w \in Workers /\ Calls!Gone(w)
    <2>1. w \in Workers /\ Told(T) = {w}
      BY <1>12, <1>13
    <2>2. Job[w] = "unload"
      BY <1>12, <2>1 DEF Job
    <2>3. Answer' = [Answer EXCEPT ![w] = "ok"]
      BY <1>9, <2>1, TellsOne
    <2> QED
      BY <1>1, <1>9, <1>10, <1>11, <2>1, <2>2, <2>3, Noticed DEF Calls!Gone, Calls!Notice
  <1> QED
    BY <1>9, <1>14, <1>15

\* OnAppTerminating(): every mailbox the host has is answered.
LEMMA QuitMaps ==
  ASSUME TypeOK, RuntimeInv, AnswerInv, OnAppTerminating
  PROVE  AnswerInv' /\ \E S \in SUBSET Workers : Calls!Quit(S)
  <1>1. PICK T : T = UNION {Tokens(p) \cup waiters[p] \cup {loadBox[p]} : p \in Procs}
    OBVIOUS
  <1>2. /\ outcome' = Finished(T, "failed")
        /\ current' = NoProc
        /\ state' = [p \in Procs |-> "free"]
        /\ order' = [p \in Procs |-> <<>>]
        /\ loadBox' = [p \in Procs |-> NoBox]
        /\ waiters' = [p \in Procs |-> {}]
        /\ UNCHANGED <<workerVars, tasks>>
        /\ LossSettled
    BY <1>1 DEF OnAppTerminating
  <1>3. NoBox \notin Boxes /\ tasks' \in Seq(TaskSet) /\ \A b : TasksFewer(b)
    BY <1>2, Live, SameFewer DEF TypeOK
  <1>4. \A p \in Procs : Tokens(p)' = {} /\ waiters'[p] = {} /\ loadBox'[p] = NoBox
    BY <1>2 DEF Tokens
  <1>5. LoadsName'
    BY <1>2, <1>3, NamesKept DEF AnswerInv
  <1>6. \A b \in Boxes : PlacesFewer(b)
    BY <1>3, <1>4 DEF PlacesFewer
  <1>7. ASSUME NEW w \in Workers, NEW b \in Boxes, box[w] = b, b \in T
        PROVE  Owed(b) /\ ~Owed(b)'
    <2>1. PICK p \in Procs : Holds(p, b)
      BY <1>1, <1>7 DEF Holds
    <2>2. ~Holds(p, b)'
      BY <1>3, <1>4 DEF Holds
    <2> QED
      BY <1>3, <1>6, <1>7, <2>1, <2>2, Live, LetsGo
  <1>8. /\ AnswerInv' /\ Job' = Job /\ target' = target
        /\ Answer' = [w \in Workers |-> IF w \in Told(T) THEN "failed" ELSE Answer[w]]
        /\ \A w \in Told(T) : Answer[w] = "none" /\ Job[w] \in {"load", "unload", "ask"}
    <2>1. "failed" \in Kinds \ {"none"}
      BY DEF Kinds
    <2>2. \A w \in Workers, b \in Boxes : box[w] = b =>
            PlacesFewer(b) /\ (b \in T => Owed(b) /\ ~Owed(b)')
      BY <1>6, <1>7
    <2> QED
      BY <1>2, <1>3, <1>5, <2>1, <2>2, HostTells
  <1>9. By' = [w \in Workers |-> {}] /\ Serving' = {}
    <2>1. By' = [w \in Workers |-> {model'[p] : p \in {q \in Procs : box'[w] \in Tokens(q)'}}]
      BY DEF By
    <2>2. \A w \in Workers : {q \in Procs : box'[w] \in Tokens(q)'} = {}
      BY <1>4
    <2>3. By' = [w \in Workers |-> {}]
      BY <2>1, <2>2
    <2> QED
      BY <1>2, <2>3, ServingOne
  <1>10. PICK S : S = Told(T)
    OBVIOUS
  <1>11. ASSUME NEW w \in Workers, By[w] # {}
         PROVE  w \in S
    <2>1. PICK p \in Procs : box[w] \in Tokens(p)
      BY <1>11 DEF By
    <2>2. box[w] \in Boxes
      BY <2>1 DEF Tokens, TypeOK
    <2>3. Fits(w) /\ box[w] \in T
      BY <1>1, <2>1, <2>2, Live
    <2>4. pc[w] = "gen"
      BY <2>1, <2>3 DEF Fits, FitsProcess
    <2> QED
      BY <1>10, <2>2, <2>3, <2>4 DEF Told
  <1>12. S \in SUBSET Workers
    BY <1>10 DEF Told
  <1>13. Calls!Quit(S)
    BY <1>2, <1>8, <1>9, <1>10, <1>11, Noticed DEF Calls!Quit, Calls!Notice
  <1> QED
    BY <1>8, <1>12, <1>13

\* The idle timer, and the end of OnModelProcessLost().
LEMMA NoticeMaps ==
  ASSUME TypeOK, RuntimeInv, AnswerInv, UnloadIfIdle \/ ForgetLost
  PROVE  AnswerInv' /\ Calls!Lost
  <1>0. LoadsName /\ NoBox \notin Boxes
    BY Live
  <1>1. CASE UnloadIfIdle
    <2>1. PICK t \in TaskSet : t.box = NoBox /\ t.op = "unload" /\ Post(t)
      <3>1. Task("unload", NoBox, NoModel, FALSE) \in TaskSet
        BY DEF TaskSet, Task, Ops, MaybeModel, MaybeBox
      <3> QED
        BY <1>1, <3>1 DEF UnloadIfIdle, Task
    <2>2. UNCHANGED <<workerVars, outcome, hostVars>> /\ loaded' = NoModel
      BY <1>1 DEF UnloadIfIdle
    <2>3. /\ tasks' \in Seq(TaskSet) /\ \A b \in Boxes : TasksFewer(b)
          /\ \A n \in DOMAIN tasks' : (n \in DOMAIN tasks /\ tasks'[n] = tasks[n]) \/ tasks'[n] = t
      BY <1>0, <2>1, PostFewer
    <2>4. LoadsName'
      BY <1>0, <2>1, <2>2, <2>3 DEF LoadsName, workerVars, hostVars, procVars
    <2> QED
      BY <2>2, <2>3, <2>4, Quiet
  <1>2. CASE ForgetLost
    <2>1. UNCHANGED <<workerVars, outcome, tasks, hostVars>> /\ LossSettled
      BY <1>2 DEF ForgetLost
    <2>2. tasks' \in Seq(TaskSet) /\ \A b \in Boxes : TasksFewer(b)
      BY <2>1, SameFewer DEF TypeOK
    <2>3. LoadsName'
      BY <1>0, <2>1 DEF LoadsName, workerVars, hostVars, procVars
    <2> QED
      BY <2>1, <2>2, <2>3, Quiet, Noticed
  <1> QED
    BY <1>1, <1>2

-----------------------------------------------------------------------------
(* The callers *)

\* A step of worker w leaves the others and the processes alone.
Alone(w) ==
  /\ \A v \in Workers : v # w => pc'[v] = pc[v] /\ target'[v] = target[v] /\ box'[v] = box[v]
  /\ UNCHANGED hostVars

\* The mailboxes of the others stay where they are.
LEMMA OthersStay ==
  ASSUME TypeOK, RuntimeInv, AnswerInv, NEW w \in Workers, Alone(w),
         tasks' \in Seq(TaskSet), LoadsName',
         \A v \in Workers, b \in Boxes : box[v] = b /\ v # w =>
           TasksFewer(b) /\ outcome'[b] = outcome[b],
         box'[w] # NoBox => Fits(w)' /\ OnePlace(w)'
  PROVE  AnswerInv'
  <1>1. \A b \in Boxes : PlacesFewer(b)
    BY DEF PlacesFewer, Tokens, Alone, hostVars, procVars
  <1>2. ASSUME NEW v \in Workers, v # w, box'[v] # NoBox
        PROVE  Fits(v)' /\ OnePlace(v)'
    <2>1. pc'[v] = pc[v] /\ target'[v] = target[v] /\ box'[v] = box[v]
      BY <1>2 DEF Alone
    <2>2. PICK b \in Boxes : b = box[v]
      BY <1>2, <2>1, Live
    <2>3. Fits(v) /\ OnePlace(v) /\ TasksFewer(b) /\ outcome'[b] = outcome[b]
      BY <1>2, <2>2, Live
    <2> QED
      BY <1>1, <2>1, <2>2, <2>3, Shrinks
  <1> QED
    BY <1>2 DEF AnswerInv

\* So do the requests, and what serves.
LEMMA RequestsStay ==
  ASSUME TypeOK, RuntimeInv, NEW w \in Workers, Alone(w)
  PROVE  /\ Serving' = Serving
         /\ By' = [v \in Workers |-> IF v = w THEN By'[w] ELSE By[v]]
         /\ (\A p \in Procs : box[w] \notin Tokens(p)) => By[w] = {}
         /\ (\A p \in Procs : box'[w] \notin Tokens(p)) => By'[w] = {}
         /\ \A p \in Procs : NoBox \notin Tokens(p)
  <1>1. UNCHANGED <<current, model, order>> /\ order \in [Procs -> Seq(Boxes)]
    BY DEF TypeOK, Alone, hostVars, procVars
  <1>2. \A p \in Procs : Tokens(p)' = Tokens(p)
    BY <1>1 DEF Tokens
  <1>3. By' = [v \in Workers |-> {model[p] : p \in {q \in Procs : box'[v] \in Tokens(q)'}}]
    BY <1>1 DEF By
  <1>4. By' = [v \in Workers |-> {model[p] : p \in {q \in Procs : box'[v] \in Tokens(q)}}]
    BY <1>2, <1>3
  <1>5. ASSUME NEW v \in Workers, v # w
        PROVE  By'[v] = By[v]
    BY <1>4, <1>5 DEF By, Alone
  <1>6. By' = [v \in Workers |-> IF v = w THEN By'[w] ELSE By[v]]
    BY <1>4, <1>5
  <1>7. (\A p \in Procs : box[w] \notin Tokens(p)) => By[w] = {}
    BY DEF By
  <1>8. (\A p \in Procs : box'[w] \notin Tokens(p)) => By'[w] = {}
    BY <1>4
  <1>9. \A p \in Procs : NoBox \notin Tokens(p)
    BY <1>1, RuntimeAssumption DEF Tokens
  <1>10. Serving' = Serving
    BY <1>1 DEF Serving
  <1> QED
    BY <1>6, <1>7, <1>8, <1>9, <1>10

\* A worker posts a task with a mailbox of its own.
LEMMA PostsFresh ==
  ASSUME TypeOK, RuntimeInv, AnswerInv, NEW w \in Workers, Alone(w), UNCHANGED outcome,
         pc[w] \notin Waits, NEW b \in FreshBoxes, box' = [box EXCEPT ![w] = b],
         NEW t \in TaskSet, t.box = b, t.op # "cancel", Post(t), LoadsName',
         FitsTask(w, t)'
  PROVE  /\ AnswerInv'
         /\ b \in Boxes /\ box'[w] = b /\ outcome'[b] = "none"
         /\ By' = By /\ Serving' = Serving
  <1>1. /\ b \in Boxes /\ Fresh(b) /\ box \in [Workers -> MaybeBox] /\ b # NoBox
        /\ outcome \in [Boxes -> Kinds] /\ box[w] = NoBox
    BY Picking, RuntimeAssumption DEF FreshBoxes, TypeOK, RuntimeInv, WaitsAreOwed
  <1>2. /\ tasks' \in Seq(TaskSet)
        /\ \A c : b # c => TasksFewer(c)
        /\ \A n \in DOMAIN tasks' : (n \in DOMAIN tasks /\ tasks'[n] = tasks[n]) \/ tasks'[n] = t
    BY PostFewer
  <1>3. PICK i \in DOMAIN tasks' : tasks'[i] = t /\ \A n \in DOMAIN tasks' : n \notin DOMAIN tasks => n = i
    BY PostFewer
  <1>4. box'[w] = b /\ outcome'[b] = "none"
    BY <1>1 DEF Fresh, RuntimeInv, WaitsAreOwed
  <1>5. \A n \in DOMAIN tasks' : tasks'[n].box = b => n = i
    <2>1. \A n \in DOMAIN tasks : n \in DOMAIN tasks' /\ tasks'[n] = tasks[n]
      BY PostFewer
    <2> QED
      BY <1>1, <1>3, <2>1 DEF Fresh
  <1>6. \A p \in Procs : ~Holds(p, b) /\ ~Holds(p, b)'
    BY <1>1 DEF Fresh, Holds, Tokens, Alone, hostVars, procVars
  <1>7. Fits(w)'
    <2>1. \A n \in DOMAIN tasks' : tasks'[n].box = b => tasks'[n] = t
      BY <1>3, <1>5
    <2>2. (\A n \in DOMAIN tasks : tasks[n].box = b => FitsTask(w, tasks[n]))'
      BY <2>1 DEF FitsTask
    <2>3. (\A p \in Procs : FitsProcess(w, p))'
      BY <1>4, <1>6 DEF FitsProcess, Holds
    <2> QED
      BY <1>4, <2>2, <2>3 DEF Fits
  <1>8. OnePlace(w)'
    <2>1. ~Held(b)'
      BY <1>6 DEF Held
    <2>2. \A m, n \in DOMAIN tasks' :
            /\ tasks'[m].box = b /\ tasks'[m].op # "cancel"
            /\ tasks'[n].box = b /\ tasks'[n].op # "cancel"
            => m = n
      BY <1>5
    <2> QED
      BY <1>4, <1>6, <2>1, <2>2 DEF OnePlace
  <1>9. \A v \in Workers, c \in Boxes : box[v] = c /\ v # w =>
          TasksFewer(c) /\ outcome'[c] = outcome[c]
    BY <1>1, <1>2 DEF Fresh
  <1>10. AnswerInv'
    BY <1>2, <1>7, <1>8, <1>9, OthersStay
  <1>11. By' = By /\ Serving' = Serving
    <2>1. /\ Serving' = Serving
          /\ By' = [v \in Workers |-> IF v = w THEN By'[w] ELSE By[v]]
          /\ By[w] = {} /\ By'[w] = {}
      BY <1>1, <1>4, <1>6, RequestsStay DEF Holds
    <2>2. By' = By
      BY <2>1 DEF By
    <2> QED
      BY <2>1, <2>2
  <1> QED
    BY <1>1, <1>4, <1>10, <1>11

\* A worker that does not wait goes on.
LEMMA GoesOn ==
  ASSUME TypeOK, RuntimeInv, AnswerInv, NEW w \in Workers, Alone(w), UNCHANGED <<box, outcome>>,
         pc[w] \notin Waits, pc'[w] \notin Waits, LoadsName',
         tasks' \in Seq(TaskSet), \A b \in Boxes : TasksFewer(b)
  PROVE  AnswerInv' /\ Answer' = Answer /\ By' = By /\ Serving' = Serving
  <1>1. box[w] = NoBox
    BY DEF RuntimeInv, WaitsAreOwed
  <1>2. AnswerInv'
    BY <1>1, OthersStay
  <1>3. By' = By /\ Serving' = Serving
    <2>1. /\ Serving' = Serving
          /\ By' = [v \in Workers |-> IF v = w THEN By'[w] ELSE By[v]]
          /\ By[w] = {} /\ By'[w] = {}
      BY <1>1, RequestsStay
    <2>2. By' = By
      BY <2>1 DEF By
    <2> QED
      BY <2>1, <2>2
  <1>4. Answer' = Answer
    BY DEF Answer, Alone, Waits
  <1> QED
    BY <1>2, <1>3, <1>4

\* Where a worker goes, its job and the answer it has.
LEMMA JobOf ==
  ASSUME TypeOK, NEW w \in Workers, NEW x, pc' = [pc EXCEPT ![w] = x]
  PROVE  /\ pc'[w] = x /\ \A v \in Workers : v # w => pc'[v] = pc[v]
         /\ Job' = [Job EXCEPT ![w] = Job'[w]]
         /\ x \in {"ending", "launch", "load"} => Job'[w] = "load"
         /\ x \in {"pinned", "gen"} => Job'[w] = "ask"
         /\ x \in {"forget", "drop", "post"} => Job'[w] = "forget"
         /\ x \in {"idle", "unload"} => Job'[w] = x
  <1>1. pc'[w] = x /\ \A v \in Workers : v # w => pc'[v] = pc[v]
    BY DEF TypeOK
  <1>2. ASSUME NEW v \in Workers, v # w
        PROVE  Job'[v] = Job[v]
    BY <1>1, <1>2 DEF Job
  <1>3. Job' = [Job EXCEPT ![w] = Job'[w]]
    <2>1. PICK f, g : f = Job /\ g = Job'
      OBVIOUS
    <2>2. f = [v \in Workers |-> f[v]] /\ g = [v \in Workers |-> g[v]]
      BY <2>1 DEF Job
    <2>3. \A v \in Workers : v # w => g[v] = f[v]
      BY <1>2, <2>1
    <2>4. g = [f EXCEPT ![w] = g[w]]
      BY <2>2, <2>3
    <2> QED
      BY <2>1, <2>4
  <1> QED
    BY <1>1, <1>3 DEF Job

\* LoadModel().
LEMMA LoadModelMaps ==
  ASSUME TypeOK, RuntimeInv, AnswerInv, NEW w \in Workers,
         NEW m \in Models, NEW low \in BOOLEAN, LoadModel(w, m, low)
  PROVE  AnswerInv' /\ Calls!AskLoad(w, m)
  <1>0. /\ pc[w] = "idle" /\ loader = NoWorker /\ loaded # m
        /\ target' = [target EXCEPT ![w] = m] /\ UNCHANGED <<outcome, hostVars>>
        /\ target \in [Workers -> MaybeModel] /\ box \in [Workers -> MaybeBox]
        /\ pc[w] \notin Waits /\ LoadsName
    BY Live DEF LoadModel, TypeOK, Waits
  <1>1. PICK x \in {"ending", "launch"} : pc' = [pc EXCEPT ![w] = x]
    BY DEF LoadModel
  <1>2. /\ pc'[w] = x /\ \A v \in Workers : v # w => pc'[v] = pc[v]
        /\ Job' = [Job EXCEPT ![w] = "load"]
        /\ target'[w] = m /\ \A v \in Workers : v # w => target'[v] = target[v]
    BY <1>0, <1>1, JobOf
  <1>3. Calls!NobodyLoads /\ Job[w] = "idle"
    <2>1. \A v \in Workers : pc[v] \notin {"ending", "launch", "load", "unload"}
      BY <1>0, RuntimeAssumption DEF RuntimeInv, OneLoads
    <2> QED
      BY <1>0, <2>1 DEF Calls!NobodyLoads, Job
  <1>4. CASE low
    <2>1. PICK b \in FreshBoxes :
            /\ box' = [box EXCEPT ![w] = b]
            /\ Post(Task("unload", b, NoModel, FALSE))
      BY <1>4 DEF LoadModel
    <2>2. b \in Boxes
      BY Picking DEF FreshBoxes
    <2>3. PICK t \in TaskSet : t.box = b /\ t.op = "unload" /\ Post(t)
      <3>1. Task("unload", b, NoModel, FALSE) \in TaskSet
        BY <2>2 DEF TaskSet, Task, Ops, MaybeModel, MaybeBox
      <3> QED
        BY <2>1, <3>1 DEF Task
    <2>4. pc'[w] = "ending" /\ loaded' = NoModel
      BY <1>4, <1>0 DEF LoadModel, TypeOK
    <2>5. Alone(w)
      BY <1>0, <1>2, <2>1 DEF Alone
    <2>6. LoadsName'
      <3>1. \A n \in DOMAIN tasks' : (n \in DOMAIN tasks /\ tasks'[n] = tasks[n]) \/ tasks'[n] = t
        BY <2>3, PostFewer
      <3> QED
        BY <1>0, <1>2, <2>3, <3>1 DEF LoadsName, hostVars, procVars
    <2>7. FitsTask(w, t)'
      BY <2>3, <2>4 DEF FitsTask
    <2>8. AnswerInv' /\ By' = By /\ Serving' = Serving
      BY <1>0, <2>1, <2>3, <2>5, <2>6, <2>7, PostsFresh
    <2>9. Answer' = Answer
      BY <1>0, <1>2, <2>1, <2>4 DEF Answer
    <2> QED
      BY <1>0, <1>2, <1>3, <2>4, <2>8, <2>9 DEF Calls!AskLoad
  <1>5. CASE ~low
    <2>1. pc'[w] = "launch" /\ UNCHANGED <<loaded, box, tasks>>
      BY <1>0, <1>5 DEF LoadModel, TypeOK
    <2>2. Alone(w)
      BY <1>0, <1>2, <2>1 DEF Alone
    <2>3. LoadsName'
      BY <1>0, <1>2, <2>1 DEF LoadsName, hostVars, procVars
    <2>4. tasks' \in Seq(TaskSet) /\ \A b \in Boxes : TasksFewer(b)
      BY <2>1, SameFewer DEF TypeOK
    <2>5. AnswerInv' /\ Answer' = Answer /\ By' = By /\ Serving' = Serving
      BY <1>0, <2>1, <2>2, <2>3, <2>4, GoesOn DEF Waits
    <2> QED
      BY <1>0, <1>2, <1>3, <2>1, <2>5 DEF Calls!AskLoad
  <1> QED
    BY <1>4, <1>5

\* run_load(), UnloadModel() and the post of Generate().
LEMMA PostsMap ==
  ASSUME TypeOK, RuntimeInv, AnswerInv, NEW w \in Workers,
         RunLoad(w) \/ Send(w) \/ \E m \in Models : UnloadModel(w, m)
  PROVE  AnswerInv' /\ (UNCHANGED Calls!callVars \/ Calls!AskUnload(w))
  <1>0. /\ target \in [Workers -> MaybeModel] /\ box \in [Workers -> MaybeBox] /\ LoadsName
        /\ NoModel \notin Models /\ UNCHANGED <<target, outcome, hostVars>>
    BY Live, RuntimeAssumption DEF RunLoad, Send, UnloadModel, TypeOK
  <1>1. PICK b \in FreshBoxes :
          /\ box' = [box EXCEPT ![w] = b]
          /\ \/ RunLoad(w) /\ Post(Task("load", b, target[w], gpu[w]))
             \/ Send(w) /\ Post(Task("start", b, NoModel, FALSE))
             \/ (\E m \in Models : UnloadModel(w, m)) /\ Post(Task("unload", b, NoModel, FALSE))
    BY DEF RunLoad, Send, UnloadModel
  <1>2. b \in Boxes
    BY Picking DEF FreshBoxes
  <1>3. PICK x \in {"load", "gen", "unload"} :
          /\ pc' = [pc EXCEPT ![w] = x]
          /\ x = "load" <=> RunLoad(w)
          /\ x = "gen" <=> Send(w)
          /\ x = "unload" <=> \E m \in Models : UnloadModel(w, m)
    BY DEF RunLoad, Send, UnloadModel, TypeOK
  <1>4. /\ pc'[w] = x /\ \A v \in Workers : v # w => pc'[v] = pc[v]
        /\ Job' = [Job EXCEPT ![w] = Job'[w]]
        /\ x = "load" => Job'[w] = "load"
        /\ x = "gen" => Job'[w] = "ask"
        /\ x = "unload" => Job'[w] = "unload"
    BY <1>3, JobOf
  <1>5. /\ x = "load" => pc[w] = "launch" /\ UNCHANGED loaded
        /\ x = "gen" => pc[w] = "pinned" /\ UNCHANGED loaded
        /\ x = "unload" => pc[w] = "idle" /\ loader = NoWorker /\ loaded \in Models /\ loaded' = NoModel
    BY <1>3 DEF RunLoad, Send, UnloadModel
  <1>6. PICK t \in TaskSet : /\ t.box = b /\ Post(t) /\ t.op # "cancel"
                             /\ FitsTask(w, t)'
                             /\ t.op = "load" => t.model \in Models
    <2>1. CASE x = "load"
      <3>1. PICK t : t = Task("load", b, target[w], gpu[w])
        OBVIOUS
      <3>2. t \in TaskSet /\ t.op = "load" /\ t.box = b /\ t.model = target[w]
        BY <1>0, <1>2, <3>1 DEF TaskSet, Task, Ops, MaybeModel, MaybeBox, TypeOK
      <3>3. target[w] \in Models
        BY <1>0, <1>5, <2>1 DEF LoadsName
      <3> QED
        BY <1>0, <1>1, <1>3, <1>4, <2>1, <3>1, <3>2, <3>3 DEF FitsTask
    <2>2. CASE x = "gen"
      <3>1. PICK t : t = Task("start", b, NoModel, FALSE)
        OBVIOUS
      <3>2. t \in TaskSet /\ t.op = "start" /\ t.box = b
        BY <1>2, <3>1 DEF TaskSet, Task, Ops, MaybeModel, MaybeBox
      <3> QED
        BY <1>1, <1>3, <1>4, <2>2, <3>1, <3>2 DEF FitsTask
    <2>3. CASE x = "unload"
      <3>1. PICK t : t = Task("unload", b, NoModel, FALSE)
        OBVIOUS
      <3>2. t \in TaskSet /\ t.op = "unload" /\ t.box = b
        BY <1>2, <3>1 DEF TaskSet, Task, Ops, MaybeModel, MaybeBox
      <3> QED
        BY <1>1, <1>3, <1>4, <2>3, <3>1, <3>2 DEF FitsTask
    <2> QED
      BY <2>1, <2>2, <2>3
  <1>7. Alone(w)
    BY <1>0, <1>1, <1>4 DEF Alone
  <1>8. LoadsName'
    <2>1. \A n \in DOMAIN tasks' : (n \in DOMAIN tasks /\ tasks'[n] = tasks[n]) \/ tasks'[n] = t
      BY <1>6, PostFewer
    <2>2. \A n \in DOMAIN tasks' : tasks'[n].op = "load" => tasks'[n].model \in Models
      BY <1>0, <1>6, <2>1 DEF LoadsName
    <2>3. \A v \in Workers : pc'[v] \in {"ending", "launch", "load"} => target'[v] \in Models
      BY <1>0, <1>4, <1>5 DEF LoadsName
    <2> QED
      BY <1>0, <2>2, <2>3 DEF LoadsName, hostVars, procVars
  <1>9. pc[w] \notin Waits
    BY <1>5 DEF Waits
  <1>10. /\ AnswerInv' /\ box'[w] = b /\ outcome'[b] = "none"
         /\ By' = By /\ Serving' = Serving
    BY <1>0, <1>1, <1>6, <1>7, <1>8, <1>9, PostsFresh
  <1>11. Answer' = Answer
    <2>1. Answer[w] = "none" /\ Answer'[w] = "none"
      BY <1>4, <1>5, <1>10 DEF Answer
    <2>2. ASSUME NEW v \in Workers, v # w
          PROVE  Answer'[v] = Answer[v]
      BY <1>0, <1>4, <1>7, <2>2 DEF Answer, Alone
    <2> QED
      BY <2>1, <2>2 DEF Answer
  <1>12. CASE x \in {"load", "gen"}
    <2>1. Job'[w] = Job[w]
      BY <1>4, <1>5, <1>12 DEF Job
    <2>2. Job' = Job
      BY <1>4, <2>1 DEF Job
    <2> QED
      BY <1>0, <1>5, <1>10, <1>11, <1>12, <2>2 DEF Calls!callVars
  <1>13. CASE x = "unload"
    <2>1. \A v \in Workers : pc[v] \notin {"ending", "launch", "load", "unload"}
      BY <1>5, <1>13, RuntimeAssumption DEF RuntimeInv, OneLoads
    <2>2. Calls!NobodyLoads /\ Job[w] = "idle"
      BY <1>5, <1>13, <2>1 DEF Calls!NobodyLoads, Job
    <2> QED
      BY <1>0, <1>4, <1>5, <1>10, <1>11, <1>13, <2>2 DEF Calls!AskUnload
  <1> QED
    BY <1>12, <1>13

\* Wait() asks the host to cancel.
LEMMA CancelRequestMaps ==
  ASSUME TypeOK, RuntimeInv, AnswerInv, NEW w \in Workers, CancelRequest(w)
  PROVE  AnswerInv' /\ UNCHANGED Calls!callVars
  <1>0. /\ pc[w] = "gen" /\ UNCHANGED <<loaded, pc, target, box, outcome, hostVars>> /\ LoadsName
        /\ Post(Task("cancel", box[w], NoModel, FALSE))
    BY Live DEF CancelRequest
  <1>1. PICK b \in Boxes : b = box[w]
    BY <1>0, Live DEF RuntimeInv, WaitsAreOwed, Waits
  <1>2. PICK t \in TaskSet : t.box = b /\ t.op = "cancel" /\ Post(t)
    <2>1. Task("cancel", b, NoModel, FALSE) \in TaskSet
      BY DEF TaskSet, Task, Ops, MaybeModel, MaybeBox
    <2> QED
      BY <1>0, <1>1, <2>1 DEF Task
  <1>3. /\ tasks' \in Seq(TaskSet)
        /\ \A c : b # c => TasksFewer(c)
        /\ \A n \in DOMAIN tasks' : (n \in DOMAIN tasks /\ tasks'[n] = tasks[n]) \/ tasks'[n] = t
    BY <1>2, PostFewer
  <1>4. Alone(w)
    BY <1>0 DEF Alone
  <1>5. LoadsName'
    BY <1>0, <1>2, <1>3 DEF LoadsName, hostVars, procVars
  <1>6. Fits(w) /\ OnePlace(w)
    BY <1>1, Live
  <1>7. \A p \in Procs : Holds(p, b)' <=> Holds(p, b)
    BY <1>0 DEF Holds, Tokens, hostVars, procVars
  <1>8. Fits(w)'
    <2>1. \A n \in DOMAIN tasks' : tasks'[n].box = b => FitsTask(w, tasks'[n])
      BY <1>0, <1>1, <1>2, <1>3, <1>6 DEF Fits, FitsTask
    <2>2. (\A n \in DOMAIN tasks : tasks[n].box = b => FitsTask(w, tasks[n]))'
      BY <1>0, <2>1 DEF FitsTask
    <2>3. (\A p \in Procs : FitsProcess(w, p))'
      BY <1>0, <1>6 DEF Fits, FitsProcess, Tokens, hostVars, procVars
    <2> QED
      BY <1>0, <1>1, <2>2, <2>3 DEF Fits
  <1>9. OnePlace(w)'
    <2>1. /\ InTasks(b)' => InTasks(b)
          /\ \A m, n \in DOMAIN tasks' :
               /\ tasks'[m].box = b /\ tasks'[m].op # "cancel"
               /\ tasks'[n].box = b /\ tasks'[n].op # "cancel"
               => m = n
      BY <1>1, <1>2, <1>3, <1>6 DEF InTasks, OnePlace
    <2>2. Held(b)' <=> Held(b)
      BY <1>7 DEF Held
    <2>3. outcome'[b] # "none" => ~Owed(b)'
      BY <1>0, <1>1, <1>6, <2>1, <2>2 DEF OnePlace, Owed
    <2>4. \A p, q \in Procs : Holds(p, b)' /\ Holds(q, b)' => p = q
      BY <1>1, <1>6, <1>7 DEF OnePlace
    <2>5. InTasks(b)' => ~Held(b)'
      BY <1>1, <1>6, <2>1, <2>2 DEF OnePlace
    <2> QED
      BY <1>0, <1>1, <2>1, <2>3, <2>4, <2>5 DEF OnePlace
  <1>10. \A v \in Workers, c \in Boxes : box[v] = c /\ v # w =>
           TasksFewer(c) /\ outcome'[c] = outcome[c]
    <2>1. \A v \in Workers : v # w => box[v] # b
      BY <1>1, RuntimeAssumption DEF RuntimeInv, WaitsAreOwed
    <2> QED
      BY <1>0, <1>3, <2>1
  <1>11. AnswerInv'
    BY <1>3, <1>4, <1>5, <1>8, <1>9, <1>10, OthersStay
  <1>12. Job' = Job /\ Answer' = Answer
    BY <1>0 DEF Job, Answer
  <1>13. By' = By /\ Serving' = Serving
    BY <1>0, ByStays DEF Serving, hostVars, procVars
  <1> QED
    BY <1>0, <1>11, <1>12, <1>13 DEF Calls!callVars

\* Generate() pins its model, or corrects what is loaded.
LEMMA GoesOnMaps ==
  ASSUME TypeOK, RuntimeInv, AnswerInv, NEW w \in Workers,
         Pin(w) \/ Forget(w) \/ Drop(w) \/ PostUnload(w)
  PROVE  AnswerInv' /\ (Calls!Ask(w) \/ Calls!Forget(w))
  <1>0. /\ UNCHANGED <<box, outcome, hostVars>> /\ LoadsName
        /\ target \in [Workers -> MaybeModel] /\ pc[w] \notin Waits
    BY Live DEF Pin, Forget, Drop, PostUnload, TypeOK, Waits
  <1>1. PICK x \in {"pinned", "idle", "post"} :
          /\ pc' = [pc EXCEPT ![w] = x]
          /\ x = "pinned" => pc[w] = "idle" /\ loaded # NoModel /\ UNCHANGED loaded
                             /\ target' = [target EXCEPT ![w] = loaded]
          /\ x = "idle" => pc[w] \in {"forget", "post"} /\ target' = [target EXCEPT ![w] = NoModel]
          /\ x = "post" => pc[w] = "drop" /\ UNCHANGED target
          /\ loaded' \in {loaded, NoModel}
    BY DEF Pin, Forget, Drop, PostUnload, Done
  <1>2. /\ pc'[w] = x /\ \A v \in Workers : v # w => pc'[v] = pc[v]
        /\ Job' = [Job EXCEPT ![w] = Job'[w]]
        /\ x = "pinned" => Job'[w] = "ask"
        /\ x = "post" => Job'[w] = "forget"
        /\ x = "idle" => Job'[w] = "idle"
    BY <1>1, JobOf
  <1>3. /\ tasks' \in Seq(TaskSet) /\ \A b \in Boxes : TasksFewer(b)
        /\ \A n \in DOMAIN tasks' : tasks'[n].op = "load" =>
             n \in DOMAIN tasks /\ tasks'[n] = tasks[n]
    <2>1. CASE PostUnload(w)
      <3>1. Task("unloadNow", NoBox, NoModel, FALSE) \in TaskSet
        BY DEF TaskSet, Task, Ops, MaybeModel, MaybeBox
      <3>2. PICK t \in TaskSet : t.box = NoBox /\ t.op = "unloadNow" /\ Post(t)
        BY <2>1, <3>1 DEF PostUnload, Task
      <3> QED
        BY <3>2, PostFewer, RuntimeAssumption
    <2>2. CASE UNCHANGED tasks
      BY <2>2, SameFewer DEF TypeOK
    <2> QED
      BY <2>1, <2>2 DEF Pin, Forget, Drop
  <1>4. Alone(w)
    BY <1>0, <1>1, <1>2 DEF Alone
  <1>5. LoadsName'
    <2>1. \A v \in Workers : pc'[v] \in {"ending", "launch", "load"} => target'[v] \in Models
      BY <1>0, <1>2, <1>4 DEF LoadsName, Alone
    <2> QED
      BY <1>0, <1>3, <2>1 DEF LoadsName, hostVars, procVars
  <1>6. AnswerInv' /\ Answer' = Answer /\ By' = By /\ Serving' = Serving
    BY <1>0, <1>2, <1>3, <1>4, <1>5, GoesOn DEF Waits
  <1>7. CASE x = "pinned"
    <2>1. Job[w] = "idle"
      BY <1>1, <1>7 DEF Job
    <2> QED
      BY <1>1, <1>2, <1>6, <1>7, <2>1 DEF Calls!Ask
  <1>8. CASE x \in {"idle", "post"}
    <2>1. Job[w] = "forget"
      BY <1>1, <1>8 DEF Job
    <2>2. x = "post" => Job' = Job
      BY <1>2, <2>1 DEF Job
    <2> QED
      BY <1>1, <1>2, <1>6, <1>8, <2>1, <2>2 DEF Calls!Forget, Calls!Return
  <1> QED
    BY <1>7, <1>8

\* Wait() returns: with the answer, or because it gave up.
LEMMA ReturnMaps ==
  ASSUME TypeOK, RuntimeInv, AnswerInv, NEW w \in Workers, pc[w] \in Waits,
         NEW kind, Return(w, kind),
         \/ kind = outcome[box[w]]
         \/ kind \in {"failed", "lost"} /\ outcome[box[w]] = "none"
  PROVE  AnswerInv' /\ (UNCHANGED Calls!callVars \/ Calls!Take(w))
  <1>0. /\ LoadsName /\ NoBox \notin Boxes /\ UNCHANGED <<tasks, hostVars>>
        /\ target \in [Workers -> MaybeModel] /\ box \in [Workers -> MaybeBox]
        /\ outcome \in [Boxes -> Kinds] /\ tasks \in Seq(TaskSet)
    BY Live DEF Return, TypeOK
  <1>1. PICK b \in Boxes : b = box[w]
    BY Live DEF RuntimeInv, WaitsAreOwed
  <1>2. box' = [box EXCEPT ![w] = NoBox] /\ outcome' = [outcome EXCEPT ![b] = "none"]
    BY <1>1 DEF Return, Returns
  <1>3. PICK x \in {"launch", "idle", "forget", "drop"} :
          /\ pc' = [pc EXCEPT ![w] = x]
          /\ x = "idle" => /\ pc[w] \in {"load", "unload", "gen"}
                           /\ target' = [target EXCEPT ![w] = NoModel]
                           /\ loaded' = IF pc[w] = "load" /\ kind = "ok" THEN target[w] ELSE loaded
          /\ x # "idle" => UNCHANGED <<target, loaded>>
          /\ x = "launch" => pc[w] = "ending" \/ (pc[w] = "load" /\ kind = "lost")
          /\ x \in {"forget", "drop"} =>
               pc[w] = "gen" /\ kind \in {"noModel", "backendFailed"} /\ loaded = target[w]
    BY DEF Return, AfterEnding, AfterLoad, AfterUnload, AfterGeneration, Done
  <1>4. /\ pc'[w] = x /\ \A v \in Workers : v # w => pc'[v] = pc[v]
        /\ Job' = [Job EXCEPT ![w] = Job'[w]]
        /\ x = "launch" => Job'[w] = "load"
        /\ x = "idle" => Job'[w] = "idle"
        /\ x \in {"forget", "drop"} => Job'[w] = "forget"
    BY <1>3, JobOf
  <1>5. Alone(w)
    BY <1>0, <1>2, <1>3, <1>4 DEF Alone
  <1>6. LoadsName'
    <2>1. \A v \in Workers : pc'[v] \in {"ending", "launch", "load"} => target'[v] \in Models
      BY <1>0, <1>3, <1>4, <1>5 DEF LoadsName, Alone
    <2> QED
      BY <1>0, <2>1 DEF LoadsName, hostVars, procVars
  <1>7. \A v \in Workers, c \in Boxes : box[v] = c /\ v # w =>
          TasksFewer(c) /\ outcome'[c] = outcome[c]
    <2>1. \A v \in Workers : v # w => box[v] # b
      BY <1>0, <1>1 DEF RuntimeInv, WaitsAreOwed
    <2> QED
      BY <1>0, <1>2, <2>1, SameFewer
  <1>8. AnswerInv' /\ box'[w] = NoBox
    BY <1>0, <1>2, <1>5, <1>6, <1>7, OthersStay
  <1>9. Fits(w) /\ OnePlace(w)
    BY <1>1, Live
  <1>10. /\ Serving' = Serving
         /\ By' = [By EXCEPT ![w] = {}]
         /\ pc[w] # "gen" => By[w] = {}
    <2>1. /\ Serving' = Serving
          /\ By' = [v \in Workers |-> IF v = w THEN By'[w] ELSE By[v]]
          /\ By'[w] = {}
          /\ (\A p \in Procs : box[w] \notin Tokens(p)) => By[w] = {}
      BY <1>5, <1>8, RequestsStay
    <2>2. pc[w] # "gen" => By[w] = {}
      BY <1>9, <2>1 DEF Fits, FitsProcess
    <2>3. By' = [v \in Workers |-> IF v = w THEN {} ELSE By[v]]
      BY <2>1
    <2>4. By' = [By EXCEPT ![w] = {}]
      BY <2>3 DEF By
    <2> QED
      BY <2>1, <2>2, <2>4
  <1>11. /\ Answer' = [Answer EXCEPT ![w] = "none"]
         /\ pc[w] # "ending" => Answer[w] = outcome[b]
         /\ pc[w] = "ending" => Answer[w] = "none"
    <2>1. Answer'[w] = "none"
      BY <1>4 DEF Answer
    <2>2. ASSUME NEW v \in Workers, v # w
          PROVE  Answer'[v] = Answer[v]
      <3>1. pc'[v] = pc[v] /\ box'[v] = box[v]
        BY <1>5, <2>2 DEF Alone
      <3>2. CASE box[v] \in Boxes
        <4>1. outcome'[box[v]] = outcome[box[v]]
          BY <1>7, <2>2, <3>2
        <4> QED
          BY <3>1, <4>1 DEF Answer
      <3>3. CASE box[v] = NoBox
        BY <3>1, <3>3 DEF Answer, RuntimeInv, WaitsAreOwed, Waits
      <3> QED
        BY <3>2, <3>3, Live
    <2>3. Answer' = [Answer EXCEPT ![w] = "none"]
      <3>1. PICK f, g : f = Answer /\ g = Answer'
        OBVIOUS
      <3>2. f = [v \in Workers |-> f[v]] /\ g = [v \in Workers |-> g[v]]
        BY <3>1 DEF Answer
      <3>3. g[w] = "none" /\ \A v \in Workers : v # w => g[v] = f[v]
        BY <2>1, <2>2, <3>1
      <3>4. g = [f EXCEPT ![w] = "none"]
        BY <3>2, <3>3
      <3> QED
        BY <3>1, <3>4
    <2> QED
      BY <1>1, <2>3 DEF Answer, Waits
  <1>12. CASE x = "launch"
    <2>1. Job[w] = "load" /\ Job' = Job
      <3>1. Job[w] = "load" /\ Job'[w] = "load"
        BY <1>3, <1>4, <1>12 DEF Job
      <3> QED
        BY <1>4, <3>1 DEF Job
    <2>2. CASE Answer[w] = "none"
      <3>1. Answer' = Answer /\ By' = By
        <4>1. By[w] = {}
          BY <1>3, <1>10, <1>12
        <4> QED
          BY ZenonT(60), <1>10, <1>11, <2>2, <4>1 DEF Answer, By
      <3> QED
        BY <1>3, <1>8, <1>10, <1>12, <2>1, <3>1 DEF Calls!callVars
    <2>3. CASE Answer[w] # "none"
      <3>1. Answer[w] = "lost"
        BY <1>1, <1>3, <1>11, <1>12, <2>3
      <3> QED
        BY <1>3, <1>8, <1>10, <1>11, <1>12, <2>1, <3>1 DEF Calls!Take
    <2> QED
      BY <1>8, <2>2, <2>3
  <1>13. CASE x = "idle"
    <2>1. /\ Job[w] \in {"load", "unload", "ask"} /\ (Job[w] = "load" <=> pc[w] = "load")
      BY <1>3, <1>13 DEF Job
    <2>2. loaded' = IF Job[w] = "load" /\ Answer[w] = "ok" THEN target[w] ELSE loaded
      BY <1>1, <1>3, <1>11, <1>13, <2>1
    <2> QED
      BY <1>3, <1>4, <1>8, <1>10, <1>11, <1>13, <2>1, <2>2 DEF Calls!Take, Calls!Return
  <1>14. CASE x \in {"forget", "drop"}
    <2>1. Job[w] = "ask" /\ Answer[w] \in {"noModel", "backendFailed"} /\ loaded = target[w]
      BY <1>1, <1>3, <1>11, <1>14 DEF Job
    <2> QED
      BY <1>3, <1>4, <1>8, <1>10, <1>11, <1>14, <2>1 DEF Calls!Take
  <1> QED
    BY <1>12, <1>13, <1>14

-----------------------------------------------------------------------------
(* The theorems *)

LEMMA WorkerMaps ==
  ASSUME TypeOK, RuntimeInv, AnswerInv, NEW w \in Workers, Worker(w)
  PROVE  AnswerInv' /\ (Calls!Next \/ UNCHANGED Calls!callVars)
  <1>1. CASE \E m \in Models, low \in BOOLEAN : LoadModel(w, m, low)
    BY <1>1, LoadModelMaps DEF Calls!Next
  <1>2. CASE RunLoad(w) \/ Send(w) \/ \E m \in Models : UnloadModel(w, m)
    BY <1>2, PostsMap DEF Calls!Next
  <1>3. CASE Pin(w) \/ Forget(w) \/ Drop(w) \/ PostUnload(w)
    BY <1>3, GoesOnMaps DEF Calls!Next
  <1>4. CASE CancelRequest(w)
    BY <1>4, CancelRequestMaps
  <1>5. CASE Answered(w) \/ Closing(w) \/ GivesUp(w)
    <2>1. PICK kind :
            /\ pc[w] \in Waits /\ Return(w, kind)
            /\ \/ kind = outcome[box[w]]
               \/ kind \in {"failed", "lost"} /\ outcome[box[w]] = "none"
      BY <1>5 DEF Answered, Closing, GivesUp
    <2> QED
      BY <2>1, ReturnMaps DEF Calls!Next
  <1> QED
    BY <1>1, <1>2, <1>3, <1>4, <1>5 DEF Worker

LEMMA TaskMaps ==
  ASSUME TypeOK, RuntimeInv, AnswerInv, RunTask
  PROVE  AnswerInv' /\ Calls!Next
  <1>1. CASE Load
    BY <1>1, LoadMaps DEF Calls!Next
  <1>2. CASE StartGeneration
    BY <1>2, StartMaps DEF Calls!Next
  <1>3. CASE Cancel
    <2>1. \A w \in Workers : {w} \in SUBSET Workers
      OBVIOUS
    <2> QED
      BY <1>3, <2>1, CancelMaps DEF Calls!Next
  <1>4. CASE Unload
    BY <1>4, UnloadMaps DEF Calls!Next
  <1>5. CASE UnloadNow
    BY <1>5, UnloadNowMaps DEF Calls!Next
  <1> QED
    BY <1>1, <1>2, <1>3, <1>4, <1>5 DEF RunTask

LEMMA ProcessMaps ==
  ASSUME TypeOK, RuntimeInv, AnswerInv, NEW p \in Procs, Process(p)
  PROVE  AnswerInv' /\ Calls!Next
  <1>1. CASE LoadReplyOk(p)
    BY <1>1, GrantMaps DEF Calls!Next
  <1>2. CASE LoadReplyFailed(p)
    BY <1>2, LoadFailedMaps DEF Calls!Next
  <1>3. CASE \E n \in DOMAIN order[p] : OnComplete(p, n)
    BY <1>3, CompleteMaps DEF Calls!Next
  <1>4. CASE OnProcessExited(p)
    BY <1>4, ExitMaps DEF Calls!Next
  <1>5. CASE KillProcess(p, "lost") \/ KillProcess(p, "failed")
    BY <1>5, KillMaps DEF Calls!Next
  <1> QED
    BY <1>1, <1>2, <1>3, <1>4, <1>5
    DEF Process, OnLoadTimeout, OnTick, OnProcessLost, OnViolation, OnFootprintSample

\* Every step keeps AnswerInv and is a step, or a stutter, of AiCalls.
LEMMA StepMaps ==
  TypeOK /\ RuntimeInv /\ AnswerInv /\ [Next]_vars => AnswerInv' /\ [Calls!Next]_Calls!callVars
  <1> SUFFICES ASSUME TypeOK, RuntimeInv, AnswerInv, [Next]_vars
               PROVE  AnswerInv' /\ (Calls!Next \/ UNCHANGED Calls!callVars)
    OBVIOUS
  <1>1. ASSUME NEW w \in Workers, Worker(w)
        PROVE  AnswerInv' /\ (Calls!Next \/ UNCHANGED Calls!callVars)
    BY <1>1, WorkerMaps
  <1>2. CASE RunTask
    BY <1>2, TaskMaps
  <1>3. ASSUME NEW p \in Procs, Process(p)
        PROVE  AnswerInv' /\ Calls!Next
    BY <1>3, ProcessMaps
  <1>4. CASE UnloadIfIdle \/ ForgetLost
    BY <1>4, NoticeMaps DEF Calls!Next
  <1>5. CASE OnAppTerminating
    BY <1>5, QuitMaps DEF Calls!Next
  <1>6. CASE UNCHANGED vars
    <2>1. UNCHANGED <<loaded, pc, target, box, outcome, tasks, hostVars>>
      BY <1>6 DEF vars, workerVars
    <2>2. AnswerInv'
      BY <2>1 DEF AnswerInv, LoadsName, Fits, FitsTask, FitsProcess, OnePlace, Owed, InTasks,
                  Held, Holds, Tokens, hostVars, procVars
    <2>3. Job' = Job /\ Answer' = Answer
      BY <2>1 DEF Job, Answer
    <2>4. By' = By /\ Serving' = Serving
      BY <2>1, ByStays DEF Serving, hostVars, procVars
    <2> QED
      BY <2>1, <2>2, <2>3, <2>4 DEF Calls!callVars
  <1> QED
    BY <1>1, <1>2, <1>3, <1>4, <1>5, <1>6 DEF Next

LEMMA StartMapsToInit == Init => AnswerInv /\ Calls!Init
  <1> SUFFICES ASSUME Init
               PROVE  AnswerInv /\ Calls!Init
    OBVIOUS
  <1>1. AnswerInv
    BY DEF Init, AnswerInv, LoadsName
  <1>2. \A p \in Procs : Tokens(p) = {}
    BY DEF Init, Tokens
  <1>3. By = [w \in Workers |-> {}]
    BY <1>2 DEF By
  <1>4. Serving = {}
    BY RuntimeAssumption DEF Init, Serving
  <1>5. Job = [w \in Workers |-> "idle"] /\ Answer = [w \in Workers |-> "none"]
    BY DEF Init, Job, Answer
  <1> QED
    BY <1>1, <1>3, <1>4, <1>5 DEF Init, Calls!Init

\* A mailbox somebody waits on is answered, in one task or with one process,
\* and always for what its worker waits for: no call is answered twice, and
\* none with the answer of another, however late (inference_process_host.cc,
\* InferenceMailbox::Finish() and its callers).
THEOREM AnswerInvariant == Spec => []AnswerInv
<1>1. Init => TypeOK /\ RuntimeInv /\ AnswerInv
  BY Starts, StartMapsToInit
<1>2. TypeOK /\ RuntimeInv /\ AnswerInv /\ [Next]_vars => TypeOK' /\ RuntimeInv' /\ AnswerInv'
  BY Steps, StepMaps
<1> QED
  BY <1>1, <1>2, PTL DEF Spec

\* The runtime and its processes keep the promise AiCalls makes to callers:
\* an answer of a load, an unload or a request is one that AiCalls allows at
\* that moment, for any number of workers, models, processes and mailboxes.
THEOREM AiCallsImplemented == Spec => ImplementsAiCalls
<1>1. Init => TypeOK /\ RuntimeInv /\ AnswerInv /\ Calls!Init
  BY Starts, StartMapsToInit
<1>2. TypeOK /\ RuntimeInv /\ AnswerInv /\ [Next]_vars => TypeOK' /\ RuntimeInv' /\ AnswerInv'
  BY Steps, StepMaps
<1>3. TypeOK /\ RuntimeInv /\ AnswerInv /\ [Next]_vars => [Calls!Next]_Calls!callVars
  BY StepMaps
<1> QED
  BY <1>1, <1>2, <1>3, PTL DEF Spec, ImplementsAiCalls, Calls!Spec
=============================================================================
