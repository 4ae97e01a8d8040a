------------------------------ MODULE AiCalls ------------------------------
(***************************************************************************)
(* What the runtime promises the threads that call it                      *)
(* (browser_ai_runtime.h, inference_process_host.h): one of them loads or  *)
(* unloads at a time; a model is said to be loaded only after a load of it *)
(* in which it took over; a request is accepted once, by the model that    *)
(* takes requests then, and gets one answer, which is a result only if a   *)
(* model ran it.  No task, process, queue, mailbox or clock appears here.  *)
(***************************************************************************)
CONSTANTS Workers, Models, NoModel

VARIABLES
  job,      \* what a worker does: "idle", "load", "unload", "ask", "forget"
  on,       \* the model its call is about
  answer,   \* what its call was answered, "none" until then
  by,       \* the model that runs its request: a set, empty or of one
  serving,  \* the model that takes requests, likewise
  loaded    \* the model that is said to be loaded

callVars == <<job, on, answer, by, serving, loaded>>

Init ==
  /\ job = [w \in Workers |-> "idle"]
  /\ on = [w \in Workers |-> NoModel]
  /\ answer = [w \in Workers |-> "none"]
  /\ by = [w \in Workers |-> {}]
  /\ serving = {}
  /\ loaded = NoModel

-----------------------------------------------------------------------------
(* The callers *)

NobodyLoads == \A v \in Workers : job[v] \notin {"load", "unload"}

\* LoadModel() of m; the model before it may go first.
AskLoad(w, m) ==
  /\ job[w] = "idle" /\ NobodyLoads /\ loaded # m
  /\ job' = [job EXCEPT ![w] = "load"]
  /\ on' = [on EXCEPT ![w] = m]
  /\ loaded' \in {loaded, NoModel}
  /\ UNCHANGED <<answer, by, serving>>

AskUnload(w) ==
  /\ job[w] = "idle" /\ NobodyLoads /\ loaded # NoModel
  /\ job' = [job EXCEPT ![w] = "unload"]
  /\ loaded' = NoModel
  /\ UNCHANGED <<on, answer, by, serving>>

\* Generate() is about the model that is loaded when it is called.
Ask(w) ==
  /\ job[w] = "idle" /\ loaded # NoModel
  /\ job' = [job EXCEPT ![w] = "ask"]
  /\ on' = [on EXCEPT ![w] = loaded]
  /\ UNCHANGED <<answer, by, serving, loaded>>

\* The call ends.
Return(w) ==
  /\ job' = [job EXCEPT ![w] = "idle"]
  /\ on' = [on EXCEPT ![w] = NoModel]

\* The caller has its answer, or gives up: only a load that was answered "ok"
\* makes its model the loaded one.  One that was lost may be tried again.
Take(w) ==
  /\ job[w] \in {"load", "unload", "ask"}
  /\ answer' = [answer EXCEPT ![w] = "none"]
  /\ by' = [by EXCEPT ![w] = {}]
  /\ \/ /\ Return(w)
        /\ loaded' = IF job[w] = "load" /\ answer[w] = "ok" THEN on[w] ELSE loaded
     \/ /\ job[w] = "load" /\ answer[w] = "lost"
        /\ UNCHANGED <<job, on, loaded>>
     \/ /\ job[w] = "ask" /\ answer[w] \in {"noModel", "backendFailed"} /\ loaded = on[w]
        /\ job' = [job EXCEPT ![w] = "forget"]
        /\ UNCHANGED <<on, loaded>>
  /\ UNCHANGED serving

\* A request that found no model, or a broken one, corrects what is loaded.
Forget(w) ==
  /\ job[w] = "forget"
  /\ loaded' \in {loaded, NoModel}
  /\ Return(w) \/ UNCHANGED <<job, on>>
  /\ UNCHANGED <<answer, by, serving>>

-----------------------------------------------------------------------------
(* The models.  With any of this the loss of the loaded one may be noticed. *)

Notice == loaded' \in {loaded, NoModel} /\ UNCHANGED <<job, on>>

\* The model of a load takes over, and the load is answered.  The one before
\* it goes on with the requests it has.
Grant(w) ==
  /\ job[w] = "load" /\ answer[w] = "none"
  /\ serving' = {on[w]}
  /\ answer' = [answer EXCEPT ![w] = "ok"]
  /\ UNCHANGED by
  /\ Notice

\* The model of a load whose caller gave up takes over.
TakeOver(m) ==
  /\ serving' = {m}
  /\ UNCHANGED <<answer, by>>
  /\ Notice

Accept(w) ==
  /\ job[w] = "ask" /\ answer[w] = "none" /\ by[w] = {}
  /\ serving # {}
  /\ by' = [by EXCEPT ![w] = serving]
  /\ UNCHANGED <<answer, serving>>
  /\ Notice

\* Nobody serves, or the app is terminating.
Refuse(w, kind) ==
  /\ job[w] \in {"load", "ask"} /\ answer[w] = "none" /\ by[w] = {}
  /\ kind = "noModel" => serving = {}
  /\ answer' = [answer EXCEPT ![w] = kind]
  /\ UNCHANGED <<by, serving>>
  /\ Notice

Complete(w, kind) ==
  /\ job[w] = "ask" /\ answer[w] = "none" /\ by[w] # {}
  /\ answer' = [answer EXCEPT ![w] = kind]
  /\ by' = [by EXCEPT ![w] = {}]
  /\ UNCHANGED serving
  /\ Notice

\* A model ends or dies with all it was asked to do, S: its requests, or its
\* load.  A request is told that there is no model only when there is none.
Fail(S, kind) ==
  /\ \A w \in S : job[w] \in {"load", "ask"} /\ answer[w] = "none"
  /\ \A v, w \in S : by[v] = by[w]
  /\ answer' = [w \in Workers |-> IF w \in S THEN kind ELSE answer[w]]
  /\ by' = [w \in Workers |-> IF w \in S THEN {} ELSE by[w]]
  /\ serving' \in {serving, {}}
  /\ kind = "noModel" => \A w \in S : job[w] = "ask" => serving' = {}
  /\ Notice

\* The model that an unload waits for is gone.
Gone(w) ==
  /\ job[w] = "unload" /\ answer[w] = "none"
  /\ answer' = [answer EXCEPT ![w] = "ok"]
  /\ UNCHANGED <<by, serving>>
  /\ Notice

\* The app terminates: what runs fails.
Quit(S) ==
  /\ \A w \in S : job[w] \in {"load", "unload", "ask"} /\ answer[w] = "none"
  /\ \A w \in Workers : by[w] # {} => w \in S
  /\ answer' = [w \in Workers |-> IF w \in S THEN "failed" ELSE answer[w]]
  /\ by' = [w \in Workers |-> {}]
  /\ serving' = {}
  /\ Notice

Lost == UNCHANGED <<answer, by, serving>> /\ Notice

Next ==
  \/ \E w \in Workers, m \in Models : AskLoad(w, m)
  \/ \E w \in Workers : \/ AskUnload(w) \/ Ask(w) \/ Take(w) \/ Forget(w)
                        \/ Grant(w) \/ Accept(w) \/ Gone(w)
                        \/ \E kind \in {"noModel", "failed"} : Refuse(w, kind)
                        \/ \E kind \in {"ok", "backendFailed"} : Complete(w, kind)
  \/ \E m \in Models : TakeOver(m)
  \/ \E S \in SUBSET Workers :
       Quit(S) \/ \E kind \in {"noModel", "lost", "failed"} : Fail(S, kind)
  \/ Lost

Spec == Init /\ [][Next]_callVars
=============================================================================
