---------------------------- MODULE TorLifecycle ----------------------------
(***************************************************************************)
(* What TorManager promises its callers (tor_manager.h): MoltNet's Tor is  *)
(* off, starting or on; concurrent Launch() calls share one start and one  *)
(* result; only Stop() turns a running Tor off; a caller is answered once. *)
(* No process, file, task or generation appears here.                      *)
(***************************************************************************)
CONSTANT Requests

VARIABLES status, answer

lifecycleVars == <<status, answer>>

Init ==
  /\ status = "off"
  /\ answer = [r \in Requests |-> "unused"]

AnswerPending(result) ==
  answer' = [r \in Requests |-> IF answer[r] = "pending" THEN result
                                                         ELSE answer[r]]

\* Launch() while on: only a check of the circuit.
Check(r) ==
  /\ answer[r] = "unused" /\ status = "on"
  /\ answer' = [answer EXCEPT ![r] = "checking"]
  /\ UNCHANGED status

\* Launch() otherwise: begins a start or joins the one under way.
Ask(r) ==
  /\ answer[r] = "unused" /\ status # "on"
  /\ answer' = [answer EXCEPT ![r] = "pending"]
  /\ status' = "starting"

\* Launch() that cannot begin: no tor, or a processor MoltNet refuses.
Refuse(r) ==
  /\ answer[r] = "unused" /\ status = "off"
  /\ answer' = [answer EXCEPT ![r] = "failed"]
  /\ UNCHANGED status

CheckEnds(r) ==
  /\ answer[r] = "checking"
  /\ \E result \in {"ok", "failed"} : answer' = [answer EXCEPT ![r] = result]
  /\ UNCHANGED status

\* One result for every caller that waits.
StartEnds ==
  /\ status = "starting"
  /\ \/ status' = "on" /\ AnswerPending("ok")
     \/ status' = "off" /\ AnswerPending("failed")

Stop ==
  /\ status' = "off"
  /\ AnswerPending("failed")

Next ==
  \/ StartEnds \/ Stop
  \/ \E r \in Requests : Check(r) \/ Ask(r) \/ Refuse(r) \/ CheckEnds(r)

Spec == Init /\ [][Next]_lifecycleVars

\* A start and a check always come to an end.
FairSpec ==
  /\ Spec
  /\ WF_lifecycleVars(StartEnds)
  /\ \A r \in Requests : WF_lifecycleVars(CheckEnds(r))
=============================================================================
