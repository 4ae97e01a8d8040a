----------------------------- MODULE ModelStore -----------------------------
(***************************************************************************)
(* What the model directory promises of a unit's pinned files              *)
(* (model_download_job.h, download_policy.h): a file in place is the whole *)
(* pinned file, it stays that whatever becomes of the downloads, and it is *)
(* deleted only while a removal of the unit is under way.  A removal goes  *)
(* path by path and may stop half way, with a part of the unit left.  No   *)
(* job, task, inode, flush or crash appears here.                          *)
(***************************************************************************)
CONSTANT Pinned    \* the files with a SHA-256 and an exact size

VARIABLES
  part,     \* what is at a file's .partial path
  place,    \* what is at its final path
  removing  \* a cancelled download, or the user, removes the unit

storeVars == <<part, place, removing>>

Init ==
  /\ part = [f \in Pinned |-> "none"]
  /\ place = [f \in Pinned |-> "none"]
  /\ removing = FALSE

\* A download of f begins or resumes: alone, or while another has f open.
Begin(f) ==
  /\ \E how \in {"sole", "shared"} : part' = [part EXCEPT ![f] = how]
  /\ UNCHANGED <<place, removing>>

\* What was downloaded is not the pinned file, and is deleted.
Drop(f) ==
  /\ part[f] # "none"
  /\ part' = [part EXCEPT ![f] = "none"]
  /\ UNCHANGED <<place, removing>>

\* The download of f is moved into place.  Nothing is promised of a file that
\* two downloads wrote to.
Put(f) ==
  /\ part[f] # "none"
  /\ part' = [part EXCEPT ![f] = "none"]
  /\ place' = [place EXCEPT ![f] = IF part[f] = "sole" THEN "whole" ELSE "shared"]
  /\ UNCHANGED removing

\* A removal of the unit begins,
Ask ==
  /\ removing' = TRUE
  /\ UNCHANGED <<part, place>>

\* deletes one path after the other,
Remove(f) ==
  /\ removing /\ removing' \in BOOLEAN
  /\ \/ part' = [part EXCEPT ![f] = "none"] /\ UNCHANGED place
     \/ place' = [place EXCEPT ![f] = "none"] /\ UNCHANGED part

\* and ends, with all of it done or not.
End ==
  /\ removing' = FALSE
  /\ UNCHANGED <<part, place>>

Next ==
  \/ \E f \in Pinned : Begin(f) \/ Drop(f) \/ Put(f) \/ Remove(f)
  \/ Ask \/ End

Spec == Init /\ [][Next]_storeVars
=============================================================================
