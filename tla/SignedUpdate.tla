---------------------------- MODULE SignedUpdate ----------------------------
(***************************************************************************)
(* What the updater promises (update_manager.h): one update at a time goes *)
(* from a signed manifest to the installed app, and the file that replaces *)
(* the app, while the browser is not running, is the one that manifest     *)
(* lists, unless it is spoiled after the last check.  No server, transfer, *)
(* directory or hash appears here.                                         *)
(***************************************************************************)
CONSTANTS
  Offers,     \* the manifests signed for a version newer than this one
  Files

VARIABLES
  running,    \* the browser runs
  stage,      \* how far the update at hand has come
  offer,      \* its manifest: a set, empty or of one
  spoiled,    \* its file went bad after the last check
  installed   \* the files that have replaced the app

updateVars == <<running, stage, offer, spoiled, installed>>

Init ==
  /\ running = TRUE
  /\ stage = "none"
  /\ offer = {}
  /\ spoiled = FALSE
  /\ installed = {}

\* A manifest's signature and release are accepted; its file is fetched.
Accept ==
  /\ running /\ stage = "none"
  /\ stage' = "accepted"
  /\ \E o \in Offers : offer' = {o}
  /\ UNCHANGED <<running, spoiled, installed>>

\* The file is the one the manifest lists: it can be installed.
Verify ==
  /\ running /\ stage = "accepted"
  /\ stage' = "ready"
  /\ UNCHANGED <<running, offer, spoiled, installed>>

\* A failure, or a new check.
Withdraw ==
  /\ running /\ stage \in {"accepted", "ready"}
  /\ stage' = "none"
  /\ offer' = {}
  /\ UNCHANGED <<running, spoiled, installed>>

\* The user installs: the helper has it now, and nothing takes it back.
Hand ==
  /\ running /\ stage = "ready"
  /\ stage' = "handed"
  /\ UNCHANGED <<running, offer, spoiled, installed>>

Quit ==
  /\ running /\ running' = FALSE
  /\ UNCHANGED <<stage, offer, spoiled, installed>>

\* The helper checks the file once more.
Check ==
  /\ ~running /\ stage = "handed"
  /\ \/ stage' = "checked" /\ UNCHANGED offer
     \/ stage' = "none" /\ offer' = {}
  /\ UNCHANGED <<running, spoiled, installed>>

Spoil ==
  /\ ~running /\ stage = "checked"
  /\ spoiled' = TRUE
  /\ UNCHANGED <<running, stage, offer, installed>>

\* The helper replaces the app, or fails to.
Install ==
  /\ ~running /\ stage = "checked"
  /\ stage' = "none"
  /\ offer' = {}
  /\ \/ UNCHANGED installed
     \/ installed' = installed \cup {o.file : o \in offer}
     \/ spoiled /\ \E f \in Files : installed' = installed \cup {f}
  /\ UNCHANGED <<running, spoiled>>

Next ==
  \/ Accept \/ Verify \/ Withdraw \/ Hand \/ Quit
  \/ Check \/ Spoil \/ Install

Spec == Init /\ [][Next]_updateVars
=============================================================================
