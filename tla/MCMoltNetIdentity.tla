-------------------------- MODULE MCMoltNetIdentity --------------------------
(* MoltNetIdentity on small sets of identities, contexts and calls, which the *)
(* .cfg files give.  The identities are not declared symmetric: the switch    *)
(* run checks liveness.                                                       *)
EXTENDS MoltNetIdentity
=============================================================================
