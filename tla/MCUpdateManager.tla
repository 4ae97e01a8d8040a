-------------------------- MODULE MCUpdateManager --------------------------
(* Instances of UpdateManager for TLC: the manifests the release key signed *)
(* are those of release 1, which is running, and of releases 2 and 3.       *)
EXTENDS UpdateManager, TLC

CONSTANTS f1, f2, f3

SignedReleases == {[tag |-> 1, file |-> f1],
                   [tag |-> 2, file |-> f2],
                   [tag |-> 3, file |-> f3]}
=============================================================================
