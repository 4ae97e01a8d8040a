---------------------------- MODULE MCTorManager ----------------------------
(* Small instances of TorManager for TLC. *)
EXTENDS TorManager, TLC

\* Calls and processes are interchangeable: no action tells them apart.
Symmetry == Permutations(Requests) \cup Permutations(Procs)
=============================================================================
