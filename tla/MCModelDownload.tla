-------------------------- MODULE MCModelDownload --------------------------
(* Instances of ModelDownload for TLC.                                      *)
EXTENDS ModelDownload, TLC

\* Weights of two blocks, a projector of one.
Sizes == [f \in Files |-> IF f = 1 THEN 2 ELSE 1]
=============================================================================
