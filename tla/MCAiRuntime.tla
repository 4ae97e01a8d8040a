---------------------------- MODULE MCAiRuntime ----------------------------
(***************************************************************************)
(* AiRuntime for TLC.  The models are alike where all may use the GPU or   *)
(* none may.                                                               *)
(***************************************************************************)
EXTENDS AiRuntime, TLC

Alike == Permutations(Models)
=============================================================================
