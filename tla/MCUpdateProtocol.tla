-------------------------- MODULE MCUpdateProtocol --------------------------
(***************************************************************************)
(* Instances of UpdateProtocol for TLC.  Thread slots are interchangeable, *)
(* which only a run without liveness properties may use.                   *)
(***************************************************************************)
EXTENDS UpdateProtocol, TLC

WorkerSymmetry == Permutations(Workers)
=============================================================================
