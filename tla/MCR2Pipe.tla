------------------------------ MODULE MCR2Pipe -------------------------------
(* R2Pipe for TLC.                                                         *)
EXTENDS R2Pipe, TLC

WorkerSymmetry == Permutations(Workers)
=============================================================================
