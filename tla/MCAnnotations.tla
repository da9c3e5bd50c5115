---------------------------- MODULE MCAnnotations ----------------------------
(* Annotations for TLC.                                                    *)
EXTENDS Annotations, TLC

=============================================================================
