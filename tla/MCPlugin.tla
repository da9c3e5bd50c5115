------------------------------ MODULE MCPlugin -------------------------------
(* Plugin for TLC.                                                         *)
EXTENDS Plugin, TLC

=============================================================================
