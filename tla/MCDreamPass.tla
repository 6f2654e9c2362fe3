---------------------------- MODULE MCDreamPass ----------------------------
(* Instances of DreamPass for TLC.                                         *)
EXTENDS DreamPass

=============================================================================
