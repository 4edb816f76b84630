------------------------------- MODULE MCLasr -------------------------------
(* Instance of Lasr for TLC.  Three sessions numbers let two sessions differ *)
(* and a number come back; a result every other frame, in a ring of two.     *)
EXTENDS Lasr
=============================================================================
