------------------------------- MODULE MCRasr -------------------------------
(* Instance of Rasr for TLC.  Frames of two units in a ring of two frames: as  *)
(* in the code the size of the allocation is no multiple of the frame, so      *)
(* reads and writes wrap at every offset.  Nothing but equality is asked of a  *)
(* session's number, so sessions are symmetric.                                *)
EXTENDS Rasr, TLC

Symmetry == Permutations(Sessions)
=============================================================================
