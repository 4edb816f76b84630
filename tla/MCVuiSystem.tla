----------------------------- MODULE MCVuiSystem -----------------------------
(* Instance of VuiSystem for TLC.  A chunk is a frame here and rings hold one  *)
(* frame; every other frame gives a result, and two results may wait.          *)
EXTENDS VuiSystem
=============================================================================
