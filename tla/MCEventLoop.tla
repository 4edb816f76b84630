----------------------------- MODULE MCEventLoop -----------------------------
(* Instance of EventLoop for TLC.  Three events: one in the hands of each of   *)
(* the two threads that take events out, and one more in a list.               *)
EXTENDS EventLoop
=============================================================================
