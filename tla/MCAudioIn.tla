------------------------------ MODULE MCAudioIn ------------------------------
(* Instance of AudioIn for TLC.  Chunks shorter and longer than a frame, and  *)
(* a ring of two frames that chunks can fill without a frame boundary.        *)
EXTENDS AudioIn
=============================================================================
