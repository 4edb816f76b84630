-------------------------- MODULE MCRingBufThreads --------------------------
(* Instance of RingBufThreads for TLC.                                      *)
EXTENDS RingBufThreads
=============================================================================
