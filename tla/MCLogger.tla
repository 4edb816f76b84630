------------------------------ MODULE MCLogger ------------------------------
(* Logger with two threads and a buffer of four bytes, for TLC. *)
EXTENDS Logger, TLC

CONSTANTS t1, t2

MCThread == {t1, t2}
MCPrefixes == {1}
MCMessages == {0, 2, 3}
MCSymmetry == Permutations(MCThread)

=============================================================================
