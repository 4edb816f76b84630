------------------------------ MODULE ByteFifo ------------------------------
(***************************************************************************)
(* What a ring buffer promises its two users: a bounded queue of bytes.    *)
(* Whole chunks go in and whole chunks come out, in order.                 *)
(***************************************************************************)
EXTENDS Integers, Sequences

CONSTANTS
  Cap,      (* how many bytes the queue holds                  *)
  Chunk     (* the sequences of bytes a producer may hand over *)

VARIABLES
  queue,    (* the unread bytes, oldest first                *)
  out       (* what the last Get or Look handed to its user  *)

fifoVars == <<queue, out>>

Init == queue = <<>> /\ out = <<>>

Put(src) ==
  /\ Len(queue) + Len(src) <= Cap
  /\ queue' = queue \o src
  /\ out' = out

Get(len) ==
  /\ len <= Len(queue)
  /\ out' = SubSeq(queue, 1, len)
  /\ queue' = SubSeq(queue, len + 1, Len(queue))

Look(len) ==
  /\ len <= Len(queue)
  /\ out' = SubSeq(queue, 1, len)
  /\ queue' = queue

Flush == queue' = <<>> /\ out' = out

Next ==
  \/ \E src \in Chunk : Put(src)
  \/ \E len \in 0 .. Cap : Get(len) \/ Look(len)
  \/ Flush

Spec == Init /\ [][Next]_fifoVars

=============================================================================
