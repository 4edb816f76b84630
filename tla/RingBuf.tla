------------------------------- MODULE RingBuf -------------------------------
(***************************************************************************)
(* The index arithmetic of utils/ringbuf/src/ringbuf.c.                    *)
(*                                                                         *)
(* A ring created for Cap bytes allocates Cap + 1, so that one byte always *)
(* stays free and an empty ring (head = tail) is told from a full one.     *)
(* The operators take the two indices as parameters, because the code's    *)
(* callers read and write them from different threads.                     *)
(***************************************************************************)
EXTENDS Integers

CONSTANT Cap          (* the size given to RingBufferCreate, in bytes *)

ASSUME CapAssumption == Cap \in Nat \ {0}   \* RingBufferCreate refuses the rest

Size == Cap + 1       \* RINGBBUF_FILL_BYTE_SIZE = 1

Index == 0 .. Size - 1

DataSize(head, tail) == (head + Size - tail) % Size

\* Mutant: forgets that one byte always stays free.
FreeSizeToTheBrim(head, tail) == Size - DataSize(head, tail)

FreeSize(head, tail) == Size - DataSize(head, tail) - 1

\* Mutant: counts the byte under head as data.
ReadOverflowLate(head, tail, len) == DataSize(head, tail) + 1 < len

ReadOverflow(head, tail, len) == DataSize(head, tail) < len

WriteOverflow(head, tail, len) == FreeSize(head, tail) < len

\* Mutant: advances without the remainder.
AfterNoWrap(p, len) == p + len

\* `pos`, the index after len bytes from p on.
After(p, len) == (p + len) % Size

\* Mutant: the second copy starts one byte too far.
CellOfShifted(p, len, i) ==
  IF After(p, len) >= p \/ i < Size - p THEN p + i ELSE i - (Size - p) + 1

\* The cell the two memcpy branches use for byte i of len bytes from p on:
\* one copy when pos >= p, otherwise Size - p bytes up to the end of the
\* allocation and the rest from its beginning.
CellOf(p, len, i) ==
  IF After(p, len) >= p \/ i < Size - p THEN p + i ELSE i - (Size - p)

=============================================================================
