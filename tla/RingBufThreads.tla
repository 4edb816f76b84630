--------------------------- MODULE RingBufThreads ---------------------------
(***************************************************************************)
(* One ring buffer (utils/ringbuf/src/ringbuf.c) used by two threads with  *)
(* no lock: a producer that writes chunks (the PortAudio callback, or the  *)
(* audioin worker pushing frames to a recogniser) and a consumer that      *)
(* reads them (the audioin worker, or the recogniser's worker).            *)
(*                                                                         *)
(* A write looks at both indices, copies byte by byte, and only then moves *)
(* head; a read does the same and then moves tail.  The steps of the two   *)
(* interleave.  RingBufferClear belongs to a third thread and is called    *)
(* here only while neither transfer is under way; that every caller but    *)
(* rasr.c respects this is checked in the modules of the callers.          *)
(***************************************************************************)
EXTENDS RingBuf, Sequences

CONSTANTS
  Byte,     (* the values of a byte, at least one                *)
  MaxLen    (* bound on the length of one write or read request  *)

ASSUME ByteAssumption == Byte # {}
ASSUME MaxLenAssumption == MaxLen \in Nat

VARIABLES
  buf,      (* ring_buf->buf                                         *)
  head,     (* ring_buf->head, moved by the producer                 *)
  tail,     (* ring_buf->tail, moved by the consumer                 *)
  wpc,      (* producer: "idle" or "copy"                            *)
  src,      (* the chunk being written                               *)
  copied,   (* how many of its bytes are in buf                      *)
  rpc,      (* consumer: "idle" or "copy"                            *)
  len,      (* the length of the read                                *)
  sync,     (* RINGBBUF_ATTR_SYNC: a read moves tail, a peek does not *)
  dst,      (* the bytes read so far                                 *)
  out       (* what the last completed read or peek returned         *)

writerVars == <<wpc, src, copied>>
readerVars == <<rpc, len, sync, dst, out>>
vars == <<buf, head, tail, writerVars, readerVars>>

Chunk == UNION {[1 .. n -> Byte] : n \in 0 .. MaxLen}

\* malloc leaves the bytes of the allocation undefined.
Init ==
  /\ buf \in [Index -> Byte]
  /\ head = 0 /\ tail = 0
  /\ wpc = "idle" /\ src = <<>> /\ copied = 0
  /\ rpc = "idle" /\ len = 0 /\ sync = FALSE /\ dst = <<>> /\ out = <<>>

-----------------------------------------------------------------------------
(* The producer.  A chunk that does not fit is refused and nothing changes. *)

WriteBegin(s) ==
  /\ wpc = "idle"
  /\ ~WriteOverflow(head, tail, Len(s))
  /\ wpc' = "copy" /\ src' = s /\ copied' = 0
  /\ UNCHANGED <<buf, head, tail, readerVars>>

WriteByte ==
  /\ wpc = "copy" /\ copied < Len(src)
  /\ buf' = [buf EXCEPT ![CellOf(head, Len(src), copied)] = src[copied + 1]]
  /\ copied' = copied + 1
  /\ UNCHANGED <<head, tail, wpc, src, readerVars>>

WriteEnd ==
  /\ wpc = "copy" /\ copied = Len(src)
  /\ head' = After(head, Len(src))
  /\ wpc' = "idle"
  /\ UNCHANGED <<buf, tail, src, copied, readerVars>>

-----------------------------------------------------------------------------
(* The consumer: RingBufferRead moves tail, RingBufferPeek leaves it.       *)

ReadBegin(n, s) ==
  /\ rpc = "idle"
  /\ ~ReadOverflow(head, tail, n)
  /\ rpc' = "copy" /\ len' = n /\ sync' = s /\ dst' = <<>>
  /\ UNCHANGED <<buf, head, tail, writerVars, out>>

ReadByte ==
  /\ rpc = "copy" /\ Len(dst) < len
  /\ dst' = Append(dst, buf[CellOf(tail, len, Len(dst))])
  /\ UNCHANGED <<buf, head, tail, writerVars, rpc, len, sync, out>>

ReadEnd ==
  /\ rpc = "copy" /\ Len(dst) = len
  /\ tail' = IF sync THEN After(tail, len) ELSE tail
  /\ rpc' = "idle" /\ out' = dst
  /\ UNCHANGED <<buf, head, writerVars, len, sync, dst>>

-----------------------------------------------------------------------------

Clear ==
  /\ wpc = "idle" /\ rpc = "idle"
  /\ head' = 0 /\ tail' = 0
  /\ UNCHANGED <<buf, writerVars, readerVars>>

Next ==
  \/ \E s \in Chunk : WriteBegin(s)
  \/ WriteByte \/ WriteEnd
  \/ \E n \in 0 .. MaxLen, s \in BOOLEAN : ReadBegin(n, s)
  \/ ReadByte \/ ReadEnd
  \/ Clear

Spec == Init /\ [][Next]_vars

-----------------------------------------------------------------------------
(* Properties.                                                              *)

\* Every variable stays in its range; in particular the indices never leave
\* the allocation, whatever lengths the wrapping copies of ringbuf.c take.
TypeOK ==
  /\ buf \in [Index -> Byte]
  /\ head \in Index /\ tail \in Index
  /\ wpc \in {"idle", "copy"} /\ src \in Chunk
  /\ copied \in 0 .. Len(src)
  /\ rpc \in {"idle", "copy"} /\ len \in 0 .. MaxLen /\ sync \in BOOLEAN
  /\ dst \in Seq(Byte) /\ out \in Seq(Byte)
  /\ rpc = "copy" => Len(dst) <= len

\* The cells that a thread with len bytes to transfer from p on will touch.
Cells(p, n) == {CellOf(p, n, i) : i \in 0 .. n - 1}

\* Though no lock protects buf, the memcpy of a write and the memcpy of a read
\* that overlap in time never touch the same byte.
NoDataRace ==
  wpc = "copy" /\ rpc = "copy"
    => Cells(head, Len(src)) \cap Cells(tail, len) = {}

\* The unread bytes, oldest first.
Contents == [i \in 1 .. DataSize(head, tail) |-> buf[After(tail, i - 1)]]

\* A transfer under way fits the indices as they are now, not only as they
\* were when it checked them, and what it copied so far is where it belongs.
TransfersFit ==
  /\ wpc = "copy" =>
       /\ Len(src) <= FreeSize(head, tail)
       /\ \A i \in 1 .. copied : buf[After(head, i - 1)] = src[i]
  /\ rpc = "copy" =>
       /\ len <= DataSize(head, tail)
       /\ \A i \in 1 .. Len(dst) : dst[i] = buf[After(tail, i - 1)]

\* Seen from its two users the ring is a bounded FIFO queue: a chunk appears
\* whole when the write returns, a read returns the oldest bytes unchanged.
Fifo == INSTANCE ByteFifo WITH queue <- Contents
FifoSpec == Fifo!Init /\ [][Fifo!Next]_Fifo!fifoVars

=============================================================================
