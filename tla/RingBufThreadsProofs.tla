------------------------ MODULE RingBufThreadsProofs ------------------------
(***************************************************************************)
(* RingBufThreads is correct for every capacity, every byte alphabet and   *)
(* every bound on the length of a request: the indices stay in range, the  *)
(* two memcpys never meet, and the ring implements a bounded FIFO queue.   *)
(*                                                                         *)
(* The inductive invariant is TypeOK /\ TransfersFit.  TypeOK alone is not *)
(* inductive: that WriteByte hits a free cell depends on the reader having *)
(* only given cells back since the writer looked, which TransfersFit says. *)
(***************************************************************************)
EXTENDS RingBufThreads, SequenceTheorems, TLAPS

IInv == TypeOK /\ TransfersFit

-----------------------------------------------------------------------------
(* The index arithmetic of RingBuf, for every capacity: the remainders are  *)
(* replaced by case distinctions that are linear.                           *)

\* The allocation is one byte longer than the capacity.
LEMMA SizeType == Size \in Nat \ {0} /\ Cap \in Nat /\ Size = Cap + 1
BY CapAssumption DEF Size

\* A number below the modulus is its own remainder.
LEMMA ModSmall ==
  ASSUME NEW n \in Nat \ {0}, NEW x \in 0 .. n - 1
  PROVE  x % n = x
BY SMT

\* A number between the modulus and twice the modulus wraps once.
LEMMA ModOnce ==
  ASSUME NEW n \in Nat \ {0}, NEW x \in n .. 2 * n - 1
  PROVE  x % n = x - n
BY SMT

\* The number of unread bytes is the distance from tail to head round the ring,
\* and with the free bytes it makes up the capacity.
LEMMA SizesLinear ==
  ASSUME NEW h \in Index, NEW t \in Index
  PROVE  /\ DataSize(h, t) = IF h >= t THEN h - t ELSE h + Size - t
         /\ DataSize(h, t) \in 0 .. Cap
         /\ FreeSize(h, t) = Cap - DataSize(h, t)
<1> USE SizeType
<1>1. DataSize(h, t) = IF h >= t THEN h - t ELSE h + Size - t
  <2>1. CASE h >= t
    <3>1. h + Size - t \in Size .. 2 * Size - 1
      BY <2>1 DEF Index
    <3>2. DataSize(h, t) = (h + Size - t) - Size
      BY <3>1, ModOnce DEF DataSize
    <3> QED BY <2>1, <3>2 DEF Index
  <2>2. CASE h < t
    <3>1. h + Size - t \in 0 .. Size - 1
      BY <2>2 DEF Index
    <3>2. DataSize(h, t) = h + Size - t
      BY <3>1, ModSmall DEF DataSize
    <3> QED BY <2>2, <3>2 DEF Index
  <2> QED BY <2>1, <2>2 DEF Index
<1> QED BY <1>1 DEF Index, FreeSize

\* Advancing an index by at most the capacity wraps at most once.
LEMMA AfterLinear ==
  ASSUME NEW p \in Index, NEW n \in 0 .. Cap
  PROVE  /\ After(p, n) = IF p + n < Size THEN p + n ELSE p + n - Size
         /\ After(p, n) \in Index
<1> USE SizeType
<1>1. CASE p + n < Size
  <2>1. p + n \in 0 .. Size - 1
    BY <1>1 DEF Index
  <2>2. After(p, n) = p + n
    BY <2>1, ModSmall DEF After
  <2> QED BY <1>1, <2>1, <2>2 DEF Index
<1>2. CASE p + n >= Size
  <2>1. p + n \in Size .. 2 * Size - 1
    BY <1>2 DEF Index
  <2>2. After(p, n) = (p + n) - Size
    BY <2>1, ModOnce DEF After
  <2> QED BY <1>2, <2>1, <2>2 DEF Index
<1> QED BY <1>1, <1>2 DEF Index

\* The two memcpy branches of ringbuf.c put byte i of a transfer from p on in
\* the cell i places after p, whether or not the transfer wraps.
LEMMA CellIsAfter ==
  ASSUME NEW p \in Index, NEW n \in 0 .. Cap, NEW i \in 0 .. n - 1
  PROVE  CellOf(p, n, i) = After(p, i)
<1> USE SizeType
<1>1. i \in 0 .. Cap
  OBVIOUS
<1>2. After(p, n) = IF p + n < Size THEN p + n ELSE p + n - Size
  BY AfterLinear
<1>3. After(p, i) = IF p + i < Size THEN p + i ELSE p + i - Size
  BY <1>1, AfterLinear
<1>4. CellOf(p, n, i) = IF p + n < Size \/ i < Size - p THEN p + i
                        ELSE i - (Size - p)
  BY <1>2 DEF CellOf, Index
<1> QED BY <1>1, <1>3, <1>4 DEF Index

\* Two different offsets from one index give two different cells.
LEMMA AfterInjective ==
  ASSUME NEW p \in Index, NEW i \in 0 .. Cap, NEW j \in 0 .. Cap, i # j
  PROVE  After(p, i) # After(p, j)
<1>1. After(p, i) = IF p + i < Size THEN p + i ELSE p + i - Size
  BY AfterLinear
<1>2. After(p, j) = IF p + j < Size THEN p + j ELSE p + j - Size
  BY AfterLinear
<1> QED BY <1>1, <1>2, SizeType DEF Index

\* A free cell is never an unread cell.
LEMMA FreeIsNotData ==
  ASSUME NEW h \in Index, NEW t \in Index,
         NEW i \in 0 .. FreeSize(h, t) - 1, NEW j \in 0 .. DataSize(h, t) - 1
  PROVE  After(h, i) # After(t, j)
<1> DEFINE d == DataSize(h, t)
<1>1. /\ d = IF h >= t THEN h - t ELSE h + Size - t
      /\ d \in 0 .. Cap
      /\ FreeSize(h, t) = Cap - d
  BY SizesLinear
<1>2. i \in 0 .. Cap /\ j \in 0 .. Cap
  BY <1>1, SizeType
<1>3. After(h, i) = IF h + i < Size THEN h + i ELSE h + i - Size
  BY <1>2, AfterLinear
<1>4. After(t, j) = IF t + j < Size THEN t + j ELSE t + j - Size
  BY <1>2, AfterLinear
<1> HIDE DEF d
<1>5. i < Cap - d /\ j < d
  BY <1>1, SizeType DEF d
<1> QED BY <1>1, <1>2, <1>3, <1>4, <1>5, SizeType DEF Index

\* Publishing a write of n free bytes adds n to the data, and the cells after
\* the old head are the last n of the data.
LEMMA HeadMoves ==
  ASSUME NEW h \in Index, NEW t \in Index, NEW n \in 0 .. FreeSize(h, t)
  PROVE  /\ DataSize(After(h, n), t) = DataSize(h, t) + n
         /\ \A i \in 0 .. n - 1 : After(t, DataSize(h, t) + i) = After(h, i)
<1> DEFINE d == DataSize(h, t)
           a == After(h, n)
<1>1. /\ d = IF h >= t THEN h - t ELSE h + Size - t
      /\ d \in 0 .. Cap
      /\ FreeSize(h, t) = Cap - d
  BY SizesLinear
<1>2. n \in 0 .. Cap /\ d + n <= Cap
  BY <1>1, SizeType
<1>3. a \in Index /\ a = IF h + n < Size THEN h + n ELSE h + n - Size
  BY <1>2, AfterLinear
<1>4. DataSize(a, t) = IF a >= t THEN a - t ELSE a + Size - t
  BY <1>3, SizesLinear
<1> HIDE DEF d, a
<1>5. DataSize(a, t) = d + n
  BY <1>1, <1>2, <1>3, <1>4, SizeType DEF Index
<1>6. ASSUME NEW i \in 0 .. n - 1
      PROVE  After(t, d + i) = After(h, i)
  <2>1. i \in 0 .. Cap /\ d + i \in 0 .. Cap
    BY <1>1, <1>2, SizeType
  <2>2. After(h, i) = IF h + i < Size THEN h + i ELSE h + i - Size
    BY <2>1, AfterLinear
  <2>3. After(t, d + i) = IF t + (d + i) < Size THEN t + (d + i)
                          ELSE t + (d + i) - Size
    BY <2>1, AfterLinear
  <2> QED BY <1>1, <1>2, <2>1, <2>2, <2>3, SizeType DEF Index
<1> QED BY <1>5, <1>6 DEF d, a

\* Publishing a read of n unread bytes takes n from the data, and the cells
\* after the new tail are those that followed the first n.
LEMMA TailMoves ==
  ASSUME NEW h \in Index, NEW t \in Index, NEW n \in 0 .. DataSize(h, t)
  PROVE  /\ DataSize(h, After(t, n)) = DataSize(h, t) - n
         /\ \A i \in 0 .. DataSize(h, t) - n - 1 :
              After(After(t, n), i) = After(t, n + i)
<1> DEFINE d == DataSize(h, t)
           a == After(t, n)
<1>1. /\ d = IF h >= t THEN h - t ELSE h + Size - t
      /\ d \in 0 .. Cap
  BY SizesLinear
<1>2. n \in 0 .. Cap /\ n <= d
  BY <1>1, SizeType
<1>3. a \in Index /\ a = IF t + n < Size THEN t + n ELSE t + n - Size
  BY <1>2, AfterLinear
<1>4. DataSize(h, a) = IF h >= a THEN h - a ELSE h + Size - a
  BY <1>3, SizesLinear
<1> HIDE DEF d, a
<1>5. DataSize(h, a) = d - n
  BY <1>1, <1>2, <1>3, <1>4, SizeType DEF Index
<1>6. ASSUME NEW i \in 0 .. d - n - 1
      PROVE  After(a, i) = After(t, n + i)
  <2>1. i \in 0 .. Cap /\ n + i \in 0 .. Cap
    BY <1>1, <1>2, SizeType
  <2>2. After(a, i) = IF a + i < Size THEN a + i ELSE a + i - Size
    BY <1>3, <2>1, AfterLinear
  <2>3. After(t, n + i) = IF t + (n + i) < Size THEN t + (n + i)
                          ELSE t + (n + i) - Size
    BY <2>1, AfterLinear
  <2> QED BY <1>1, <1>2, <1>3, <2>1, <2>2, <2>3, SizeType DEF Index
<1> QED BY <1>5, <1>6 DEF d, a

-----------------------------------------------------------------------------
(* The invariant.                                                           *)

\* A chunk is a sequence of bytes of bounded length.
LEMMA ChunkType ==
  ASSUME NEW s \in Chunk
  PROVE  s \in Seq(Byte) /\ Len(s) \in 0 .. MaxLen /\ Len(s) \in Nat
         /\ s = [i \in 1 .. Len(s) |-> s[i]]
<1>1. PICK n \in 0 .. MaxLen : s \in [1 .. n -> Byte]
  BY DEF Chunk
<1>2. n \in Nat
  BY MaxLenAssumption
<1> QED BY <1>1, <1>2

\* The facts about the indices that the steps below need, in one place.
LEMMA IndexFacts ==
  ASSUME TypeOK
  PROVE  /\ head \in Index /\ tail \in Index
         /\ DataSize(head, tail) \in 0 .. Cap
         /\ FreeSize(head, tail) = Cap - DataSize(head, tail)
         /\ Cap \in Nat
         /\ \A n \in 0 .. Cap : After(head, n) \in Index /\ After(tail, n) \in Index
BY SizesLinear, AfterLinear, SizeType DEF TypeOK

\* An empty ring holds nothing.
LEMMA EmptyRing == DataSize(0, 0) = 0 /\ 0 \in Index
<1>1. 0 \in Index
  BY SizeType DEF Index
<1> QED BY <1>1, SizesLinear

\* Where a byte goes that the producer copies: a free cell, which is none of
\* the cells it filled before and none of the unread ones.
LEMMA WriteCell ==
  ASSUME IInv, WriteByte
  PROVE  /\ CellOf(head, Len(src), copied) = After(head, copied)
         /\ After(head, copied) \in Index
         /\ \A i \in 1 .. copied : After(head, i - 1) # After(head, copied)
         /\ \A i \in 1 .. DataSize(head, tail) :
              After(tail, i - 1) # After(head, copied)
<1> USE DEF IInv
<1>1. /\ Len(src) \in Nat /\ copied \in 0 .. Len(src) - 1
      /\ Len(src) <= FreeSize(head, tail)
  BY ChunkType DEF TypeOK, TransfersFit, WriteByte
<1>2. /\ head \in Index /\ tail \in Index /\ Cap \in Nat
      /\ DataSize(head, tail) \in 0 .. Cap
      /\ FreeSize(head, tail) = Cap - DataSize(head, tail)
  BY IndexFacts
<1>3. Len(src) \in 0 .. Cap /\ copied \in 0 .. Cap
  BY <1>1, <1>2
<1>4. copied \in 0 .. FreeSize(head, tail) - 1
  BY <1>1, <1>2
<1>5. CellOf(head, Len(src), copied) = After(head, copied)
  BY <1>1, <1>2, <1>3, CellIsAfter
<1>6. After(head, copied) \in Index
  BY <1>2, <1>3, AfterLinear
<1>7. ASSUME NEW i \in 1 .. copied
      PROVE  After(head, i - 1) # After(head, copied)
  <2>1. i - 1 \in 0 .. Cap /\ i - 1 # copied
    BY <1>2, <1>3
  <2> QED BY <2>1, <1>2, <1>3, AfterInjective
<1>8. ASSUME NEW i \in 1 .. DataSize(head, tail)
      PROVE  After(tail, i - 1) # After(head, copied)
  <2>1. i - 1 \in 0 .. DataSize(head, tail) - 1
    BY <1>2
  <2> QED BY <2>1, <1>2, <1>4, FreeIsNotData
<1> QED BY <1>5, <1>6, <1>7, <1>8

\* The cell the consumer copies its next byte from.
LEMMA ReadCell ==
  ASSUME IInv, ReadByte
  PROVE  /\ CellOf(tail, len, Len(dst)) = After(tail, Len(dst))
         /\ After(tail, Len(dst)) \in Index
         /\ Len(dst) \in 0 .. len - 1 /\ len \in Nat
<1> USE DEF IInv
<1>1. /\ len \in Nat /\ Len(dst) \in 0 .. len - 1
      /\ len <= DataSize(head, tail)
  BY MaxLenAssumption DEF TypeOK, TransfersFit, ReadByte
<1>2. tail \in Index /\ Cap \in Nat /\ DataSize(head, tail) \in 0 .. Cap
  BY IndexFacts
<1>3. len \in 0 .. Cap /\ Len(dst) \in 0 .. Cap
  BY <1>1, <1>2
<1> QED BY <1>1, <1>2, <1>3, CellIsAfter, AfterLinear

-----------------------------------------------------------------------------
(* The invariant.                                                           *)

\* The strengthened invariant holds of a created, empty ring.
LEMMA InvInit == Init => IInv
<1> SUFFICES ASSUME Init PROVE IInv
  OBVIOUS
<1>1. <<>> \in Chunk
  <2>1. <<>> \in [1 .. 0 -> Byte] /\ 0 \in 0 .. MaxLen
    BY MaxLenAssumption
  <2> QED BY <2>1 DEF Chunk
<1>2. TypeOK
  BY <1>1, EmptyRing, MaxLenAssumption DEF Init, TypeOK
<1>3. TransfersFit
  BY DEF Init, TransfersFit
<1> QED BY <1>2, <1>3 DEF IInv

\* No step of ringbuf.c takes a variable out of its range.
LEMMA TypeStep == IInv /\ [Next]_vars => TypeOK'
<1> SUFFICES ASSUME IInv, [Next]_vars PROVE TypeOK'
  OBVIOUS
<1> USE DEF TypeOK, IInv, vars, writerVars, readerVars
<1>1. ASSUME NEW s \in Chunk, WriteBegin(s) PROVE TypeOK'
  <2>1. 0 \in 0 .. Len(s)
    BY ChunkType
  <2> QED BY <1>1, <2>1 DEF WriteBegin
<1>2. CASE WriteByte
  <2>1. buf' \in [Index -> Byte]
    <3>1. Len(src) \in Nat /\ copied + 1 \in 1 .. Len(src) /\ src \in Seq(Byte)
      BY <1>2, ChunkType DEF WriteByte
    <3>2. src[copied + 1] \in Byte
      BY <3>1
    <3> QED BY <1>2, <3>2 DEF WriteByte
  <2>2. copied' \in 0 .. Len(src')
    BY <1>2, ChunkType DEF WriteByte
  <2> QED BY <1>2, <2>1, <2>2 DEF WriteByte
<1>3. CASE WriteEnd
  <2>1. Len(src) \in 0 .. Cap
    BY <1>3, ChunkType, IndexFacts DEF WriteEnd, TransfersFit
  <2>2. head' \in Index
    BY <1>3, <2>1, IndexFacts DEF WriteEnd
  <2> QED BY <1>3, <2>2 DEF WriteEnd
<1>4. ASSUME NEW n \in 0 .. MaxLen, NEW s \in BOOLEAN, ReadBegin(n, s)
      PROVE  TypeOK'
  BY <1>4, MaxLenAssumption DEF ReadBegin
<1>5. CASE ReadByte
  <2>1. buf[CellOf(tail, len, Len(dst))] \in Byte
    BY <1>5, ReadCell
  <2>2. dst' \in Seq(Byte) /\ Len(dst') = Len(dst) + 1
    BY <1>5, <2>1 DEF ReadByte
  <2> QED BY <1>5, <2>2, ReadCell DEF ReadByte
<1>6. CASE ReadEnd
  <2>1. len \in 0 .. Cap
    BY <1>6, IndexFacts, MaxLenAssumption DEF ReadEnd, TransfersFit
  <2>2. tail' \in Index
    BY <1>6, <2>1, IndexFacts DEF ReadEnd
  <2> QED BY <1>6, <2>2 DEF ReadEnd
<1>7. CASE Clear
  BY <1>7, EmptyRing DEF Clear
<1>8. CASE UNCHANGED vars
  BY <1>8
<1> QED BY <1>1, <1>2, <1>3, <1>4, <1>5, <1>6, <1>7, <1>8 DEF Next

\* No step makes a transfer under way unfit: the other thread only ever gives
\* it more room or more data.
LEMMA FitStep == IInv /\ [Next]_vars => TransfersFit'
<1> SUFFICES ASSUME IInv, [Next]_vars PROVE TransfersFit'
  OBVIOUS
<1> USE DEF TransfersFit, IInv, vars, writerVars, readerVars
<1>1. ASSUME NEW s \in Chunk, WriteBegin(s) PROVE TransfersFit'
  BY <1>1, ChunkType, IndexFacts DEF WriteBegin, WriteOverflow
<1>2. CASE WriteByte
  <2>1. ASSUME NEW i \in 1 .. copied'
        PROVE  (buf[After(head, i - 1)] = src[i])'
    <3>1. copied \in Nat /\ copied' = copied + 1
      BY <1>2, ChunkType DEF WriteByte, TypeOK
    <3>2. CASE i = copied + 1
      <4>1. i - 1 = copied
        BY <3>1, <3>2
      <4> QED BY <1>2, <3>2, <4>1, WriteCell DEF WriteByte, TypeOK
    <3>3. CASE i \in 1 .. copied
      BY <1>2, <3>3, WriteCell DEF WriteByte
    <3> QED BY <3>1, <3>2, <3>3
  <2>2. ASSUME rpc = "copy", NEW i \in 1 .. Len(dst)
        PROVE  (dst[i] = buf[After(tail, i - 1)])'
    <3>1. i \in 1 .. DataSize(head, tail)
      BY <2>2, IndexFacts, MaxLenAssumption DEF TypeOK
    <3> QED BY <1>2, <2>2, <3>1, WriteCell DEF WriteByte
  <2> QED BY <1>2, <2>1, <2>2 DEF WriteByte
<1>3. CASE WriteEnd
  <2>1. Len(src) \in 0 .. FreeSize(head, tail)
    BY <1>3, ChunkType, IndexFacts DEF WriteEnd, TypeOK
  <2>2. DataSize(head', tail) = DataSize(head, tail) + Len(src)
    BY <1>3, <2>1, HeadMoves, IndexFacts DEF WriteEnd
  <2>3. rpc = "copy" => len <= DataSize(head', tail)
    BY <2>1, <2>2, IndexFacts, MaxLenAssumption DEF TypeOK
  <2> QED BY <1>3, <2>3 DEF WriteEnd
<1>4. ASSUME NEW n \in 0 .. MaxLen, NEW s \in BOOLEAN, ReadBegin(n, s)
      PROVE  TransfersFit'
  BY <1>4, IndexFacts, MaxLenAssumption DEF ReadBegin, ReadOverflow
<1>5. CASE ReadByte
  <2>1. ASSUME NEW i \in 1 .. Len(dst')
        PROVE  dst'[i] = buf[After(tail, i - 1)]
    <3>1. /\ buf[After(tail, Len(dst))] \in Byte /\ dst \in Seq(Byte)
          /\ dst' = Append(dst, buf[After(tail, Len(dst))])
      BY <1>5, ReadCell DEF ReadByte, TypeOK
    <3>2. i \in 1 .. Len(dst) \/ i = Len(dst) + 1
      BY <3>1
    <3>3. CASE i \in 1 .. Len(dst)
      BY <1>5, <3>1, <3>3 DEF ReadByte
    <3>4. CASE i = Len(dst) + 1
      <4>1. i - 1 = Len(dst)
        BY <3>1, <3>4
      <4>2. dst'[Len(dst) + 1] = buf[After(tail, Len(dst))]
        BY <3>1
      <4> QED BY <3>4, <4>1, <4>2
    <3> QED BY <3>2, <3>3, <3>4
  <2> QED BY <1>5, <2>1 DEF ReadByte
<1>6. CASE ReadEnd
  <2>1. CASE sync
    <3>1. len \in 0 .. DataSize(head, tail)
      BY <1>6, IndexFacts, MaxLenAssumption DEF ReadEnd, TypeOK
    <3>2. tail' \in Index
      BY <1>6, <3>1, IndexFacts DEF ReadEnd
    <3>3. DataSize(head, tail') = DataSize(head, tail) - len
      BY <1>6, <2>1, <3>1, TailMoves, IndexFacts DEF ReadEnd
    <3>4. FreeSize(head, tail') = Cap - DataSize(head, tail')
      BY <3>2, SizesLinear, IndexFacts
    <3>5. wpc = "copy" => Len(src) <= FreeSize(head, tail')
      BY <3>1, <3>3, <3>4, IndexFacts, ChunkType DEF TypeOK
    <3> QED BY <1>6, <3>5 DEF ReadEnd
  <2>2. CASE ~sync
    BY <1>6, <2>2 DEF ReadEnd
  <2> QED BY <2>1, <2>2
<1>7. CASE Clear
  BY <1>7 DEF Clear
<1>8. CASE UNCHANGED vars
  BY <1>8
<1> QED BY <1>1, <1>2, <1>3, <1>4, <1>5, <1>6, <1>7, <1>8 DEF Next

\* The strengthened invariant is inductive.
LEMMA InvStep == IInv /\ [Next]_vars => IInv'
BY TypeStep, FitStep DEF IInv

\* It therefore holds in every reachable state.
LEMMA Invariant == Spec => []IInv
BY InvInit, InvStep, PTL DEF Spec

\* Every variable keeps its type: no index ever leaves the allocation.
THEOREM TypeCorrect == Spec => []TypeOK
<1>1. IInv => TypeOK
  BY DEF IInv
<1> QED BY <1>1, Invariant, PTL

\* What a transfer found free (or unread) when it checked is still free (or
\* unread) until it moves its index, although the other thread moves the other.
THEOREM TransfersStayFit == Spec => []TransfersFit
<1>1. IInv => TransfersFit
  BY DEF IInv
<1> QED BY <1>1, Invariant, PTL

-----------------------------------------------------------------------------
(* The two memcpys.                                                         *)

\* The cells of a transfer that fits are those the indices give it.
LEMMA RaceFree == IInv => NoDataRace
<1> SUFFICES ASSUME IInv, wpc = "copy", rpc = "copy",
                    NEW i \in 0 .. Len(src) - 1, NEW j \in 0 .. len - 1
             PROVE  CellOf(head, Len(src), i) # CellOf(tail, len, j)
  BY DEF NoDataRace, Cells
<1>1. /\ Len(src) \in 0 .. FreeSize(head, tail)
      /\ len \in 0 .. DataSize(head, tail)
  BY ChunkType, IndexFacts, MaxLenAssumption DEF IInv, TypeOK, TransfersFit
<1>2. /\ Len(src) \in 0 .. Cap /\ len \in 0 .. Cap
      /\ i \in 0 .. FreeSize(head, tail) - 1
      /\ j \in 0 .. DataSize(head, tail) - 1
  BY <1>1, IndexFacts DEF IInv
<1>3. CellOf(head, Len(src), i) = After(head, i)
  BY <1>2, CellIsAfter, IndexFacts DEF IInv
<1>4. CellOf(tail, len, j) = After(tail, j)
  BY <1>2, CellIsAfter, IndexFacts DEF IInv
<1> QED BY <1>2, <1>3, <1>4, FreeIsNotData, IndexFacts DEF IInv

\* No byte is copied in by one thread while the other copies it out, although
\* ringbuf.c takes no lock.
THEOREM DataRaceFreedom == Spec => []NoDataRace
BY RaceFree, Invariant, PTL

-----------------------------------------------------------------------------
(* The ring implements ByteFifo.                                            *)

\* Contents is a sequence of bytes, as long as the indices say.
LEMMA ContentsType ==
  ASSUME TypeOK
  PROVE  /\ Contents \in Seq(Byte)
         /\ Len(Contents) = DataSize(head, tail)
         /\ \A i \in 1 .. DataSize(head, tail) :
              Contents[i] = buf[After(tail, i - 1)]
<1>1. DataSize(head, tail) \in 0 .. Cap /\ Cap \in Nat /\ tail \in Index
  BY IndexFacts
<1>2. ASSUME NEW i \in 1 .. DataSize(head, tail)
      PROVE  buf[After(tail, i - 1)] \in Byte
  <2>1. i - 1 \in 0 .. Cap
    BY <1>1
  <2> QED BY <2>1, IndexFacts DEF TypeOK
<1> QED BY <1>1, <1>2 DEF Contents

\* A step that leaves the indices and the unread cells alone leaves Contents.
LEMMA SameContents ==
  ASSUME TypeOK, head' = head, tail' = tail,
         \A i \in 1 .. DataSize(head, tail) :
           buf'[After(tail, i - 1)] = buf[After(tail, i - 1)]
  PROVE  Contents' = Contents
BY DEF Contents

\* A created ring is an empty queue.
LEMMA RefineInit == Init => Fifo!Init
<1> SUFFICES ASSUME Init PROVE Contents = <<>>
  BY DEF Init, Fifo!Init
<1>1. DataSize(head, tail) = 0
  BY EmptyRing DEF Init
<1> QED BY <1>1 DEF Contents

\* Two sequences of bytes, one after the other.
LEMMA TwoChunks ==
  ASSUME NEW s \in Seq(Byte), NEW t \in Seq(Byte)
  PROVE  s \o t = [i \in 1 .. Len(s) + Len(t) |->
                      IF i <= Len(s) THEN s[i] ELSE t[i - Len(s)]]
<1>1. /\ s \o t \in Seq(Byte) /\ Len(s \o t) = Len(s) + Len(t)
      /\ \A i \in 1 .. Len(s) + Len(t) :
           (s \o t)[i] = IF i <= Len(s) THEN s[i] ELSE t[i - Len(s)]
  BY ConcatProperties, Zenon
<1>2. s \o t = [i \in 1 .. Len(s \o t) |-> (s \o t)[i]]
  BY <1>1, LenProperties, Zenon
<1> QED BY <1>1, <1>2, Zenon

\* The step in which a write becomes visible is the abstract Put.
LEMMA RefineWriteEnd == IInv /\ WriteEnd => Fifo!Put(src)
<1> SUFFICES ASSUME IInv, WriteEnd PROVE Fifo!Put(src)
  OBVIOUS
<1> DEFINE d == DataSize(head, tail)
           n == Len(src)
<1>1. /\ d \in 0 .. Cap /\ Cap \in Nat /\ head \in Index /\ tail \in Index
      /\ n \in 0 .. FreeSize(head, tail) /\ FreeSize(head, tail) = Cap - d
      /\ src \in Seq(Byte) /\ copied = n
  BY ChunkType, IndexFacts DEF IInv, TypeOK, TransfersFit, WriteEnd
<1>2. /\ DataSize(head', tail) = d + n
      /\ \A i \in 0 .. n - 1 : After(tail, d + i) = After(head, i)
  BY <1>1, HeadMoves DEF WriteEnd
<1>3. /\ Contents \in Seq(Byte) /\ Len(Contents) = d
      /\ \A i \in 1 .. d : Contents[i] = buf[After(tail, i - 1)]
  BY ContentsType DEF IInv
<1>4. \A i \in 1 .. n : buf[After(head, i - 1)] = src[i]
  BY <1>1 DEF IInv, TransfersFit, WriteEnd
<1>5. Contents' = [i \in 1 .. d + n |-> buf[After(tail, i - 1)]]
  BY <1>2 DEF Contents, WriteEnd
<1> HIDE DEF d
<1>6. ASSUME NEW i \in 1 .. d + n
      PROVE  buf[After(tail, i - 1)] = IF i <= d THEN Contents[i] ELSE src[i - d]
  <2>1. CASE i <= d
    BY <1>1, <1>3, <2>1
  <2>2. CASE i > d
    <3>1. i - d \in 1 .. n /\ i - 1 = d + (i - d - 1) /\ i - d - 1 \in 0 .. n - 1
      BY <1>1, <2>2
    <3> QED BY <1>1, <1>2, <1>4, <2>2, <3>1
  <2> QED BY <1>1, <2>1, <2>2
<1>7. Contents' = Contents \o src
  <2>1. Contents \o src = [i \in 1 .. d + n |->
                            IF i <= d THEN Contents[i] ELSE src[i - d]]
    BY <1>1, <1>3, TwoChunks
  <2> QED BY <1>5, <1>6, <2>1
<1>8. Len(Contents) + Len(src) <= Cap
  BY <1>1, <1>3
<1> QED BY <1>7, <1>8 DEF Fifo!Put, WriteEnd, readerVars

\* The step that moves tail is the abstract Get; a peek is a Look.
LEMMA RefineReadEnd == IInv /\ ReadEnd => Fifo!Get(len) \/ Fifo!Look(len)
<1> SUFFICES ASSUME IInv, ReadEnd PROVE Fifo!Get(len) \/ Fifo!Look(len)
  OBVIOUS
<1> DEFINE d == DataSize(head, tail)
<1>1. /\ d \in 0 .. Cap /\ Cap \in Nat /\ head \in Index /\ tail \in Index
      /\ len \in 0 .. d /\ dst \in Seq(Byte) /\ Len(dst) = len
  BY IndexFacts, MaxLenAssumption DEF IInv, TypeOK, TransfersFit, ReadEnd
<1>2. /\ Contents \in Seq(Byte) /\ Len(Contents) = d
      /\ \A i \in 1 .. d : Contents[i] = buf[After(tail, i - 1)]
  BY ContentsType DEF IInv
<1>3. \A i \in 1 .. len : dst[i] = buf[After(tail, i - 1)]
  BY <1>1 DEF IInv, TransfersFit, ReadEnd
<1>4. /\ DataSize(head, After(tail, len)) = d - len
      /\ \A i \in 0 .. d - len - 1 :
           After(After(tail, len), i) = After(tail, len + i)
  BY <1>1, TailMoves
<1> HIDE DEF d
<1>5. out' = SubSeq(Contents, 1, len)
  <2>1. \A i \in 1 .. len : dst[i] = Contents[i]
    BY <1>1, <1>2, <1>3
  <2>2. dst = SubSeq(Contents, 1, len)
    BY <1>1, <1>2, <2>1
  <2> QED BY <2>2 DEF ReadEnd
<1>6. CASE sync
  <2>1. Contents' = [i \in 1 .. d - len |-> buf[After(After(tail, len), i - 1)]]
    BY <1>4, <1>6 DEF Contents, ReadEnd
  <2>2. ASSUME NEW i \in 1 .. d - len
        PROVE  buf[After(After(tail, len), i - 1)] = Contents[len + i]
    <3>1. i - 1 \in 0 .. d - len - 1 /\ len + (i - 1) = (len + i) - 1
          /\ len + i \in 1 .. d
      BY <1>1
    <3> QED BY <1>2, <1>4, <3>1
  <2>3. Contents' = SubSeq(Contents, len + 1, d)
    <3>1. SubSeq(Contents, len + 1, d) = [i \in 1 .. d - len |-> Contents[len + i]]
      BY <1>1, <1>2
    <3> QED BY <2>1, <2>2, <3>1
  <2> QED BY <1>1, <1>2, <1>5, <2>3 DEF Fifo!Get
<1>7. CASE ~sync
  <2>1. Contents' = Contents
    BY <1>7 DEF Contents, ReadEnd
  <2> QED BY <1>1, <1>2, <1>5, <2>1 DEF Fifo!Look
<1> QED BY <1>6, <1>7

\* Every step is a step of the queue, or changes nothing its users can see.
LEMMA RefineStep == IInv /\ [Next]_vars => [Fifo!Next]_Fifo!fifoVars
<1> SUFFICES ASSUME IInv, [Next]_vars PROVE [Fifo!Next]_Fifo!fifoVars
  OBVIOUS
<1> USE DEF vars, writerVars, readerVars, Fifo!fifoVars
<1>0. TypeOK
  BY DEF IInv
<1>1. ASSUME NEW s \in Chunk, WriteBegin(s) PROVE UNCHANGED Fifo!fifoVars
  BY <1>0, <1>1, SameContents DEF WriteBegin
<1>2. ASSUME WriteByte PROVE UNCHANGED Fifo!fifoVars
  <2>1. \A i \in 1 .. DataSize(head, tail) :
          buf'[After(tail, i - 1)] = buf[After(tail, i - 1)]
    <3>1. ASSUME NEW i \in 1 .. DataSize(head, tail)
          PROVE  After(tail, i - 1) \in Index
      <4>1. i - 1 \in 0 .. Cap
        BY <1>0, IndexFacts
      <4> QED BY <1>0, <4>1, IndexFacts
    <3> QED BY <1>0, <1>2, <3>1, WriteCell DEF WriteByte, TypeOK
  <2> QED BY <1>0, <1>2, <2>1, SameContents DEF WriteByte
<1>3. ASSUME WriteEnd PROVE Fifo!Next
  <2>1. src \in Chunk
    BY <1>0 DEF TypeOK
  <2> QED BY <1>3, <2>1, RefineWriteEnd DEF Fifo!Next
<1>4. ASSUME NEW n \in 0 .. MaxLen, NEW s \in BOOLEAN, ReadBegin(n, s)
      PROVE  UNCHANGED Fifo!fifoVars
  BY <1>0, <1>4, SameContents DEF ReadBegin
<1>5. ASSUME ReadByte PROVE UNCHANGED Fifo!fifoVars
  BY <1>0, <1>5, SameContents DEF ReadByte
<1>6. ASSUME ReadEnd PROVE Fifo!Next
  <2>1. len \in 0 .. Cap
    BY <1>0, <1>6, IndexFacts, MaxLenAssumption
       DEF IInv, TypeOK, TransfersFit, ReadEnd
  <2> QED BY <1>6, <2>1, RefineReadEnd DEF Fifo!Next
<1>7. ASSUME Clear PROVE Fifo!Flush
  <2>1. DataSize(head', tail') = 0
    BY <1>7, EmptyRing DEF Clear
  <2>2. Contents' = <<>>
    BY <2>1 DEF Contents
  <2> QED BY <1>7, <2>2 DEF Clear, Fifo!Flush
<1>8. ASSUME UNCHANGED vars PROVE UNCHANGED Fifo!fifoVars
  BY <1>0, <1>8, SameContents
<1> QED BY <1>1, <1>2, <1>3, <1>4, <1>5, <1>6, <1>7, <1>8 DEF Next, Fifo!Next

\* Two threads that copy byte by byte and move their index at the end see a
\* bounded FIFO queue of bytes whose operations are atomic.
THEOREM RingIsFifo == Spec => FifoSpec
BY Invariant, RefineInit, RefineStep, PTL DEF Spec, FifoSpec

=============================================================================
