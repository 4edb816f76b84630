----------------------------- MODULE RasrProofs -----------------------------
(***************************************************************************)
(* Proofs about Rasr, for every size of a frame and of the ring and any    *)
(* sessions.  Nothing keeps START from clearing the ring while the worker  *)
(* reads, so two things are worth a proof: that the indices stay inside    *)
(* the allocation all the same, and that unless START did meet a read no   *)
(* copy is longer than a frame and a session is clean of the audio before  *)
(* it.                                                                     *)
(*                                                                         *)
(* Neither is inductive.  TypeOK needs to know which of its two branches a *)
(* copy has taken, and what of that a clear leaves true (CopyFits).  That  *)
(* a copy is no longer than a frame needs both indices of its branch to be *)
(* those of one ring (ReadInv).  A clean session is a ring of whole        *)
(* frames, each cell with the unit its place in the frame asks for, and a  *)
(* read that has got no further than it should with the indices it loaded  *)
(* (CleanInv).                                                             *)
(***************************************************************************)
EXTENDS Rasr, TLAPS

D == R!DataSize(head, tail)

\* A copy of no more than a frame stays within the allocation, though tail may have
\* been set to 0 between any two of its steps.
CopyFits == wpc = "copy" /\ remain <= FrameUnits => tail + remain <= R!Size

BranchFits == wpc = "branch" => pos = R!After(tail, FrameUnits) \/ tail = 0

TypeInv == TypeOK /\ CopyFits /\ BranchFits

\* A read that no clear has met goes by one value of tail, and copies a frame.
ReadInv ==
  ~met =>
    /\ wpc \in {"branch", "remain", "copy", "commit"} => pos = R!After(tail, FrameUnits)
    /\ wpc = "remain" => pos < tail
    /\ wpc = "copy" => remain = IF pos >= tail THEN FrameUnits ELSE R!Size - tail
    /\ Defined

\* Unit j of what is in the ring, counted from tail.
UnitAt(j) == <<vui_id, 1 + (j % FrameUnits)>>

\* The ring holds whole frames of the session ...
RingFresh ==
  /\ D % FrameUnits = 0
  /\ \A j \in 0 .. D - 1 : buf[R!After(tail, j)] = UnitAt(j)

\* ... and so does the worker.  The head it has loaded may be out of date, but only
\* on the side of less audio.
WorkerFresh ==
  /\ wpc \in {"size_tail", "check_tail"} => R!DataSize(h, tail) <= D
  /\ wpc = "check_tail" => R!DataSize(h, tail) >= FrameUnits
  /\ wpc \in {"check_head", "check_tail", "pos", "branch", "remain", "copy", "commit"} =>
       D >= FrameUnits
  /\ wpc \in {"commit", "do"} => cur = FrameOf(vui_id)

Clearing == cpc \in {"clear_tail", "clear_head"}

CleanInv == ~met /\ ~Clearing => RingFresh /\ WorkerFresh

IInv == TypeInv /\ ReadInv /\ CleanInv

-----------------------------------------------------------------------------
(* Remainders.                                                              *)

\* Division with remainder.
LEMMA Division ==
  ASSUME NEW n \in Nat \ {0}, NEW x \in Nat
  PROVE  x \div n \in Nat /\ x % n \in 0 .. n - 1 /\ x = (x \div n) * n + (x % n)
BY SMT

LEMMA RemainderOf ==
  ASSUME NEW n \in Nat \ {0}, NEW q \in Nat, NEW r \in 0 .. n - 1
  PROVE  (q * n + r) % n = r
BY SMT

\* A whole frame more changes no remainder.
LEMMA FrameMore ==
  ASSUME NEW n \in Nat \ {0}, NEW x \in Nat
  PROVE  (x + n) % n = x % n
<1>1. PICK q \in Nat, r \in 0 .. n - 1 : x = q * n + r /\ r = x % n
  BY Division
<1>2. x + n = (q + 1) * n + r /\ q + 1 \in Nat
  BY <1>1
<1> QED BY <1>1, <1>2, RemainderOf

\* The units that follow whole frames begin a frame.
LEMMA FrameBegins ==
  ASSUME NEW n \in Nat \ {0}, NEW d \in Nat, d % n = 0, NEW i \in 0 .. n - 1
  PROVE  (d + i) % n = i
BY SMT

-----------------------------------------------------------------------------
(* The indices, without remainders.                                         *)

\* The allocation is longer than a frame.
LEMMA Sizes == FrameUnits \in Nat \ {0} /\ R!Size \in Nat \ {0} /\ FrameUnits < R!Size
<1>1. RingFrames * FrameUnits \in Nat /\ RingFrames * FrameUnits >= FrameUnits
  BY FrameUnitsAssumption, RingFramesAssumption
<1> QED BY <1>1, FrameUnitsAssumption DEF R!Size

LEMMA Wraps ==
  ASSUME NEW n \in Nat \ {0}, NEW x \in 0 .. 2 * n - 1
  PROVE  x % n = IF x < n THEN x ELSE x - n
BY SMT

\* The audio in the ring is the distance from tail to head, and what is free is
\* the rest but one.
LEMMA DataLinear ==
  ASSUME NEW a \in R!Index, NEW t \in R!Index
  PROVE  /\ R!DataSize(a, t) = IF a >= t THEN a - t ELSE a + R!Size - t
         /\ R!DataSize(a, t) \in 0 .. R!Size - 1
         /\ R!FreeSize(a, t) = R!Size - 1 - R!DataSize(a, t)
<1> DEFINE x == a + R!Size - t
<1>1. x \in 0 .. 2 * R!Size - 1
  BY Sizes DEF R!Index
<1>2. R!DataSize(a, t) = x % R!Size
  BY DEF R!DataSize
<1>3. x % R!Size = IF x < R!Size THEN x ELSE x - R!Size
  <2> HIDE DEF x
  <2> QED BY <1>1, Wraps, Sizes
<1> QED BY <1>2, <1>3, Sizes DEF R!Index, R!FreeSize

\* Advancing an index by less than the size wraps at most once.
LEMMA AfterLinear ==
  ASSUME NEW p \in R!Index, NEW n \in 0 .. R!Size - 1
  PROVE  /\ R!After(p, n) = IF p + n < R!Size THEN p + n ELSE p + n - R!Size
         /\ R!After(p, n) \in R!Index
<1> DEFINE x == p + n
<1>1. x \in 0 .. 2 * R!Size - 1
  BY Sizes DEF R!Index
<1>2. R!After(p, n) = x % R!Size
  BY DEF R!After
<1>3. x % R!Size = IF x < R!Size THEN x ELSE x - R!Size
  <2> HIDE DEF x
  <2> QED BY <1>1, Wraps, Sizes
<1> QED BY <1>2, <1>3, Sizes DEF R!Index

\* Byte i of a frame goes to the cell i places after the index, wrapped or not.
LEMMA FrameCell ==
  ASSUME NEW p \in R!Index, NEW i \in 0 .. FrameUnits - 1
  PROVE  R!CellOf(p, FrameUnits, i) = R!After(p, i)
<1>1. i \in 0 .. R!Size - 1 /\ FrameUnits \in 0 .. R!Size - 1
  BY Sizes
<1>2. R!After(p, i) = IF p + i < R!Size THEN p + i ELSE p + i - R!Size
  BY <1>1, AfterLinear
<1>3. R!After(p, FrameUnits)
        = IF p + FrameUnits < R!Size THEN p + FrameUnits ELSE p + FrameUnits - R!Size
  BY <1>1, AfterLinear
<1>4. R!CellOf(p, FrameUnits, i)
        = IF R!After(p, FrameUnits) >= p \/ i < R!Size - p THEN p + i ELSE i - (R!Size - p)
  BY DEF R!CellOf
<1> QED BY <1>2, <1>3, <1>4, Sizes DEF R!Index

\* Different bytes of a frame go to different cells.
LEMMA FrameCellsDiffer ==
  ASSUME NEW p \in R!Index, NEW i \in 0 .. FrameUnits - 1, NEW j \in 0 .. FrameUnits - 1,
         R!After(p, i) = R!After(p, j)
  PROVE  i = j
<1>1. i \in 0 .. R!Size - 1 /\ j \in 0 .. R!Size - 1
  BY Sizes
<1>2. R!After(p, i) = IF p + i < R!Size THEN p + i ELSE p + i - R!Size
  BY <1>1, AfterLinear
<1>3. R!After(p, j) = IF p + j < R!Size THEN p + j ELSE p + j - R!Size
  BY <1>1, AfterLinear
<1>4. p \in Int /\ i \in Int /\ j \in Int /\ R!Size \in Int
  BY Sizes DEF R!Index
<1>5. 0 <= i /\ i < R!Size /\ 0 <= j /\ j < R!Size
  BY <1>1, <1>4
<1>6. (IF p + i < R!Size THEN p + i ELSE p + i - R!Size)
        = (IF p + j < R!Size THEN p + j ELSE p + j - R!Size)
  BY <1>2, <1>3
<1> QED BY ONLY <1>4, <1>5, <1>6

-----------------------------------------------------------------------------
(* The data thread.                                                         *)

\* The cells after head get the units of one frame, in order, and no other cell
\* changes.
LEMMA WriteCells ==
  ASSUME NEW s \in Sessions, head \in R!Index, buf \in [R!Index -> Unit], DataWrite(s)
  PROVE  /\ buf' \in [R!Index -> Unit]
         /\ \A i \in 0 .. FrameUnits - 1 : buf'[R!After(head, i)] = <<s, 1 + i>>
         /\ \A c \in R!Index :
              (\A i \in 0 .. FrameUnits - 1 : c # R!After(head, i)) => buf'[c] = buf[c]
<1> DEFINE hit(c) == {i \in 0 .. FrameUnits - 1 : R!CellOf(head, FrameUnits, i) = c}
           new(c) == IF hit(c) = {} THEN buf[c] ELSE <<s, 1 + CHOOSE i \in hit(c) : TRUE>>
<1>1. buf' = [c \in R!Index |-> new(c)]
  BY DEF DataWrite
<1>2. \A c : hit(c) = {i \in 0 .. FrameUnits - 1 : R!After(head, i) = c}
  BY FrameCell
<1>3. ASSUME NEW c \in R!Index, NEW i \in hit(c)
      PROVE  new(c) = <<s, 1 + i>> /\ i \in 0 .. FrameUnits - 1
  <2>1. i \in 0 .. FrameUnits - 1 /\ R!After(head, i) = c
    BY <1>2
  <2>2. ASSUME NEW j \in hit(c) PROVE j = i
    <3>1. j \in 0 .. FrameUnits - 1 /\ R!After(head, j) = c
      BY <1>2
    <3> HIDE DEF hit
    <3> QED BY <2>1, <3>1, FrameCellsDiffer
  <2> HIDE DEF hit
  <2>3. (CHOOSE j \in hit(c) : TRUE) = i /\ hit(c) # {}
    BY <2>2
  <2> QED BY <2>1, <2>3
<1>4. ASSUME NEW c \in R!Index
      PROVE  new(c) \in Unit
  <2>1. CASE hit(c) = {}
    BY <2>1
  <2>2. CASE hit(c) # {}
    <3>1. PICK i \in hit(c) : TRUE
      BY <2>2
    <3>2. new(c) = <<s, 1 + i>> /\ i \in 0 .. FrameUnits - 1
      <4> HIDE DEF hit, new
      <4> QED BY <1>3, <3>1
    <3> QED BY <3>2, Sizes DEF Unit
  <2> QED BY <2>1, <2>2
<1>5. ASSUME NEW i \in 0 .. FrameUnits - 1
      PROVE  buf'[R!After(head, i)] = <<s, 1 + i>>
  <2>1. R!After(head, i) \in R!Index
    BY AfterLinear, Sizes
  <2>2. i \in hit(R!After(head, i))
    BY <1>2
  <2> HIDE DEF hit, new
  <2> QED BY <1>1, <1>3, <2>1, <2>2
<1>6. ASSUME NEW c \in R!Index, \A i \in 0 .. FrameUnits - 1 : c # R!After(head, i)
      PROVE  buf'[c] = buf[c]
  <2>1. hit(c) = {}
    BY <1>2, <1>6
  <2> HIDE DEF hit
  <2> QED BY <1>1, <2>1
<1> HIDE DEF new, hit
<1> QED BY <1>1, <1>4, <1>5, <1>6

-----------------------------------------------------------------------------
(* Types.                                                                   *)

LEMMA TypeInit == Init => TypeInv
<1> SUFFICES ASSUME Init PROVE TypeInv
  OBVIOUS
<1>1. 0 \in R!Index /\ 0 \in 0 .. R!Size
  BY Sizes DEF R!Index
<1>2. <<vui_id, 1>> \in Unit /\ FrameOf(vui_id) \in [1 .. FrameUnits -> Unit]
  BY Sizes DEF Init, Unit, FrameOf
<1> QED BY <1>1, <1>2 DEF Init, TypeInv, TypeOK, CopyFits, BranchFits

LEMMA TypeStep == TypeInv /\ [NextLife]_vars => TypeInv'
<1> SUFFICES ASSUME TypeInv, [NextLife]_vars PROVE TypeInv'
  OBVIOUS
<1> USE DEF TypeInv, TypeOK, CopyFits, BranchFits, handleVars, ringVars, ctrlVars, localVars
<1> USE Sizes
<1>1. ASSUME NEW s \in Sessions, StartCall(s) PROVE TypeInv'
  BY <1>1 DEF StartCall, StartReset, CtrlStep
<1>2. CASE ClearTail
  <2>1. 0 \in R!Index
    BY DEF R!Index
  <2>2. tail' = 0 /\ UNCHANGED <<wpc, pos, remain>>
    BY <1>2 DEF ClearTail, CtrlStep
  <2>3. CopyFits' /\ BranchFits'
    BY <2>2
  <2> QED BY <1>2, <2>1, <2>3 DEF ClearTail, CtrlStep
<1>3. CASE ClearHead
  BY <1>3 DEF ClearHead, CtrlStep
<1>4. CASE StopCall \/ (dpc = "idle" /\ DestroyRequest) \/ DestroyReturn
  <2>1. CASE StopCall
    BY <2>1 DEF StopCall, Stop, CtrlStep
  <2>2. CASE dpc = "idle" /\ DestroyRequest
    BY <2>2 DEF DestroyRequest, CtrlStep
  <2>3. CASE DestroyReturn
    BY <2>3 DEF DestroyReturn, CtrlStep
  <2> QED BY <1>4, <2>1, <2>2, <2>3
<1>5. CASE DataCall \/ DataRefused
  BY <1>5 DEF DataCall, DataCheck, DataRefused, DataStep
<1>6. CASE DataWrite(vui_id)
  <2>1. buf' \in [R!Index -> Unit]
    BY <1>6, WriteCells
  <2>2. FrameUnits \in 0 .. R!Size - 1
    OBVIOUS
  <2>3. head' \in R!Index
    BY <1>6, <2>2, AfterLinear DEF DataWrite
  <2> QED BY <1>6, <2>1, <2>3 DEF DataWrite, DataStep
<1>7. CASE WorkerTest \/ LoopTest \/ LoopReset \/ DoRasr \/ WorkerExit
  <2>1. CASE WorkerTest
    BY <2>1 DEF WorkerTest, WorkerStep
  <2>2. CASE LoopTest
    BY <2>2 DEF LoopTest, WorkerStep
  <2>3. CASE LoopReset
    BY <2>3 DEF LoopReset, WorkerStep
  <2>4. CASE DoRasr
    BY <2>4 DEF DoRasr, WorkerStep
  <2>5. CASE WorkerExit
    BY <2>5 DEF WorkerExit, WorkerStep
  <2> QED BY <1>7, <2>1, <2>2, <2>3, <2>4, <2>5
<1>8. CASE LoadHead
  BY <1>8 DEF LoadHead, WorkerStep, InRead
<1>9. CASE SizeTail \/ CheckTail
  <2>1. 0 \in R!Index
    BY DEF R!Index
  <2> QED BY <1>9, <2>1 DEF SizeTail, CheckTail, WorkerStep, InRead
<1>10. CASE ReadPos
  <2>1. FrameUnits \in 0 .. R!Size - 1
    OBVIOUS
  <2>2. R!After(tail, FrameUnits) \in R!Index
    BY <2>1, AfterLinear
  <2> QED BY <1>10, <2>2 DEF ReadPos, WorkerStep, InRead
<1>11. CASE ReadBranch
  <2>1. FrameUnits \in 0 .. R!Size - 1
    OBVIOUS
  <2>2. R!After(tail, FrameUnits)
          = IF tail + FrameUnits < R!Size THEN tail + FrameUnits
            ELSE tail + FrameUnits - R!Size
    BY <2>1, AfterLinear
  <2>3. pos >= tail => tail + FrameUnits <= R!Size
    BY <1>11, <2>2 DEF ReadBranch, WorkerStep, R!Index
  <2>4. CopyFits' /\ BranchFits'
    BY <1>11, <2>3 DEF ReadBranch, WorkerStep
  <2>5. remain' \in 0 .. R!Size
    BY <1>11 DEF ReadBranch
  <2> QED BY <1>11, <2>4, <2>5 DEF ReadBranch, WorkerStep, InRead
<1>12. CASE ReadRemain
  <2>1. remain' \in 0 .. R!Size /\ tail + remain' <= R!Size
    BY <1>12 DEF ReadRemain, R!Index
  <2> QED BY <1>12, <2>1 DEF ReadRemain, WorkerStep, InRead
<1>13. CASE ReadCopy
  <2>1. ASSUME remain <= FrameUnits, NEW i \in 1 .. FrameUnits
        PROVE  (IF i <= remain THEN buf[tail + i - 1] ELSE buf[i - remain - 1]) \in Unit
    <3>1. tail + remain <= R!Size
      BY <1>13, <2>1 DEF ReadCopy, WorkerStep
    <3>2. IF i <= remain THEN tail + i - 1 \in R!Index ELSE i - remain - 1 \in R!Index
      BY <2>1, <3>1 DEF R!Index
    <3> QED BY <3>2
  <2>2. cur' \in [1 .. FrameUnits -> Unit]
    BY <1>13, <2>1 DEF ReadCopy
  <2>3. remain' \in 0 .. R!Size
    BY <1>13 DEF ReadCopy
  <2> QED BY <1>13, <2>2, <2>3 DEF ReadCopy, WorkerStep, InRead
<1>14. CASE ReadCommit
  <2>1. 0 \in R!Index
    BY DEF R!Index
  <2> QED BY <1>14, <2>1 DEF ReadCommit, WorkerStep, InRead
<1>15. CASE UNCHANGED vars
  BY <1>15 DEF vars
<1> QED
  BY <1>1, <1>2, <1>3, <1>4, <1>5, <1>6, <1>7, <1>8, <1>9, <1>10, <1>11, <1>12, <1>13,
     <1>14, <1>15
  DEF NextLife, Next, DataEnd, Worker

\* START clears the ring while the worker may be at any place in a read, and yet no
\* index leaves the allocation, nor does a copy of no more than a frame
\* (RingBufferClear against _read_internal).  A longer copy does: see
\* CleanUnlessClearMetRead.
THEOREM TypeCorrect == LifeSpec => [](TypeOK /\ CopyFits)
<1>1. TypeInv => TypeOK /\ CopyFits
  BY DEF TypeInv
<1> QED BY <1>1, TypeInit, TypeStep, PTL DEF LifeSpec

-----------------------------------------------------------------------------
(* The length of a copy.                                                    *)

\* The two parts of a copy are a frame together.
LEMMA CopyLength ==
  ASSUME TypeInv, ReadInv, ~met, wpc = "copy"
  PROVE  remain <= FrameUnits
<1>1. tail \in R!Index /\ FrameUnits \in 0 .. R!Size - 1
  BY Sizes DEF TypeInv, TypeOK
<1>2. pos = IF tail + FrameUnits < R!Size THEN tail + FrameUnits
            ELSE tail + FrameUnits - R!Size
  BY <1>1, AfterLinear DEF ReadInv
<1>3. remain = IF pos >= tail THEN FrameUnits ELSE R!Size - tail
  BY DEF ReadInv
<1> QED BY <1>1, <1>2, <1>3, Sizes DEF R!Index

LEMMA ReadInit == Init => ReadInv
BY DEF Init, ReadInv, Defined

LEMMA ReadStep == TypeInv /\ ReadInv /\ [NextLife]_vars => ReadInv'
<1> SUFFICES ASSUME TypeInv, ReadInv, [NextLife]_vars, ~met' PROVE ReadInv'
  BY DEF ReadInv
<1> USE DEF handleVars, ringVars, ctrlVars, localVars
<1>1. ASSUME Defined, wpc \notin InRead, wpc' = wpc PROVE ReadInv'
  BY <1>1 DEF ReadInv, InRead, Defined
<1>2. ASSUME NEW s \in Sessions, StartCall(s), Defined PROVE ReadInv'
  <2>1. UNCHANGED <<wpc, pos, remain, tail>> /\ (~met \/ wpc \notin InRead)
    BY <1>2 DEF StartCall, StartReset, CtrlStep
  <2> QED BY <1>1, <1>2, <2>1 DEF ReadInv, Defined
<1>3. CASE Defined /\ ClearTail
  BY <1>1, <1>3 DEF ClearTail, CtrlStep
<1>4. CASE Defined /\ ClearHead
  BY <1>1, <1>4 DEF ClearHead, CtrlStep
<1>5. CASE StopCall \/ (dpc = "idle" /\ DestroyRequest) \/ DestroyReturn
           \/ DataCall \/ DataRefused \/ DataWrite(vui_id) \/ UNCHANGED vars
  <2>1. UNCHANGED <<wpc, pos, remain, tail, met>>
    BY <1>5 DEF StopCall, Stop, DestroyRequest, DestroyReturn, CtrlStep, DataCall, DataCheck,
                DataRefused, DataWrite, DataStep, vars
  <2> QED BY <2>1 DEF ReadInv, Defined
<1>6. CASE Worker \/ WorkerExit
  <2>1. ~met
    BY <1>6 DEF Worker, WorkerTest, LoopTest, LoopReset, LoadHead, SizeTail, CheckTail, ReadPos,
                ReadBranch, ReadRemain, ReadCopy, ReadCommit, DoRasr, WorkerExit, WorkerStep
  <2>2. CASE WorkerTest \/ LoopTest \/ LoopReset \/ LoadHead \/ SizeTail \/ CheckTail
             \/ ReadCommit \/ DoRasr \/ WorkerExit
    <3>1. wpc' \notin {"branch", "remain", "copy", "commit", "overrun"}
      BY <2>2 DEF WorkerTest, LoopTest, LoopReset, LoadHead, SizeTail, CheckTail, ReadCommit,
                  DoRasr, WorkerExit, WorkerStep
    <3> QED BY <3>1 DEF ReadInv, Defined
  <2>3. CASE ReadPos
    BY <2>3 DEF ReadPos, WorkerStep, ReadInv, Defined
  <2>4. CASE ReadBranch
    <3>1. pos \in Int /\ tail \in Int
      BY DEF TypeInv, TypeOK, R!Index
    <3> QED BY <2>1, <2>4, <3>1 DEF ReadBranch, WorkerStep, ReadInv, Defined
  <2>5. CASE ReadRemain
    <3>1. pos < tail /\ pos \in Int /\ tail \in Int
      BY <2>1, <2>5 DEF ReadRemain, WorkerStep, ReadInv, TypeInv, TypeOK, R!Index
    <3> QED BY <2>1, <2>5, <3>1 DEF ReadRemain, WorkerStep, ReadInv, Defined
  <2>6. CASE ReadCopy
    <3>1. wpc' = "commit"
      BY <2>1, <2>6, CopyLength DEF ReadCopy, WorkerStep
    <3> QED BY <2>1, <2>6, <3>1 DEF ReadCopy, WorkerStep, ReadInv, Defined
  <2> QED BY <1>6, <2>2, <2>3, <2>4, <2>5, <2>6 DEF Worker
<1> QED BY <1>2, <1>3, <1>4, <1>5, <1>6 DEF NextLife, Next, DataEnd

-----------------------------------------------------------------------------
(* Clean sessions.                                                          *)

\* A frame written leaves what is in the ring where it was and comes after it.
LEMMA HeadMoves ==
  ASSUME NEW a \in R!Index, NEW t \in R!Index, R!FreeSize(a, t) >= FrameUnits
  PROVE  LET d == R!DataSize(a, t)
         IN  /\ R!DataSize(R!After(a, FrameUnits), t) = d + FrameUnits
             /\ \A i \in 0 .. FrameUnits - 1 : R!After(t, d + i) = R!After(a, i)
             /\ \A j \in 0 .. d - 1 : \A i \in 0 .. FrameUnits - 1 :
                  R!After(t, j) # R!After(a, i)
<1> DEFINE d == R!DataSize(a, t)
           b == R!After(a, FrameUnits)
<1>1. /\ d = IF a >= t THEN a - t ELSE a + R!Size - t
      /\ d \in 0 .. R!Size - 1
      /\ d + FrameUnits <= R!Size - 1
  BY DataLinear, Sizes
<1>2. /\ b = IF a + FrameUnits < R!Size THEN a + FrameUnits ELSE a + FrameUnits - R!Size
      /\ b \in R!Index
  BY AfterLinear, Sizes
<1>3. R!DataSize(b, t) = IF b >= t THEN b - t ELSE b + R!Size - t
  <2> HIDE DEF b
  <2> QED BY <1>2, DataLinear
<1>4. a \in Int /\ t \in Int /\ 0 <= a /\ 0 <= t /\ a < R!Size /\ t < R!Size
  BY Sizes DEF R!Index
<1> HIDE DEF d, b
<1>5. R!DataSize(b, t) = d + FrameUnits
  BY <1>1, <1>2, <1>3, <1>4, Sizes
<1>6. ASSUME NEW i \in 0 .. FrameUnits - 1
      PROVE  R!After(t, d + i) = R!After(a, i)
  <2>1. i \in 0 .. R!Size - 1 /\ d + i \in 0 .. R!Size - 1
    BY <1>1, Sizes
  <2>2. R!After(a, i) = IF a + i < R!Size THEN a + i ELSE a + i - R!Size
    BY <2>1, AfterLinear
  <2>3. R!After(t, d + i) = IF t + (d + i) < R!Size THEN t + (d + i)
                            ELSE t + (d + i) - R!Size
    BY <2>1, AfterLinear
  <2> QED BY <1>1, <1>4, <2>1, <2>2, <2>3, Sizes
<1>7. ASSUME NEW j \in 0 .. d - 1, NEW i \in 0 .. FrameUnits - 1
      PROVE  R!After(t, j) # R!After(a, i)
  <2>1. i \in 0 .. R!Size - 1 /\ j \in 0 .. R!Size - 1
    BY <1>1, Sizes
  <2>2. R!After(a, i) = IF a + i < R!Size THEN a + i ELSE a + i - R!Size
    BY <2>1, AfterLinear
  <2>3. R!After(t, j) = IF t + j < R!Size THEN t + j ELSE t + j - R!Size
    BY <2>1, AfterLinear
  <2>4. i \in Int /\ j \in Int /\ j < d /\ i < FrameUnits
    BY <1>1, Sizes
  <2> QED BY <1>1, <1>4, <2>1, <2>2, <2>3, <2>4, Sizes
<1> QED BY <1>5, <1>6, <1>7 DEF d, b

\* A frame read leaves what came after it.
LEMMA TailMoves ==
  ASSUME NEW a \in R!Index, NEW t \in R!Index, R!DataSize(a, t) >= FrameUnits
  PROVE  LET d == R!DataSize(a, t)
             u == R!After(t, FrameUnits)
         IN  /\ R!DataSize(a, u) = d - FrameUnits
             /\ \A j \in 0 .. d - FrameUnits - 1 : R!After(u, j) = R!After(t, j + FrameUnits)
<1> DEFINE d == R!DataSize(a, t)
           u == R!After(t, FrameUnits)
<1>1. d = (IF a >= t THEN a - t ELSE a + R!Size - t) /\ d \in 0 .. R!Size - 1
  BY DataLinear, Sizes
<1>2. /\ u = IF t + FrameUnits < R!Size THEN t + FrameUnits ELSE t + FrameUnits - R!Size
      /\ u \in R!Index
  BY AfterLinear, Sizes
<1>3. R!DataSize(a, u) = IF a >= u THEN a - u ELSE a + R!Size - u
  <2> HIDE DEF u
  <2> QED BY <1>2, DataLinear
<1>4. /\ a \in Int /\ t \in Int /\ 0 <= a /\ 0 <= t /\ a < R!Size /\ t < R!Size
      /\ d >= FrameUnits
  BY Sizes DEF R!Index
<1> HIDE DEF d, u
<1>5. R!DataSize(a, u) = d - FrameUnits
  BY <1>1, <1>2, <1>3, <1>4, Sizes
<1>6. ASSUME NEW j \in 0 .. d - FrameUnits - 1
      PROVE  R!After(u, j) = R!After(t, j + FrameUnits)
  <2>1. j \in 0 .. R!Size - 1 /\ j + FrameUnits \in 0 .. R!Size - 1
    BY <1>1, Sizes
  <2>2. R!After(u, j) = IF u + j < R!Size THEN u + j ELSE u + j - R!Size
    BY <1>2, <2>1, AfterLinear
  <2>3. R!After(t, j + FrameUnits)
          = IF t + (j + FrameUnits) < R!Size THEN t + (j + FrameUnits)
            ELSE t + (j + FrameUnits) - R!Size
    BY <2>1, AfterLinear
  <2> QED BY <1>1, <1>2, <1>4, <2>1, <2>2, <2>3, Sizes
<1> QED BY <1>5, <1>6 DEF d, u

\* A ring that has just been cleared is clean.
LEMMA EmptyFresh ==
  ASSUME NEW t \in R!Index
  PROVE  R!DataSize(t, t) = 0 /\ 0 % FrameUnits = 0 /\ 0 .. 0 - 1 = {}
<1>1. R!DataSize(t, t) = 0
  BY DataLinear, Sizes DEF R!Index
<1>2. 0 % FrameUnits = 0
  BY FrameBegins, Sizes
<1> QED BY <1>1, <1>2

\* The data thread writes a frame: the ring stays whole frames.
LEMMA WriteFresh ==
  ASSUME TypeInv, RingFresh, DataWrite(vui_id)
  PROVE  RingFresh' /\ D' = D + FrameUnits
<1> DEFINE F == FrameUnits
<1>1. /\ head \in R!Index /\ tail \in R!Index /\ buf \in [R!Index -> Unit]
      /\ vui_id \in Sessions
  BY DEF TypeInv, TypeOK
<1>2. /\ head' = R!After(head, F) /\ tail' = tail /\ vui_id' = vui_id
      /\ R!FreeSize(head, tail) >= F
  <2>1. R!FreeSize(head, tail) \in Int
    BY <1>1, DataLinear, Sizes
  <2> QED BY <2>1, Sizes DEF DataWrite, DataStep, handleVars, R!WriteOverflow
<1>3. /\ D' = D + F
      /\ \A i \in 0 .. F - 1 : R!After(tail, D + i) = R!After(head, i)
      /\ \A j \in 0 .. D - 1 : \A i \in 0 .. F - 1 : R!After(tail, j) # R!After(head, i)
  BY <1>1, <1>2, HeadMoves DEF D
<1>4. D \in Nat /\ D % F = 0 /\ D < R!Size
  BY <1>1, DataLinear, Sizes DEF D, RingFresh
<1>5. D' % F = 0
  BY <1>3, <1>4, FrameMore, Sizes
<1>6. ASSUME NEW j \in 0 .. D' - 1
      PROVE  buf'[R!After(tail, j)] = UnitAt(j)
  <2>1. CASE j \in 0 .. D - 1
    <3>1. R!After(tail, j) \in R!Index
      BY <1>1, <1>4, <2>1, AfterLinear, Sizes
    <3>2. buf'[R!After(tail, j)] = buf[R!After(tail, j)]
      BY <1>1, <1>3, <2>1, <3>1, WriteCells
    <3> QED BY <2>1, <3>2 DEF RingFresh
  <2>2. CASE ~(j \in 0 .. D - 1)
    <3>1. PICK i \in 0 .. F - 1 : j = D + i
      <4>1. j - D \in 0 .. F - 1 /\ j = D + (j - D)
        BY <1>3, <1>4, <2>2, Sizes
      <4> QED BY <4>1
    <3>2. buf'[R!After(tail, j)] = <<vui_id, 1 + i>>
      BY <1>1, <1>3, <3>1, WriteCells
    <3>3. j % F = i
      BY <1>4, <3>1, FrameBegins, Sizes
    <3> QED BY <3>2, <3>3 DEF UnitAt
  <2> QED BY <2>1, <2>2
<1> QED BY <1>2, <1>3, <1>5, <1>6 DEF RingFresh, UnitAt

\* The worker has read a frame: what is left is whole frames.
LEMMA ReadFresh ==
  ASSUME TypeInv, RingFresh, D >= FrameUnits,
         tail' = R!After(tail, FrameUnits), UNCHANGED <<head, buf, vui_id>>
  PROVE  RingFresh'
<1> DEFINE F == FrameUnits
<1>1. head \in R!Index /\ tail \in R!Index
  BY DEF TypeInv, TypeOK
<1>2. /\ D' = D - F
      /\ \A j \in 0 .. D - F - 1 : R!After(tail', j) = R!After(tail, j + F)
  BY <1>1, TailMoves DEF D
<1>3. D \in Nat /\ D % F = 0
  BY <1>1, DataLinear, Sizes DEF D, RingFresh
<1>4. D' % F = 0
  <2>1. D - F \in Nat /\ (D - F) + F = D
    BY <1>3, Sizes
  <2>2. ((D - F) + F) % F = (D - F) % F
    BY <2>1, FrameMore, Sizes
  <2> QED BY <1>2, <1>3, <2>1, <2>2
<1>5. ASSUME NEW j \in 0 .. D' - 1
      PROVE  buf[R!After(tail', j)] = UnitAt(j)
  <2>1. /\ j \in 0 .. D - F - 1 /\ j \in Nat /\ j + F \in 0 .. D - 1
    BY <1>2, <1>3, Sizes
  <2>2. buf[R!After(tail, j + F)] = UnitAt(j + F)
    BY <2>1 DEF RingFresh
  <2>3. (j + F) % F = j % F
    BY <2>1, FrameMore, Sizes
  <2> QED BY <1>2, <2>1, <2>2, <2>3 DEF UnitAt
<1> QED BY <1>2, <1>4, <1>5 DEF RingFresh, UnitAt

\* The frame that the worker copies out of a clean ring is a frame of the session.
LEMMA CopyFresh ==
  ASSUME TypeInv, ReadInv, ~met, RingFresh, WorkerFresh, ReadCopy
  PROVE  cur' = FrameOf(vui_id) /\ wpc' = "commit"
<1> DEFINE F == FrameUnits
<1>1. /\ wpc = "copy" /\ tail \in R!Index /\ head \in R!Index
      /\ D >= F /\ pos = R!After(tail, F)
      /\ remain = IF pos >= tail THEN F ELSE R!Size - tail
  BY DEF ReadCopy, WorkerStep, WorkerFresh, ReadInv, TypeInv, TypeOK
<1>2. pos = IF tail + F < R!Size THEN tail + F ELSE tail + F - R!Size
  BY <1>1, AfterLinear, Sizes
<1>3. tail \in Int /\ 0 <= tail /\ tail < R!Size /\ D \in Nat /\ D < R!Size
  BY <1>1, DataLinear, Sizes DEF R!Index, D
<1>4. remain <= F
  BY <1>1, CopyLength
<1>5. ASSUME NEW i \in 1 .. F
      PROVE  (IF i <= remain THEN buf[tail + i - 1] ELSE buf[i - remain - 1]) = <<vui_id, i>>
  <2> DEFINE j == i - 1
  <2>1. j \in 0 .. F - 1 /\ j \in 0 .. D - 1 /\ j \in 0 .. R!Size - 1 /\ 1 + j = i
    BY <1>1, <1>3, Sizes
  <2>2. R!After(tail, j) = IF tail + j < R!Size THEN tail + j ELSE tail + j - R!Size
    <3> HIDE DEF j
    <3> QED BY <1>1, <2>1, AfterLinear
  <2>3. R!After(tail, j) = IF i <= remain THEN tail + i - 1 ELSE i - remain - 1
    BY <1>1, <1>2, <1>3, <2>1, <2>2, Sizes
  <2>4. buf[R!After(tail, j)] = <<vui_id, 1 + (j % F)>>
    BY <2>1 DEF RingFresh, UnitAt
  <2>5. j % F = j
    <3>1. 0 % F = 0 /\ (0 + j) % F = j /\ 0 + j = j
      BY <1>1, <2>1, EmptyFresh, FrameBegins, Sizes
    <3> QED BY <3>1
  <2> QED BY <2>1, <2>3, <2>4, <2>5
<1> QED BY <1>4, <1>5 DEF ReadCopy, WorkerStep, FrameOf

LEMMA CleanInit == Init => CleanInv
<1> SUFFICES ASSUME Init PROVE RingFresh /\ WorkerFresh
  BY DEF CleanInv
<1>1. 0 \in R!Index
  BY Sizes DEF R!Index
<1>2. D = 0 /\ D % FrameUnits = 0 /\ 0 .. D - 1 = {}
  BY <1>1, EmptyFresh DEF Init, D
<1> QED BY <1>2 DEF Init, RingFresh, WorkerFresh

\* A step of the worker that moves no index and writes no cell leaves the ring clean.
LEMMA RingKept ==
  ASSUME UNCHANGED <<vui_id, buf, head, tail>>
  PROVE  D' = D /\ (RingFresh => RingFresh')
BY DEF RingFresh, UnitAt, D

LEMMA CleanStep == IInv /\ [NextLife]_vars => CleanInv'
<1> SUFFICES ASSUME TypeInv, ReadInv, CleanInv, [NextLife]_vars, ~met', ~Clearing'
             PROVE  RingFresh' /\ WorkerFresh'
  BY DEF IInv, CleanInv
<1> USE DEF handleVars, ringVars, ctrlVars, localVars
<1>1. ASSUME NEW s \in Sessions, StartCall(s) PROVE FALSE
  BY <1>1 DEF StartCall, StartReset, CtrlStep, Clearing
<1>2. CASE ClearTail
  BY <1>2 DEF ClearTail, CtrlStep, Clearing
<1>3. CASE ClearHead
  <2>1. tail \in R!Index /\ head' = tail /\ tail' = tail
    BY <1>3 DEF ClearHead, TypeInv, TypeOK
  <2>2. D' = 0 /\ D' % FrameUnits = 0 /\ 0 .. D' - 1 = {}
    BY <2>1, EmptyFresh DEF D
  <2>3. wpc' \notin InRead
    BY <1>3 DEF ClearHead, CtrlStep
  <2> QED BY <2>2, <2>3 DEF RingFresh, WorkerFresh, InRead
<1>4. CASE StopCall \/ (dpc = "idle" /\ DestroyRequest) \/ DestroyReturn
           \/ DataCall \/ DataRefused \/ UNCHANGED vars
  <2>1. /\ UNCHANGED <<vui_id, buf, head, tail, wpc, h, pos, remain, cur>>
        /\ met' = met /\ (Clearing => Clearing')
    BY <1>4 DEF StopCall, Stop, DestroyRequest, DestroyReturn, CtrlStep, DataCall, DataCheck,
                DataRefused, DataStep, Clearing, vars
  <2>2. RingFresh /\ WorkerFresh
    BY <2>1 DEF CleanInv
  <2> QED BY <2>1, <2>2, RingKept DEF WorkerFresh, FrameOf
<1>5. CASE DataWrite(vui_id)
  <2>1. /\ UNCHANGED <<vui_id, tail, wpc, h, pos, remain, cur>>
        /\ met' = met /\ (Clearing => Clearing')
    BY <1>5 DEF DataWrite, DataStep, Clearing
  <2>2. RingFresh /\ WorkerFresh
    BY <2>1 DEF CleanInv
  <2>3. RingFresh' /\ D' = D + FrameUnits
    BY <1>5, <2>2, WriteFresh
  <2>4. D \in Int /\ R!DataSize(h, tail) \in Int
    BY DataLinear, Sizes DEF D, TypeInv, TypeOK
  <2>5. R!DataSize(h', tail') = R!DataSize(h, tail)
        /\ R!After(tail', FrameUnits) = R!After(tail, FrameUnits)
    BY <2>1
  <2> QED BY <2>1, <2>2, <2>3, <2>4, <2>5, Sizes DEF WorkerFresh, FrameOf
<1>6. CASE Worker \/ WorkerExit
  <2>1. vui_id' = vui_id /\ met' = met /\ (Clearing => Clearing')
    BY <1>6 DEF Worker, WorkerTest, LoopTest, LoopReset, LoadHead, SizeTail, CheckTail, ReadPos,
                ReadBranch, ReadRemain, ReadCopy, ReadCommit, DoRasr, WorkerExit, WorkerStep,
                Clearing
  <2>2. RingFresh /\ WorkerFresh /\ ~met
    BY <2>1 DEF CleanInv
  <2>3. CASE WorkerTest \/ LoopTest \/ LoopReset \/ DoRasr \/ WorkerExit
    <3>1. UNCHANGED <<buf, head, tail>>
      BY <2>3 DEF WorkerTest, LoopTest, LoopReset, DoRasr, WorkerExit
    <3>2. wpc' \in {"run", "loop", "reset", "size_head", "exit", "gone"}
      BY <2>3 DEF WorkerTest, LoopTest, LoopReset, DoRasr, WorkerExit, WorkerStep
    <3> QED BY <2>1, <2>2, <3>1, <3>2, RingKept DEF WorkerFresh
  <2>4. CASE LoadHead
    <3>1. UNCHANGED <<buf, head, tail>> /\ h' = head
      BY <2>4 DEF LoadHead
    <3>2. R!DataSize(h', tail') = D /\ D \in Int
      BY <3>1, DataLinear, Sizes DEF D, TypeInv, TypeOK
    <3>3. \/ wpc' = "size_tail"
          \/ wpc' = "check_tail" /\ D >= FrameUnits
      BY <2>2, <2>4 DEF LoadHead, WorkerStep, WorkerFresh
    <3> QED BY <2>1, <2>2, <3>1, <3>2, <3>3, RingKept DEF WorkerFresh
  <2>5. CASE SizeTail
    <3>1. UNCHANGED <<buf, head, tail>>
      BY <2>5 DEF SizeTail
    <3>2. wpc' = IF R!DataSize(h, tail) < FrameUnits THEN "loop" ELSE "check_head"
      BY <2>5 DEF SizeTail, WorkerStep, R!ReadOverflow
    <3>3. wpc' = "check_head" => D >= FrameUnits
      <4>1. R!DataSize(h, tail) \in Int /\ D \in Int
        BY DataLinear, Sizes DEF TypeInv, TypeOK, D
      <4>2. R!DataSize(h, tail) <= D
        BY <2>2, <2>5 DEF WorkerFresh, SizeTail, WorkerStep
      <4> QED BY <3>2, <4>1, <4>2, Sizes
    <3> QED BY <2>1, <2>2, <3>1, <3>2, <3>3, RingKept DEF WorkerFresh
  <2>6. CASE CheckTail
    <3>1. UNCHANGED <<buf, head, tail>>
      BY <2>6 DEF CheckTail
    <3>2. D >= FrameUnits /\ R!DataSize(h, tail) >= FrameUnits
      BY <2>2, <2>6 DEF WorkerFresh, CheckTail, WorkerStep
    <3>3. wpc' = "pos"
      <4>1. R!DataSize(h, tail) \in Int
        BY DataLinear, Sizes DEF TypeInv, TypeOK
      <4>2. ~R!ReadOverflow(h, tail, FrameUnits)
        BY <3>2, <4>1, Sizes DEF R!ReadOverflow
      <4> QED BY <2>6, <4>2 DEF CheckTail, WorkerStep
    <3> QED BY <2>1, <2>2, <3>1, <3>2, <3>3, RingKept DEF WorkerFresh
  <2>7. CASE ReadPos
    <3>1. UNCHANGED <<buf, head, tail>> /\ wpc = "pos" /\ wpc' = "branch"
      BY <2>7 DEF ReadPos, WorkerStep
    <3> QED BY <2>1, <2>2, <3>1, RingKept DEF WorkerFresh
  <2>8. CASE ReadBranch
    <3>1. /\ UNCHANGED <<buf, head, tail>> /\ wpc = "branch"
          /\ wpc' = IF pos >= tail THEN "copy" ELSE "remain"
      BY <2>8 DEF ReadBranch, WorkerStep
    <3> QED BY <2>1, <2>2, <3>1, RingKept DEF WorkerFresh
  <2>9. CASE ReadRemain
    <3>1. UNCHANGED <<buf, head, tail>> /\ wpc = "remain" /\ wpc' = "copy"
      BY <2>9 DEF ReadRemain, WorkerStep
    <3> QED BY <2>1, <2>2, <3>1, RingKept DEF WorkerFresh
  <2>10. CASE ReadCopy
    <3>1. UNCHANGED <<buf, head, tail>> /\ wpc = "copy"
      BY <2>10 DEF ReadCopy, WorkerStep
    <3>2. cur' = FrameOf(vui_id) /\ wpc' = "commit"
      BY <2>2, <2>10, CopyFresh
    <3> QED BY <2>1, <2>2, <3>1, <3>2, RingKept DEF WorkerFresh, FrameOf
  <2>11. CASE ReadCommit
    <3>1. /\ UNCHANGED <<buf, head, cur>> /\ wpc = "commit" /\ wpc' = "do" /\ tail' = pos
      BY <2>11 DEF ReadCommit, WorkerStep
    <3>2. D >= FrameUnits /\ tail' = R!After(tail, FrameUnits)
      BY <2>2, <3>1 DEF WorkerFresh, ReadInv
    <3>3. RingFresh'
      BY <2>1, <2>2, <3>1, <3>2, ReadFresh
    <3> QED BY <2>1, <2>2, <3>1, <3>3 DEF WorkerFresh, FrameOf
  <2> QED BY <1>6, <2>3, <2>4, <2>5, <2>6, <2>7, <2>8, <2>9, <2>10, <2>11 DEF Worker
<1> QED BY <1>1, <1>2, <1>3, <1>4, <1>5, <1>6 DEF NextLife, Next, DataEnd

LEMMA Invariant == LifeSpec => []IInv
<1>1. Init => IInv
  BY TypeInit, ReadInit, CleanInit DEF IInv
<1>2. IInv /\ [NextLife]_vars => IInv'
  BY TypeStep, ReadStep, CleanStep DEF IInv
<1> QED BY <1>1, <1>2, PTL DEF LifeSpec

\* The worker copies more than a frame, past its buffer and the allocation, or recognises
\* a frame of an earlier session, or half of one, only if START cleared the ring while it
\* was inside a read (rasr.c:70 against ringbuf.c:88-99); for every size of the ring, and
\* although a read takes head and tail one load at a time while the data thread moves head.
THEOREM CleanUnlessClearMetRead == LifeSpec => []CleanUnlessMet
<1>1. IInv => CleanUnlessMet
  BY DEF IInv, ReadInv, CleanInv, CleanUnlessMet, FrameOfSession, WorkerFresh, Clearing
<1> QED BY <1>1, Invariant, PTL

=============================================================================
