---------------------------- MODULE LoggerProofs ----------------------------
(***************************************************************************)
(* Proofs about Logger: every line ends as it should whatever the length   *)
(* of the buffer, of what is before the message and of the message; the    *)
(* mutex has one owner, whatever the number of threads; and the file is    *)
(* whole lines, whatever the number of lines and of runs.                  *)
(***************************************************************************)
EXTENDS Logger, FiniteSetTheorems, TLAPS

-----------------------------------------------------------------------------
(* The line.                                                                *)

\* The byte a line ends at, its newline or, of a raw line, its terminator.
End(level, p, n) ==
  IF level = N_LOG_RAW THEN Least(n, LOG_BUFFER_LEN - 1) ELSE Least(p + n, LOG_BUFFER_LEN - 2)

Ends(buf, level, p, n) ==
  /\ \A i \in Byte : i < End(level, p, n) => buf[i] \in {"prefix", "text"}
  /\ IF level = N_LOG_RAW THEN buf[End(level, p, n)] = "nul"
     ELSE buf[End(level, p, n)] = "newline" /\ buf[End(level, p, n) + 1] = "nul"

\* What snprintf leaves of the buffer, byte by byte.
LEMMA PrintedBytes ==
  ASSUME NEW buf, NEW p \in Nat, p < LOG_BUFFER_LEN, NEW n \in Nat, NEW what, NEW i \in Byte
  PROVE  /\ DOMAIN Printed(buf, p, n, what) = Byte
         /\ i < p => Printed(buf, p, n, what)[i] = buf[i]
         /\ p <= i /\ i < Least(p + n, LOG_BUFFER_LEN - 1) => Printed(buf, p, n, what)[i] = what
         /\ i = Least(p + n, LOG_BUFFER_LEN - 1) => Printed(buf, p, n, what)[i] = "nul"
BY BufferAssumption DEF Printed, Least, Byte

\* The line that _log_assemble makes ends as LineEnds says.
LEMMA AssembledEnds ==
  ASSUME NEW level, NEW p \in Nat, p < LOG_BUFFER_LEN, NEW n \in Nat
  PROVE  Ends(Assembled(level, p, n), level, p, n)
<1> DEFINE unset == [i \in Byte |-> "unset"]
           prefix == Printed(unset, 0, p, "prefix")
<1>1. CASE level = N_LOG_RAW
  <2>1. Assembled(level, p, n) = Printed(unset, 0, n, "text")
    BY <1>1 DEF Assembled, Fill
  <2>2. End(level, p, n) = Least(n, LOG_BUFFER_LEN - 1) /\ End(level, p, n) \in Byte
    BY <1>1, BufferAssumption DEF End, Least, Byte
  <2>3. 0 + n = n /\ 0 \in Nat /\ 0 < LOG_BUFFER_LEN
    BY BufferAssumption
  <2>4. ASSUME NEW i \in Byte
        PROVE  /\ i < Least(n, LOG_BUFFER_LEN - 1) =>
                    Printed(unset, 0, n, "text")[i] = "text"
               /\ i = Least(n, LOG_BUFFER_LEN - 1) =>
                    Printed(unset, 0, n, "text")[i] = "nul"
    <3> HIDE DEF unset
    <3> 0 <= i
      BY DEF Byte
    <3> QED BY <2>3, PrintedBytes
  <2> QED BY <1>1, <2>1, <2>2, <2>4 DEF Ends
<1>2. CASE level # N_LOG_RAW
  <2> DEFINE printed == Printed(prefix, p, n, "text")
             last == IF Crowded(LOG_BUFFER_LEN - p - Least(n, LOG_BUFFER_LEN - p))
                     THEN LOG_BUFFER_LEN - 2 ELSE p + n
  <2>1. Assembled(level, p, n) = [printed EXCEPT ![last] = "newline", ![last + 1] = "nul"]
    BY <1>2 DEF Assembled, Fill
  <2>2. /\ last = Least(p + n, LOG_BUFFER_LEN - 2) /\ last = End(level, p, n)
        /\ last \in Byte /\ last + 1 \in Byte /\ last # last + 1
    BY <1>2, BufferAssumption DEF End, Least, Byte, Crowded
  <2>3. DOMAIN printed = Byte
    BY DEF Printed
  <2>4. ASSUME NEW i \in Byte, i < last
        PROVE  printed[i] \in {"prefix", "text"}
    <3>1. CASE i < p
      <4>1. printed[i] = prefix[i]
        <5> HIDE DEF prefix
        <5> QED BY <3>1, PrintedBytes
      <4>2. prefix[i] = "prefix"
        BY <3>1, BufferAssumption DEF Printed, Least, Byte
      <4> QED BY <4>1, <4>2
    <3>2. CASE ~ (i < p)
      <4>1. printed[i] = "text"
        <5> HIDE DEF prefix
        <5> QED BY <2>2, <2>4, <3>2, BufferAssumption DEF Printed, Least, Byte
      <4> QED BY <4>1
    <3> QED BY <3>1, <3>2
  <2>5. \A i \in Byte : i < last => i # last /\ i # last + 1
    BY <2>2 DEF Byte
  <2> HIDE DEF printed, last
  <2>6. ASSUME NEW i \in Byte, i < last
        PROVE  Assembled(level, p, n)[i] \in {"prefix", "text"}
    BY <2>1, <2>3, <2>4, <2>5, <2>6
  <2>7. Assembled(level, p, n)[last] = "newline" /\ Assembled(level, p, n)[last + 1] = "nul"
    BY <2>1, <2>2, <2>3
  <2> QED BY <1>2, <2>2, <2>6, <2>7 DEF Ends
<1> QED BY <1>1, <1>2

-----------------------------------------------------------------------------

\* The lines that are under way.
Line ==
  {[level |-> level, prefix |-> p, message |-> n, buf |-> Assembled(level, p, n)] :
     level \in Levels, p \in Prefixes, n \in Messages}

PC == {"idle", "print", "save", "write"}

\* A thread that is at a line has one that _log_assemble has made.
LinesBuilt ==
  /\ pc \in [Thread -> PC]
  /\ line \in [Thread -> {<<>>} \cup Line]
  /\ \A t \in Thread : HasLine(t) => line[t] \in Line

LEMMA LinesBuiltInit == Init => LinesBuilt
BY DEF Init, LinesBuilt, HasLine, PC

LEMMA LinesBuiltStep == LinesBuilt /\ [Next]_vars => LinesBuilt'
<1> SUFFICES ASSUME LinesBuilt, [Next]_vars PROVE LinesBuilt'
  OBVIOUS
<1> USE DEF LinesBuilt, HasLine, PC
<1>1. CASE Restart
  BY <1>1 DEF Restart
<1>2. CASE LogInitialize \/ LogLevelSet \/ LogFinalize \/ UNCHANGED vars
  BY <1>2 DEF LogInitialize, LogLevelSet, LogFinalize, vars, threadVars
<1>3. ASSUME NEW t \in Thread, LogWrite(t) PROVE LinesBuilt'
  <2>1. PICK level \in Levels, p \in Prefixes, n \in Messages :
          line' = [line EXCEPT ![t] = [level |-> level, prefix |-> p, message |-> n,
                                       buf |-> Assembled(level, p, n)]]
    BY <1>3 DEF LogWrite
  <2>2. [level |-> level, prefix |-> p, message |-> n, buf |-> Assembled(level, p, n)] \in Line
    BY DEF Line
  <2>3. pc' = [pc EXCEPT ![t] = "print"]
    BY <1>3 DEF LogWrite, Goes
  <2> QED BY <2>1, <2>2, <2>3
<1>4. ASSUME NEW t \in Thread, PrintLine(t) PROVE LinesBuilt'
  BY <1>4 DEF PrintLine, Goes
<1>5. ASSUME NEW t \in Thread, SaveBegins(t) PROVE LinesBuilt'
  BY <1>5 DEF SaveBegins, Goes
<1>6. ASSUME NEW t \in Thread, SaveEnds(t) PROVE LinesBuilt'
  BY <1>6 DEF SaveEnds, Goes
<1>7. ASSUME NEW t \in Thread, SavesNot(t) PROVE LinesBuilt'
  BY <1>7 DEF SavesNot, Goes
<1> QED BY <1>1, <1>2, <1>3, <1>4, <1>5, <1>6, <1>7 DEF Next

LEMMA LinesBuiltEnds == LinesBuilt => LineEnds
<1> SUFFICES ASSUME LinesBuilt, NEW t \in Thread, HasLine(t)
             PROVE  Ends(line[t].buf, line[t].level, line[t].prefix, line[t].message)
  BY DEF LineEnds, Ends, End
<1>1. PICK level \in Levels, p \in Prefixes, n \in Messages :
        line[t] = [level |-> level, prefix |-> p, message |-> n,
                   buf |-> Assembled(level, p, n)]
  BY DEF LinesBuilt, Line
<1>2. p \in Nat /\ p < LOG_BUFFER_LEN /\ n \in Nat
  BY PrefixesAssumption, MessagesAssumption, BufferAssumption
<1>3. Ends(Assembled(level, p, n), level, p, n)
  BY <1>2, AssembledEnds
<1> QED BY <1>1, <1>3

\* Every line that is printed or saved ends within its buffer, in a newline and a
\* terminator, with nothing in it that was never set: for every length of the
\* buffer, of the prefix and of the message (_fill_customer_info, _log_assemble).
THEOREM LinesAlwaysEnd == Spec => []LineEnds
<1>1. Spec => []LinesBuilt
  BY LinesBuiltInit, LinesBuiltStep, PTL DEF Spec
<1> QED BY <1>1, LinesBuiltEnds, PTL

-----------------------------------------------------------------------------
(* The mutex.                                                               *)

\* MutexSound, and how far LogInitialize must be for there to be a mutex or a file.
MutexInv ==
  /\ main \in 0 .. 4
  /\ pc \in [Thread -> PC]
  /\ main <= 1 => mutex = "none"
  /\ fd => main >= 3
  /\ main = 4 => \A t \in Thread : pc[t] = "idle"
  /\ main \in {2, 3} => mutex # "none"
  /\ MutexSound

LEMMA MutexInit == Init => MutexInv
BY ThreadAssumption DEF Init, MutexInv, MutexSound, PC

\* No part of LogInitialize touches a mutex that a thread may have.
LEMMA MutexInitialize ==
  ASSUME MutexInv, LogInitialize
  PROVE  MutexInv'
<1> USE DEF MutexInv, MutexSound, LogInitialize, PC, Order
<1>1. main \in {0, 1, 2} /\ pc' = pc
  OBVIOUS
<1>2. CASE main = 0
  BY <1>1, <1>2
<1>3. CASE main = 1
  BY <1>1, <1>3, ThreadAssumption
<1>4. CASE main = 2
  BY <1>1, <1>4
<1> QED BY <1>1, <1>2, <1>3, <1>4

LEMMA MutexStep == MutexInv /\ [Next]_vars => MutexInv'
<1> SUFFICES ASSUME MutexInv, [Next]_vars PROVE MutexInv'
  OBVIOUS
<1> USE DEF MutexInv, MutexSound, PC, Goes
<1>1. CASE Restart
  BY <1>1, ThreadAssumption DEF Restart
<1>2. CASE LogInitialize
  BY <1>2, MutexInitialize
<1>3. CASE LogFinalize
  BY <1>3, ThreadAssumption DEF LogFinalize, threadVars
<1>4. CASE LogLevelSet \/ UNCHANGED vars
  BY <1>4 DEF LogLevelSet, vars, logVars, threadVars
<1>5. ASSUME NEW t \in Thread, LogWrite(t) PROVE MutexInv'
  BY <1>5 DEF LogWrite, logVars
<1>6. ASSUME NEW t \in Thread, PrintLine(t) PROVE MutexInv'
  BY <1>6 DEF PrintLine, logVars
<1>7. ASSUME NEW t \in Thread, SaveBegins(t) PROVE MutexInv'
  BY <1>7, ThreadAssumption DEF SaveBegins, Had
<1>8. ASSUME NEW t \in Thread, SaveEnds(t) PROVE MutexInv'
  BY <1>8, ThreadAssumption DEF SaveEnds
<1>9. ASSUME NEW t \in Thread, SavesNot(t) PROVE MutexInv'
  BY <1>9 DEF SavesNot, logVars
<1> QED BY <1>1, <1>2, <1>3, <1>4, <1>5, <1>6, <1>7, <1>8, <1>9 DEF Next

\* A thread that wants the mutex finds it initialised, and it has at most one owner,
\* the thread whose write is under way, though LogInitialize may run while other
\* threads log.
THEOREM MutexStaysSound == Spec => []MutexSound
<1>1. Spec => []MutexInv
  BY MutexInit, MutexStep, PTL DEF Spec
<1>2. MutexInv => MutexSound
  BY DEF MutexInv
<1> QED BY <1>1, <1>2, PTL

-----------------------------------------------------------------------------
(* The level.                                                               *)

\* OverOnce, and why it stays so: a thread that has printed a line above the level
\* prints next what it has looked at the level for since.
OverInv ==
  /\ LinesBuilt
  /\ over \in [Thread -> {0, 1}]
  /\ \A t \in Thread : pc[t] = "print" /\ over[t] = 1 => line[t].level <= set_level

LEMMA OverInit == Init => OverInv
BY LinesBuiltInit DEF Init, OverInv, None

LEMMA OverStep == OverInv /\ [Next]_vars => OverInv'
<1> SUFFICES ASSUME OverInv, [Next]_vars PROVE OverInv'
  OBVIOUS
<1>1. LinesBuilt'
  BY LinesBuiltStep DEF OverInv
<1> USE DEF OverInv, Goes, None
<1>2. CASE Restart
  BY <1>1, <1>2 DEF Restart
<1>3. CASE LogInitialize
  BY <1>1, <1>3 DEF LogInitialize
<1>4. CASE LogLevelSet
  BY <1>1, <1>4 DEF LogLevelSet
<1>5. CASE LogFinalize \/ UNCHANGED vars
  BY <1>1, <1>5 DEF LogFinalize, vars, logVars, threadVars
<1>6. ASSUME NEW t \in Thread, LogWrite(t) PROVE OverInv'
  <2>1. pc \in [Thread -> PC] /\ line \in [Thread -> {<<>>} \cup Line]
    BY DEF LinesBuilt
  <2>2. PICK level \in Levels, p \in Prefixes, n \in Messages :
          /\ level <= set_level
          /\ line' = [line EXCEPT ![t] = [level |-> level, prefix |-> p, message |-> n,
                                          buf |-> Assembled(level, p, n)]]
    BY <1>6 DEF LogWrite, LogLevelValid
  <2>3. pc' = [pc EXCEPT ![t] = "print"] /\ over' = over /\ set_level' = set_level
    BY <1>6 DEF LogWrite, logVars
  <2>4. line'[t].level = level
    BY <2>1, <2>2
  <2> QED BY <1>1, <2>1, <2>2, <2>3, <2>4
<1>7. ASSUME NEW t \in Thread, PrintLine(t) PROVE OverInv'
  <2>1. pc \in [Thread -> PC]
    BY DEF LinesBuilt
  <2>2. over' \in [Thread -> {0, 1}]
    BY <1>7 DEF PrintLine
  <2>3. \A u \in Thread : u # t => pc'[u] = pc[u] /\ over'[u] = over[u]
    BY <1>7, <2>1 DEF PrintLine
  <2>4. pc'[t] = "save" /\ line' = line /\ set_level' = set_level
    BY <1>7, <2>1 DEF PrintLine, logVars
  <2> QED BY <1>1, <2>2, <2>3, <2>4
<1>8. ASSUME NEW t \in Thread, SaveBegins(t) \/ SaveEnds(t) \/ SavesNot(t)
      PROVE  OverInv'
  <2>1. pc \in [Thread -> PC] /\ line \in [Thread -> {<<>>} \cup Line]
    BY DEF LinesBuilt
  <2>2. over' = over /\ set_level' = set_level /\ pc'[t] # "print"
    BY <1>8, <2>1 DEF SaveBegins, SaveEnds, SavesNot, logVars
  <2>3. \A u \in Thread : u # t => pc'[u] = pc[u] /\ line'[u] = line[u]
    BY <1>8, <2>1 DEF SaveBegins, SaveEnds, SavesNot
  <2> QED BY <1>1, <2>2, <2>3
<1> QED BY <1>2, <1>3, <1>4, <1>5, <1>6, <1>7, <1>8 DEF Next

\* After LogLevelSet each thread prints at most one line above the level, the one it
\* had found valid before (LOG looks at the level, then calls LogWrite).
THEOREM OverAtMostOnce == Spec => []OverOnce
<1>1. Spec => []OverInv
  BY OverInit, OverStep, PTL DEF Spec
<1>2. OverInv => OverOnce
  BY DEF OverInv, OverOnce
<1> QED BY <1>1, <1>2, PTL

-----------------------------------------------------------------------------
(* The file.                                                                *)

\* What a byte of the file may say of the line it is of.
Tags == [thread : Thread, no : Nat, bytes : Nat]

\* The file of this run ends at its offset.
FileTyped ==
  /\ file \in Seq({Old} \cup Tags)
  /\ offset \in 0 .. Len(file)
  /\ \A i \in 1 .. Len(file) : IF i <= offset THEN file[i] \in Tags ELSE file[i] = Old
  /\ lines \in [Thread -> Nat] /\ at \in [Thread -> Nat]

\* The bytes of one line follow each other, as many as there were to save, and none
\* of them is anywhere else.
RunsWhole ==
  \A i \in 1 .. offset : \E j \in 1 .. offset :
    /\ j + file[i].bytes - 1 \in j .. offset
    /\ \A k \in 1 .. offset : file[k] = file[i] <=> k \in j .. j + file[i].bytes - 1

Saving(t) == pc[t] \in {"save", "write"}

\* A thread puts its lines in the file in order, and the one it is about to save is
\* not yet there.
InOrder ==
  \A t \in Thread :
    /\ \A no \in InFile(t) : no \in Nat /\ no <= lines[t]
    /\ Saving(t) => lines[t] \notin InFile(t)
    /\ \A no \in InFile(t) : \A later \in no .. lines[t] :
         later \in InFile(t) \/ (later = lines[t] /\ Saving(t))

\* The mutex keeps the offset where it was when the write began.
WriteHere ==
  /\ offset > 0 => fd
  /\ \A t \in Thread : pc[t] = "write" => fd /\ at[t] = offset

FileInv == FileTyped /\ RunsWhole /\ InOrder /\ WriteHere

\* A line is never empty: its terminator is saved too.
LEMMA SavedSome ==
  ASSUME LinesBuilt, NEW t \in Thread, HasLine(t)
  PROVE  Saved(t) \in Nat /\ Saved(t) >= 1
<1>1. PICK level \in Levels, p \in Prefixes, n \in Messages :
        line[t] = [level |-> level, prefix |-> p, message |-> n,
                   buf |-> Assembled(level, p, n)]
  BY DEF LinesBuilt, Line
<1>2. p \in Nat /\ p < LOG_BUFFER_LEN /\ n \in Nat
  BY PrefixesAssumption, MessagesAssumption, BufferAssumption
<1> DEFINE buf == Assembled(level, p, n)
           end == End(level, p, n)
           nul == IF level = N_LOG_RAW THEN end ELSE end + 1
<1>3. Ends(buf, level, p, n)
  BY <1>2, AssembledEnds
<1>4. end \in Byte /\ end + 1 \in Int /\ nul \in Byte
  BY <1>2, BufferAssumption DEF End, Least, Byte
<1>5. buf[nul] = "nul" /\ \A i \in Byte : buf[i] = "nul" => nul <= i
  <2>1. \A i \in Byte : i < end => buf[i] # "nul"
    BY <1>3 DEF Ends
  <2>2. level # N_LOG_RAW => buf[end] # "nul"
    BY <1>3 DEF Ends
  <2>3. buf[nul] = "nul"
    BY <1>3 DEF Ends
  <2>4. \A i \in Byte : i \in Int
    BY DEF Byte
  <2> HIDE DEF buf, end
  <2> QED BY <1>4, <2>1, <2>2, <2>3, <2>4 DEF Byte
<1>6. Length(buf) \in Byte
  <2> HIDE DEF buf, nul
  <2> QED BY <1>4, <1>5 DEF Length
<1> QED BY <1>1, <1>6, BufferAssumption DEF Saved, Byte

\* A tag is not what an earlier run leaves.
LEMMA OldIsNoTag == Old \notin Tags
BY DEF Old, Tags

\* What it means that a line is in the file.
LEMMA InFileMeans ==
  ASSUME NEW t, NEW no
  PROVE  no \in InFile(t) <=>
           \E i \in 1 .. offset : file[i].thread = t /\ file[i].no = no
BY DEF InFile

\* What the end of a write does to the file, byte by byte.
LEMMA SaveEndsBytes ==
  ASSUME LinesBuilt, MutexInv, FileInv, NEW t \in Thread, SaveEnds(t)
  PROVE  /\ Tag(t) \in Tags /\ Tag(t).thread = t /\ Tag(t).no = lines[t]
         /\ Tag(t).bytes \in Nat /\ Tag(t).bytes >= 1
         /\ offset' = offset + Tag(t).bytes
         /\ FileTyped'
         /\ \A i \in 1 .. offset : file'[i] = file[i] /\ file[i] # Tag(t)
         /\ \A i \in offset + 1 .. offset' : file'[i] = Tag(t)
<1> DEFINE n == Saved(t)
           tag == Tag(t)
           last == IF Len(file) > offset + n THEN Len(file) ELSE offset + n
<1>1. n \in Nat /\ n >= 1
  BY SavedSome DEF SaveEnds, HasLine
<1>2. tag \in Tags /\ tag.thread = t /\ tag.no = lines[t] /\ tag.bytes = n
  BY <1>1 DEF Tag, Tags, FileInv, FileTyped
<1>3. /\ offset \in Nat /\ Len(file) \in Nat /\ offset <= Len(file)
      /\ file \in Seq({Old} \cup Tags) /\ at[t] = offset
  BY DEF FileInv, FileTyped, WriteHere, SaveEnds
<1> HIDE DEF n, tag
<1>4. offset' = offset + n
  BY <1>3 DEF SaveEnds, n
<1>5. last \in Nat /\ offset + n <= last /\ Len(file) <= last
  BY <1>1, <1>3
<1>6. file' = [i \in 1 .. last |-> IF i \in offset + 1 .. offset + n THEN tag ELSE file[i]]
  BY <1>3, <1>4 DEF SaveEnds, n, tag
<1>7. ASSUME NEW i \in 1 .. last, i \notin offset + 1 .. offset + n
      PROVE  i \in 1 .. Len(file)
  BY <1>1, <1>3, <1>7
<1> HIDE DEF last
<1>8. file' \in Seq({Old} \cup Tags) /\ Len(file') = last
  <2>1. file' \in [1 .. last -> {Old} \cup Tags]
    BY <1>2, <1>3, <1>6, <1>7
  <2> QED BY <1>5, <2>1
<1>9. offset' \in 0 .. Len(file')
  BY <1>1, <1>3, <1>4, <1>5, <1>8
<1>10. \A i \in offset + 1 .. offset' : file'[i] = tag
  BY <1>1, <1>3, <1>4, <1>5, <1>6
<1>11. \A i \in 1 .. offset : file'[i] = file[i]
  BY <1>1, <1>3, <1>5, <1>6
<1>12. ASSUME NEW i \in 1 .. Len(file')
       PROVE  IF i <= offset' THEN file'[i] \in Tags ELSE file'[i] = Old
  <2>1. CASE i \in offset + 1 .. offset + n
    BY <1>2, <1>3, <1>4, <1>10, <2>1
  <2>2. CASE i \notin offset + 1 .. offset + n
    <3>1. i \in 1 .. Len(file) /\ file'[i] = file[i]
      BY <1>6, <1>7, <1>8, <2>2
    <3>2. i <= offset <=> i <= offset'
      BY <1>1, <1>3, <1>4, <2>2
    <3> QED BY <3>1, <3>2 DEF FileInv, FileTyped
  <2> QED BY <2>1, <2>2
<1>13. lines' \in [Thread -> Nat] /\ at' \in [Thread -> Nat]
  BY DEF SaveEnds, FileInv, FileTyped
<1>14. ASSUME NEW i \in 1 .. offset
       PROVE  file[i] # tag
  <2>1. lines[t] \notin InFile(t)
    BY DEF SaveEnds, FileInv, InOrder, Saving
  <2> QED BY <1>2, <2>1, InFileMeans
<1> QED BY <1>1, <1>2, <1>4, <1>8, <1>9, <1>10, <1>11, <1>12, <1>13, <1>14 DEF FileTyped, tag

\* The line that was written is whole, and so are those before it.
LEMMA SaveEndsWhole ==
  ASSUME LinesBuilt, MutexInv, FileInv, NEW t \in Thread, SaveEnds(t)
  PROVE  RunsWhole'
<1> DEFINE tag == Tag(t)
           n == tag.bytes
<1>1. /\ tag \in Tags /\ n \in Nat /\ n >= 1
      /\ offset' = offset + n
      /\ \A i \in 1 .. offset : file'[i] = file[i] /\ file[i] # tag
      /\ \A i \in offset + 1 .. offset' : file'[i] = tag
  BY SaveEndsBytes
<1>2. offset \in Nat
  BY DEF FileInv, FileTyped
<1> HIDE DEF tag
<1>3. SUFFICES ASSUME NEW i \in 1 .. offset'
               PROVE  \E j \in 1 .. offset' :
                        /\ j + file'[i].bytes - 1 \in j .. offset'
                        /\ \A k \in 1 .. offset' :
                             file'[k] = file'[i] <=> k \in j .. j + file'[i].bytes - 1
  BY DEF RunsWhole
<1>4. CASE i \in 1 .. offset
  <2>1. PICK j \in 1 .. offset :
          /\ j + file[i].bytes - 1 \in j .. offset
          /\ \A k \in 1 .. offset : file[k] = file[i] <=> k \in j .. j + file[i].bytes - 1
    BY <1>4 DEF FileInv, RunsWhole
  <2> DEFINE b == file[i].bytes
  <2>2. file'[i] = file[i] /\ file[i] # tag
    BY <1>1, <1>4
  <2>3. b \in Nat
    BY <1>4 DEF FileInv, FileTyped, Tags
  <2> HIDE DEF b
  <2>4. j + b - 1 \in j .. offset'
    BY <1>1, <1>2, <2>1, <2>3 DEF b
  <2>5. ASSUME NEW k \in 1 .. offset'
        PROVE  file'[k] = file'[i] <=> k \in j .. j + b - 1
    <3>1. CASE k \in 1 .. offset
      BY <1>1, <2>1, <2>2, <3>1 DEF b
    <3>2. CASE k \notin 1 .. offset
      <4>1. k \in offset + 1 .. offset'
        BY <1>1, <1>2, <3>2
      <4>2. k \notin j .. j + b - 1
        BY <1>2, <2>1, <2>3, <4>1 DEF b
      <4> QED BY <1>1, <2>2, <4>1, <4>2
    <3> QED BY <3>1, <3>2
  <2>6. j \in 1 .. offset'
    BY <1>1, <1>2
  <2> QED BY <2>2, <2>4, <2>5, <2>6 DEF b
<1>5. CASE i \notin 1 .. offset
  <2>1. i \in offset + 1 .. offset' /\ file'[i] = tag /\ file'[i].bytes = n
    BY <1>1, <1>2, <1>5
  <2> DEFINE j == offset + 1
  <2>2. j \in 1 .. offset' /\ j + n - 1 \in j .. offset' /\ j + n - 1 = offset'
    BY <1>1, <1>2
  <2>3. ASSUME NEW k \in 1 .. offset'
        PROVE  file'[k] = tag <=> k \in j .. j + n - 1
    <3>1. k \in 1 .. offset \/ k \in offset + 1 .. offset'
      BY <1>1, <1>2
    <3>2. k \in 1 .. offset => k \notin j .. j + n - 1
      BY <1>2
    <3> QED BY <1>1, <2>2, <3>1, <3>2
  <2> QED BY <2>1, <2>2, <2>3
<1> QED BY <1>4, <1>5

\* The line goes to the file after those of its thread that are there.
LEMMA SaveEndsInOrder ==
  ASSUME LinesBuilt, MutexInv, FileInv, NEW t \in Thread, SaveEnds(t)
  PROVE  InOrder'
<1>1. /\ Tag(t).thread = t /\ Tag(t).no = lines[t]
      /\ Tag(t).bytes \in Nat /\ Tag(t).bytes >= 1
      /\ offset' = offset + Tag(t).bytes
      /\ \A i \in 1 .. offset : file'[i] = file[i]
      /\ \A i \in offset + 1 .. offset' : file'[i] = Tag(t)
  BY SaveEndsBytes
<1>2. offset \in Nat /\ lines' = lines /\ lines \in [Thread -> Nat]
  BY DEF SaveEnds, FileInv, FileTyped
<1>3. /\ 1 .. offset' = (1 .. offset) \cup (offset + 1 .. offset')
      /\ offset + 1 \in offset + 1 .. offset'
  BY <1>1, <1>2
<1>4. ASSUME NEW u, NEW no
      PROVE  no \in InFile(u)' <=> no \in InFile(u) \/ (u = t /\ no = lines[t])
  <2>1. no \in InFile(u)' <=> \E i \in 1 .. offset' : file'[i].thread = u /\ file'[i].no = no
    BY DEF InFile
  <2> QED BY <1>1, <1>3, <2>1, InFileMeans
<1>5. pc' = [pc EXCEPT ![t] = "idle"] /\ pc \in [Thread -> PC] /\ pc[t] = "write"
  BY DEF SaveEnds, Goes, LinesBuilt
<1>6. ASSUME NEW u \in Thread
      PROVE  /\ \A no \in InFile(u)' : no \in Nat /\ no <= lines'[u]
             /\ Saving(u)' => lines'[u] \notin InFile(u)'
             /\ \A no \in InFile(u)' : \A later \in no .. lines'[u] :
                  later \in InFile(u)' \/ (later = lines'[u] /\ Saving(u)')
  <2>0. /\ \A no \in InFile(u) : no \in Nat /\ no <= lines[u]
        /\ Saving(u) => lines[u] \notin InFile(u)
        /\ \A no \in InFile(u) : \A later \in no .. lines[u] :
             later \in InFile(u) \/ (later = lines[u] /\ Saving(u))
    BY DEF FileInv, InOrder
  <2>1. CASE u = t
    <3>1. ~Saving(u)' /\ lines[t] \in Nat
      BY <1>2, <1>5, <2>1 DEF Saving
    <3>2. \A later \in lines[t] .. lines[t] : later = lines[t]
      BY <3>1
    <3> QED BY <1>2, <1>4, <2>0, <2>1, <3>1, <3>2
  <2>2. CASE u # t
    <3>1. Saving(u)' <=> Saving(u)
      BY <1>5, <2>2 DEF Saving
    <3> QED BY <1>2, <1>4, <2>0, <2>2, <3>1
  <2> QED BY <2>1, <2>2
<1> QED BY <1>6 DEF InOrder

LEMMA FileInit == Init => FileInv
<1> SUFFICES ASSUME Init PROVE FileInv
  OBVIOUS
<1>1. file \in Seq({Old} \cup Tags) /\ Len(file) = 0 /\ offset = 0
  BY DEF Init
<1>2. \A t : InFile(t) = {}
  BY <1>1 DEF InFile
<1> QED BY <1>1, <1>2 DEF Init, FileInv, FileTyped, RunsWhole, InOrder, WriteHere, Saving, None

\* An action that writes nothing leaves the file as it was.
LEMMA FileKept ==
  ASSUME FileInv, UNCHANGED <<file, offset>>
  PROVE  RunsWhole' /\ (\A t : InFile(t)' = InFile(t))
BY DEF FileInv, RunsWhole, InFile

\* Nothing is in the file before it is open, so no line was missed.
LEMMA NothingBefore ==
  ASSUME FileInv, ~fd
  PROVE  offset = 0 /\ \A t : InFile(t) = {}
<1>1. offset = 0
  BY DEF FileInv, FileTyped, WriteHere
<1> QED BY <1>1 DEF InFile

LEMMA FileStep == LinesBuilt /\ MutexInv /\ FileInv /\ [Next]_vars => FileInv'
<1> SUFFICES ASSUME LinesBuilt, MutexInv, FileInv, [Next]_vars PROVE FileInv'
  OBVIOUS
<1>0. pc \in [Thread -> PC] /\ lines \in [Thread -> Nat] /\ at \in [Thread -> Nat]
  BY DEF LinesBuilt, FileInv, FileTyped
<1>1. CASE Restart
  <2>1. Len(file) \in Nat /\ DOMAIN file = 1 .. Len(file)
    BY DEF FileInv, FileTyped
  <2>2. file' = [i \in 1 .. Len(file) |-> Old] /\ offset' = 0
    BY <1>1, <2>1 DEF Restart
  <2>3. file' \in Seq({Old} \cup Tags) /\ Len(file') = Len(file)
    BY <2>1, <2>2
  <2>4. \A t : InFile(t)' = {}
    BY <2>2 DEF InFile
  <2> QED BY <1>1, <2>1, <2>2, <2>3, <2>4
    DEF Restart, FileInv, FileTyped, RunsWhole, InOrder, WriteHere, Saving, None
<1>2. CASE LogInitialize
  <2>1. UNCHANGED <<file, offset, pc, lines, at>> /\ (fd => fd')
    BY <1>2 DEF LogInitialize, fileVars, MutexInv
  <2> QED BY <2>1, FileKept DEF FileInv, FileTyped, InOrder, WriteHere, Saving
<1>3. CASE LogFinalize \/ LogLevelSet \/ UNCHANGED vars
  <2>1. UNCHANGED <<file, offset, pc, lines, at, fd>>
    BY <1>3 DEF LogFinalize, LogLevelSet, vars, logVars, threadVars, fileVars
  <2> QED BY <2>1, FileKept DEF FileInv, FileTyped, InOrder, WriteHere, Saving
<1>4. ASSUME NEW t \in Thread, LogWrite(t) PROVE FileInv'
  <2>1. UNCHANGED <<file, offset, lines, at, fd>>
    BY <1>4 DEF LogWrite, fileVars, logVars
  <2>2. pc[t] = "idle" /\ pc' = [pc EXCEPT ![t] = "print"]
    BY <1>4 DEF LogWrite, Goes
  <2>3. \A u \in Thread : (Saving(u)' <=> Saving(u)) /\ (pc'[u] = "write" => pc[u] = "write")
    BY <1>0, <2>2 DEF Saving
  <2> QED BY <2>1, <2>3, FileKept DEF FileInv, FileTyped, InOrder, WriteHere
<1>5. ASSUME NEW t \in Thread, PrintLine(t) PROVE FileInv'
  <2>1. /\ UNCHANGED <<file, offset, at, fd>>
        /\ pc[t] = "print" /\ pc' = [pc EXCEPT ![t] = "save"]
        /\ lines' = [lines EXCEPT ![t] = @ + 1]
    BY <1>5 DEF PrintLine, fileVars, logVars, Goes
  <2>2. RunsWhole' /\ \A u : InFile(u)' = InFile(u)
    BY <2>1, FileKept
  <2>3. FileTyped' /\ WriteHere'
    BY <1>0, <2>1 DEF FileInv, FileTyped, WriteHere
  <2>4. ASSUME NEW u \in Thread
        PROVE  /\ \A no \in InFile(u) : no \in Nat /\ no <= lines'[u]
               /\ Saving(u)' => lines'[u] \notin InFile(u)
               /\ \A no \in InFile(u) : \A later \in no .. lines'[u] :
                    later \in InFile(u) \/ (later = lines'[u] /\ Saving(u)')
    <3>1. /\ \A no \in InFile(u) : no \in Nat /\ no <= lines[u]
          /\ Saving(u) => lines[u] \notin InFile(u)
          /\ \A no \in InFile(u) : \A later \in no .. lines[u] :
               later \in InFile(u) \/ (later = lines[u] /\ Saving(u))
      BY DEF FileInv, InOrder
    <3>2. CASE u = t
      <4>1. lines'[u] = lines[u] + 1 /\ Saving(u)' /\ ~Saving(u) /\ lines[u] \in Nat
        BY <1>0, <2>1, <3>2 DEF Saving
      <4>2. \A no \in Nat : \A later \in no .. lines[u] + 1 :
              later = lines[u] + 1 \/ later \in no .. lines[u]
        BY <4>1
      <4> QED BY <3>1, <4>1, <4>2
    <3>3. CASE u # t
      <4>1. lines'[u] = lines[u] /\ (Saving(u)' <=> Saving(u))
        BY <1>0, <2>1, <3>3 DEF Saving
      <4> QED BY <3>1, <4>1
    <3> QED BY <3>2, <3>3
  <2> QED BY <2>2, <2>3, <2>4 DEF FileInv, InOrder
<1>6. ASSUME NEW t \in Thread, SaveBegins(t) PROVE FileInv'
  <2>1. /\ UNCHANGED <<file, offset, lines, fd>>
        /\ pc[t] = "save" /\ pc' = [pc EXCEPT ![t] = "write"]
        /\ at' = [at EXCEPT ![t] = offset]
    BY <1>6 DEF SaveBegins, fileVars, Goes
  <2>2. \A u \in Thread : Saving(u)' <=> Saving(u)
    BY <1>0, <2>1 DEF Saving
  <2>3. offset \in Nat
    BY DEF FileInv, FileTyped
  <2>4. at' \in [Thread -> Nat]
    BY <1>0, <2>1, <2>3
  <2>5. \A u \in Thread : pc'[u] = "write" => fd /\ at'[u] = offset
    BY <1>0, <1>6, <2>1 DEF SaveBegins, FileInv, WriteHere
  <2> QED BY <2>1, <2>2, <2>4, <2>5, FileKept
    DEF FileInv, FileTyped, WriteHere, InOrder
<1>7. ASSUME NEW t \in Thread, SaveEnds(t) PROVE FileInv'
  <2>1. WriteHere'
    <3>1. pc[t] = "write" /\ \A u \in Thread : pc[u] = "write" => u = t
      BY <1>7 DEF SaveEnds, MutexInv, MutexSound
    <3>2. \A u \in Thread : pc'[u] # "write"
      BY <1>0, <1>7, <3>1 DEF SaveEnds, Goes
    <3>3. fd /\ fd'
      BY <1>7, <3>1 DEF SaveEnds, FileInv, WriteHere
    <3> QED BY <3>2, <3>3 DEF WriteHere
  <2> QED BY <1>7, <2>1, SaveEndsBytes, SaveEndsWhole, SaveEndsInOrder DEF FileInv
<1>8. ASSUME NEW t \in Thread, SavesNot(t) PROVE FileInv'
  <2>1. /\ UNCHANGED <<file, offset, lines, at, fd>> /\ ~fd
        /\ pc[t] = "save" /\ pc' = [pc EXCEPT ![t] = "idle"]
    BY <1>8 DEF SavesNot, fileVars, logVars, Goes
  <2>2. offset = 0 /\ \A u : InFile(u) = {} /\ InFile(u)' = {}
    BY <2>1, NothingBefore, FileKept
  <2>3. \A u \in Thread : pc'[u] = "write" => pc[u] = "write"
    BY <1>0, <2>1
  <2> QED BY <2>1, <2>2, <2>3, FileKept DEF FileInv, FileTyped, InOrder, WriteHere
<1> QED BY <1>1, <1>2, <1>3, <1>4, <1>5, <1>6, <1>7, <1>8 DEF Next

LEMMA FileInvWhole == LinesBuilt /\ FileInv => FileWhole
<1> SUFFICES ASSUME LinesBuilt, FileInv PROVE FileWhole
  OBVIOUS
<1>1. ASSUME NEW i \in 1 .. Len(file)
      PROVE  i <= offset <=> file[i] # Old
  BY OldIsNoTag DEF FileInv, FileTyped
<1>2. ASSUME NEW i \in 1 .. Len(file), i <= offset
      PROVE  LET same == {j \in 1 .. offset : file[j] = file[i]}
             IN  /\ Cardinality(same) = file[i].bytes
                 /\ \E j \in same : same = j .. j + file[i].bytes - 1
  <2> DEFINE same == {j \in 1 .. offset : file[j] = file[i]}
             b == file[i].bytes
  <2>1. offset \in Nat /\ i \in 1 .. offset /\ b \in Nat
    BY <1>2 DEF FileInv, FileTyped, Tags
  <2>2. PICK j \in 1 .. offset :
          /\ j + b - 1 \in j .. offset
          /\ \A k \in 1 .. offset : file[k] = file[i] <=> k \in j .. j + b - 1
    BY <2>1 DEF FileInv, RunsWhole
  <2> HIDE DEF b
  <2>3. same = j .. j + b - 1 /\ j \in same /\ j \in Int /\ j + b - 1 \in Int
        /\ ~(j > j + b - 1) /\ (j + b - 1) - j + 1 = b
    BY <2>1, <2>2
  <2>4. Cardinality(j .. j + b - 1) = b
    BY <2>3, FS_Interval
  <2> QED BY <2>3, <2>4 DEF b
<1>3. ASSUME NEW t \in Thread, NEW no \in InFile(t), NEW later \in no .. lines[t]
      PROVE  later \in InFile(t) \/ (later = lines[t] /\ HasLine(t))
  BY <1>3 DEF FileInv, InOrder, Saving, HasLine
<1> QED BY <1>1, <1>2, <1>3 DEF FileWhole

\* What a run has written is whole lines from the start of the file, none mixed with
\* another though threads write at once and each write begins at an offset read before
\* it, and once the file is open no thread misses a line in it (_save_log_2_file, which
\* opens without truncating and writes under the mutex): for any number of threads,
\* lines, runs and bytes.
THEOREM FileStaysWhole == Spec => []FileWhole
<1>1. Init => LinesBuilt /\ MutexInv /\ FileInv
  BY LinesBuiltInit, MutexInit, FileInit
<1>2. LinesBuilt /\ MutexInv /\ FileInv /\ [Next]_vars => (LinesBuilt /\ MutexInv /\ FileInv)'
  BY LinesBuiltStep, MutexStep, FileStep
<1>3. LinesBuilt /\ MutexInv /\ FileInv => FileWhole
  BY FileInvWhole
<1> QED BY <1>1, <1>2, <1>3, PTL DEF Spec

=============================================================================
