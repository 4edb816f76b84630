------------------------------- MODULE Logger -------------------------------
(***************************************************************************)
(* utils/logger: threads format a line each into a buffer of their own,    *)
(* print it and save it to a file that all of them share, while the main   *)
(* thread initialises the logger and sets its level.  A buffer is modelled *)
(* by what each of its bytes is for.  The process may be started again,    *)
(* at any moment, on the file the last one left.                           *)
(***************************************************************************)
EXTENDS Integers, Sequences, FiniteSets

CONSTANTS
  Thread,
  LOG_BUFFER_LEN,
  Levels,         (* the levels that are used                                  *)
  Prefixes,       (* the lengths the parts before the message add up to        *)
  Messages,       (* the lengths of the messages, as vsnprintf returns them    *)
  MaxLines,       (* how many lines a thread logs in a run                     *)
  MaxRuns         (* how often the process is started                          *)

ASSUME ThreadAssumption == Thread \cap {"none", "free"} = {}
ASSUME BufferAssumption == LOG_BUFFER_LEN \in Nat /\ LOG_BUFFER_LEN >= 2
\* Tags and names of functions are short: what is before the message fits.
ASSUME PrefixesAssumption == Prefixes \subseteq 0 .. LOG_BUFFER_LEN - 1
\* vsnprintf does not fail.
ASSUME MessagesAssumption == Messages \subseteq Nat
ASSUME BoundsAssumption == MaxLines \in Nat /\ MaxRuns \in Nat

\* LogLevel, in the order of the enumeration.
N_LOG_NONE == -1
N_LOG_ERROR == 0
N_LOG_WARN == 1
N_LOG_TRACK == 2
N_LOG_DEBUG == 3
N_LOG_RAW == 4
N_LOG_ALL == 5
LogLevel == N_LOG_NONE .. N_LOG_ALL

ASSUME LevelsAssumption == Levels \subseteq LogLevel

VARIABLES
  set_level,      (* g_log_config.set_level                                    *)
  fd, mutex,      (* g_log_file: the file is open; what the mutex is, or who   *)
                  (* has it                                                    *)
  main,           (* the parts of LogInitialize that are done; 4: LogFinalize  *)
  pc, line, at,   (* each thread: where it is, its line, the place in the file *)
                  (* that its write has begun at                               *)
  lines, over,    (* the lines it has printed, and how many of them above the  *)
                  (* level since that was set                                  *)
  file, offset,   (* the file, each byte the line it is of; where fd is in it  *)
  run             (* the runs of the process                                   *)

logVars == <<set_level, fd, mutex, main>>
threadVars == <<pc, line, at, lines, over>>
fileVars == <<file, offset, run>>
vars == <<logVars, threadVars, fileVars>>

-----------------------------------------------------------------------------
(* The line.                                                                *)

Byte == 0 .. LOG_BUFFER_LEN - 1
Least(a, b) == IF a <= b THEN a ELSE b

\* snprintf of n characters to what is left of the buffer from byte p on.
Printed(buf, p, n, what) ==
  LET end == Least(p + n, LOG_BUFFER_LEN - 1)
  IN  [i \in Byte |-> IF i < p \/ i > end THEN buf[i]
                      ELSE IF i = end THEN "nul" ELSE what]

\* Mutant: the line that lacks but one byte is taken to have room for both.
CrowdedWhenFull(remain_len) == remain_len <= 0

\* There is no room for both the newline and the terminator.
Crowded(remain_len) == remain_len <= 1

\* _fill_customer_info: the newline then takes the place of the last character.
Fill(buf, p, n, feed) ==
  LET printed == Printed(buf, p, n, "text")
      remain_len == LOG_BUFFER_LEN - p - Least(n, LOG_BUFFER_LEN - p)
      last == IF Crowded(remain_len) THEN LOG_BUFFER_LEN - 2 ELSE p + n
  IN  IF feed THEN [printed EXCEPT ![last] = "newline", ![last + 1] = "nul"] ELSE printed

\* _log_assemble, in a buffer that nobody has initialised.
Assembled(level, p, n) ==
  LET unset == [i \in Byte |-> "unset"]
  IN  IF level = N_LOG_RAW THEN Fill(unset, 0, n, FALSE)
      ELSE Fill(Printed(unset, 0, p, "prefix"), p, n, TRUE)

\* strlen.
Length(buf) == CHOOSE e \in Byte : buf[e] = "nul" /\ \A i \in Byte : buf[i] = "nul" => e <= i

-----------------------------------------------------------------------------

None == [t \in Thread |-> 0]

Init ==
  /\ set_level = N_LOG_ALL /\ fd = FALSE /\ mutex = "none" /\ main = 0
  /\ pc = [t \in Thread |-> "idle"] /\ line = [t \in Thread |-> <<>>]
  /\ at = None /\ lines = None /\ over = None
  /\ file = <<>> /\ offset = 0 /\ run = 1

\* A byte that an earlier run has left.
Old == <<>>

\* The process ends, or is ended, and is started again on the file, which is neither
\* truncated nor appended to.
Restart ==
  /\ run < MaxRuns /\ run' = run + 1 /\ offset' = 0
  /\ file' = [i \in DOMAIN file |-> Old]
  /\ set_level' = N_LOG_ALL /\ fd' = FALSE /\ mutex' = "none" /\ main' = 0
  /\ pc' = [t \in Thread |-> "idle"] /\ line' = [t \in Thread |-> <<>>]
  /\ at' = None /\ lines' = None /\ over' = None

\* Mutant: the file is opened first.
OpenFirst == <<"level", "file", "mutex">>

\* LogInitialize with enable_file; without, it only sets the level.
Order == <<"level", "mutex", "file">>

\* One part of it; open may fail.
LogInitialize ==
  /\ main < 3 /\ main' = main + 1
  /\ LET part == Order[main + 1]
     IN  /\ set_level' \in IF part = "level" THEN Levels ELSE {set_level}
         /\ over' = IF part = "level" THEN None ELSE over
         /\ mutex' = IF part = "mutex" THEN "free" ELSE mutex
         /\ fd' \in IF part = "file" THEN BOOLEAN ELSE {fd}
  /\ UNCHANGED <<pc, line, at, lines, fileVars>>

LogLevelSet ==
  /\ main \in {0, 3} /\ set_level' \in Levels
  /\ over' = None
  /\ UNCHANGED <<fd, mutex, main, pc, line, at, lines, fileVars>>

\* LogFinalize, which destroys the mutex and leaves the file open: the last thing a
\* process does, when no thread logs any more.
LogFinalize ==
  /\ main = 3 /\ main' = 4 /\ \A t \in Thread : pc[t] = "idle"
  /\ mutex' = "none"
  /\ UNCHANGED <<set_level, fd, threadVars, fileVars>>

Goes(t, to) == pc' = [pc EXCEPT ![t] = to]

\* Mutant: the level is not looked at.
AlwaysValid(level) == TRUE

LogLevelValid(level) == level <= set_level

\* LOG: a line that the level lets pass is formatted.
LogWrite(t) ==
  /\ main # 4 /\ pc[t] = "idle" /\ lines[t] < MaxLines /\ Goes(t, "print")
  /\ \E level \in Levels, p \in Prefixes, n \in Messages :
       /\ LogLevelValid(level)
       /\ line' = [line EXCEPT ![t] =
                    [level |-> level, prefix |-> p, message |-> n,
                     buf |-> Assembled(level, p, n)]]
  /\ UNCHANGED <<logVars, at, lines, over, fileVars>>

\* printf.
PrintLine(t) ==
  /\ pc[t] = "print" /\ Goes(t, "save") /\ lines' = [lines EXCEPT ![t] = @ + 1]
  /\ over' = [over EXCEPT ![t] = IF line[t].level <= set_level THEN @ ELSE @ + 1]
  /\ UNCHANGED <<logVars, line, at, fileVars>>

\* Mutant: the mutex is not waited for.
HadAlways(t) == TRUE

Had(t) == mutex = "free"

\* _save_log_2_file, with a file: the mutex, and the write, which begins at the
\* offset of the file ...
SaveBegins(t) ==
  /\ pc[t] = "save" /\ fd /\ Had(t) /\ mutex' = t
  /\ Goes(t, "write") /\ at' = [at EXCEPT ![t] = offset]
  /\ UNCHANGED <<set_level, fd, main, line, lines, over, fileVars>>

\* The bytes of the buffer that are saved, with the terminator.
Saved(t) == Length(line[t].buf) + 1

Tag(t) == [thread |-> t, no |-> lines[t], bytes |-> Saved(t)]

\* ... puts the bytes there, over what an earlier run has left, and moves it.
SaveEnds(t) ==
  /\ pc[t] = "write" /\ offset' = at[t] + Saved(t)
  /\ LET end == IF Len(file) > offset' THEN Len(file) ELSE offset'
     IN  file' = [i \in 1 .. end |-> IF i \in at[t] + 1 .. offset' THEN Tag(t) ELSE file[i]]
  /\ mutex' = "free" /\ Goes(t, "idle")
  /\ line' = [line EXCEPT ![t] = <<>>] /\ at' = [at EXCEPT ![t] = 0]
  /\ UNCHANGED <<set_level, fd, main, lines, over, run>>

SavesNot(t) ==
  /\ pc[t] = "save" /\ ~fd /\ Goes(t, "idle") /\ line' = [line EXCEPT ![t] = <<>>]
  /\ UNCHANGED <<logVars, at, lines, over, fileVars>>

Next ==
  \/ Restart \/ LogInitialize \/ LogFinalize \/ LogLevelSet
  \/ \E t \in Thread :
       LogWrite(t) \/ PrintLine(t) \/ SaveBegins(t) \/ SaveEnds(t) \/ SavesNot(t)

Spec == Init /\ [][Next]_vars

-----------------------------------------------------------------------------
(* Properties.                                                              *)

HasLine(t) == pc[t] # "idle"

\* A line ends in a newline and the terminator, both within the buffer, right after
\* the message or, if it is too long, at the end of the buffer, and has no byte that
\* was never set; a raw line ends in the terminator alone.
LineEnds ==
  \A t \in Thread : HasLine(t) =>
    LET buf == line[t].buf
        end == IF line[t].level = N_LOG_RAW THEN Least(line[t].message, LOG_BUFFER_LEN - 1)
               ELSE Least(line[t].prefix + line[t].message, LOG_BUFFER_LEN - 2)
    IN  /\ \A i \in Byte : i < end => buf[i] \in {"prefix", "text"}
        /\ IF line[t].level = N_LOG_RAW THEN buf[end] = "nul"
           ELSE buf[end] = "newline" /\ buf[end + 1] = "nul"

\* The mutex is initialised when a thread may want it, and has one owner: the
\* thread that writes.
MutexSound ==
  /\ fd /\ main # 4 => mutex # "none"
  /\ \A t \in Thread : mutex = t <=> pc[t] = "write"

\* The lines of thread t in the part of the file that this run has written.
InFile(t) == {file[i].no : i \in {j \in 1 .. offset : file[j].thread = t}}

\* What this run has written, from the start of the file, is whole lines; what comes
\* after is what an earlier run has left.  Once the file is open no thread misses a
\* line in it but the one it is at.
FileWhole ==
  /\ \A i \in 1 .. Len(file) :
       /\ i <= offset <=> file[i] # Old
       /\ i <= offset =>
            LET same == {j \in 1 .. offset : file[j] = file[i]}
            IN  /\ Cardinality(same) = file[i].bytes
                /\ \E j \in same : same = j .. j + file[i].bytes - 1
  /\ \A t \in Thread : \A no \in InFile(t) :
       \A later \in no .. lines[t] : later \in InFile(t) \/ (later = lines[t] /\ HasLine(t))

\* Once LogLevelSet has returned a thread prints at most one line above the level:
\* the one it had looked at the level for before.
OverOnce == \A t \in Thread : over[t] <= 1

=============================================================================
