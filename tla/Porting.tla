------------------------------ MODULE Porting -------------------------------
(***************************************************************************)
(* hal/src/porting.c: semaphores behind a handle that may be null, and the *)
(* points in time that timed waits end at.                                 *)
(*                                                                         *)
(* The semaphores of a program are a function sem: the count, or NoHandle  *)
(* when hdl is null, as it is in zeroed memory, after uni_sem_new failed to *)
(* allocate, and after uni_sem_free.  No caller looks at what these        *)
(* functions return.                                                       *)
(***************************************************************************)
EXTENDS Integers

NoHandle == -1

\* uni_sem_new, when there is memory.
SemNew(sem, s, count) == [sem EXCEPT ![s] = count]

\* uni_sem_free: refuses a null handle, and makes a valid one null.
SemFree(sem, s) == [sem EXCEPT ![s] = NoHandle]

\* uni_sem_signal: a null handle is refused and the signal is lost.
SemSignal(sem, s) == [sem EXCEPT ![s] = IF @ = NoHandle THEN @ ELSE @ + 1]

\* uni_sem_wait with UNI_WAIT_FOREVER returns: at once if the handle is null.
SemReturns(sem, s) == sem[s] # 0

\* What a wait that returns takes with it: nothing from a null handle, and
\* nothing when a timed wait (__sem_timedwait) has run out.
SemTaken(sem, s) == [sem EXCEPT ![s] = IF @ > 0 THEN @ - 1 ELSE @]

-----------------------------------------------------------------------------

Million == 1000000
Billion == 1000000000

Time == [sec : Nat, nsec : 0 .. Billion - 1]

Nanoseconds(t) == t.sec * Billion + t.nsec

\* __sem_timedwait: when a wait of msec milliseconds that begins now ends.
SemDeadline(now, msec) ==
  LET sec == now.sec + msec \div 1000
      nsec == now.nsec + (msec % 1000) * Million
  IN  IF nsec >= Billion THEN [sec |-> sec + 1, nsec |-> nsec - Billion]
                         ELSE [sec |-> sec, nsec |-> nsec]

\* _set_ts of event_loop.c, for the wait of its thread.
LoopDeadline(now, msec) ==
  LET timeout == Nanoseconds(now) + msec * Million
  IN  [sec |-> timeout \div Billion, nsec |-> timeout % Billion]

=============================================================================
