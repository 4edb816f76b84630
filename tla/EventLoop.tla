----------------------------- MODULE EventLoop -----------------------------
(***************************************************************************)
(* The event loop, utils/event_loop/src/event_loop.c: any thread adds      *)
(* events with one of three priorities, one thread takes them out, gives   *)
(* them to the handler and frees them, and any thread may clear the lists. *)
(*                                                                         *)
(* What the code does under the mutex is one step.  The counters of the    *)
(* three lists change with the lists under the mutex and are their         *)
(* lengths.  Looks at them without the mutex are steps of their own.       *)
(***************************************************************************)
EXTENDS Integers, Sequences

CONSTANT Events     (* what may be added; a freed event may be added again *)

CONSTANT None       (* no event *)

ASSUME NoneAssumption == None \notin Events

VARIABLES
  queue,       (* the three lists; priority 1 is the highest                 *)
  running,     (* event_loop->running                                        *)
  lpc,         (* where the loop thread is                                   *)
  level,       (* the list it is consuming                                   *)
  item,        (* the event it has taken                                     *)
  draining,    (* it is in _free_all: no handler, no interrupts              *)
  kpc,         (* where the thread in EventLoopClear is                      *)
  klevel,      (* the list it is consuming                                   *)
  kitem,       (* the event it has taken                                     *)
  live         (* the events that were added and are not freed yet           *)

loopVars == <<lpc, level, item, draining>>
clearVars == <<kpc, klevel, kitem>>
vars == <<queue, running, loopVars, clearVars, live>>

Priority == 1 .. 3
AllEmpty == \A p \in Priority : queue[p] = <<>>

Init ==
  /\ queue = [p \in Priority |-> <<>>] /\ running = TRUE
  /\ lpc = "run" /\ level = 1 /\ item = None /\ draining = FALSE
  /\ kpc = "idle" /\ klevel = 1 /\ kitem = None
  /\ live = {}

-----------------------------------------------------------------------------
(* EventLoopAdd, by any thread.                                             *)

\* The callers stop adding when they destroy the loop.
Add(e, p) ==
  /\ e \notin live /\ running
  /\ queue' = [queue EXCEPT ![p] = Append(@, e)]
  /\ live' = live \cup {e}
  /\ lpc' = IF lpc = "asleep" THEN "run" ELSE lpc
  /\ UNCHANGED <<running, level, item, draining, clearVars>>

-----------------------------------------------------------------------------
(* The loop thread, _event_handler.                                         *)

\* Mutant: what is left in the lists is not freed.
LoopTestNoFreeAll ==
  /\ lpc = "run" /\ lpc' = (IF running THEN "consume" ELSE "gone")
  /\ UNCHANGED <<queue, running, level, item, draining, clearVars, live>>

LoopTest ==
  /\ lpc = "run" /\ lpc' = "consume" /\ draining' = ~running
  /\ UNCHANGED <<queue, running, level, item, clearVars, live>>

\* The interrupt handlers: a list of higher priority has an event.
Interrupted == ~draining /\ \E p \in 1 .. level - 1 : queue[p] # <<>>

\* _consume_one_list finds the list empty, or is interrupted.
NextList ==
  /\ lpc = "consume" /\ (Interrupted \/ queue[level] = <<>>)
  /\ level' = IF level = 3 THEN 1 ELSE level + 1
  /\ lpc' = IF level < 3 THEN "consume" ELSE IF draining THEN "gone" ELSE "look"
  /\ UNCHANGED <<queue, running, item, draining, clearVars, live>>

\* Mutant: the event stays in the list when it is taken.
TakeCopy ==
  /\ lpc = "consume" /\ ~Interrupted /\ queue[level] # <<>>
  /\ item' = Head(queue[level]) /\ lpc' = "taken"
  /\ UNCHANGED <<queue, running, level, draining, clearVars, live>>

Take ==
  /\ lpc = "consume" /\ ~Interrupted /\ queue[level] # <<>>
  /\ item' = Head(queue[level])
  /\ queue' = [queue EXCEPT ![level] = Tail(@)]
  /\ lpc' = "taken"
  /\ UNCHANGED <<running, level, draining, clearVars, live>>

\* The handler is called while the loop runs, without the mutex.
Handle ==
  /\ lpc = "taken" /\ lpc' = IF running /\ ~draining THEN "handler" ELSE "free"
  /\ UNCHANGED <<queue, running, level, item, draining, clearVars, live>>

HandlerReturns ==
  /\ lpc = "handler" /\ lpc' = "free"
  /\ UNCHANGED <<queue, running, level, item, draining, clearVars, live>>

\* Mutant: the event is not freed.
FreeForgotten ==
  /\ lpc = "free" /\ lpc' = "consume"
  /\ item' = None
  /\ UNCHANGED <<queue, running, level, draining, clearVars, live>>

Free ==
  /\ lpc = "free" /\ lpc' = "consume"
  /\ live' = live \ {item} /\ item' = None
  /\ UNCHANGED <<queue, running, level, draining, clearVars>>

(* _try_cond_timedwait.                                                     *)

\* The first look is without the mutex.
Look ==
  /\ lpc = "look" /\ lpc' = IF AllEmpty THEN "lock" ELSE "run"
  /\ UNCHANGED <<queue, running, level, item, draining, clearVars, live>>

\* Mutant: sleeps on the strength of the first look.
SleepBlindly ==
  /\ lpc = "lock" /\ lpc' = "asleep"
  /\ UNCHANGED <<queue, running, level, item, draining, clearVars, live>>

\* The second look, the wait and the release of the mutex are one step.
Sleep ==
  /\ lpc = "lock" /\ lpc' = IF AllEmpty THEN "asleep" ELSE "run"
  /\ UNCHANGED <<queue, running, level, item, draining, clearVars, live>>

\* A second has passed.
Timeout ==
  /\ lpc = "asleep" /\ lpc' = "run"
  /\ UNCHANGED <<queue, running, level, item, draining, clearVars, live>>

-----------------------------------------------------------------------------
(* EventLoopClear: takes and frees, list by list, with no handler.          *)

ClearCall ==
  /\ kpc = "idle" /\ running
  /\ kpc' = "consume" /\ klevel' = 1
  /\ UNCHANGED <<queue, running, loopVars, kitem, live>>

ClearTake ==
  /\ kpc = "consume" /\ queue[klevel] # <<>>
  /\ kitem' = Head(queue[klevel])
  /\ queue' = [queue EXCEPT ![klevel] = Tail(@)]
  /\ kpc' = "free"
  /\ UNCHANGED <<running, loopVars, klevel, live>>

ClearFree ==
  /\ kpc = "free" /\ kpc' = "consume"
  /\ live' = live \ {kitem} /\ kitem' = None
  /\ UNCHANGED <<queue, running, loopVars, klevel>>

ClearNextList ==
  /\ kpc = "consume" /\ queue[klevel] = <<>>
  /\ IF klevel < 3 THEN klevel' = klevel + 1 /\ kpc' = kpc
                   ELSE klevel' = klevel /\ kpc' = "idle"
  /\ UNCHANGED <<queue, running, loopVars, kitem, live>>

-----------------------------------------------------------------------------

\* EventLoopDestroy: the loop thread is detached, so pthread_join waits for
\* nothing, and the thread is not woken; it frees what is left when it sees
\* running.  The callers do not destroy a loop that they are clearing.
DestroyCall ==
  /\ running /\ kpc = "idle"
  /\ running' = FALSE
  /\ UNCHANGED <<queue, loopVars, clearVars, live>>

Loop ==
  \/ LoopTest \/ NextList \/ Take \/ Handle \/ HandlerReturns \/ Free
  \/ Look \/ Sleep \/ Timeout

Clearing == ClearTake \/ ClearFree \/ ClearNextList

Next ==
  \/ \E e \in Events, p \in Priority : Add(e, p)
  \/ Loop
  \/ ClearCall \/ Clearing
  \/ DestroyCall

\* Nobody has to add, clear or destroy, but a handler returns, a timed wait
\* ends, and a thread that can run does.
Spec == Init /\ [][Next]_vars /\ WF_vars(Loop) /\ WF_vars(Clearing)

-----------------------------------------------------------------------------
(* Properties.                                                              *)

InList(e) == \E p \in Priority : \E i \in DOMAIN queue[p] : queue[p][i] = e

OnceInLists ==
  \A p, q \in Priority : \A i \in DOMAIN queue[p], j \in DOMAIN queue[q] :
    queue[p][i] = queue[q][j] => p = q /\ i = j

\* An event that was added and is not freed is in one place: once in a list, or
\* in the hands of the loop or of EventLoopClear.  So none is leaked, handled
\* after it was freed, or freed twice, though two threads empty the same lists.
OneOwner ==
  /\ live = {e \in Events : InList(e) \/ e = item \/ e = kitem}
  /\ OnceInLists /\ ~InList(item) /\ ~InList(kitem)
  /\ item = kitem => item = None

\* The loop never sleeps on an event: no add falls between its look at the
\* lists and its wait.
NoLostWakeup == lpc = "asleep" => AllEmpty

\* The highest priority is never starved.
HighestServed ==
  \A e \in Events : (\E i \in 1 .. Len(queue[1]) : queue[1][i] = e) ~> e \notin live

\* A destroyed loop ends, and then every event has been freed.
DestroyEnds == ~running ~> lpc = "gone" /\ live = {}

=============================================================================
