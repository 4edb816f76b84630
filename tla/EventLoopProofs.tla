-------------------------- MODULE EventLoopProofs --------------------------
(***************************************************************************)
(* Proofs about the event loop, for every set of events and any number of  *)
(* them in the lists.  The last part is about the deadline its thread waits *)
(* to: it is the one that the timed wait of the porting layer computes in  *)
(* another way, and neither ever gives sem_timedwait or                    *)
(* pthread_cond_timedwait a time it would refuse.                          *)
(***************************************************************************)
EXTENDS EventLoop, Porting, SequenceTheorems, TLAPS

Typed ==
  /\ queue \in [Priority -> Seq(Events)]
  /\ level \in Priority /\ klevel \in Priority
  /\ live \subseteq Events

\* The places of the two threads in which they have an event in hand.
Hands ==
  /\ IF lpc \in {"taken", "handler", "free"} THEN item \in Events ELSE item = None
  /\ IF kpc = "free" THEN kitem \in Events ELSE kitem = None

IInv == Typed /\ Hands /\ OneOwner

-----------------------------------------------------------------------------
(* What the operations of list_head.h do to the lists.                      *)

\* EventLoopAdd puts the event at the end of one list and moves no other.
LEMMA PutIn ==
  ASSUME Typed, OnceInLists, NEW p \in Priority, NEW e \in Events, ~InList(e),
         queue' = [queue EXCEPT ![p] = Append(@, e)]
  PROVE  /\ queue' \in [Priority -> Seq(Events)]
         /\ OnceInLists'
         /\ \A x : InList(x)' <=> InList(x) \/ x = e
<1> DEFINE s == queue[p]
<1>1. s \in Seq(Events) /\ Append(s, e) \in Seq(Events)
  BY DEF Typed
<1>2. /\ queue' \in [Priority -> Seq(Events)]
      /\ queue'[p] = Append(s, e)
      /\ \A q \in Priority : q # p => queue'[q] = queue[q]
  BY <1>1 DEF Typed
<1>3. \A q \in Priority : Len(queue[q]) \in Nat /\ DOMAIN queue[q] = 1 .. Len(queue[q])
  BY LenProperties DEF Typed
<1>4. /\ DOMAIN Append(s, e) = 1 .. Len(s) + 1
      /\ \A i \in 1 .. Len(s) : Append(s, e)[i] = s[i]
      /\ Append(s, e)[Len(s) + 1] = e
  BY <1>1
<1>5. ASSUME NEW q \in Priority, NEW i \in DOMAIN queue'[q]
      PROVE  \/ i \in DOMAIN queue[q] /\ queue'[q][i] = queue[q][i]
             \/ q = p /\ i = Len(s) + 1 /\ queue'[q][i] = e
  BY <1>2, <1>3, <1>4
<1>6. ASSUME NEW q \in Priority, NEW i \in DOMAIN queue[q]
      PROVE  i \in DOMAIN queue'[q] /\ queue'[q][i] = queue[q][i]
  BY <1>2, <1>3, <1>4
<1>7. OnceInLists'
  <2> SUFFICES ASSUME NEW q \in Priority, NEW r \in Priority,
                      NEW i \in DOMAIN queue'[q], NEW j \in DOMAIN queue'[r],
                      queue'[q][i] = queue'[r][j]
               PROVE  q = r /\ i = j
    BY DEF OnceInLists
  <2>1. CASE i \in DOMAIN queue[q] /\ queue'[q][i] = queue[q][i]
             /\ j \in DOMAIN queue[r] /\ queue'[r][j] = queue[r][j]
    BY <2>1 DEF OnceInLists
  <2>2. \A x \in Priority : \A k \in DOMAIN queue[x] : queue[x][k] # e
    BY DEF InList
  <2> QED BY <1>5, <2>1, <2>2
<1>8. ASSUME NEW x PROVE InList(x)' <=> InList(x) \/ x = e
  <2>1. InList(x)' => InList(x) \/ x = e
    BY <1>5 DEF InList
  <2>2. InList(x) => InList(x)'
    BY <1>6 DEF InList
  <2>3. Len(s) + 1 \in DOMAIN queue'[p] /\ queue'[p][Len(s) + 1] = e
    BY <1>2, <1>3, <1>4
  <2> QED BY <2>1, <2>2, <2>3 DEF InList
<1> QED BY <1>2, <1>7, <1>8

\* _consume_one_list takes the first event out of one list.
LEMMA TakenOut ==
  ASSUME Typed, OnceInLists, NEW p \in Priority, queue[p] # <<>>,
         queue' = [queue EXCEPT ![p] = Tail(@)]
  PROVE  LET e == Head(queue[p])
         IN  /\ queue' \in [Priority -> Seq(Events)]
             /\ OnceInLists'
             /\ e \in Events /\ InList(e)
             /\ \A x : InList(x)' <=> InList(x) /\ x # e
<1> DEFINE s == queue[p]  e == Head(s)
<1>1. s \in Seq(Events) /\ s # <<>>
  BY DEF Typed
<1>2. /\ e \in Events /\ Tail(s) \in Seq(Events) /\ Len(Tail(s)) = Len(s) - 1
      /\ \A i \in 1 .. Len(Tail(s)) : Tail(s)[i] = s[i + 1]
      /\ Len(s) \in Nat /\ Len(s) > 0 /\ s[1] = e
  BY <1>1, HeadTailProperties, EmptySeq
<1>3. /\ queue' \in [Priority -> Seq(Events)]
      /\ queue'[p] = Tail(s)
      /\ \A q \in Priority : q # p => queue'[q] = queue[q]
  BY <1>2 DEF Typed
<1>4. /\ \A q \in Priority : Len(queue[q]) \in Nat /\ DOMAIN queue[q] = 1 .. Len(queue[q])
      /\ DOMAIN Tail(s) = 1 .. Len(s) - 1
  BY <1>2, LenProperties DEF Typed
<1> DEFINE Was(q, i) == IF q = p THEN i + 1 ELSE i
<1>5. ASSUME NEW q \in Priority, NEW i \in DOMAIN queue'[q]
      PROVE  Was(q, i) \in DOMAIN queue[q] /\ queue'[q][i] = queue[q][Was(q, i)]
             /\ i \in Nat /\ i > 0
  BY <1>2, <1>3, <1>4
<1>6. 1 \in DOMAIN s /\ InList(e)
  BY <1>2, <1>4 DEF InList
<1>7. OnceInLists'
  <2> SUFFICES ASSUME NEW q \in Priority, NEW r \in Priority,
                      NEW i \in DOMAIN queue'[q], NEW j \in DOMAIN queue'[r],
                      queue'[q][i] = queue'[r][j]
               PROVE  q = r /\ i = j
    BY DEF OnceInLists
  <2>1. q = r /\ Was(q, i) = Was(r, j)
    BY <1>5 DEF OnceInLists
  <2> QED BY <1>5, <2>1
<1>8. ASSUME NEW x, InList(x)' PROVE InList(x) /\ x # e
  <2>1. PICK q \in Priority : \E i \in DOMAIN queue'[q] : queue'[q][i] = x
    BY <1>8 DEF InList
  <2>2. PICK i \in DOMAIN queue'[q] : queue'[q][i] = x
    BY <2>1
  <2>3. Was(q, i) \in DOMAIN queue[q] /\ queue[q][Was(q, i)] = x /\ i \in Nat /\ i > 0
    BY <1>5, <2>2
  <2>4. x = e => q = p /\ Was(q, i) = 1
    BY <1>2, <1>6, <2>3 DEF OnceInLists
  <2> QED BY <2>3, <2>4 DEF InList
<1>9. ASSUME NEW x, InList(x), x # e PROVE InList(x)'
  <2>1. PICK q \in Priority : \E i \in DOMAIN queue[q] : queue[q][i] = x
    BY <1>9 DEF InList
  <2>2. PICK i \in DOMAIN queue[q] : queue[q][i] = x
    BY <2>1
  <2>3. CASE q = p
    <3>1. i \in 1 .. Len(s) /\ i # 1
      BY <1>2, <1>4, <1>9, <2>2, <2>3
    <3>2. i - 1 \in DOMAIN queue'[p] /\ queue'[p][i - 1] = x
      BY <1>2, <1>3, <1>4, <2>2, <2>3, <3>1
    <3> QED BY <3>2 DEF InList
  <2>4. CASE q # p
    BY <1>3, <2>2, <2>4 DEF InList
  <2> QED BY <2>3, <2>4
<1> QED BY <1>2, <1>3, <1>6, <1>7, <1>8, <1>9

-----------------------------------------------------------------------------
(* The invariant.                                                           *)

LEMMA Initially == Init => IInv
<1> SUFFICES ASSUME Init PROVE IInv
  OBVIOUS
<1>1. Typed
  BY DEF Init, Typed, Priority
<1>2. \A p \in Priority : DOMAIN queue[p] = {}
  BY DEF Init
<1>3. OnceInLists /\ \A e : ~InList(e)
  BY <1>2 DEF OnceInLists, InList
<1> QED BY <1>1, <1>3, NoneAssumption DEF IInv, Hands, OneOwner, Init

\* What a step leaves alone.
LEMMA SameLists ==
  ASSUME UNCHANGED queue
  PROVE  (OnceInLists' <=> OnceInLists) /\ \A e : InList(e)' <=> InList(e)
BY DEF OnceInLists, InList

LEMMA AddKeeps ==
  ASSUME IInv, NEW e \in Events, NEW p \in Priority, Add(e, p)
  PROVE  IInv'
<1> USE DEF IInv
<1>1. ~InList(e) /\ e # item /\ e # kitem /\ e # None
  BY NoneAssumption DEF OneOwner, Add
<1>2. /\ queue' \in [Priority -> Seq(Events)] /\ OnceInLists'
      /\ \A x : InList(x)' <=> InList(x) \/ x = e
  BY <1>1, PutIn DEF OneOwner, Add
<1>3. Typed'
  BY <1>2 DEF Typed, Add, clearVars
<1>4. Hands'
  BY DEF Hands, Add, clearVars
<1>5. OneOwner'
  BY <1>1, <1>2 DEF OneOwner, Add, clearVars
<1> QED BY <1>3, <1>4, <1>5

LEMMA TakeKeeps == ASSUME IInv, Take PROVE IInv'
<1> USE DEF IInv
<1> DEFINE e == Head(queue[level])
<1>1. /\ queue' \in [Priority -> Seq(Events)] /\ OnceInLists'
      /\ e \in Events /\ InList(e)
      /\ \A x : InList(x)' <=> InList(x) /\ x # e
  <2>1. Typed /\ OnceInLists /\ level \in Priority
    BY DEF OneOwner, Typed
  <2> QED BY <2>1, TakenOut DEF Take
<1>2. item = None /\ item' = e /\ kitem' = kitem /\ live' = live
  BY DEF Hands, Take, clearVars
<1>3. Typed'
  BY <1>1 DEF Typed, Take, clearVars
<1>4. Hands'
  BY <1>1, <1>2 DEF Hands, Take, clearVars
<1>5. OneOwner'
  BY <1>1, <1>2, NoneAssumption DEF OneOwner
<1> QED BY <1>3, <1>4, <1>5

LEMMA ClearTakeKeeps == ASSUME IInv, ClearTake PROVE IInv'
<1> USE DEF IInv
<1> DEFINE e == Head(queue[klevel])
<1>1. /\ queue' \in [Priority -> Seq(Events)] /\ OnceInLists'
      /\ e \in Events /\ InList(e)
      /\ \A x : InList(x)' <=> InList(x) /\ x # e
  <2>1. Typed /\ OnceInLists /\ klevel \in Priority
    BY DEF OneOwner, Typed
  <2> QED BY <2>1, TakenOut DEF ClearTake
<1>2. kitem = None /\ kitem' = e /\ item' = item /\ live' = live
  BY DEF Hands, ClearTake, loopVars
<1>3. Typed'
  BY <1>1 DEF Typed, ClearTake, loopVars
<1>4. Hands'
  BY <1>1, <1>2 DEF Hands, ClearTake, loopVars
<1>5. OneOwner'
  BY <1>1, <1>2, NoneAssumption DEF OneOwner
<1> QED BY <1>3, <1>4, <1>5

\* The two that free what is in hand.
LEMMA FreeKeeps == ASSUME IInv, Free \/ ClearFree PROVE IInv'
<1> USE DEF IInv
<1>1. UNCHANGED queue
  BY DEF Free, ClearFree
<1>2. (OnceInLists' <=> OnceInLists) /\ \A e : InList(e)' <=> InList(e)
  BY <1>1, SameLists
<1>3. \A e \in Events : e # None
  BY NoneAssumption
<1>4. CASE Free
  <2>1. item \in Events /\ item' = None /\ kitem' = kitem /\ live' = live \ {item}
    BY <1>4 DEF Free, Hands, clearVars
  <2>2. \A e : InList(e) => e \in Events
    BY ElementOfSeq, LenProperties DEF InList, Typed
  <2>3. Typed' /\ Hands'
    BY <1>1, <1>4, <2>1 DEF Typed, Hands, Free, clearVars
  <2>4. OneOwner'
    BY <1>2, <1>3, <2>1, <2>2, NoneAssumption DEF OneOwner
  <2> QED BY <2>3, <2>4
<1>5. CASE ClearFree
  <2>1. kitem \in Events /\ kitem' = None /\ item' = item /\ live' = live \ {kitem}
    BY <1>5 DEF ClearFree, Hands, loopVars
  <2>2. \A e : InList(e) => e \in Events
    BY ElementOfSeq, LenProperties DEF InList, Typed
  <2>3. Typed' /\ Hands'
    BY <1>1, <1>5, <2>1 DEF Typed, Hands, ClearFree, loopVars
  <2>4. OneOwner'
    BY <1>2, <1>3, <2>1, <2>2, NoneAssumption DEF OneOwner
  <2> QED BY <2>3, <2>4
<1> QED BY <1>4, <1>5

\* The other steps: nobody's event moves.
LEMMA OthersKeep ==
  ASSUME IInv, UNCHANGED <<queue, item, kitem, live>>, Typed', Hands'
  PROVE  IInv'
<1>1. (OnceInLists' <=> OnceInLists) /\ \A e : InList(e)' <=> InList(e)
  BY SameLists
<1> QED BY <1>1 DEF IInv, OneOwner

LEMMA Inductive == IInv /\ [Next]_vars => IInv'
<1> SUFFICES ASSUME IInv, [Next]_vars PROVE IInv'
  OBVIOUS
<1>1. CASE \E e \in Events, p \in Priority : Add(e, p)
  BY <1>1, AddKeeps
<1>2. CASE Take
  BY <1>2, TakeKeeps
<1>3. CASE ClearTake
  BY <1>3, ClearTakeKeeps
<1>4. CASE Free \/ ClearFree
  BY <1>4, FreeKeeps
<1> DEFINE Quiet == UNCHANGED <<queue, item, kitem, live>> /\ Typed' /\ Hands'
<1> USE DEF IInv, Typed, Hands, loopVars, clearVars, Priority
<1>5. CASE LoopTest \/ Handle \/ HandlerReturns
  <2>1. Quiet
    BY <1>5 DEF LoopTest, Handle, HandlerReturns
  <2> QED BY <2>1, OthersKeep
<1>6. CASE NextList
  <2>1. Quiet
    BY <1>6 DEF NextList
  <2> QED BY <2>1, OthersKeep
<1>7. CASE Look \/ Sleep \/ Timeout
  <2>1. Quiet
    BY <1>7 DEF Look, Sleep, Timeout
  <2> QED BY <2>1, OthersKeep
<1>8. CASE ClearCall \/ ClearNextList
  <2>1. Quiet
    BY <1>8 DEF ClearCall, ClearNextList
  <2> QED BY <2>1, OthersKeep
<1>9. CASE DestroyCall \/ UNCHANGED vars
  <2>1. Quiet
    BY <1>9 DEF DestroyCall, vars
  <2> QED BY <2>1, OthersKeep
<1> QED
  BY <1>1, <1>2, <1>3, <1>4, <1>5, <1>6, <1>7, <1>8, <1>9 DEF Next, Loop, Clearing

LEMMA Kept == Spec => []IInv
BY Initially, Inductive, PTL DEF Spec

-----------------------------------------------------------------------------

\* event_loop.c: whatever is added, taken, cleared and freed by whom, an event that
\* was added is in one list once or in one thread's hands until it is freed.
THEOREM EachEventHasOneOwner == Spec => []OneOwner
<1>1. IInv => OneOwner
  BY DEF IInv
<1> QED BY <1>1, Kept, PTL

\* _try_cond_timedwait: the loop's thread never waits while an event is in a list.
THEOREM NoWakeupIsLost == Spec => []NoLostWakeup
<1>1. Init => NoLostWakeup
  BY DEF Init, NoLostWakeup
<1>2. IInv /\ NoLostWakeup /\ [Next]_vars => NoLostWakeup'
  <2> SUFFICES ASSUME IInv, NoLostWakeup, [Next]_vars, lpc' = "asleep" PROVE AllEmpty'
    BY DEF NoLostWakeup
  <2>1. CASE \E e \in Events, p \in Priority : Add(e, p)
    BY <2>1 DEF Add
  <2>2. CASE Loop
    BY <2>2 DEF Loop, LoopTest, NextList, Take, Handle, HandlerReturns, Free, Look,
                Sleep, Timeout, AllEmpty
  <2>3. CASE ClearTake
    BY <2>3 DEF ClearTake, loopVars, NoLostWakeup, AllEmpty, IInv, Typed
  <2>4. CASE ClearCall \/ ClearFree \/ ClearNextList \/ DestroyCall \/ UNCHANGED vars
    BY <2>4 DEF ClearCall, ClearFree, ClearNextList, DestroyCall, vars, loopVars,
                NoLostWakeup, AllEmpty
  <2> QED BY <2>1, <2>2, <2>3, <2>4 DEF Next, Clearing
<1> QED BY <1>1, <1>2, Kept, PTL DEF Spec

-----------------------------------------------------------------------------
(* The deadlines of timed waits.                                            *)

\* What a time is made of.
LEMMA TimeFields ==
  ASSUME NEW d
  PROVE  d \in Time <=> /\ d = [sec |-> d.sec, nsec |-> d.nsec]
                        /\ d.sec \in Nat /\ d.nsec \in Nat /\ d.nsec < Billion
<1>1. d \in Time <=> /\ d = [sec |-> d.sec, nsec |-> d.nsec]
                     /\ d.sec \in Nat /\ d.nsec \in 0 .. Billion - 1
  BY DEF Time
<1>2. Billion \in Nat
  BY SMT DEF Billion
<1>3. \A n \in Int : n \in 0 .. Billion - 1 <=> 0 <= n /\ n < Billion
  BY <1>2
<1>4. \A n : n \in 0 .. Billion - 1 => n \in Int
  BY <1>2
<1>5. \A n : n \in Nat <=> n \in Int /\ 0 <= n
  OBVIOUS
<1> QED BY <1>1, <1>3, <1>4, <1>5

\* Division with remainder by the nanoseconds in a second is unique.
LEMMA DivideByBillion ==
  ASSUME NEW s \in Nat, NEW n \in Nat, n < Billion
  PROVE  (s * Billion + n) \div Billion = s /\ (s * Billion + n) % Billion = n
  BY SMT DEF Billion

\* What is left of a division by the milliseconds in a second.
LEMMA DivideByThousand ==
  ASSUME NEW msec \in Nat
  PROVE  /\ msec \div 1000 \in Nat /\ msec % 1000 \in Nat /\ msec % 1000 < 1000
         /\ msec = (msec \div 1000) * 1000 + (msec % 1000)
  BY SMT

\* The carry of __sem_timedwait, with seconds q and milliseconds r to wait.
LEMMA Carry ==
  ASSUME NEW s \in Nat, NEW n \in Nat, n < Billion,
         NEW q \in Nat, NEW r \in Nat, r < 1000
  PROVE  LET nsec == n + r * Million
             d == IF nsec >= Billion THEN [sec |-> s + q + 1, nsec |-> nsec - Billion]
                                     ELSE [sec |-> s + q, nsec |-> nsec]
         IN  /\ d.sec \in Nat /\ d.nsec \in Nat /\ d.nsec < Billion
             /\ d = [sec |-> d.sec, nsec |-> d.nsec]
             /\ d.sec * Billion + d.nsec = s * Billion + n + (q * 1000 + r) * Million
<1> DEFINE nsec == n + r * Million
<1>1. CASE nsec >= Billion
  BY <1>1, SMT DEF Million, Billion
<1>2. CASE ~(nsec >= Billion)
  BY <1>2, SMT DEF Million, Billion
<1> QED BY <1>1, <1>2

\* One carry is enough: the nanoseconds of a deadline are fewer than a second,
\* and it is msec milliseconds from now, to the nanosecond.
THEOREM SemDeadlineExact ==
  ASSUME NEW now \in Time, NEW msec \in Nat
  PROVE  /\ SemDeadline(now, msec) \in Time
         /\ Nanoseconds(SemDeadline(now, msec)) = Nanoseconds(now) + msec * Million
<1>1. now.sec \in Nat /\ now.nsec \in Nat /\ now.nsec < Billion
  BY TimeFields
<1>2. PICK q \in Nat, r \in Nat :
        q = msec \div 1000 /\ r = msec % 1000 /\ r < 1000 /\ msec = q * 1000 + r
  BY DivideByThousand
<1>3. SemDeadline(now, msec)
        = LET n == now.nsec + r * Million
          IN  IF n >= Billion THEN [sec |-> now.sec + q + 1, nsec |-> n - Billion]
                              ELSE [sec |-> now.sec + q, nsec |-> n]
  BY <1>2 DEF SemDeadline
<1>4. LET d == SemDeadline(now, msec)
      IN  /\ d.sec \in Nat /\ d.nsec \in Nat /\ d.nsec < Billion
          /\ d = [sec |-> d.sec, nsec |-> d.nsec]
          /\ d.sec * Billion + d.nsec
               = now.sec * Billion + now.nsec + (q * 1000 + r) * Million
  BY ONLY <1>1, <1>2, <1>3, Carry
<1>5. SemDeadline(now, msec) \in Time
  BY <1>4, TimeFields
<1> QED BY <1>2, <1>4, <1>5 DEF Nanoseconds

\* The event loop divides where __sem_timedwait carries; the result is the same.
THEOREM DeadlinesAgree ==
  ASSUME NEW now \in Time, NEW msec \in Nat
  PROVE  LoopDeadline(now, msec) = SemDeadline(now, msec)
<1> DEFINE d == SemDeadline(now, msec)  t == Nanoseconds(now) + msec * Million
<1>1. d \in Time /\ d.sec * Billion + d.nsec = t
  BY SemDeadlineExact DEF Nanoseconds
<1>2. d.sec \in Nat /\ d.nsec \in Nat /\ d.nsec < Billion /\ d = [sec |-> d.sec, nsec |-> d.nsec]
  BY <1>1, TimeFields
<1>3. t \div Billion = d.sec /\ t % Billion = d.nsec
  <2> HIDE DEF d, t
  <2> QED BY ONLY <1>1, <1>2, DivideByBillion
<1> QED BY <1>2, <1>3 DEF LoopDeadline

=============================================================================
