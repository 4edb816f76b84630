--------------------------- MODULE AudioInProofs ---------------------------
(***************************************************************************)
(* The head of the pipeline keeps what its runs check for every ring,      *)
(* frame and chunk size and every set of session numbers, whether or not   *)
(* the handle is destroyed between two commands.                           *)
(*                                                                         *)
(* STOP is a handshake and START is not: the worker may take the token of  *)
(* a START long after, or find the pipeline started without one.  What     *)
(* keeps audio of two sessions apart is that the worker, once it has       *)
(* answered STOP, cannot get past its second look at the status.           *)
(***************************************************************************)
EXTENDS AudioIn, SequenceTheorems, TLAPS

Destroying == {"destroy_join", "destroy_wait", "destroyed"}

\* What the control thread has said and what the status says.
Said ==
  /\ cpc \in {"push_start", "stop_flag", "stop_wait", "stop_clear", "push_stop"}
       => status = "stop"
  /\ cpc \in {"start_signal", "start_stream", "stop_stream", "stop_join", "stop_status"}
       => status = "start"
  /\ cpc = "idle" => (open <=> status = "start")
  /\ cpc \notin {"idle"} \cup Destroying => ~open

\* The request of STOP is in one place: the flag, the worker or the token.
OneRequest ==
  /\ cpc # "stop_wait" => ~stopping /\ sem["stopped"] = 0 /\ wpc # "signal_stopped"
  /\ cpc = "stop_wait" =>
       \/ stopping /\ sem["stopped"] = 0 /\ wpc # "signal_stopped"
       \/ ~stopping /\ sem["stopped"] = 0 /\ wpc = "signal_stopped"
       \/ ~stopping /\ sem["stopped"] = 1 /\ wpc # "signal_stopped"

\* STOP has been answered, and no START has come since.
Settled ==
  status = "stop" /\ cpc # "stop_flag" /\ ~(cpc = "stop_wait" /\ stopping)

WorkerSettles == Settled => wpc \notin Consuming

\* The callback runs only while the stream does, or is waited for.
Producer ==
  /\ stream => status = "start" /\ cpc \in {"idle", "stop_stream"}
  /\ bpc = "write" =>
       /\ status = "start"
       /\ cpc \in {"idle", "stop_stream", "stop_join", "destroy_join"}
       /\ Len(ring) + chunk <= RingUnits

AllOf(seq, s) == \A i \in 1 .. Len(seq) : seq[i] = s

\* What is in the ring and in the worker's hands belongs to this session.
Fresh ==
  /\ AllOf(ring, session)
  /\ Settled /\ cpc \notin {"stop_wait", "stop_clear"} => ring = <<>>
  /\ wpc = "read" => FrameUnits <= Len(ring)
  /\ wpc = "push" => Len(cur) = FrameUnits /\ AllOf(cur, session)

IInv == TypeOK /\ Said /\ OneRequest /\ WorkerSettles /\ Producer /\ Fresh

-----------------------------------------------------------------------------
(* The transfers.                                                           *)

\* A chunk put behind units of one session, itself of that session.
LEMMA PutBehind ==
  ASSUME NEW r \in Seq(Sessions), NEW s \in Sessions, NEW n \in Nat, AllOf(r, s)
  PROVE  LET t == r \o [i \in 1 .. n |-> s]
         IN  t \in Seq(Sessions) /\ Len(t) = Len(r) + n /\ AllOf(t, s)
<1> DEFINE c == [i \in 1 .. n |-> s]
<1>1. c \in Seq(Sessions) /\ Len(c) = n /\ \A i \in 1 .. n : c[i] = s
  OBVIOUS
<1>2. Len(r) \in Nat
  OBVIOUS
<1>3. /\ r \o c \in Seq(Sessions) /\ Len(r \o c) = Len(r) + n
      /\ \A i \in 1 .. Len(r) + n : (r \o c)[i] = IF i <= Len(r) THEN r[i] ELSE c[i - Len(r)]
  BY <1>1, ConcatProperties
<1> HIDE DEF c
<1>4. AllOf(r \o c, s)
  BY <1>1, <1>2, <1>3 DEF AllOf
<1> QED BY <1>3, <1>4 DEF c

\* A frame taken from the front of a ring that holds one.
LEMMA TakenOff ==
  ASSUME NEW r \in Seq(Sessions), NEW s, AllOf(r, s), FrameUnits <= Len(r)
  PROVE  LET f == SubSeq(r, 1, FrameUnits)
             t == SubSeq(r, FrameUnits + 1, Len(r))
         IN  /\ f \in Seq(Sessions) /\ Len(f) = FrameUnits /\ AllOf(f, s)
             /\ t \in Seq(Sessions) /\ Len(t) <= Len(r) /\ AllOf(t, s)
<1> DEFINE f == SubSeq(r, 1, FrameUnits)
           t == SubSeq(r, FrameUnits + 1, Len(r))
<1> USE FrameUnitsAssumption
<1>1. Len(r) \in Nat /\ \A i \in 1 .. Len(r) : r[i] \in Sessions
  OBVIOUS
<1>2. /\ f \in Seq(Sessions) /\ Len(f) = FrameUnits
      /\ \A i \in 1 .. FrameUnits : f[i] = r[i]
  <2>1. \A i \in 1 .. FrameUnits : r[i] \in Sessions
    BY <1>1
  <2> QED BY <1>1, <2>1, SubSeqProperties
<1>3. /\ t \in Seq(Sessions) /\ Len(t) = Len(r) - FrameUnits
      /\ \A i \in 1 .. Len(t) : t[i] = r[FrameUnits + i]
  <2>1. \A i \in FrameUnits + 1 .. Len(r) : r[i] \in Sessions
    BY <1>1
  <2> QED BY <1>1, <2>1, SubSeqProperties
<1>4. AllOf(f, s) /\ AllOf(t, s)
  BY <1>1, <1>2, <1>3 DEF AllOf
<1> QED BY <1>1, <1>2, <1>3, <1>4

-----------------------------------------------------------------------------

\* AudioInCreate.
LEMMA Initially == Init => IInv
<1> SUFFICES ASSUME Init PROVE IInv
  OBVIOUS
<1> USE DEF Init
<1>1. TypeOK
  <2>1. sem \in [Sems -> Nat] /\ chunk \in 1 .. MaxChunk
    BY MaxChunkAssumption
  <2>2. ring \in Seq(Sessions) /\ cur \in Seq(Sessions) /\ Len(ring) <= RingUnits
    BY RingUnitsAssumption
  <2> QED BY <2>1, <2>2, SessionsAssumption DEF TypeOK
<1>2. Said /\ OneRequest /\ WorkerSettles /\ Producer
  BY DEF Said, OneRequest, WorkerSettles, Consuming, Producer, Sems, Destroying
<1>3. Fresh
  BY DEF Fresh, AllOf
<1> QED BY <1>1, <1>2, <1>3 DEF IInv

(* The control thread.                                                      *)

\* A START finds an empty ring and a worker with nothing in its hands.
LEMMA StartCallKeeps ==
  ASSUME IInv, NEW s \in Sessions, StartCall(s)
  PROVE  IInv'
<1> USE DEF IInv, StartCall, StartCmd, CtrlStep, handleVars, cbVars, workerVars
<1>1. Settled /\ ring = <<>> /\ wpc \notin Consuming
  BY DEF TypeOK, Said, Settled, WorkerSettles, Fresh
<1>2. TypeOK'
  BY DEF TypeOK
<1>3. Said' /\ OneRequest' /\ WorkerSettles' /\ Producer'
  BY <1>1 DEF TypeOK, Said, OneRequest, WorkerSettles, Settled, Producer, Destroying
<1>4. Fresh'
  BY <1>1 DEF Fresh, AllOf, Consuming
<1> QED BY <1>2, <1>3, <1>4

\* The other steps of START: they let the worker go, and the producer last.
LEMMA StartKeeps ==
  ASSUME IInv, StartPushed \/ StartSignal \/ StartStream
  PROVE  IInv'
<1> USE DEF IInv, CtrlStep, handleVars, cbVars, workerVars, StartPushed, StartSignal,
            StartStream, Signal, Sems
<1>1. TypeOK'
  <2>1. sem' \in [Sems -> Nat]
    BY DEF TypeOK
  <2> QED BY <2>1 DEF TypeOK
<1>2. Said'
  BY DEF Said, Destroying
<1>3. OneRequest'
  BY DEF TypeOK, OneRequest
<1>4. WorkerSettles'
  BY DEF TypeOK, Said, WorkerSettles, Settled
<1>5. Producer'
  BY DEF TypeOK, Said, Producer
<1>6. Fresh'
  BY DEF TypeOK, Said, Fresh, Settled
<1> QED BY <1>1, <1>2, <1>3, <1>4, <1>5, <1>6

\* STOP up to the request: the producer is gone when the status changes.
LEMMA StopKeeps ==
  ASSUME IInv, StopCall \/ StopStream \/ StopJoin \/ StopStatus
  PROVE  IInv'
<1> USE DEF IInv, CtrlStep, handleVars, cbVars, workerVars, StopCall, StopCmd,
            StopStream, StopJoin, StopStatus
<1>1. TypeOK'
  BY DEF TypeOK
<1>2. Said'
  BY DEF Said, Destroying
<1>3. OneRequest'
  BY DEF OneRequest
<1>4. WorkerSettles'
  BY DEF TypeOK, Said, WorkerSettles, Settled
<1>5. Producer'
  BY DEF TypeOK, Said, Producer
<1>6. Fresh'
  BY DEF TypeOK, Said, Fresh, Settled
<1> QED BY <1>1, <1>2, <1>3, <1>4, <1>5, <1>6

\* STOP from the request to its end.
LEMMA StopEndKeeps ==
  ASSUME IInv, StopFlag \/ StopWait \/ StopClear \/ StopPushed
  PROVE  IInv'
<1> USE DEF IInv, CtrlStep, handleVars, cbVars, workerVars, StopFlag, StopWait,
            StopClear, StopPushed, Acquire, Sems
<1>1. TypeOK'
  <2>1. sem' \in [Sems -> Nat]
    BY DEF TypeOK
  <2>2. ring' = ring \/ ring' = <<>>
    OBVIOUS
  <2>3. ring' \in Seq(Sessions) /\ Len(ring') <= RingUnits
    <3>1. <<>> \in Seq(Sessions) /\ Len(<<>>) = 0 /\ 0 <= RingUnits
      BY RingUnitsAssumption
    <3> QED BY ONLY <2>2, <3>1, TypeOK DEF TypeOK
  <2> QED BY <2>1, <2>3 DEF TypeOK
<1>2. Said'
  BY DEF Said, Destroying
<1>3. OneRequest'
  BY DEF TypeOK, OneRequest
<1>4. WorkerSettles'
  BY DEF TypeOK, Said, OneRequest, WorkerSettles, Settled
<1>5. Producer'
  BY DEF TypeOK, Said, Producer
<1>6. Fresh'
  BY DEF TypeOK, Said, WorkerSettles, Fresh, Settled, AllOf, Consuming
<1> QED BY <1>1, <1>2, <1>3, <1>4, <1>5, <1>6

\* AudioInDestroy, wherever a command may begin.
LEMMA DestroyKeeps ==
  ASSUME IInv, DestroyStream \/ DestroyRequest \/ DestroyReturn
  PROVE  IInv'
<1> USE DEF IInv, CtrlStep, handleVars, cbVars, workerVars, DestroyStream,
            DestroyRequest, DestroyReturn, Acquire, Sems
<1>1. TypeOK'
  <2>1. sem' \in [Sems -> Nat]
    BY DEF TypeOK
  <2> QED BY <2>1 DEF TypeOK
<1>2. Said'
  BY DEF Said, Destroying
<1>3. OneRequest'
  BY DEF TypeOK, OneRequest
<1>4. WorkerSettles'
  BY DEF WorkerSettles, Settled
<1>5. Producer'
  BY DEF TypeOK, Producer
<1>6. Fresh'
  BY DEF Fresh, Settled
<1> QED BY <1>1, <1>2, <1>3, <1>4, <1>5, <1>6

-----------------------------------------------------------------------------
(* The callback.                                                            *)

\* It begins while the stream runs, with room for what it brings.
LEMMA CallbackKeeps ==
  ASSUME IInv, NEW n \in 1 .. MaxChunk, Callback(n)
  PROVE  IInv'
<1> USE DEF IInv, Callback, handleVars, ctrlVars, cbVars, workerVars
<1>1. TypeOK'
  BY DEF TypeOK
<1>2. Said' /\ OneRequest' /\ WorkerSettles' /\ Fresh'
  BY DEF Said, OneRequest, WorkerSettles, Settled, Fresh
<1>3. Producer'
  <2>1. Len(ring) \in Nat /\ RingUnits \in Nat /\ n \in Nat
    BY RingUnitsAssumption, MaxChunkAssumption DEF TypeOK
  <2> QED BY <2>1 DEF Producer
<1> QED BY <1>1, <1>2, <1>3

\* What it writes belongs to the session, and the room is still there: since it
\* looked, the worker can only have made more.
LEMMA CallbackWriteKeeps ==
  ASSUME IInv, CallbackWrite
  PROVE  IInv'
<1> USE DEF IInv, CallbackWrite, ctrlVars, workerVars
<1>1. Len(ring) + chunk <= RingUnits /\ status = "start" /\ chunk \in Nat
      /\ Len(ring) \in Nat /\ ring \in Seq(Sessions)
  BY MaxChunkAssumption DEF Producer, TypeOK
<1>2. ring' \in Seq(Sessions) /\ Len(ring') = Len(ring) + chunk /\ AllOf(ring', session)
  BY <1>1, PutBehind DEF TypeOK, Fresh
<1>3. TypeOK'
  BY <1>1, <1>2 DEF TypeOK
<1>4. Said' /\ OneRequest' /\ WorkerSettles' /\ Producer'
  BY DEF Said, OneRequest, WorkerSettles, Settled, Producer
<1>5. Fresh'
  <2>1. FrameUnits <= Len(ring) => FrameUnits <= Len(ring')
    BY <1>1, <1>2, FrameUnitsAssumption
  <2>2. ~Settled'
    BY <1>1 DEF Settled
  <2> QED BY <1>2, <2>1, <2>2 DEF Fresh
<1> QED BY <1>3, <1>4, <1>5

-----------------------------------------------------------------------------
(* The worker.                                                              *)

\* The steps that leave the ring alone.
LEMMA WorkerKeeps ==
  ASSUME IInv,
         WorkerTest \/ WaitStart \/ TestStarted \/ SizeCheck \/ Pushed \/ WorkerExit
  PROVE  IInv'
<1> USE DEF IInv, WorkerStep, ctrlVars, cbVars, WorkerTest, WaitStart, TestStarted,
            SizeCheck, Pushed, WorkerExit, Acquire, Signal, Sems, Consuming
<1>1. TypeOK'
  BY DEF TypeOK
<1>2. Said'
  BY DEF Said
<1>3. OneRequest'
  BY DEF TypeOK, OneRequest
<1>4. WorkerSettles'
  BY DEF WorkerSettles, Settled
<1>5. Producer'
  BY DEF Producer
<1>6. Fresh'
  <2>1. Len(ring) \in Nat /\ FrameUnits \in Nat
    BY FrameUnitsAssumption DEF TypeOK
  <2> QED BY <2>1 DEF Fresh, Settled
<1> QED BY <1>1, <1>2, <1>3, <1>4, <1>5, <1>6

\* The answer to STOP.
LEMMA AnswerKeeps ==
  ASSUME IInv, AnswerStop \/ SignalStopped
  PROVE  IInv'
<1> USE DEF IInv, WorkerStep, ctrlVars, cbVars, AnswerStop, SignalStopped, Signal, Sems,
            Consuming
<1>1. TypeOK'
  <2>1. sem' \in [Sems -> Nat]
    BY DEF TypeOK
  <2>2. CASE AnswerStop
    BY <2>1, <2>2 DEF TypeOK
  <2>3. CASE SignalStopped
    BY <2>1, <2>3 DEF TypeOK
  <2> QED BY <2>2, <2>3
<1>2. Said' /\ Producer'
  BY DEF Said, Producer
<1>3. OneRequest'
  BY DEF TypeOK, OneRequest
<1>4. WorkerSettles'
  BY DEF WorkerSettles, Settled
<1>5. Fresh'
  BY DEF OneRequest, Fresh, Settled
<1> QED BY <1>1, <1>2, <1>3, <1>4, <1>5

\* A frame is taken; the ring that was full enough stays in its session.
LEMMA ReadKeeps ==
  ASSUME IInv, Read
  PROVE  IInv'
<1> USE DEF IInv, WorkerStep, Read, ctrlVars, cbVars
<1>1. ring \in Seq(Sessions) /\ AllOf(ring, session) /\ FrameUnits <= Len(ring) /\ ~Settled
  BY DEF TypeOK, Fresh, WorkerSettles, Consuming
<1>2. /\ cur' \in Seq(Sessions) /\ Len(cur') = FrameUnits /\ AllOf(cur', session)
      /\ ring' \in Seq(Sessions) /\ Len(ring') <= Len(ring) /\ AllOf(ring', session)
  BY <1>1, TakenOff
<1>3. /\ Len(ring) \in Nat /\ Len(ring') \in Nat
      /\ RingUnits \in Nat /\ chunk \in Int
  BY <1>1, <1>2, RingUnitsAssumption DEF TypeOK
<1>4. TypeOK'
  BY <1>2, <1>3 DEF TypeOK, Consuming
<1>5. Said' /\ OneRequest'
  BY DEF Said, OneRequest
<1>6. ~Settled'
  BY <1>1 DEF Settled
<1>7. WorkerSettles' /\ Producer'
  BY <1>2, <1>3, <1>6 DEF WorkerSettles, Producer
<1>8. Fresh'
  BY <1>2, <1>6 DEF Fresh
<1> QED BY <1>4, <1>5, <1>7, <1>8

-----------------------------------------------------------------------------

LEMMA Inductive == IInv /\ [NextLife]_vars => IInv'
<1> SUFFICES ASSUME IInv, [NextLife]_vars PROVE IInv'
  OBVIOUS
<1>1. CASE \E s \in Sessions : StartCall(s)
  BY <1>1, StartCallKeeps
<1>2. CASE StopCall
  BY <1>2, StopKeeps
<1>3. CASE Ctrl
  BY <1>3, StartKeeps, StopKeeps, StopEndKeeps DEF Ctrl
<1>4. CASE \E n \in 1 .. MaxChunk : Callback(n)
  BY <1>4, CallbackKeeps
<1>5. CASE CallbackWrite
  BY <1>5, CallbackWriteKeeps
<1>6. CASE Worker
  BY <1>6, WorkerKeeps, AnswerKeeps, ReadKeeps DEF Worker
<1>7. CASE DestroyStream \/ DestroyEnd \/ WorkerExit
  BY <1>7, DestroyKeeps, WorkerKeeps DEF DestroyEnd
<1>8. CASE UNCHANGED vars
  BY <1>8 DEF vars, handleVars, ctrlVars, cbVars, workerVars, IInv, TypeOK, Said,
       OneRequest, WorkerSettles, Settled, Producer, Fresh
<1> QED BY <1>1, <1>2, <1>3, <1>4, <1>5, <1>6, <1>7, <1>8 DEF NextLife, Next

LEMMA Kept == LifeSpec => []IInv
BY Initially, Inductive, PTL DEF LifeSpec

-----------------------------------------------------------------------------

\* What the inductive invariant says of the properties, for this module and for those
\* that take AudioIn as an instance.
LEMMA Implied == IInv => TypeOK /\ ClearAlone /\ FrameOfOneSession /\ AnsweredOnce
<1> SUFFICES ASSUME IInv PROVE TypeOK /\ ClearAlone /\ FrameOfOneSession /\ AnsweredOnce
  OBVIOUS
<1>1. TypeOK
  BY DEF IInv
<1>2. ClearAlone
  BY DEF IInv, TypeOK, Said, OneRequest, WorkerSettles, Settled, Producer, ClearAlone
<1>3. FrameOfOneSession
  <2> SUFFICES ASSUME wpc = "push"
               PROVE  Len(cur) = FrameUnits /\ Range(cur) = {session}
    BY DEF FrameOfOneSession
  <2>1. Len(cur) = FrameUnits /\ AllOf(cur, session) /\ cur \in Seq(Sessions)
    BY DEF IInv, TypeOK, Fresh
  <2>2. DOMAIN cur = 1 .. FrameUnits /\ 1 \in DOMAIN cur
    BY <2>1, FrameUnitsAssumption
  <2> QED BY <2>1, <2>2 DEF AllOf, Range
<1>4. AnsweredOnce
  BY DEF IInv, TypeOK, OneRequest, AnsweredOnce
<1> QED BY <1>1, <1>2, <1>3, <1>4

\* Every variable of audioin.c's model keeps its type, and the ring its size, though
\* the callback looks at the room and writes in two steps.
THEOREM TypeCorrect == LifeSpec => []TypeOK
BY Implied, Kept, PTL

\* PIPELINE_STOP empties the ring while neither the callback nor the worker uses it:
\* Pa_StopStream has waited for the one and the answer to STOP has come from the
\* other, who has not got past its second look at the status since.
THEOREM StopClearsAlone == LifeSpec => []ClearAlone
BY Implied, Kept, PTL

\* A frame that is pushed was captured in the running session, all of it.
THEOREM FramesOfOneSession == LifeSpec => []FrameOfOneSession
BY Implied, Kept, PTL

\* No STOP leaves a token or a flag behind for the next, although the worker answers
\* in its own time.
THEOREM StopsAnsweredOnce == LifeSpec => []AnsweredOnce
BY Implied, Kept, PTL

=============================================================================
