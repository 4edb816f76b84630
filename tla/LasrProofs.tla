----------------------------- MODULE LasrProofs -----------------------------
(***************************************************************************)
(* The handshake of the local recogniser works for every ring size, every  *)
(* period and every set of session numbers, whether or not the handle is   *)
(* destroyed between two commands.                                         *)
(*                                                                         *)
(* None of the properties is inductive: whether the worker is parked when  *)
(* START clears the ring depends on which tokens are about.  Handshake     *)
(* lists, for each place of the control thread, the tokens, the flag and   *)
(* the places of the worker that go together; there is at most one token   *)
(* at a time, and it is the one the other side waits for.                  *)
(***************************************************************************)
EXTENDS Lasr, TLAPS

\* The counts of the four semaphores of the handshake.
Tokens(starting, started, stop, stopped) ==
  /\ sem["starting"] = starting /\ sem["started"] = started
  /\ sem["stopping"] = stop /\ sem["stopped"] = stopped

Still == ~stopping /\ Tokens(0, 0, 0, 0)

\* START: the token goes to the worker, which answers and starts to work.
Starting ==
  /\ ~stopping /\ ~open
  /\ \/ Tokens(1, 0, 0, 0) /\ wpc \in Parked
     \/ Tokens(0, 0, 0, 0) /\ wpc = "signal_started"
     \/ Tokens(0, 1, 0, 0) /\ wpc \in Busy

\* STOP: the worker sees the flag, takes the token, answers and parks.
Stopping ==
  /\ ~open
  /\ \/ stopping /\ Tokens(0, 0, 1, 0) /\ wpc \in Busy
     \/ ~stopping /\ Tokens(0, 0, 1, 0) /\ wpc = "wait_stopping"
     \/ ~stopping /\ Tokens(0, 0, 0, 0) /\ wpc = "signal_stopped"
     \/ ~stopping /\ Tokens(0, 0, 0, 1) /\ wpc \in Parked

Handshake ==
  /\ cpc = "idle" /\ ~open => Still /\ wpc \in Parked
  /\ cpc = "idle" /\ open => Still /\ wpc \in Busy
  /\ cpc = "start_signal" => Still /\ ~open /\ wpc \in Parked
  /\ cpc = "start_wait" => Starting
  /\ cpc = "stop_flag" => ~open /\ ~stopping /\ Tokens(0, 0, 1, 0) /\ wpc \in Busy
  /\ cpc = "stop_wait" => Stopping
  /\ cpc = "destroy_wait" => Still /\ wpc \in Parked \cup Busy \cup {"exit", "gone"}
  /\ cpc = "destroyed" => Still /\ wpc = "gone"

\* The worker leaves its loop only for a LasrDestroy, and says so once.
Exit ==
  /\ running <=> cpc \notin {"destroy_wait", "destroyed"}
  /\ wpc \in {"exit", "gone"} => ~running
  /\ sem["worker_thread"] > 0 => wpc = "gone"
  /\ sem["worker_thread"] = 1 \/ wpc # "gone" \/ cpc = "destroyed"

\* The data thread is inside the handler only while the session is open, and
\* what is in the ring or in the worker's hands belongs to this session.
Fresh ==
  /\ dpc # "idle" => open /\ cpc = "idle"
  /\ dpc = "write" => Len(ring) < RingFrames
  /\ \A i \in 1 .. Len(ring) : ring[i] = vui_id
  /\ wpc = "read" => ring # <<>>
  /\ wpc = "do" => cur = vui_id
  /\ ResultSession

IInv == TypeOK /\ Handshake /\ Exit /\ Fresh

\* A remainder is below its modulus: the frame counter stays in range.
LEMMA FrameCounts ==
  ASSUME NEW f \in 0 .. Period - 1
  PROVE  (f + 1) % Period \in 0 .. Period - 1
BY PeriodAssumption, SMT

\* LasrCreate leaves a handle without tokens, sessions or audio.
LEMMA InitEstablishes == Init => IInv
<1> SUFFICES ASSUME Init PROVE IInv
  OBVIOUS
<1> USE DEF Init
<1>1. TypeOK
  <2>1. posted \in [vui_id : VuiIds, audio : VuiIds, valid : BOOLEAN]
    BY VuiIdsAssumption DEF NoResult
  <2>2. ring \in Seq(VuiIds) /\ Len(ring) <= RingFrames
    BY RingFramesAssumption
  <2>3. frame \in 0 .. Period - 1
    BY PeriodAssumption
  <2>4. /\ sem \in [Sems -> Nat] /\ sem["audio"] <= MaxTokens
        /\ \A s \in Sems \ {"audio"} : sem[s] <= 1
    BY MaxTokensAssumption DEF Sems
  <2> HIDE DEF Init
  <2>5. /\ vui_id = 0 /\ cur = 0 /\ running = TRUE /\ stopping = FALSE /\ open = FALSE
        /\ cpc = "idle" /\ dpc = "idle" /\ wpc \in Parked
    BY DEF Init, Parked
  <2> QED BY <2>1, <2>2, <2>3, <2>4, <2>5, VuiIdsAssumption DEF TypeOK
<1>2. Handshake /\ Exit
  BY DEF Handshake, Exit, Still, Tokens, Sems, Parked
<1>3. Fresh
  BY DEF Fresh, ResultSession, NoResult
<1> QED BY <1>1, <1>2, <1>3 DEF IInv

-----------------------------------------------------------------------------
(* The control thread.                                                      *)

\* START begins between two sessions: the worker is parked, the ring is emptied
\* with the number of the new session, and nothing of the old one is left.
LEMMA StartCallKeeps ==
  ASSUME IInv, NEW id \in VuiIds, StartCall(id)
  PROVE  IInv'
<1> USE DEF IInv, StartCall, StartReset, CtrlStep, resultVars
<1>1. TypeOK'
  BY RingFramesAssumption DEF TypeOK
<1>2. Handshake'
  BY DEF Handshake, Still, Tokens
<1>3. Exit'
  BY DEF Exit
<1>4. Fresh'
  BY DEF Fresh, ResultSession, Handshake, Parked
<1> QED BY <1>1, <1>2, <1>3, <1>4

\* START posts the one token of the handshake.
LEMMA StartSignalKeeps ==
  ASSUME IInv, StartSignal
  PROVE  IInv'
<1> USE DEF IInv, StartSignal, CtrlStep, Signal, handleVars, resultVars
<1>1. TypeOK'
  BY DEF TypeOK, Handshake, Still, Tokens, Sems
<1>2. Handshake'
  BY DEF TypeOK, Handshake, Still, Starting, Tokens, Sems
<1>3. Exit'
  BY DEF Exit
<1>4. Fresh'
  BY DEF Fresh, ResultSession
<1> QED BY <1>1, <1>2, <1>3, <1>4

\* START returns with the worker's answer, which uses up the last token.
LEMMA StartReturnKeeps ==
  ASSUME IInv, StartReturn
  PROVE  IInv'
<1> USE DEF IInv, StartReturn, CtrlStep, Acquire, handleVars, resultVars
<1>1. TypeOK'
  BY DEF TypeOK, Sems
<1>2. Handshake'
  BY DEF TypeOK, Handshake, Still, Starting, Tokens, Sems
<1>3. Exit'
  BY DEF Exit
<1>4. Fresh'
  BY DEF Fresh, ResultSession
<1> QED BY <1>1, <1>2, <1>3, <1>4

\* STOP begins in an open session and posts the one token of the handshake.
LEMMA StopCallKeeps ==
  ASSUME IInv, StopCall
  PROVE  IInv'
<1> USE DEF IInv, StopCall, StopSignal, CtrlStep, Signal, handleVars,
        resultVars
<1>1. TypeOK'
  <2>1. sem["stopping"] = 0
    BY DEF Handshake, Still, Tokens
  <2>2. /\ sem' \in [Sems -> Nat] /\ sem'["audio"] <= MaxTokens
        /\ \A s \in Sems \ {"audio"} : sem'[s] <= 1
    BY <2>1 DEF TypeOK, Sems
  <2> QED BY <2>2 DEF TypeOK
<1>2. Handshake'
  BY DEF TypeOK, Handshake, Still, Tokens, Sems
<1>3. Exit'
  BY DEF Exit
<1>4. Fresh'
  BY DEF Fresh, ResultSession
<1> QED BY <1>1, <1>2, <1>3, <1>4

\* STOP raises the flag while the worker is at work and its token waits.
LEMMA StopFlagKeeps ==
  ASSUME IInv, StopFlag
  PROVE  IInv'
<1> USE DEF IInv, StopFlag, CtrlStep, resultVars
<1>1. TypeOK'
  BY DEF TypeOK
<1>2. Handshake'
  BY DEF Handshake, Stopping, Tokens
<1>3. Exit'
  BY DEF Exit
<1>4. Fresh'
  BY DEF Fresh, ResultSession
<1> QED BY <1>1, <1>2, <1>3, <1>4

\* STOP returns with the worker's answer: the worker is parked.
LEMMA StopReturnKeeps ==
  ASSUME IInv, StopReturn
  PROVE  IInv'
<1> USE DEF IInv, StopReturn, CtrlStep, Acquire, handleVars, resultVars
<1>1. TypeOK'
  BY DEF TypeOK, Sems
<1>2. Handshake'
  BY DEF TypeOK, Handshake, Still, Stopping, Tokens, Sems
<1>3. Exit'
  BY DEF Exit
<1>4. Fresh'
  BY DEF Fresh, ResultSession
<1> QED BY <1>1, <1>2, <1>3, <1>4

\* LasrDestroy may begin wherever a command may.
LEMMA DestroyRequestKeeps ==
  ASSUME IInv, dpc = "idle", DestroyRequest
  PROVE  IInv'
<1> USE DEF IInv, DestroyRequest, CtrlStep, resultVars
<1>1. TypeOK'
  BY DEF TypeOK
<1>2. Handshake'
  BY DEF Handshake, Still, Tokens
<1>3. Exit'
  BY DEF Exit
<1>4. Fresh'
  BY DEF Fresh, ResultSession
<1> QED BY <1>1, <1>2, <1>3, <1>4

\* LasrDestroy returns on the token of a worker that has left its loop.
LEMMA DestroyReturnKeeps ==
  ASSUME IInv, DestroyReturn
  PROVE  IInv'
<1> USE DEF IInv, DestroyReturn, CtrlStep, Acquire, handleVars, resultVars
<1>1. TypeOK'
  BY DEF TypeOK, Sems
<1>2. Handshake'
  BY DEF Handshake, Exit, Still, Tokens
<1>3. Exit'
  BY DEF Exit
<1>4. Fresh'
  BY DEF Fresh, ResultSession
<1> QED BY <1>1, <1>2, <1>3, <1>4

-----------------------------------------------------------------------------
(* The data thread.                                                         *)

\* The data handler is entered only while the session is open, and goes on to
\* write only when there is room for a frame.
LEMMA DataCallKeeps ==
  ASSUME IInv, DataCall
  PROVE  IInv'
<1> USE DEF IInv, DataCall, DataCheck, DataStep, handleVars, ctrlVars,
        resultVars
<1>1. TypeOK'
  BY DEF TypeOK
<1>2. Handshake'
  BY DEF Handshake, Still, Tokens
<1>3. Exit'
  BY DEF Exit
<1>4. Fresh'
  BY DEF Fresh, ResultSession
<1> QED BY <1>1, <1>2, <1>3, <1>4

\* The frame that is written is one of the open session; the room found for it is
\* still there, for in between the worker can only make more.
LEMMA DataWriteKeeps ==
  ASSUME IInv, DataWrite(vui_id)
  PROVE  IInv'
<1> USE DEF IInv, DataWrite, DataStep, ctrlVars, resultVars
<1>1. TypeOK'
  BY RingFramesAssumption DEF TypeOK, Fresh
<1>2. Handshake'
  BY DEF Handshake, Fresh, Still, Tokens
<1>3. Exit'
  BY DEF Exit
<1>4. Fresh'
  BY DEF Fresh, ResultSession
<1> QED BY <1>1, <1>2, <1>3, <1>4

\* The semaphore of the data is none of those of the handshake.
LEMMA DataSignalKeeps ==
  ASSUME IInv, DataSignal
  PROVE  IInv'
<1> USE DEF IInv, DataSignal, DataStep, Signal, handleVars, ctrlVars,
        resultVars
<1>1. TypeOK'
  BY MaxTokensAssumption DEF TypeOK
<1>2. Handshake'
  BY DEF TypeOK, Handshake, Fresh, Still, Tokens, Sems
<1>3. Exit'
  BY DEF TypeOK, Exit, Sems
<1>4. Fresh'
  BY DEF Fresh, ResultSession
<1> QED BY <1>1, <1>2, <1>3, <1>4

-----------------------------------------------------------------------------
(* The worker.                                                              *)

\* The worker leaves its outer loop only when LasrDestroy has asked it to.
LEMMA WorkerTestKeeps ==
  ASSUME IInv, WorkerTest
  PROVE  IInv'
<1> USE DEF IInv, WorkerTest, WorkerStep, handleVars, ctrlVars, resultVars
<1>1. TypeOK'
  BY DEF TypeOK, Parked
<1>2. Handshake'
  BY DEF Handshake, Exit, Still, Starting, Stopping, Tokens, Parked, Busy
<1>3. Exit'
  BY DEF Exit
<1>4. Fresh'
  BY DEF Fresh, ResultSession
<1> QED BY <1>1, <1>2, <1>3, <1>4

\* The worker can take the token of a START only while START waits.
LEMMA WaitStartingKeeps ==
  ASSUME IInv, WaitStarting
  PROVE  IInv'
<1> USE DEF IInv, WaitStarting, WorkerStep, Acquire, handleVars, ctrlVars,
        resultVars
<1>1. TypeOK'
  BY DEF TypeOK, Sems
<1>2. Handshake'
  BY DEF TypeOK, Handshake, Still, Starting, Stopping, Tokens, Sems
<1>3. Exit'
  BY DEF Exit
<1>4. Fresh'
  BY DEF Fresh, ResultSession
<1> QED BY <1>1, <1>2, <1>3, <1>4

\* The worker answers a START that waits, and there is no other token.
LEMMA SignalStartedKeeps ==
  ASSUME IInv, SignalStarted
  PROVE  IInv'
<1> USE DEF IInv, SignalStarted, WorkerStep, Signal, handleVars, ctrlVars,
        resultVars
<1>1. TypeOK'
  BY DEF TypeOK, Handshake, Still, Starting, Stopping, Tokens, Busy, Sems
<1>2. Handshake'
  BY DEF TypeOK, Handshake, Starting, Stopping, Tokens, Parked, Busy, Sems
<1>3. Exit'
  BY DEF Exit
<1>4. Fresh'
  BY DEF Fresh, ResultSession
<1> QED BY <1>1, <1>2, <1>3, <1>4

\* The worker sees the flag only when STOP has posted its token before it.
LEMMA LoopTestKeeps ==
  ASSUME IInv, LoopTest
  PROVE  IInv'
<1> USE DEF IInv, LoopTest, WorkerStep, ctrlVars, resultVars
<1>1. TypeOK'
  BY DEF TypeOK, Busy
<1>2. Handshake'
  BY DEF Handshake, Still, Starting, Stopping, Tokens, Parked, Busy
<1>3. Exit'
  BY DEF Exit
<1>4. Fresh'
  BY DEF Fresh, ResultSession
<1> QED BY <1>1, <1>2, <1>3, <1>4

\* The token of STOP is there when the worker comes for it.
LEMMA WaitStoppingKeeps ==
  ASSUME IInv, WaitStopping
  PROVE  IInv'
<1> USE DEF IInv, WaitStopping, WorkerStep, Acquire, handleVars, ctrlVars,
        resultVars
<1>1. TypeOK'
  BY DEF TypeOK, Sems
<1>2. Handshake'
  BY DEF TypeOK, Handshake, Still, Starting, Stopping, Tokens, Busy, Sems
<1>3. Exit'
  BY DEF Exit
<1>4. Fresh'
  BY DEF Fresh, ResultSession
<1> QED BY <1>1, <1>2, <1>3, <1>4

\* The worker answers a STOP that waits, and parks.
LEMMA SignalStoppedKeeps ==
  ASSUME IInv, SignalStopped
  PROVE  IInv'
<1> USE DEF IInv, SignalStopped, WorkerStep, Signal, handleVars, ctrlVars,
        resultVars
<1>1. TypeOK'
  BY DEF TypeOK, Handshake, Still, Starting, Stopping, Tokens, Parked, Sems
<1>2. Handshake'
  BY DEF TypeOK, Handshake, Starting, Stopping, Tokens, Parked, Busy, Sems
<1>3. Exit'
  BY DEF Exit
<1>4. Fresh'
  BY DEF Fresh, ResultSession
<1> QED BY <1>1, <1>2, <1>3, <1>4

\* Waiting for data leaves the tokens of the handshake alone.
LEMMA WaitAudioKeeps ==
  ASSUME IInv, WaitAudio
  PROVE  IInv'
<1> USE DEF IInv, WaitAudio, WorkerStep, Acquire, handleVars, ctrlVars,
        resultVars
<1>1. TypeOK'
  BY MaxTokensAssumption DEF TypeOK, Busy
<1>2. Handshake'
  BY DEF TypeOK, Handshake, Still, Starting, Stopping, Tokens, Parked, Busy,
     Sems
<1>3. Exit'
  BY DEF TypeOK, Exit, Sems
<1>4. Fresh'
  BY DEF Fresh, ResultSession
<1> QED BY <1>1, <1>2, <1>3, <1>4

\* The worker goes on to read only when there is a frame.
LEMMA SizeCheckKeeps ==
  ASSUME IInv, SizeCheck
  PROVE  IInv'
<1> USE DEF IInv, SizeCheck, WorkerStep, handleVars, ctrlVars, resultVars
<1>1. TypeOK'
  BY DEF TypeOK, Busy
<1>2. Handshake'
  BY DEF Handshake, Still, Starting, Stopping, Tokens, Parked, Busy
<1>3. Exit'
  BY DEF Exit
<1>4. Fresh'
  BY DEF Fresh, ResultSession
<1> QED BY <1>1, <1>2, <1>3, <1>4

\* The frame that is read is one of the session the worker is in.
LEMMA ReadKeeps ==
  ASSUME IInv, Read
  PROVE  IInv'
<1> USE DEF IInv, Read, WorkerStep, ctrlVars
<1>1. TypeOK'
  BY RingFramesAssumption DEF TypeOK, Fresh, Busy
<1>2. Handshake'
  BY DEF Handshake, Still, Starting, Stopping, Tokens, Parked, Busy
<1>3. Exit'
  BY DEF Exit
<1>4. Fresh'
  BY RingFramesAssumption DEF Fresh, ResultSession
<1> QED BY <1>1, <1>2, <1>3, <1>4

\* The number in a result is that of the frame: between the read and the result no
\* START can come, for the worker is not parked.
LEMMA DoLasrKeeps ==
  ASSUME IInv, DoLasr
  PROVE  IInv'
<1> USE DEF IInv, DoLasr, WorkerStep, handleVars, ctrlVars
<1>1. TypeOK'
  BY FrameCounts DEF TypeOK, Busy
<1>2. Handshake'
  BY DEF Handshake, Still, Starting, Stopping, Tokens, Parked, Busy
<1>3. Exit'
  BY DEF Exit
<1>4. Fresh'
  BY DEF Fresh, ResultSession
<1> QED BY <1>1, <1>2, <1>3, <1>4

\* The worker says that it is gone once, and only to a LasrDestroy that waits.
LEMMA WorkerExitKeeps ==
  ASSUME IInv, WorkerExit
  PROVE  IInv'
<1> USE DEF IInv, WorkerExit, WorkerStep, Signal, handleVars, ctrlVars,
        resultVars
<1>1. TypeOK'
  BY DEF TypeOK, Exit, Sems
<1>2. Handshake'
  BY DEF Handshake, Exit, Still, Tokens
<1>3. Exit'
  BY DEF TypeOK, Exit, Sems
<1>4. Fresh'
  BY DEF Fresh, ResultSession
<1> QED BY <1>1, <1>2, <1>3, <1>4

-----------------------------------------------------------------------------
\* Every step of the three threads, and of a LasrDestroy, keeps the invariant.
LEMMA NextKeeps == IInv /\ [NextLife]_vars => IInv'
<1> SUFFICES ASSUME IInv, [NextLife]_vars
             PROVE  IInv'
  OBVIOUS
<1>1. ASSUME NEW id \in VuiIds, StartCall(id)
      PROVE  IInv'
  BY <1>1, StartCallKeeps
<1>2. CASE Ctrl \/ StopCall
  BY <1>2, StartSignalKeeps, StartReturnKeeps, StopCallKeeps, StopFlagKeeps,
     StopReturnKeeps DEF Ctrl
<1>3. CASE Data \/ DataCall
  BY <1>3, DataCallKeeps, DataWriteKeeps, DataSignalKeeps DEF Data
<1>4. CASE Worker \/ WorkerExit
  BY <1>4, WorkerTestKeeps, WaitStartingKeeps, SignalStartedKeeps, LoopTestKeeps,
     WaitStoppingKeeps, SignalStoppedKeeps, WaitAudioKeeps, SizeCheckKeeps,
     ReadKeeps, DoLasrKeeps, WorkerExitKeeps DEF Worker
<1>5. CASE (dpc = "idle" /\ DestroyRequest) \/ DestroyReturn
  BY <1>5, DestroyRequestKeeps, DestroyReturnKeeps
<1>6. CASE UNCHANGED vars
  BY <1>6 DEF vars, handleVars, ctrlVars, resultVars, IInv, TypeOK, Handshake, Exit,
     Fresh, Still, Starting, Stopping, Tokens, ResultSession
<1> QED BY <1>1, <1>2, <1>3, <1>4, <1>5, <1>6 DEF NextLife, Next

\* Whatever the threads do, and whenever the handle is destroyed, the tokens, the
\* flag and the worker fit the place where the control thread is.
THEOREM HandshakeHolds == LifeSpec => []IInv
<1>1. Init => IInv
  BY InitEstablishes
<1>2. IInv /\ [NextLife]_vars => IInv'
  BY NextKeeps
<1> QED BY <1>1, <1>2, PTL DEF LifeSpec

\* What the inductive invariant says of the properties, for this module and for those
\* that take Lasr as an instance.
LEMMA Implied ==
  IInv => /\ TypeOK /\ ClearAlone /\ ResultSession
          /\ QuietAfterStop /\ NoLeftovers /\ NoUseAfterDestroy
<1> SUFFICES ASSUME IInv
             PROVE  /\ TypeOK /\ ClearAlone /\ ResultSession
                    /\ QuietAfterStop /\ NoLeftovers /\ NoUseAfterDestroy
  OBVIOUS
<1>1. TypeOK /\ ResultSession
  BY DEF IInv, Fresh
<1>2. ClearAlone
  BY DEF IInv, Handshake, Fresh, ClearAlone
<1>3. QuietAfterStop
  BY DEF IInv, Handshake, QuietAfterStop
<1>4. NoLeftovers
  BY DEF IInv, Handshake, NoLeftovers, Still, Tokens
<1>5. NoUseAfterDestroy
  BY DEF IInv, Handshake, NoUseAfterDestroy
<1> QED BY <1>1, <1>2, <1>3, <1>4, <1>5

\* The ring never holds more than it was created for, and no semaphore of the
\* handshake is ever posted twice.
THEOREM TypeCorrect == LifeSpec => []TypeOK
BY Implied, HandshakeHolds, PTL

\* START clears the lock-free ring only while neither the worker nor the data
\* thread is using it: the STOP before it has parked the worker.
THEOREM ClearsAlone == LifeSpec => []ClearAlone
BY Implied, HandshakeHolds, PTL

\* A result carries the number of the session its audio was captured in.
THEOREM ResultsNameTheirSession == LifeSpec => []ResultSession
BY Implied, HandshakeHolds, PTL

\* Once STOP has returned the worker does nothing until the next START.
THEOREM QuietBetweenSessions == LifeSpec => []QuietAfterStop
BY Implied, HandshakeHolds, PTL

\* No token and no flag outlives the command it belongs to.
THEOREM HandshakesAreClean == LifeSpec => []NoLeftovers
BY Implied, HandshakeHolds, PTL

\* LasrDestroy frees the handle only when the worker has left it.
THEOREM FreedWhenGone == LifeSpec => []NoUseAfterDestroy
BY Implied, HandshakeHolds, PTL

=============================================================================
