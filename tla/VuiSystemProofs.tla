-------------------------- MODULE VuiSystemProofs --------------------------
(***************************************************************************)
(* The program of app.c and vui.c calls AudioIn and Lasr as they ask to be *)
(* called, so what is proved of each alone holds of it in the program.     *)
(*                                                                         *)
(* The argument goes round: that no frame reaches lasr outside a session   *)
(* needs the worker of audioin to be settled after its STOP, which holds   *)
(* of AudioIn as long as it is called as it asks.  So one invariant has    *)
(* the places of both threads in vui.c and of the pushed command and frame *)
(* (SysInv), with the inductive invariants of both modules, and a step     *)
(* from a state that has it is shown to be a step of each module.          *)
(***************************************************************************)
EXTENDS VuiSystem, SequenceTheorems, TLAPS

AP == INSTANCE AudioInProofs WITH
        Sessions <- VuiIds,
        running <- a_running, status <- a_status, stopping <- a_stopping,
        sem <- a_sem, ring <- a_ring, stream <- a_stream, session <- a_session,
        open <- a_open, cpc <- a_cpc, bpc <- a_bpc, chunk <- a_chunk,
        wpc <- a_wpc, cur <- a_cur

LP == INSTANCE LasrProofs WITH
        vui_id <- l_vui_id, running <- l_running, stopping <- l_stopping,
        ring <- l_ring, sem <- l_sem, frame <- l_frame, posted <- l_posted,
        open <- l_open, cpc <- l_cpc, dpc <- l_dpc, wpc <- l_wpc, cur <- l_cur

-----------------------------------------------------------------------------
(* The invariant.                                                           *)

At(place) == \E t \in Thread : pc[t] = place

\* Main starts the interface once.  Until that has returned the loop runs no
\* command, for the status is still "stopped" and VuiStop refuses.
Places ==
  /\ pc \in [Thread -> {"idle", "stop", "stopping", "start", "launch", "starting", "done"}]
  /\ status \in {"started", "stopped"}
  /\ pc["main"] \in {"start", "launch", "starting", "done"}
  /\ pc["main"] # "done" => status = "stopped" /\ pc["loop"] \in {"idle", "stop", "done"}
  /\ pc["main"] = "done" =>
       (status = "stopped" <=> pc["loop"] \in {"start", "launch", "starting"})

StartChain == {"push_start", "start_signal", "start_stream"}
StopChain == {"stop_stream", "stop_join", "stop_status", "stop_flag", "stop_wait",
              "stop_clear", "push_stop"}

\* Where audioin is in the command that vui.c has given it.
Commanded ==
  /\ IF At("starting") THEN a_cpc \in StartChain \/ (a_cpc = "idle" /\ a_open)
     ELSE IF At("stopping") THEN a_cpc \in StopChain \/ (a_cpc = "idle" /\ ~a_open)
     ELSE a_cpc = "idle" /\ (a_open <=> status = "started")
  /\ "lasr" \in links <=> status = "started" \/ At("launch") \/ At("starting")

\* Where lasr is in the command that audioin pushes.
PushedOn ==
  /\ cmd \in {"none", "due", "called"}
  /\ cmd = "due" => a_cpc \in StopChain \cup {"push_start"}
  /\ cmd = "called" => a_cpc \in {"push_start", "push_stop"}
  /\ a_cpc \in StopChain \ {"push_stop"} => cmd = "due"
  /\ cmd # "called" => l_cpc = "idle"
  /\ cmd = "called" /\ a_cpc = "push_start" => l_cpc \in {"idle", "start_signal", "start_wait"}
  /\ cmd = "called" /\ a_cpc = "push_stop" => l_cpc \in {"idle", "stop_flag", "stop_wait"}
  /\ l_open <=> \/ a_cpc = "idle" /\ a_open
                \/ a_cpc \in {"start_signal", "start_stream"}
                \/ a_cpc = "push_start" /\ cmd # "due" /\ l_cpc = "idle"
                \/ a_cpc \in StopChain /\ cmd = "due"

\* A frame is in lasr's handler only while audioin's worker is pushing it.
FramePushed ==
  /\ data \in {"none", "due", "called"}
  /\ data # "none" => a_wpc = "push"
  /\ data # "called" => l_dpc = "idle"

\* The number of the session, until START has brought it to audioin and to lasr.
Numbered ==
  /\ vui_id \in VuiIds
  /\ a_session = vui_id <=> ~At("launch")
  /\ l_vui_id = vui_id <=> ~At("launch") /\ ~(a_cpc = "push_start" /\ cmd = "due")

SysInv == Places /\ Commanded /\ PushedOn /\ FramePushed /\ Numbered

IInv == SysInv /\ AP!IInv /\ LP!IInv

-----------------------------------------------------------------------------
(* The two modules in the program, and as their proofs know them.           *)

Constants ==
  /\ 0 \in VuiIds
  /\ FrameUnits \in Nat \ {0} /\ RingUnits \in Nat /\ FrameUnits <= RingUnits
  /\ MaxChunk \in Nat \ {0} /\ RingFrames \in Nat \ {0}
  /\ Period \in Nat \ {0} /\ MaxTokens \in Nat \ {0}

\* The constants are such as AudioIn and Lasr ask for.
LEMMA ConstantsFit == Constants
BY IdCountAssumption, FrameUnitsAssumption, RingUnitsAssumption, MaxChunkAssumption,
   RingFramesAssumption, PeriodAssumption, MaxTokensAssumption DEF Constants, VuiIds

\* A step of AudioIn keeps what AudioInProofs proves of AudioIn.
LEMMA AudioInKeeps ==
  ASSUME AP!IInv, [A!Next]_A!vars
  PROVE  AP!IInv'
<1>1. A!vars = AP!vars
  BY DEF A!vars, AP!vars, A!handleVars, AP!handleVars, A!ctrlVars, AP!ctrlVars,
         A!cbVars, AP!cbVars, A!workerVars, AP!workerVars
<1>2. [AP!NextLife]_AP!vars
  <2>1. CASE UNCHANGED A!vars
    BY <2>1 DEF A!vars, AP!vars, A!handleVars, AP!handleVars, A!ctrlVars, AP!ctrlVars,
         A!cbVars, AP!cbVars, A!workerVars, AP!workerVars
  <2>2. CASE A!Next
    BY <2>2 DEF A!Next, AP!Next, AP!NextLife,
      A!StartCall, AP!StartCall, A!StopCall, AP!StopCall, A!Ctrl, AP!Ctrl, A!Worker, AP!Worker,
      A!StartCmd, AP!StartCmd, A!StartPushed, AP!StartPushed, A!StartSignal, AP!StartSignal,
      A!StartStream, AP!StartStream, A!StopCmd, AP!StopCmd, A!StopStream, AP!StopStream,
      A!StopJoin, AP!StopJoin, A!StopStatus, AP!StopStatus, A!StopFlag, AP!StopFlag,
      A!StopWait, AP!StopWait, A!StopClear, AP!StopClear, A!StopPushed, AP!StopPushed,
      A!Callback, AP!Callback, A!CallbackWrite, AP!CallbackWrite,
      A!WorkerTest, AP!WorkerTest, A!AnswerStop, AP!AnswerStop,
      A!SignalStopped, AP!SignalStopped, A!WaitStart, AP!WaitStart,
      A!TestStarted, AP!TestStarted, A!SizeCheck, AP!SizeCheck, A!Read, AP!Read,
      A!Pushed, AP!Pushed, A!CtrlStep, AP!CtrlStep, A!WorkerStep, AP!WorkerStep,
      A!Signal, AP!Signal, A!Acquire, AP!Acquire, A!handleVars, AP!handleVars,
      A!ctrlVars, AP!ctrlVars, A!cbVars, AP!cbVars, A!workerVars, AP!workerVars
  <2> QED BY <2>1, <2>2
<1> QED BY <1>2, AP!Inductive, ConstantsFit DEF Constants

\* A step of Lasr keeps what LasrProofs proves of Lasr.
LEMMA LasrKeeps ==
  ASSUME LP!IInv, [L!Next]_L!vars
  PROVE  LP!IInv'
<1>1. [LP!NextLife]_LP!vars
  <2>1. CASE UNCHANGED L!vars
    BY <2>1 DEF L!vars, LP!vars, L!handleVars, LP!handleVars, L!ctrlVars, LP!ctrlVars,
         L!resultVars, LP!resultVars
  <2>2. CASE L!Next
    BY <2>2 DEF L!Next, LP!Next, LP!NextLife,
      L!StartCall, LP!StartCall, L!StopCall, LP!StopCall, L!DataCall, LP!DataCall,
      L!Ctrl, LP!Ctrl, L!Data, LP!Data, L!Worker, LP!Worker,
      L!StartReset, LP!StartReset, L!StartSignal, LP!StartSignal,
      L!StartReturn, LP!StartReturn, L!StopSignal, LP!StopSignal,
      L!StopFlag, LP!StopFlag, L!StopReturn, LP!StopReturn,
      L!DataCheck, LP!DataCheck, L!DataWrite, LP!DataWrite, L!DataSignal, LP!DataSignal,
      L!WorkerTest, LP!WorkerTest, L!WaitStarting, LP!WaitStarting,
      L!SignalStarted, LP!SignalStarted, L!LoopTest, LP!LoopTest,
      L!WaitStopping, LP!WaitStopping, L!SignalStopped, LP!SignalStopped,
      L!WaitAudio, LP!WaitAudio, L!SizeCheck, LP!SizeCheck, L!Read, LP!Read,
      L!DoLasr, LP!DoLasr, L!CtrlStep, LP!CtrlStep, L!DataStep, LP!DataStep,
      L!WorkerStep, LP!WorkerStep, L!Signal, LP!Signal, L!Acquire, LP!Acquire,
      L!handleVars, LP!handleVars, L!ctrlVars, LP!ctrlVars, L!resultVars, LP!resultVars
  <2> QED BY <2>1, <2>2
<1> QED BY <1>1, LP!NextKeeps, ConstantsFit DEF Constants

\* Both begin as their proofs say.
LEMMA BothBegin == Init => A!Init /\ L!Init /\ AP!IInv /\ LP!IInv
<1> SUFFICES ASSUME Init PROVE A!Init /\ L!Init /\ AP!IInv /\ LP!IInv
  OBVIOUS
<1>1. A!Init /\ L!Init
  BY DEF Init
<1>2. AP!Init
  BY <1>1 DEF A!Init, AP!Init, A!Sems, AP!Sems
<1>3. LP!Init
  BY <1>1 DEF L!Init, LP!Init, L!Sems, LP!Sems, L!NoResult, LP!NoResult
<1> QED BY <1>1, <1>2, <1>3, AP!Initially, LP!InitEstablishes, ConstantsFit DEF Constants

\* What the program needs to know of audioin: its worker has nothing to do with
\* frames between the answer to a STOP and the next START, a frame it pushes
\* is of the session, and a command that runs has closed the session.
LEMMA OfAudioIn ==
  ASSUME AP!IInv, a_cpc \notin {"destroy_join", "destroy_wait", "destroyed"}
  PROVE  /\ a_wpc \in {"read", "push"} =>
              \/ a_cpc = "idle" /\ a_open
              \/ a_cpc \in {"start_signal", "start_stream", "stop_stream", "stop_join",
                            "stop_status", "stop_flag", "stop_wait"}
         /\ a_wpc = "push" => a_cur[1] = a_session
         /\ a_cpc # "idle" => ~a_open
         /\ a_open \in BOOLEAN
<1>1. AP!TypeOK /\ AP!Said /\ AP!WorkerSettles /\ AP!Fresh
  BY DEF AP!IInv
<1>2. a_wpc = "push" => a_cur[1] = a_session
  BY <1>1, FrameUnitsAssumption DEF AP!Fresh, AP!AllOf
<1> QED BY <1>1, <1>2 DEF AP!TypeOK, AP!Said, AP!WorkerSettles, AP!Settled, AP!Consuming,
       AP!Destroying

\* What it needs to know of lasr.
LEMMA OfLasr ==
  ASSUME LP!IInv
  PROVE  /\ l_dpc # "idle" => l_open /\ l_cpc = "idle"
         /\ l_cpc \notin {"idle", "destroy_wait", "destroyed"} => ~l_open
         /\ l_wpc \in {"read", "do"} => l_open \/ l_cpc # "idle"
         /\ l_open \in BOOLEAN /\ l_dpc \in {"idle", "write", "signal"}
BY DEF LP!IInv, LP!TypeOK, LP!Handshake, LP!Starting, LP!Stopping, LP!Fresh, LP!Parked, LP!Still

\* A place of either thread.
LEMMA AtEither ==
  /\ \A place : At(place) <=> pc["main"] = place \/ pc["loop"] = place
  /\ \A place : At(place)' <=> pc'["main"] = place \/ pc'["loop"] = place
BY DEF At, Thread

\* One of two threads moves.
LEMMA Moves ==
  ASSUME Places, NEW t \in Thread, NEW to, Goes(t, to)
  PROVE  /\ pc'[t] = to
         /\ \A u \in Thread : u # t => pc'[u] = pc[u]
         /\ to \in {"idle", "stop", "stopping", "start", "launch", "starting", "done"}
              => pc' \in [Thread -> {"idle", "stop", "stopping", "start", "launch",
                                     "starting", "done"}]
BY DEF Places, Goes

\* A number has a successor, which is another number.
LEMMA NextIdIs ==
  ASSUME vui_id \in VuiIds
  PROVE  /\ NextId = IF vui_id + 1 < IdCount THEN vui_id + 1 ELSE 0
         /\ NextId \in VuiIds /\ NextId # vui_id
<1>1. /\ IdCount \in Nat /\ IdCount > 1
      /\ vui_id \in Nat /\ vui_id < IdCount
  BY IdCountAssumption DEF VuiIds
<1>2. CASE vui_id + 1 < IdCount
  <2>1. (vui_id + 1) % IdCount = vui_id + 1
    BY <1>1, <1>2
  <2> QED BY <1>1, <1>2, <2>1 DEF NextId, VuiIds
<1>3. CASE vui_id + 1 = IdCount
  <2>1. (vui_id + 1) % IdCount = 0
    BY <1>1, <1>3
  <2> QED BY <1>1, <1>3, <2>1 DEF NextId, VuiIds
<1> QED BY <1>1, <1>2, <1>3

-----------------------------------------------------------------------------
(* Every step keeps SysInv and is a step of each module, or none of its.    *)

Alone == [A!Next]_A!vars /\ [L!Next]_L!vars

\* A module none of whose variables change takes no step.
LEMMA Idle ==
  /\ UNCHANGED aVars => [A!Next]_A!vars
  /\ UNCHANGED lVars => [L!Next]_L!vars
BY DEF aVars, lVars, A!vars, A!handleVars, A!ctrlVars, A!cbVars, A!workerVars,
       L!vars, L!handleVars, L!ctrlVars, L!resultVars

\* The ways of the threads in vui.c that leave both modules alone.
LEMMA StartEnterKeeps ==
  ASSUME IInv, NEW t \in Thread, NEW m, StartEnter(t, m)
  PROVE  SysInv' /\ Alone
<1> USE DEF IInv, SysInv
<1>1. Alone
  BY Idle DEF StartEnter, Alone
<1>2. CASE status = "started"
  <2>1. FALSE
    BY <1>2 DEF Places, StartEnter, Thread
  <2> QED BY <2>1
<1>3. CASE status # "started"
  <2>1. /\ Goes(t, "launch") /\ vui_id' = NextId /\ status' = status /\ "lasr" \in links'
        /\ UNCHANGED <<cmd, data, aVars, lVars>>
    BY <1>3 DEF StartEnter, LasrOn
  <2>2. Places' /\ ~At("launch") /\ ~At("starting") /\ ~At("stopping")
        /\ At("launch")' /\ ~At("starting")' /\ ~At("stopping")'
    BY <1>3, <2>1, Moves, AtEither DEF Places, StartEnter, Thread
  <2>3. Commanded' /\ PushedOn' /\ FramePushed'
    BY <1>3, <2>1, <2>2 DEF Commanded, PushedOn, FramePushed, aVars, lVars
  <2>4. Numbered'
    <3>1. a_session = vui_id /\ l_vui_id = vui_id /\ vui_id \in VuiIds
      BY <2>2 DEF Commanded, Numbered
    <3> QED BY <2>1, <2>2, <3>1, NextIdIs DEF Numbered, aVars, lVars
  <2> QED BY <1>1, <2>2, <2>3, <2>4
<1> QED BY <1>1, <1>2, <1>3

LEMMA LaunchKeeps ==
  ASSUME IInv, NEW t \in Thread, Launch(t)
  PROVE  SysInv' /\ Alone
<1> USE DEF IInv, SysInv
<1>1. /\ a_cpc = "idle" /\ a_cpc' = "push_start" /\ a_session' = vui_id
      /\ UNCHANGED <<a_open, a_wpc, vuiVars, data, lVars>>
      /\ A!StartCmd(vui_id) /\ Goes(t, "starting") /\ pc[t] = "launch"
  BY DEF Launch, A!StartCmd, A!CtrlStep, A!workerVars, A!handleVars
<1>2. Places' /\ At("launch") /\ ~At("starting") /\ ~At("stopping")
      /\ ~At("launch")' /\ At("starting")' /\ ~At("stopping")' /\ status = "stopped"
  BY <1>1, Moves, AtEither DEF Places, Thread, vuiVars
<1>3. ~a_open /\ "lasr" \in links /\ cmd' = "due" /\ a_session # vui_id /\ l_vui_id # vui_id
  BY <1>2 DEF Commanded, Numbered, Launch
<1>4. Commanded' /\ FramePushed' /\ Numbered'
  BY <1>1, <1>2, <1>3 DEF Commanded, FramePushed, Numbered, vuiVars, lVars, StartChain
<1>5. PushedOn'
  BY <1>1, <1>2, <1>3 DEF Commanded, PushedOn, StopChain, lVars
<1>6. A!Next
  BY <1>1, <1>3 DEF A!Next, A!StartCall, Numbered
<1> QED BY <1>1, <1>2, <1>4, <1>5, <1>6, Idle DEF Alone

LEMMA StartedKeeps ==
  ASSUME IInv, NEW t \in Thread, Started(t)
  PROVE  SysInv' /\ Alone
<1> USE DEF IInv, SysInv
<1>1. /\ pc[t] = "starting" /\ a_cpc = "idle" /\ status' = "started" /\ Goes(t, "done")
      /\ UNCHANGED <<vui_id, links, cmd, data, aVars, lVars>>
  BY DEF Started
<1>2. Places' /\ ~At("launch") /\ At("starting")
      /\ ~At("launch")' /\ ~At("starting")' /\ ~At("stopping")'
  BY <1>1, Moves, AtEither DEF Places, Thread
<1>3. Commanded' /\ PushedOn' /\ FramePushed' /\ Numbered'
  BY <1>1, <1>2 DEF Commanded, PushedOn, FramePushed, Numbered, aVars, lVars, StartChain
<1> QED BY <1>1, <1>2, <1>3, Idle DEF Alone

LEMMA StopEnterKeeps ==
  ASSUME IInv, NEW t \in Thread, StopEnter(t)
  PROVE  SysInv' /\ Alone
<1> USE DEF IInv, SysInv
<1>1. CASE status = "stopped"
  <2>1. pc[t] = "stop" /\ Goes(t, "done") /\ UNCHANGED <<vuiVars, cmd, data, aVars, lVars>>
    BY <1>1 DEF StopEnter
  <2>2. Places' /\ (At("launch")' <=> At("launch")) /\ (At("starting")' <=> At("starting"))
        /\ (At("stopping")' <=> At("stopping"))
    BY <1>1, <2>1, Moves, AtEither DEF Places, Thread, vuiVars
  <2>3. Commanded' /\ PushedOn' /\ FramePushed' /\ Numbered'
    BY <2>1, <2>2 DEF Commanded, PushedOn, FramePushed, Numbered, aVars, lVars, vuiVars
  <2> QED BY <2>1, <2>2, <2>3, Idle DEF Alone
<1>2. CASE status # "stopped"
  <2>1. /\ pc[t] = "stop" /\ Goes(t, "stopping") /\ A!StopCmd
        /\ cmd' = IF "lasr" \in links THEN "due" ELSE "none"
        /\ UNCHANGED <<vuiVars, data, lVars>>
    BY <1>2 DEF StopEnter
  <2>2. /\ a_cpc = "idle" /\ a_cpc' = "stop_stream" /\ a_open' = FALSE
        /\ UNCHANGED <<a_session, a_wpc>>
    BY <2>1 DEF A!StopCmd, A!CtrlStep, A!workerVars
  <2>3. Places' /\ ~At("launch") /\ ~At("starting") /\ ~At("stopping")
        /\ ~At("launch")' /\ ~At("starting")' /\ At("stopping")' /\ status = "started"
    BY <1>2, <2>1, Moves, AtEither DEF Places, Thread, vuiVars
  <2>4. a_open /\ cmd' = "due"
    BY <2>1, <2>3 DEF Commanded
  <2>5. Commanded' /\ PushedOn' /\ FramePushed' /\ Numbered'
    BY <2>1, <2>2, <2>3, <2>4
       DEF Commanded, PushedOn, FramePushed, Numbered, lVars, vuiVars, StartChain, StopChain
  <2>6. A!Next
    BY <2>1, <2>4 DEF A!Next, A!StopCall
  <2> QED BY <2>1, <2>3, <2>5, <2>6, Idle DEF Alone
<1> QED BY <1>1, <1>2

LEMMA UnlinkKeeps ==
  ASSUME IInv, NEW t \in Thread, Unlink(t)
  PROVE  SysInv' /\ Alone
<1> USE DEF IInv, SysInv
<1>1. /\ pc[t] = "stopping" /\ a_cpc = "idle" /\ status' = "stopped" /\ Goes(t, "start")
      /\ links' = {} /\ UNCHANGED <<vui_id, cmd, data, aVars, lVars>>
  BY DEF Unlink
<1>2. Places' /\ ~At("launch") /\ ~At("starting") /\ At("stopping")
      /\ ~At("launch")' /\ ~At("starting")' /\ ~At("stopping")'
  BY <1>1, Moves, AtEither DEF Places, Thread
<1>3. Commanded' /\ PushedOn' /\ FramePushed' /\ Numbered'
  BY <1>1, <1>2 DEF Commanded, PushedOn, FramePushed, Numbered, aVars, lVars, StopChain
<1> QED BY <1>1, <1>2, <1>3, Idle DEF Alone

\* app.c: the loop takes a result and lets go of it.
LEMMA EventKeeps ==
  ASSUME IInv, TakeEvent \/ FreeEvent
  PROVE  SysInv' /\ Alone
<1> USE DEF IInv, SysInv
<1>1. /\ UNCHANGED <<vuiVars, cmd, data, aVars, lVars>>
      /\ \/ pc["loop"] = "idle" /\ Goes("loop", "stop")
         \/ pc["loop"] = "done" /\ Goes("loop", "idle")
  BY DEF TakeEvent, FreeEvent
<1>2. "loop" \in Thread /\ "main" \in Thread
  BY DEF Thread
<1>3. Places' /\ (At("launch")' <=> At("launch")) /\ (At("starting")' <=> At("starting"))
      /\ (At("stopping")' <=> At("stopping"))
  BY <1>1, <1>2, Moves, AtEither DEF Places, vuiVars
<1>4. Commanded' /\ PushedOn' /\ FramePushed' /\ Numbered'
  BY <1>1, <1>3 DEF Commanded, PushedOn, FramePushed, Numbered, aVars, lVars, vuiVars
<1> QED BY <1>1, <1>3, <1>4, Idle DEF Alone

-----------------------------------------------------------------------------
(* The pushed command.                                                      *)

\* No step of a module moves a thread in vui.c or changes what it knows.
LEMMA SameAt ==
  ASSUME UNCHANGED <<pc, vuiVars>>
  PROVE  /\ Places => Places'
         /\ \A place : At(place)' <=> At(place)
         /\ vui_id' = vui_id /\ status' = status /\ links' = links
BY DEF Places, At, vuiVars

\* audioin calls lasr's handler: the session has begun or ended for audioin, so no
\* frame is on its way.
LEMMA CommandCalledKeeps ==
  ASSUME IInv, CommandCalled
  PROVE  SysInv' /\ Alone
<1> USE DEF IInv, SysInv
<1>1. /\ cmd = "due" /\ a_cpc \in {"push_start", "push_stop"} /\ cmd' = "called"
      /\ UNCHANGED <<vuiVars, pc, data, aVars>>
  BY DEF CommandCalled
<1>2. a_wpc # "push" /\ l_dpc = "idle" /\ l_cpc = "idle"
  BY <1>1, OfAudioIn DEF FramePushed, PushedOn
<1>3. At("starting") \/ At("stopping")
  BY <1>1 DEF Commanded
<1>4. ~At("launch")
  BY <1>3, AtEither DEF Places
<1>5. CASE a_cpc = "push_start"
  <2>1. /\ L!StartReset(vui_id) /\ l_cpc' = "start_signal" /\ l_vui_id' = vui_id
        /\ l_open' = l_open /\ l_dpc' = l_dpc
    BY <1>1, <1>5 DEF CommandCalled, L!StartReset, L!CtrlStep
  <2>2. ~l_open /\ l_vui_id # vui_id /\ vui_id \in VuiIds
    BY <1>1, <1>5, OfAudioIn DEF PushedOn, Numbered, StopChain
  <2>3. L!Next
    BY <1>2, <2>1, <2>2 DEF L!Next, L!StartCall
  <2>4. Commanded' /\ PushedOn' /\ FramePushed' /\ Numbered'
    BY <1>1, <1>2, <1>4, <1>5, <2>1, <2>2, SameAt
       DEF Commanded, PushedOn, FramePushed, Numbered, aVars, StopChain
  <2> QED BY <1>1, <2>3, <2>4, SameAt, Idle DEF Alone
<1>6. CASE a_cpc = "push_stop"
  <2>1. /\ L!StopSignal /\ l_cpc' = "stop_flag" /\ l_vui_id' = l_vui_id
        /\ l_open' = FALSE /\ l_dpc' = l_dpc
    BY <1>1, <1>6 DEF CommandCalled, L!StopSignal, L!CtrlStep, L!handleVars
  <2>2. l_open
    BY <1>1, <1>6 DEF PushedOn, StopChain
  <2>3. L!Next
    BY <1>2, <2>1, <2>2 DEF L!Next, L!StopCall
  <2>4. Commanded' /\ PushedOn' /\ FramePushed' /\ Numbered'
    BY <1>1, <1>2, <1>4, <1>6, <2>1, <2>2, SameAt
       DEF Commanded, PushedOn, FramePushed, Numbered, aVars, StopChain
  <2> QED BY <1>1, <2>3, <2>4, SameAt, Idle DEF Alone
<1> QED BY <1>1, <1>5, <1>6

LEMMA CommandReturnedKeeps ==
  ASSUME IInv, CommandReturned
  PROVE  SysInv' /\ Alone
<1> USE DEF IInv, SysInv
<1>1. /\ cmd = "called" /\ l_cpc = "idle" /\ cmd' = "none"
      /\ UNCHANGED <<vuiVars, pc, data, aVars, lVars>>
  BY DEF CommandReturned
<1>2. Commanded' /\ PushedOn' /\ FramePushed' /\ Numbered'
  BY <1>1, SameAt DEF Commanded, PushedOn, FramePushed, Numbered, aVars, lVars, StopChain
<1> QED BY <1>1, <1>2, SameAt, Idle DEF Alone

\* lasr's handler goes on; when it returns the session is open, or closed.
LEMMA LasrCtrlKeeps ==
  ASSUME IInv, LasrCtrl
  PROVE  SysInv' /\ Alone
<1> USE DEF IInv, SysInv
<1>1. L!Ctrl /\ UNCHANGED <<vuiVars, pc, cmd, data, aVars>>
  BY DEF LasrCtrl
<1>2. /\ l_vui_id' = l_vui_id /\ l_dpc' = l_dpc
      /\ \/ l_cpc = "start_signal" /\ l_cpc' = "start_wait" /\ l_open' = l_open
         \/ l_cpc = "start_wait" /\ l_cpc' = "idle" /\ l_open' = TRUE
         \/ l_cpc = "stop_flag" /\ l_cpc' = "stop_wait" /\ l_open' = l_open
         \/ l_cpc = "stop_wait" /\ l_cpc' = "idle" /\ l_open' = l_open
  BY <1>1 DEF L!Ctrl, L!StartSignal, L!StartReturn, L!StopFlag, L!StopReturn, L!CtrlStep,
       L!handleVars
<1>3. cmd = "called" /\ (l_cpc \in {"stop_flag", "stop_wait"} => a_cpc = "push_stop")
      /\ (l_cpc \in {"start_signal", "start_wait"} => a_cpc = "push_start")
  BY <1>2 DEF PushedOn
<1>4. PushedOn'
  BY <1>1, <1>2, <1>3 DEF PushedOn, aVars, StopChain
<1>5. Commanded' /\ FramePushed' /\ Numbered'
  BY <1>1, <1>2, SameAt DEF Commanded, FramePushed, Numbered, aVars
<1>6. L!Next
  BY <1>1 DEF L!Next
<1> QED BY <1>1, <1>4, <1>5, <1>6, SameAt, Idle DEF Alone

\* audioin's handler goes on, and past the push only when lasr's has returned.
LEMMA AudioInCtrlKeeps ==
  ASSUME IInv, AudioInCtrl
  PROVE  SysInv' /\ Alone
<1> USE DEF IInv, SysInv
<1>1. /\ A!Ctrl /\ UNCHANGED <<vuiVars, pc, cmd, data, lVars>>
      /\ a_cpc \in {"push_start", "push_stop"} => cmd = "none"
  BY DEF AudioInCtrl
<1>2. /\ a_session' = a_session /\ a_wpc' = a_wpc
      /\ \/ a_cpc = "push_start" /\ a_cpc' = "start_signal" /\ a_open' = a_open
         \/ a_cpc = "start_signal" /\ a_cpc' = "start_stream" /\ a_open' = a_open
         \/ a_cpc = "start_stream" /\ a_cpc' = "idle" /\ a_open' = TRUE
         \/ /\ a_cpc \in StopChain \ {"push_stop"} /\ a_cpc' \in StopChain
            /\ a_open' = a_open
         \/ a_cpc = "push_stop" /\ a_cpc' = "idle" /\ a_open' = a_open
  BY <1>1 DEF A!Ctrl, A!StartPushed, A!StartSignal, A!StartStream, A!StopStream, A!StopJoin,
       A!StopStatus, A!StopFlag, A!StopWait, A!StopClear, A!StopPushed, A!CtrlStep,
       A!workerVars, A!handleVars, StopChain
<1>3. a_cpc # "idle"
  BY <1>2 DEF StopChain
<1>4. ~a_open /\ (At("starting") \/ At("stopping"))
      /\ (At("starting") <=> a_cpc \in StartChain)
  BY <1>3, OfAudioIn DEF Commanded, StartChain, StopChain
<1>5. ~At("launch")
  BY <1>4, AtEither DEF Places
<1>6. Commanded'
  BY <1>1, <1>2, <1>4, SameAt DEF Commanded, StartChain, StopChain
<1>7. PushedOn'
  BY <1>1, <1>2, <1>4 DEF PushedOn, lVars, StopChain
<1>8. FramePushed' /\ Numbered'
  BY <1>1, <1>2, <1>5, SameAt DEF PushedOn, FramePushed, Numbered, lVars, StopChain
<1>9. A!Next
  BY <1>1 DEF A!Next
<1> QED BY <1>1, <1>6, <1>7, <1>8, <1>9, SameAt, Idle DEF Alone

-----------------------------------------------------------------------------
(* The pushed frame.                                                        *)

\* A frame is pushed in an open session: the worker of audioin settles before STOP
\* goes on to lasr, and begins after START has come back from it.
LEMMA PushIsOpen ==
  ASSUME IInv, a_wpc = "push"
  PROVE  l_open /\ l_cpc = "idle" /\ a_cur[1] = l_vui_id
<1> USE DEF IInv, SysInv
<1>1. a_cpc \notin {"destroy_join", "destroy_wait", "destroyed"}
  BY DEF Commanded, StartChain, StopChain
<1>2. \/ a_cpc = "idle" /\ a_open
      \/ a_cpc \in {"start_signal", "start_stream", "stop_stream", "stop_join",
                    "stop_status", "stop_flag", "stop_wait"}
  BY <1>1, OfAudioIn
<1>3. l_open /\ l_cpc = "idle"
  BY <1>2 DEF PushedOn, StopChain
<1>4. ~At("launch")
  BY <1>2, AtEither DEF Places, Commanded, StartChain, StopChain
<1>5. l_vui_id = vui_id /\ a_session = vui_id
  BY <1>2, <1>4 DEF Numbered
<1> QED BY <1>1, <1>3, <1>5, OfAudioIn

LEMMA FrameKeeps ==
  ASSUME IInv, FrameCalled \/ FrameAccepted \/ FrameReturned
  PROVE  SysInv' /\ Alone
<1> USE DEF IInv, SysInv
<1>1. a_wpc = "push" /\ UNCHANGED <<vuiVars, pc, cmd, aVars>>
  BY DEF FrameCalled, FrameAccepted, FrameReturned, FramePushed
<1>2. l_open /\ l_cpc = "idle" /\ a_cur[1] = l_vui_id
  BY <1>1, PushIsOpen
<1>3. /\ UNCHANGED <<l_cpc, l_open, l_vui_id>>
      /\ data' \in {"none", "called"} /\ (data' = "none" => l_dpc' = "idle")
  BY <1>2 DEF FrameCalled, FrameAccepted, FrameReturned, L!DataCheck, L!DataWrite, L!DataSignal,
       L!DataStep, L!ctrlVars, L!handleVars, lVars
<1>4. Commanded' /\ PushedOn' /\ FramePushed' /\ Numbered'
  BY <1>1, <1>3, SameAt DEF Commanded, PushedOn, FramePushed, Numbered, aVars
<1>5. [L!Next]_L!vars
  BY <1>2, Idle DEF FrameCalled, FrameAccepted, FrameReturned, L!Next, L!DataCall, L!Data
<1> QED BY <1>1, <1>4, <1>5, SameAt, Idle DEF Alone

LEMMA AudioInWorkerKeeps ==
  ASSUME IInv, AudioInWorker
  PROVE  SysInv' /\ Alone
<1> USE DEF IInv, SysInv
<1>1. /\ A!Worker /\ UNCHANGED <<vuiVars, pc, cmd, lVars>>
      /\ a_wpc = "push" => data = "none"
      /\ data' = IF a_wpc = "read" /\ "lasr" \in links THEN "due" ELSE data
  BY DEF AudioInWorker
<1>2. UNCHANGED <<a_cpc, a_open, a_session>> /\ (a_wpc = "read" => a_wpc' = "push")
  BY <1>1 DEF A!Worker, A!WorkerTest, A!AnswerStop, A!SignalStopped, A!WaitStart,
       A!TestStarted, A!SizeCheck, A!Read, A!Pushed, A!WorkerStep, A!ctrlVars
<1>3. data = "none" /\ l_dpc = "idle"
  <2>1. CASE a_wpc = "push"
    BY <1>1, <2>1 DEF FramePushed
  <2>2. CASE a_wpc # "push"
    BY <2>2 DEF FramePushed
  <2> QED BY <2>1, <2>2
<1>4. Commanded' /\ PushedOn' /\ FramePushed' /\ Numbered'
  BY <1>1, <1>2, <1>3, SameAt DEF Commanded, PushedOn, FramePushed, Numbered, lVars
<1>5. A!Next
  BY <1>1 DEF A!Next
<1> QED BY <1>1, <1>4, <1>5, SameAt, Idle DEF Alone

-----------------------------------------------------------------------------
(* The other threads.                                                       *)

LEMMA LasrWorkerKeeps ==
  ASSUME IInv, LasrWorker
  PROVE  SysInv' /\ Alone
<1> USE DEF IInv, SysInv
<1>1. L!Worker /\ UNCHANGED <<vuiVars, pc, cmd, data, aVars>>
  BY DEF LasrWorker
<1>2. UNCHANGED <<l_cpc, l_open, l_vui_id, l_dpc>>
  BY <1>1 DEF L!Worker, L!WorkerTest, L!WaitStarting, L!SignalStarted, L!LoopTest,
       L!WaitStopping, L!SignalStopped, L!WaitAudio, L!SizeCheck, L!Read, L!DoLasr,
       L!WorkerStep, L!ctrlVars, L!handleVars
<1>3. Commanded' /\ PushedOn' /\ FramePushed' /\ Numbered'
  BY <1>1, <1>2, SameAt DEF Commanded, PushedOn, FramePushed, Numbered, aVars
<1>4. L!Next
  BY <1>1 DEF L!Next
<1> QED BY <1>1, <1>3, <1>4, SameAt, Idle DEF Alone

LEMMA MicrophoneKeeps ==
  ASSUME IInv, Microphone
  PROVE  SysInv' /\ Alone
<1> USE DEF IInv, SysInv
<1>1. /\ (\E n \in 1 .. MaxChunk : A!Callback(n)) \/ A!CallbackWrite
      /\ UNCHANGED <<vuiVars, pc, cmd, data, lVars>>
  BY DEF Microphone
<1>2. UNCHANGED <<a_cpc, a_open, a_session, a_wpc>>
  BY <1>1 DEF A!Callback, A!CallbackWrite, A!ctrlVars, A!workerVars
<1>3. Commanded' /\ PushedOn' /\ FramePushed' /\ Numbered'
  BY <1>1, <1>2, SameAt DEF Commanded, PushedOn, FramePushed, Numbered, lVars
<1>4. A!Next
  BY <1>1 DEF A!Next
<1> QED BY <1>1, <1>3, <1>4, SameAt, Idle DEF Alone

-----------------------------------------------------------------------------

\* VuiCreate leaves both modules as their Init says, and main about to start.
LEMMA Initially == Init => IInv
<1> SUFFICES ASSUME Init PROVE IInv
  OBVIOUS
<1>1. Places /\ ~At("launch") /\ ~At("starting") /\ ~At("stopping")
  BY DEF Init, Places, At, Thread
<1>2. /\ a_cpc = "idle" /\ a_open = FALSE /\ a_session = 0
      /\ l_cpc = "idle" /\ l_dpc = "idle" /\ l_open = FALSE /\ l_vui_id = 0
  BY DEF Init, A!Init, L!Init
<1>3. vui_id = 0 /\ vui_id \in VuiIds
  BY ConstantsFit DEF Init, Constants
<1>4. Commanded /\ PushedOn /\ FramePushed /\ Numbered
  BY <1>1, <1>2, <1>3 DEF Init, Commanded, PushedOn, FramePushed, Numbered, StopChain
<1> QED BY <1>1, <1>4, BothBegin DEF IInv, SysInv

\* A step of the program is one of each module, or one that it takes no part in.
LEMMA StepAlone == IInv /\ [Next]_vars => SysInv' /\ Alone
<1> SUFFICES ASSUME IInv, [Next]_vars PROVE SysInv' /\ Alone
  OBVIOUS
<1>1. CASE \E t \in Thread : Launch(t) \/ Started(t) \/ StopEnter(t) \/ Unlink(t)
  BY <1>1, LaunchKeeps, StartedKeeps, StopEnterKeeps, UnlinkKeeps
<1>2. CASE StartEnter("main", StartMode) \/ StartEnter("loop", "lasr_rasr")
  BY <1>2, StartEnterKeeps DEF Thread
<1>3. CASE TakeEvent \/ FreeEvent
  BY <1>3, EventKeeps
<1>4. CASE CommandCalled \/ CommandReturned \/ LasrCtrl \/ AudioInCtrl
  BY <1>4, CommandCalledKeeps, CommandReturnedKeeps, LasrCtrlKeeps, AudioInCtrlKeeps
<1>5. CASE Pusher
  BY <1>5, FrameKeeps, AudioInWorkerKeeps DEF Pusher
<1>6. CASE LasrWorker \/ Microphone
  BY <1>6, LasrWorkerKeeps, MicrophoneKeeps
<1>7. CASE UNCHANGED vars
  <2>1. UNCHANGED <<vuiVars, pc, cmd, data, aVars, lVars>>
    BY <1>7 DEF vars
  <2> QED BY <2>1, SameAt, Idle DEF IInv, SysInv, Alone, Commanded, PushedOn, FramePushed,
             Numbered, aVars, lVars
<1> QED BY <1>1, <1>2, <1>3, <1>4, <1>5, <1>6, <1>7 DEF Next, Control

LEMMA Inductive == IInv /\ [Next]_vars => IInv'
BY StepAlone, AudioInKeeps, LasrKeeps DEF IInv, Alone

LEMMA Kept == Spec => []IInv
BY Initially, Inductive, PTL DEF Spec

-----------------------------------------------------------------------------

\* AudioIn in the program is AudioIn alone: vui.c and app.c command it as it asks,
\* so the theorems of AudioInProofs hold in the program.
THEOREM AudioInImplemented == Spec => AudioInAsAlone
<1>1. Init => A!Init
  BY BothBegin
<1>2. IInv /\ [Next]_vars => [A!Next]_A!vars
  BY StepAlone DEF Alone
<1> QED BY <1>1, <1>2, Kept, PTL DEF Spec, AudioInAsAlone

\* Lasr likewise, though its commands and frames come from two threads of audioin.c
\* which know nothing of it.
THEOREM LasrImplemented == Spec => LasrAsAlone
<1>1. Init => L!Init
  BY BothBegin
<1>2. IInv /\ [Next]_vars => [L!Next]_L!vars
  BY StepAlone DEF Alone
<1> QED BY <1>1, <1>2, Kept, PTL DEF Spec, LasrAsAlone

\* In the whole program: the rings are cleared while nobody uses them, a frame that
\* audioin pushes and a result that lasr posts are of one session, no command leaves a
\* token or a flag for the next, and lasr's worker is quiet between sessions.
THEOREM ModulesHoldInTheProgram ==
  Spec => [](/\ A!ClearAlone /\ A!FrameOfOneSession /\ A!AnsweredOnce
             /\ L!ClearAlone /\ L!ResultSession /\ L!QuietAfterStop /\ L!NoLeftovers)
<1>1. IInv => AP!ClearAlone /\ AP!FrameOfOneSession /\ AP!AnsweredOnce
  BY AP!Implied, ConstantsFit DEF Constants, IInv
<1>2. IInv => LP!ClearAlone /\ LP!ResultSession /\ LP!QuietAfterStop /\ LP!NoLeftovers
  BY LP!Implied, ConstantsFit DEF Constants, IInv
<1>3. /\ AP!ClearAlone => A!ClearAlone
      /\ AP!FrameOfOneSession => A!FrameOfOneSession
      /\ AP!AnsweredOnce => A!AnsweredOnce
  BY DEF AP!ClearAlone, A!ClearAlone, AP!Consuming, A!Consuming, AP!FrameOfOneSession,
         A!FrameOfOneSession, AP!AnsweredOnce, A!AnsweredOnce, A!Range, AP!Range
<1>4. /\ LP!ClearAlone => L!ClearAlone
      /\ LP!ResultSession => L!ResultSession
      /\ LP!QuietAfterStop => L!QuietAfterStop
      /\ LP!NoLeftovers => L!NoLeftovers
  BY DEF LP!ClearAlone, L!ClearAlone, LP!Parked, L!Parked, LP!ResultSession, L!ResultSession,
         LP!QuietAfterStop, L!QuietAfterStop, LP!NoLeftovers, L!NoLeftovers
<1> QED BY <1>1, <1>2, <1>3, <1>4, Kept, PTL

\* Main and the event loop are never both in a command, though vui.c has no lock.
THEOREM OneCommands == Spec => []OneCommander
<1>1. IInv => OneCommander
  BY DEF IInv, SysInv, Places, OneCommander, Thread
<1> QED BY <1>1, Kept, PTL

\* vui.c relinks the nodes only while no command and no frame is on the links, for
\* every set of ids and every size of the rings.
THEOREM LinksStayStable == Spec => LinksStable
<1>1. IInv /\ [Next]_vars
        => [links' # links => cmd = "none" /\ a_wpc # "push" /\ l_dpc = "idle"]_vars
  <2> SUFFICES ASSUME IInv, Next, links' # links
               PROVE  cmd = "none" /\ a_wpc # "push" /\ l_dpc = "idle"
    OBVIOUS
  <2> USE DEF IInv, SysInv
  <2>1. PICK t \in Thread : (\E m : StartEnter(t, m)) \/ Unlink(t)
    BY DEF Next, Control, Pusher, LasrWorker, Microphone, Launch, Started, StopEnter, TakeEvent,
         FreeEvent, CommandCalled, CommandReturned, LasrCtrl, AudioInCtrl, FrameCalled,
         FrameAccepted, FrameReturned, AudioInWorker, vuiVars, Thread
  <2>2. a_cpc = "idle" /\ ~a_open
    <3>1. CASE Unlink(t)
      BY <2>1, <3>1, AtEither DEF Unlink, Places, Commanded, Thread, StopChain
    <3>2. CASE \E m : StartEnter(t, m)
      <4>1. pc[t] = "start" /\ status # "started"
        BY <2>1, <3>2 DEF StartEnter, vuiVars
      <4>2. ~At("starting") /\ ~At("stopping")
        BY <2>1, <4>1, AtEither DEF Places, Thread
      <4> QED BY <4>1, <4>2 DEF Commanded
    <3> QED BY <2>1, <3>1, <3>2
  <2>3. a_wpc # "push"
    BY <2>2, OfAudioIn
  <2>4. cmd = "none"
    BY <2>2 DEF PushedOn, StopChain
  <2> QED BY <2>3, <2>4 DEF FramePushed
<1> QED BY <1>1, Kept, PTL DEF Spec, LinksStable

-----------------------------------------------------------------------------
(* Results out of date.  A result that waits behind i - 1 others is handled *)
(* after as many relaunches, and its own makes one more; that bounds its    *)
(* age by what the event loop and the rings may hold.                       *)

\* The number given n sessions after id.
Behind(id, n) == IF id + n < IdCount THEN id + n ELSE id + n - IdCount

Event == [vui_id : VuiIds, age : 0 .. IdCount]

\* A result's number and its age give the number of the present session.
Aged(e) == e.age < IdCount => vui_id = Behind(e.vui_id, e.age)

\* The relaunch under way has its START still to come.
Coming == IF pc["loop"] \in {"stop", "stopping", "start"} THEN 1 ELSE 0

\* The frame that audioin's worker is pushing and lasr has not yet put in its ring.
InHand ==
  IF a_wpc = "push" /\ (data = "due" \/ (data = "called" /\ l_dpc = "write")) THEN 1 ELSE 0

InWorker == IF l_wpc = "do" THEN 1 ELSE 0
InCallback == IF a_bpc = "write" THEN a_chunk ELSE 0

\* What is or may become a result: no frame is counted twice.
Work == Len(queue) + Len(a_ring) + Len(l_ring) + InHand + InWorker + InCallback

Limit == MaxEvents + MaxChunk

WorkInv ==
  /\ queue \in Seq(Event) /\ handled \in Event
  /\ Work <= Limit - 1

AgeInv ==
  /\ pc["main"] = "start" => queue = <<>> /\ pc["loop"] = "idle"
  /\ \A i \in 1 .. Len(queue) : Aged(queue[i]) /\ queue[i].age + i + Coming <= Limit
  /\ pc["loop"] # "idle" => Aged(handled) /\ handled.age + Coming <= Limit

EventInv == WorkInv /\ AgeInv

\* The parts of Work are natural numbers.
LEMMA Counts ==
  ASSUME IInv, WorkInv
  PROVE  /\ Len(queue) \in Nat /\ Len(a_ring) \in Nat /\ Len(l_ring) \in Nat
         /\ InHand \in {0, 1} /\ InWorker \in {0, 1} /\ InCallback \in Nat
         /\ a_chunk \in 1 .. MaxChunk /\ MaxChunk \in Nat /\ MaxEvents \in Nat
         /\ a_ring \in Seq(VuiIds) /\ l_ring \in Seq(VuiIds)
<1>1. a_ring \in Seq(VuiIds) /\ a_chunk \in 1 .. MaxChunk /\ l_ring \in Seq(VuiIds)
  BY DEF IInv, AP!IInv, AP!TypeOK, LP!IInv, LP!TypeOK
<1>2. MaxChunk \in Nat /\ MaxEvents \in Nat
  BY MaxChunkAssumption, MaxEventsAssumption
<1> QED BY <1>1, <1>2 DEF WorkInv, InHand, InWorker, InCallback

\* A result one session older.
LEMMA OlderIs ==
  ASSUME vui_id \in VuiIds, NEW e \in Event
  PROVE  /\ Older(e) \in Event /\ Older(e).age <= e.age + 1
         /\ Aged(e) /\ vui_id' = NextId
              => (Older(e).age < IdCount => vui_id' = Behind(Older(e).vui_id, Older(e).age))
<1>1. IdCount \in Nat /\ IdCount > 1
  BY IdCountAssumption
<1>2. /\ e.age \in 0 .. IdCount /\ e.vui_id \in VuiIds
      /\ Older(e) = [vui_id |-> e.vui_id, age |-> IF e.age < IdCount THEN e.age + 1 ELSE e.age]
  BY DEF Event, Older
<1>3. Older(e).vui_id = e.vui_id
      /\ Older(e).age = IF e.age < IdCount THEN e.age + 1 ELSE e.age
  BY <1>2
<1>4. Older(e) \in Event
  BY <1>1, <1>2 DEF Event
<1>5. NextId = IF vui_id + 1 < IdCount THEN vui_id + 1 ELSE 0
  BY NextIdIs
<1> QED BY <1>1, <1>2, <1>3, <1>4, <1>5 DEF Aged, Behind, VuiIds

\* Nothing that Work counts changes.
LEMMA WorkSame ==
  ASSUME WorkInv, UNCHANGED <<queue, handled, a_ring, l_ring, a_wpc, data, l_dpc, l_wpc,
                              a_bpc, a_chunk>>
  PROVE  WorkInv'
BY DEF WorkInv, Work, InHand, InWorker, InCallback

\* The links of vui.c, and the commands on them.
LEMMA ControlWork ==
  ASSUME IInv, WorkInv, Control
  PROVE  WorkInv'
<1> USE Counts
<1>1. CASE \E t \in Thread, m \in Modes : StartEnter(t, m)
  <2>1. PICK t \in Thread, m \in Modes : StartEnter(t, m)
    BY <1>1
  <2>2. UNCHANGED <<a_ring, l_ring, a_wpc, data, l_dpc, l_wpc, a_bpc, a_chunk>>
    BY <2>1 DEF StartEnter, aVars, lVars
  <2>3. vui_id \in VuiIds
    BY DEF IInv, SysInv, Numbered
  <2>4. queue' \in Seq(Event) /\ Len(queue') = Len(queue) /\ handled' \in Event
    <3>1. CASE UNCHANGED eventVars
      BY <3>1 DEF eventVars, WorkInv
    <3>2. CASE queue' = [i \in DOMAIN queue |-> Older(queue[i])] /\ handled' = Older(handled)
      <4>1. \A i \in 1 .. Len(queue) : queue[i] \in Event
        BY DEF WorkInv
      <4>2. \A i \in 1 .. Len(queue) : Older(queue[i]) \in Event
        BY <2>3, <4>1, OlderIs
      <4>3. queue' = [i \in 1 .. Len(queue) |-> Older(queue[i])]
        BY <3>2 DEF WorkInv
      <4> QED BY <2>3, <3>2, <4>2, <4>3, OlderIs DEF WorkInv
    <3> QED BY <2>1, <3>1, <3>2 DEF StartEnter
  <2> QED BY <2>2, <2>4 DEF WorkInv, Work, InHand, InWorker, InCallback
<1>2. CASE \E t \in Thread : Launch(t) \/ Started(t) \/ StopEnter(t) \/ Unlink(t)
  BY <1>2, WorkSame DEF Launch, Started, StopEnter, Unlink, A!StartCmd, A!StopCmd, A!CtrlStep,
     A!handleVars, A!cbVars, A!workerVars, eventVars, aVars, lVars
<1>3. CASE TakeEvent
  <2>1. /\ queue # <<>> /\ handled' = Head(queue) /\ queue' = Tail(queue)
        /\ UNCHANGED <<data, aVars, lVars>>
    BY <1>3 DEF TakeEvent
  <2>2. queue' \in Seq(Event) /\ Len(queue') = Len(queue) - 1 /\ handled' \in Event
    BY <2>1 DEF WorkInv
  <2> QED BY <2>1, <2>2 DEF WorkInv, Work, InHand, InWorker, InCallback, aVars, lVars, Limit
<1>4. CASE FreeEvent
  <2>1. handled' \in Event
    BY <1>4, IdCountAssumption DEF FreeEvent, NoEvent, Event, VuiIds
  <2> QED BY <1>4, <2>1 DEF FreeEvent, WorkInv, Work, InHand, InWorker, InCallback, aVars, lVars
<1>5. CASE CommandCalled \/ LasrCtrl
  <2>1. UNCHANGED <<queue, handled, a_ring, a_wpc, data, l_dpc, l_wpc, a_bpc, a_chunk>>
        /\ (l_ring' = <<>> \/ l_ring' = l_ring)
    BY <1>5 DEF CommandCalled, LasrCtrl, L!StartReset, L!StopSignal, L!Ctrl, L!StartSignal,
       L!StartReturn, L!StopFlag, L!StopReturn, L!CtrlStep, L!handleVars, eventVars, aVars
  <2>2. Len(l_ring') \in 0 .. Len(l_ring)
    BY <2>1
  <2> QED BY <2>1, <2>2 DEF WorkInv, Work, InHand, InWorker, InCallback, Limit
<1>6. CASE AudioInCtrl
  <2>1. UNCHANGED <<queue, handled, l_ring, a_wpc, data, l_dpc, l_wpc, a_bpc, a_chunk>>
        /\ (a_ring' = <<>> \/ a_ring' = a_ring)
    BY <1>6 DEF AudioInCtrl, A!Ctrl, A!StartPushed, A!StartSignal, A!StartStream, A!StopStream,
       A!StopJoin, A!StopStatus, A!StopFlag, A!StopWait, A!StopClear, A!StopPushed, A!CtrlStep,
       A!cbVars, A!workerVars, A!handleVars, eventVars, lVars
  <2>2. Len(a_ring') \in 0 .. Len(a_ring)
    BY <2>1
  <2> QED BY <2>1, <2>2 DEF WorkInv, Work, InHand, InWorker, InCallback, Limit
<1>7. CASE CommandReturned
  BY <1>7, WorkSame DEF CommandReturned, eventVars, aVars, lVars
<1>8. StartMode \in Modes /\ "lasr_rasr" \in Modes /\ "main" \in Thread /\ "loop" \in Thread
  BY StartModeAssumption DEF Modes, Thread
<1> QED BY <1>1, <1>2, <1>3, <1>4, <1>5, <1>6, <1>7, <1>8 DEF Control

\* A frame leaves audioin's ring, is in hand, and enters lasr's ring, or is dropped.
LEMMA PusherWork ==
  ASSUME IInv, WorkInv, Pusher
  PROVE  WorkInv'
<1> USE Counts DEF WorkInv, Work, InHand, InWorker, InCallback, Limit
<1>1. CASE FrameCalled
  <2>1. /\ a_wpc = "push" /\ data = "due" /\ data' = "called"
        /\ UNCHANGED <<queue, handled, a_ring, l_ring, a_wpc, l_wpc, a_bpc, a_chunk>>
    BY <1>1 DEF FrameCalled, L!DataCheck, L!DataStep, L!handleVars, eventVars, aVars
  <2> QED BY <2>1
<1>2. CASE FrameAccepted
  <2>1. /\ data = "called" /\ data' = data
        /\ UNCHANGED <<queue, handled, a_ring, a_wpc, l_wpc, a_bpc, a_chunk>>
        /\ \/ l_dpc = "write" /\ l_dpc' = "signal" /\ l_ring' = Append(l_ring, a_cur[1])
           \/ l_dpc = "signal" /\ l_dpc' = "idle" /\ l_ring' = l_ring
    BY <1>2 DEF FrameAccepted, L!DataWrite, L!DataSignal, L!DataStep, L!handleVars, eventVars,
       aVars
  <2>2. a_wpc = "push"
    BY <2>1 DEF IInv, SysInv, FramePushed
  <2>3. l_ring' = Append(l_ring, a_cur[1]) => Len(l_ring') = Len(l_ring) + 1
    OBVIOUS
  <2> QED BY <2>1, <2>2, <2>3
<1>3. CASE FrameReturned
  BY <1>3 DEF FrameReturned, eventVars, aVars, lVars
<1>4. CASE AudioInWorker
  <2>1. UNCHANGED <<queue, handled, l_ring, l_dpc, l_wpc, a_bpc, a_chunk>>
    BY <1>4 DEF AudioInWorker, A!Worker, A!WorkerTest, A!AnswerStop, A!SignalStopped,
       A!WaitStart, A!TestStarted, A!SizeCheck, A!Read, A!Pushed, A!WorkerStep, A!cbVars,
       eventVars, lVars
  <2>2. CASE a_wpc = "read"
    <3>1. a_ring' = SubSeq(a_ring, FrameUnits + 1, Len(a_ring))
      BY <1>4, <2>2 DEF AudioInWorker, A!Worker, A!WorkerTest, A!AnswerStop, A!SignalStopped,
         A!WaitStart, A!TestStarted, A!SizeCheck, A!Read, A!Pushed, A!WorkerStep
    <3>2. FrameUnits \in Nat \ {0} /\ FrameUnits <= Len(a_ring)
      BY <2>2, FrameUnitsAssumption DEF IInv, AP!IInv, AP!Fresh
    <3>3. Len(a_ring') \in 0 .. Len(a_ring) - 1
      BY <3>1, <3>2
    <3>4. InHand = 0
      BY <2>2
    <3>5. InHand' \in {0, 1}
      OBVIOUS
    <3>6. InWorker' = InWorker /\ InCallback' = InCallback
      BY <2>1
    <3>7. /\ Len(queue) \in Nat /\ Len(a_ring) \in Nat /\ Len(l_ring) \in Nat
          /\ InWorker \in Nat /\ InCallback \in Nat
      BY Counts
    <3> HIDE DEF InHand, InWorker, InCallback
    <3>8. Work' <= Work /\ Work \in Int /\ Work' \in Int
      BY ONLY <2>1, <3>3, <3>4, <3>5, <3>6, <3>7 DEF Work
    <3> QED BY ONLY <2>1, <3>8, WorkInv, MaxEventsAssumption, MaxChunkAssumption DEF WorkInv, Limit
  <2>3. CASE a_wpc # "read"
    <3>1. a_ring' = a_ring /\ data' = data
      BY <1>4, <2>3 DEF AudioInWorker, A!Worker, A!WorkerTest, A!AnswerStop, A!SignalStopped,
         A!WaitStart, A!TestStarted, A!SizeCheck, A!Read, A!Pushed, A!WorkerStep
    <3>2. data = "none"
      BY <1>4, <2>3 DEF AudioInWorker, IInv, SysInv, FramePushed
    <3> QED BY <2>1, <3>1, <3>2
  <2> QED BY <2>2, <2>3
<1> QED BY <1>1, <1>2, <1>3, <1>4 DEF Pusher

\* A frame that is recognised becomes at most one result, of the present session.
LEMMA LasrWorkerWork ==
  ASSUME IInv, WorkInv, LasrWorker
  PROVE  /\ WorkInv'
         /\ \/ queue' = queue
            \/ queue' = Append(queue, [vui_id |-> vui_id, age |-> 0]) /\ l_wpc = "do"
<1> USE Counts DEF WorkInv, Work, InHand, InWorker, InCallback, Limit
<1>1. /\ UNCHANGED <<handled, a_ring, a_wpc, data, l_dpc, a_bpc, a_chunk>>
      /\ queue' = IF l_wpc = "do" /\ l_frame = 0
                  THEN Append(queue, [vui_id |-> l_vui_id, age |-> 0]) ELSE queue
      /\ \/ l_wpc = "read" /\ l_wpc' = "do" /\ l_ring' = Tail(l_ring)
         \/ l_wpc = "do" /\ l_wpc' # "do" /\ l_ring' = l_ring
         \/ l_wpc \notin {"read", "do"} /\ l_wpc' # "do" /\ l_ring' = l_ring
  BY DEF LasrWorker, L!Worker, L!WorkerTest, L!WaitStarting, L!SignalStarted, L!LoopTest,
     L!WaitStopping, L!SignalStopped, L!WaitAudio, L!SizeCheck, L!Read, L!DoLasr, L!WorkerStep,
     L!ctrlVars, L!handleVars, aVars
<1>2. CASE l_wpc = "read"
  <2>1. l_ring # <<>>
    BY <1>2 DEF IInv, LP!IInv, LP!Fresh
  <2>2. Len(l_ring') = Len(l_ring) - 1 /\ queue' = queue
    BY <1>1, <1>2, <2>1
  <2> QED BY <1>1, <1>2, <2>2
<1>3. CASE l_wpc = "do"
  <2>1. l_open \/ l_cpc # "idle"
    BY <1>3, OfLasr DEF IInv
  <2>2. l_vui_id = vui_id /\ vui_id \in VuiIds
    <3>1. ~At("launch") /\ ~(a_cpc = "push_start" /\ cmd = "due")
      BY <2>1, AtEither, OfAudioIn DEF IInv, SysInv, Places, Commanded, PushedOn, StopChain,
         StartChain
    <3> QED BY <3>1 DEF IInv, SysInv, Numbered
  <2>3. [vui_id |-> vui_id, age |-> 0] \in Event
    BY <2>2, IdCountAssumption DEF Event
  <2>4. \/ queue' = queue
        \/ queue' = Append(queue, [vui_id |-> vui_id, age |-> 0])
    BY <1>1, <2>2
  <2>5. queue' \in Seq(Event) /\ Len(queue') \in Len(queue) .. Len(queue) + 1
    <3>1. CASE queue' = queue
      BY <3>1
    <3>2. CASE queue' = Append(queue, [vui_id |-> vui_id, age |-> 0])
      BY <2>3, <3>2
    <3> QED BY <2>4, <3>1, <3>2
  <2>6. /\ InHand' = InHand /\ InCallback' = InCallback /\ InWorker = 1 /\ InWorker' = 0
        /\ a_ring' = a_ring /\ l_ring' = l_ring
    BY <1>1, <1>3
  <2>7. /\ Len(queue) \in Nat /\ Len(a_ring) \in Nat /\ Len(l_ring) \in Nat
        /\ InHand \in Nat /\ InCallback \in Nat
    BY Counts
  <2> HIDE DEF InHand, InWorker, InCallback
  <2>8. Work' <= Work /\ Work \in Int /\ Work' \in Int
    BY ONLY <2>5, <2>6, <2>7 DEF Work
  <2>9. WorkInv'
    BY ONLY <1>1, <2>5, <2>8, WorkInv, MaxEventsAssumption, MaxChunkAssumption
       DEF WorkInv, Limit
  <2> QED BY <1>3, <2>4, <2>9
<1>4. CASE l_wpc \notin {"read", "do"}
  BY <1>1, <1>4
<1> QED BY <1>2, <1>3, <1>4

\* A chunk is captured only when there are few results and frames.
LEMMA MicrophoneWork ==
  ASSUME IInv, WorkInv, Microphone
  PROVE  WorkInv'
<1> USE Counts DEF WorkInv, Work, InHand, InWorker, InCallback, Limit
<1>1. UNCHANGED <<queue, handled, l_ring, a_wpc, data, l_dpc, l_wpc>>
  BY DEF Microphone, A!Callback, A!CallbackWrite, A!workerVars, eventVars, lVars
<1>2. CASE A!CallbackWrite
  <2>1. /\ a_bpc = "write" /\ a_bpc' = "idle" /\ a_chunk' = a_chunk
        /\ a_ring' = a_ring \o [i \in 1 .. a_chunk |-> a_session]
    BY <1>2 DEF A!CallbackWrite
  <2>2. a_session \in VuiIds /\ a_chunk \in Nat
    BY DEF IInv, AP!IInv, AP!TypeOK
  <2>3. [i \in 1 .. a_chunk |-> a_session] \in Seq(VuiIds)
        /\ Len([i \in 1 .. a_chunk |-> a_session]) = a_chunk
    BY <2>2
  <2>4. Len(a_ring') = Len(a_ring) + a_chunk
    BY <2>1, <2>3, ConcatProperties
  <2> QED BY <1>1, <2>1, <2>4
<1>3. CASE Pending < MaxEvents /\ \E n \in 1 .. MaxChunk : A!Callback(n)
  <2>1. PICK n \in 1 .. MaxChunk : A!Callback(n)
    BY <1>3
  <2>2. /\ a_bpc = "idle" /\ a_ring' = a_ring
        /\ (a_bpc' = "write" /\ a_chunk' = n) \/ (a_bpc' = a_bpc /\ a_chunk' = a_chunk)
    BY <2>1 DEF A!Callback, A!cbVars, A!handleVars
  <2>3. Len(queue) + Len(a_ring) + Len(l_ring) + InHand + InWorker < MaxEvents
    BY <1>3 DEF Pending
  <2> QED BY <1>1, <2>2, <2>3
<1> QED BY <1>2, <1>3 DEF Microphone

LEMMA WorkBounded == IInv /\ WorkInv /\ [Next]_vars => WorkInv'
<1>1. UNCHANGED vars => UNCHANGED <<queue, handled, a_ring, l_ring, a_wpc, data, l_dpc, l_wpc,
                                    a_bpc, a_chunk>>
  BY DEF vars, eventVars, aVars, lVars
<1> QED BY <1>1, WorkSame, ControlWork, PusherWork, LasrWorkerWork, MicrophoneWork DEF Next

-----------------------------------------------------------------------------

\* A START makes every result a session older; the relaunch that it is part of
\* has then nothing more to come.
LEMMA StartAges ==
  ASSUME IInv, EventInv, WorkInv', NEW t \in Thread, NEW m, StartEnter(t, m)
  PROVE  AgeInv'
<1> USE DEF IInv, SysInv, EventInv
<1>1. /\ status # "started" /\ pc[t] = "start" /\ Goes(t, "launch") /\ vui_id' = NextId
      /\ queue' = [i \in DOMAIN queue |-> Older(queue[i])] /\ handled' = Older(handled)
  BY DEF StartEnter, Places, Thread
<1>2. vui_id \in VuiIds
  BY DEF Numbered
<1>3. CASE t = "main"
  <2>1. queue = <<>> /\ pc["loop"] = "idle" /\ pc'["loop"] = "idle" /\ pc'["main"] = "launch"
    BY <1>1, <1>3, Moves DEF AgeInv, Thread
  <2>2. queue' = <<>>
    BY <1>1, <2>1
  <2> QED BY <2>1, <2>2 DEF AgeInv
<1>4. CASE t = "loop"
  <2>1. Coming = 1 /\ Coming' = 0 /\ pc'["main"] = pc["main"] /\ pc["main"] # "start"
    BY <1>1, <1>4, Moves DEF Places, Thread, Coming
  <2>2. ASSUME NEW e \in Event, NEW n \in Nat, Aged(e), e.age + n + Coming <= Limit
        PROVE  /\ Older(e).age < IdCount => vui_id' = Behind(Older(e).vui_id, Older(e).age)
               /\ Older(e).age + n + Coming' <= Limit
    <3>1. e.age \in Int /\ Older(e).age \in Int /\ Limit \in Int
      BY <1>2, OlderIs, IdCountAssumption, MaxEventsAssumption, MaxChunkAssumption
         DEF Event, Limit
    <3> QED BY <1>1, <1>2, <2>1, <2>2, <3>1, OlderIs
  <2>3. handled \in Event /\ Aged(handled) /\ handled.age + 0 + Coming <= Limit
    BY <1>1, <1>4, <2>1, IdCountAssumption DEF WorkInv, AgeInv, Event
  <2>4. ASSUME NEW i \in 1 .. Len(queue')
        PROVE  Aged(queue[i])' /\ queue'[i].age + i + Coming' <= Limit
    <3>1. i \in 1 .. Len(queue) /\ i \in Nat /\ queue[i] \in Event /\ queue'[i] = Older(queue[i])
      BY <1>1 DEF WorkInv
    <3>2. Aged(queue[i]) /\ queue[i].age + i + Coming <= Limit
      BY <3>1 DEF AgeInv
    <3> QED BY <2>2, <3>1, <3>2 DEF Aged
  <2>5. Aged(handled)' /\ handled'.age + Coming' <= Limit
    <3>1. /\ handled'.age < IdCount => vui_id' = Behind(handled'.vui_id, handled'.age)
          /\ handled'.age + 0 + Coming' <= Limit
      BY <1>1, <2>2, <2>3
    <3>2. handled'.age \in Int
      BY IdCountAssumption DEF WorkInv, Event
    <3> QED BY <2>1, <3>1, <3>2 DEF Aged
  <2> QED BY <2>1, <2>4, <2>5 DEF AgeInv
<1> QED BY <1>3, <1>4 DEF Thread

\* The rest of a relaunch, and a result that comes into the loop's hands.
LEMMA LoopAges ==
  ASSUME IInv, EventInv, WorkInv', NEW t \in Thread,
         Launch(t) \/ Started(t) \/ StopEnter(t) \/ Unlink(t) \/ TakeEvent \/ FreeEvent
  PROVE  AgeInv'
<1> USE DEF IInv, SysInv, EventInv
<1>1. vui_id' = vui_id
  BY DEF Launch, Started, StopEnter, Unlink, TakeEvent, FreeEvent, vuiVars
<1>2. \A i \in 1 .. Len(queue) : queue[i] \in Event
  BY DEF WorkInv
<1>3. \A e \in Event : e.age \in Int
  BY IdCountAssumption DEF Event
<1>4. Limit \in Int /\ Len(queue) \in Nat
  BY MaxEventsAssumption, MaxChunkAssumption, Counts DEF Limit
<1>5. CASE Launch(t) \/ Started(t) \/ StopEnter(t) \/ Unlink(t)
  <2>1. /\ UNCHANGED eventVars
        /\ \/ pc[t] = "launch" /\ Goes(t, "starting")
           \/ pc[t] = "starting" /\ Goes(t, "done")
           \/ pc[t] = "stop" /\ Goes(t, "stopping")
           \/ pc[t] = "stop" /\ Goes(t, "done")
           \/ pc[t] = "stopping" /\ Goes(t, "start")
    BY <1>5 DEF Launch, Started, StopEnter, Unlink
  <2>2. /\ pc'["main"] = "start" => pc["main"] = "start" /\ pc'["loop"] = pc["loop"]
        /\ Coming' <= Coming /\ Coming \in {0, 1} /\ Coming' \in {0, 1}
        /\ pc["loop"] = "idle" <=> pc'["loop"] = "idle"
    BY <2>1, Moves DEF Places, Thread, Coming, AgeInv
  <2>3. handled.age \in Int
    BY <1>3 DEF WorkInv
  <2>4. queue' = queue /\ handled' = handled
    BY <2>1 DEF eventVars
  <2> QED BY ONLY <1>1, <1>2, <1>3, <1>4, <2>2, <2>3, <2>4, AgeInv DEF AgeInv, Aged
<1>6. CASE TakeEvent
  <2>1. /\ pc["loop"] = "idle" /\ queue # <<>> /\ handled' = Head(queue) /\ queue' = Tail(queue)
        /\ Goes("loop", "stop")
    BY <1>6 DEF TakeEvent
  <2>2. pc["main"] # "start" /\ pc'["main"] = pc["main"] /\ Coming = 0 /\ Coming' = 1
    BY <2>1, Moves DEF Places, Thread, Coming, AgeInv
  <2>3. /\ Len(queue') = Len(queue) - 1 /\ handled' = queue[1] /\ 1 \in 1 .. Len(queue)
        /\ \A i \in 1 .. Len(queue') : queue'[i] = queue[i + 1] /\ i + 1 \in 1 .. Len(queue)
    BY <1>4, <2>1 DEF WorkInv
  <2>4. \A i \in 1 .. Len(queue) : queue[i].age \in Int
    BY <1>2, <1>3
  <2>5. \A i \in 1 .. Len(queue) : Aged(queue[i]) /\ queue[i].age + i <= Limit
    BY <2>2, <2>4 DEF AgeInv
  <2>6. \A i \in 1 .. Len(queue) :
          queue[i].age < IdCount => vui_id = Behind(queue[i].vui_id, queue[i].age)
    BY <2>5 DEF Aged
  <2>7. \A i \in 1 .. Len(queue') : Aged(queue[i])' /\ queue'[i].age + i + Coming' <= Limit
    BY <1>1, <1>4, <2>2, <2>3, <2>4, <2>5, <2>6 DEF Aged
  <2>8. Aged(handled)' /\ handled'.age + Coming' <= Limit
    BY <1>1, <1>4, <2>2, <2>3, <2>4, <2>5, <2>6 DEF Aged
  <2> QED BY <2>2, <2>7, <2>8 DEF AgeInv
<1>7. CASE FreeEvent
  <2>1. pc["loop"] = "done" /\ Goes("loop", "idle") /\ queue' = queue
    BY <1>7 DEF FreeEvent
  <2>2. /\ pc["main"] # "start" /\ pc'["main"] = pc["main"] /\ Coming = 0 /\ Coming' = 0
        /\ pc'["loop"] = "idle"
    BY <2>1, Moves DEF Places, Thread, Coming, AgeInv
  <2> QED BY ONLY <1>1, <2>1, <2>2, AgeInv DEF AgeInv, Aged
<1> QED BY <1>5, <1>6, <1>7

\* A new result has age 0; its place in the queue is bounded by Work.
LEMMA ResultAges ==
  ASSUME IInv, EventInv, WorkInv', LasrWorker
  PROVE  AgeInv'
<1> USE DEF EventInv
<1>1. UNCHANGED <<vuiVars, pc, handled, aVars>>
  BY DEF LasrWorker
<1>2. vui_id' = vui_id /\ Coming' = Coming /\ Coming \in {0, 1} /\ pc' = pc /\ handled' = handled
  BY <1>1 DEF Coming, vuiVars
<1>3. CASE queue' = queue
  BY <1>2, <1>3 DEF AgeInv, Aged
<1>4. CASE queue' = Append(queue, [vui_id |-> vui_id, age |-> 0]) /\ l_wpc = "do"
  <2> DEFINE e == [vui_id |-> vui_id, age |-> 0]
  <2>0. PICK n \in Nat : n = Len(queue)
    BY Counts
  <2>1. Limit \in Int
    BY MaxEventsAssumption, MaxChunkAssumption DEF Limit
  <2>2. Len(queue') = n + 1 /\ queue'[n + 1] = e /\ \A i \in 1 .. n : queue'[i] = queue[i]
    BY <1>4, <2>0 DEF WorkInv
  <2>3. n + 1 <= Limit - 1
    <3>1. Len(queue) + InWorker <= Limit - 1
      BY <2>1, Counts DEF WorkInv, Work
    <3> QED BY <1>4, <2>0, <3>1 DEF InWorker
  <2>4. pc["main"] # "start"
    <3>1. l_open \/ l_cpc # "idle"
      BY <1>4, OfLasr DEF IInv
    <3>2. CASE pc["main"] = "start"
      <4>1. ~At("starting") /\ ~At("stopping") /\ status = "stopped"
        BY <3>2, AtEither DEF IInv, SysInv, Places, AgeInv
      <4>2. a_cpc = "idle" /\ ~a_open
        BY <4>1 DEF IInv, SysInv, Commanded
      <4> QED BY <3>1, <4>2 DEF IInv, SysInv, PushedOn, StopChain
    <3> QED BY <3>2
  <2>5. vui_id \in VuiIds
    BY DEF IInv, SysInv, Numbered
  <2>6. vui_id = Behind(e.vui_id, e.age)
    BY <2>5, IdCountAssumption DEF Behind, VuiIds
  <2>7. \A i \in 1 .. n : Aged(queue[i])' /\ queue'[i].age + i + Coming' <= Limit
    BY <1>2, <2>0, <2>2 DEF AgeInv, Aged
  <2>8. Aged(queue[n + 1])' /\ queue'[n + 1].age + (n + 1) + Coming' <= Limit
    BY <1>2, <2>1, <2>2, <2>3, <2>6 DEF Aged
  <2>9. \A i \in 1 .. Len(queue') : Aged(queue[i])' /\ queue'[i].age + i + Coming' <= Limit
    <3>1. \A i \in 1 .. n + 1 : i \in 1 .. n \/ i = n + 1
      BY <2>1
    <3> QED BY <2>2, <2>7, <2>8, <3>1
  <2> QED BY <1>2, <2>4, <2>9 DEF AgeInv, Aged
<1> QED BY <1>3, <1>4, LasrWorkerWork

LEMMA EventsKeep == IInv /\ EventInv /\ [Next]_vars => EventInv'
<1> SUFFICES ASSUME IInv, EventInv, [Next]_vars PROVE EventInv'
  OBVIOUS
<1>1. WorkInv'
  BY WorkBounded DEF EventInv
<1>2. CASE StartEnter("main", StartMode) \/ StartEnter("loop", "lasr_rasr")
  BY <1>1, <1>2, StartAges DEF EventInv, Thread
<1>3. CASE \E t \in Thread :
             Launch(t) \/ Started(t) \/ StopEnter(t) \/ Unlink(t) \/ TakeEvent \/ FreeEvent
  BY <1>1, <1>3, LoopAges DEF EventInv
<1>4. CASE LasrWorker
  BY <1>1, <1>4, ResultAges DEF EventInv
<1>5. CASE UNCHANGED <<vuiVars, pc, eventVars>>
  <2>1. UNCHANGED <<vui_id, pc, queue, handled>>
    BY <1>5 DEF vuiVars, eventVars
  <2> QED BY <1>1, <2>1 DEF EventInv, AgeInv, Aged, Coming
<1>6. \/ StartEnter("main", StartMode) \/ StartEnter("loop", "lasr_rasr")
      \/ \E t \in Thread :
           Launch(t) \/ Started(t) \/ StopEnter(t) \/ Unlink(t) \/ TakeEvent \/ FreeEvent
      \/ LasrWorker
      \/ UNCHANGED <<vuiVars, pc, eventVars>>
  BY DEF Next, Control, Pusher, Microphone, CommandCalled, CommandReturned, LasrCtrl,
     AudioInCtrl, FrameCalled, FrameAccepted, FrameReturned, AudioInWorker, vars, Thread
<1> QED BY <1>2, <1>3, <1>4, <1>5, <1>6

LEMMA EventsBegin == Init => EventInv
<1> SUFFICES ASSUME Init PROVE EventInv
  OBVIOUS
<1>1. queue = <<>> /\ handled = NoEvent /\ pc["loop"] = "idle" /\ vui_id = 0
  BY DEF Init, Thread
<1>2. a_ring = <<>> /\ l_ring = <<>> /\ a_wpc = "run" /\ l_wpc = "run" /\ a_bpc = "idle"
  BY DEF Init, A!Init, L!Init
<1>3. handled \in Event /\ queue \in Seq(Event)
  BY <1>1, IdCountAssumption DEF NoEvent, Event, VuiIds
<1>4. Work = 0
  BY <1>1, <1>2 DEF Work, InHand, InWorker, InCallback
<1>5. WorkInv
  BY <1>3, <1>4, MaxEventsAssumption, MaxChunkAssumption DEF WorkInv, Limit
<1> QED BY <1>1, <1>5 DEF EventInv, AgeInv

LEMMA EventsKept == Spec => [](IInv /\ EventInv)
<1>1. Init => IInv /\ EventInv
  BY Initially, EventsBegin
<1>2. IInv /\ EventInv /\ [Next]_vars => (IInv /\ EventInv)'
  BY Inductive, EventsKeep
<1> QED BY <1>1, <1>2, PTL DEF Spec

\* Of a result whose age is below IdCount the number tells whether it is out of date.
LEMMA NumberTells ==
  ASSUME IInv, EventInv, handled.age < IdCount
  PROVE  OutOfDateExact
<1> SUFFICES ASSUME pc["loop"] # "idle"
             PROVE  VuiEventOutOfDate(handled.vui_id) <=> handled.age > 0
  BY DEF OutOfDateExact
<1>1. handled.vui_id \in 0 .. IdCount - 1 /\ handled.age \in 0 .. IdCount
  BY DEF EventInv, WorkInv, Event, VuiIds
<1>2. vui_id = Behind(handled.vui_id, handled.age)
  BY DEF EventInv, AgeInv, Aged
<1> QED BY <1>1, <1>2, IdCountAssumption DEF Behind, VuiEventOutOfDate

\* VuiEventOutOfDate is exact, whatever waits in the event loop, of a result that is
\* fewer than IdCount sessions old.
THEOREM OutOfDateNear == Spec => [](handled.age < IdCount => OutOfDateExact)
<1>1. IInv /\ EventInv => (handled.age < IdCount => OutOfDateExact)
  BY NumberTells
<1> QED BY <1>1, EventsKept, PTL

\* No result is older when what the event loop and the rings hold is less than the
\* five bits of vui_id can count: then VuiEventOutOfDate is never wrong.
THEOREM OutOfDateTold ==
  ASSUME MaxEvents + MaxChunk < IdCount
  PROVE  Spec => []OutOfDateExact
<1>1. IInv /\ EventInv => OutOfDateExact
  <2> SUFFICES ASSUME IInv, EventInv, pc["loop"] # "idle" PROVE OutOfDateExact
    BY DEF OutOfDateExact
  <2>1. handled.age \in Int /\ Coming \in {0, 1}
    BY IdCountAssumption DEF EventInv, WorkInv, Event, Coming
  <2>2. handled.age + Coming <= MaxEvents + MaxChunk
    BY DEF EventInv, AgeInv, Limit
  <2>3. handled.age < IdCount
    BY <2>1, <2>2, MaxEventsAssumption, MaxChunkAssumption, IdCountAssumption
  <2> QED BY <2>3, NumberTells
<1> QED BY <1>1, EventsKept, PTL

=============================================================================
