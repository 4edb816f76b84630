------------------------------ MODULE AudioIn ------------------------------
(***************************************************************************)
(* The head of the pipeline, sdk/vui/src/audioin/src/audioin.c with its    *)
(* PortAudio wrapper: the stream's callback fills a ring, the worker cuts  *)
(* it into frames and pushes them down the pipeline, and the control       *)
(* thread starts and stops both.                                           *)
(*                                                                         *)
(* The ring holds units here, FrameUnits to a frame, because the callback  *)
(* writes as many samples as PortAudio likes.  A unit is the number of the *)
(* session it was captured in.  The transfers are atomic as RingBufThreads *)
(* allows, provided the ring is cleared between them (ClearAlone).         *)
(***************************************************************************)
EXTENDS Integers, Sequences, SequencesExt

CONSTANTS
  Sessions,    (* the numbers vui.c gives to sessions                        *)
  FrameUnits,  (* ONE_FRAME_BYTES: 512                                       *)
  RingUnits,   (* AUDIO_DATA_RINGBUF_SIZE: 16 frames                         *)
  MaxChunk     (* bound on what one callback brings, in units                *)

ASSUME SessionsAssumption == 0 \in Sessions
ASSUME FrameUnitsAssumption == FrameUnits \in Nat \ {0}
ASSUME RingUnitsAssumption == RingUnits \in Nat /\ FrameUnits <= RingUnits
ASSUME MaxChunkAssumption == MaxChunk \in Nat \ {0}

VARIABLES
  running,     (* audioin->worker_running                                    *)
  status,      (* audioin->pipepile_status                                   *)
  stopping,    (* audioin->stopping                                          *)
  sem,         (* the counts of the semaphores                               *)
  ring,        (* audioin->ringbuf, oldest unit first                        *)
  stream,      (* PortAudio is running the stream                            *)
  session,     (* the session of the last START                              *)
  open,        (* a START has returned and no STOP has been called           *)
  cpc,         (* where the control thread is in the handler                 *)
  bpc,         (* where the callback is: "idle" or "write"                   *)
  chunk,       (* the length of the chunk it brings                          *)
  wpc,         (* where the worker is                                        *)
  cur          (* buf, the frame the worker read last                        *)

ctrlVars == <<cpc, open, session>>
cbVars == <<bpc, chunk>>
workerVars == <<wpc, cur>>
handleVars == <<running, status, stopping, sem, ring, stream>>
vars == <<handleVars, ctrlVars, cbVars, workerVars>>

Sems == {"starting", "stopped", "worker_thread"}

Signal(s) == sem' = [sem EXCEPT ![s] = @ + 1]

Acquire(s) == sem[s] > 0 /\ sem' = [sem EXCEPT ![s] = @ - 1]

CtrlStep(from, to) ==
  cpc = from /\ cpc' = to /\ UNCHANGED <<cbVars, workerVars>>
WorkerStep(from, to) ==
  wpc = from /\ wpc' = to /\ UNCHANGED <<ctrlVars, cbVars, stream, status, running>>

\* AudioInCreate: everything zeroed, and PIPELINE_STOP is zero.
Init ==
  /\ running = TRUE /\ status = "stop" /\ stopping = FALSE
  /\ sem = [s \in Sems |-> 0] /\ ring = <<>> /\ stream = FALSE
  /\ session = 0 /\ open = FALSE /\ cpc = "idle"
  /\ bpc = "idle" /\ chunk = 1
  /\ wpc = "run" /\ cur = <<>>

-----------------------------------------------------------------------------
(* __pipeline_accept_ctrl.  PIPELINE_START: the next nodes first, then the  *)
(* worker, and the producer last.                                           *)

StartCmd(s) ==
  /\ CtrlStep("idle", "push_start") /\ session' = s
  /\ UNCHANGED <<handleVars, open>>

StartPushed ==
  /\ CtrlStep("push_start", "start_signal") /\ status' = "start"
  /\ UNCHANGED <<running, stopping, sem, ring, stream, open, session>>

StartSignal ==
  /\ CtrlStep("start_signal", "start_stream") /\ Signal("starting")
  /\ UNCHANGED <<running, status, stopping, ring, stream, open, session>>

\* AudioWrapperStart may fail; the handler does not look at what it returns.
StartStream ==
  /\ CtrlStep("start_stream", "idle")
  /\ stream' \in BOOLEAN /\ open' = TRUE
  /\ UNCHANGED <<running, status, stopping, sem, ring, session>>

(* PIPELINE_STOP: the producer first, then the worker, the next nodes last. *)

StopCmd ==
  /\ CtrlStep("idle", "stop_stream") /\ open' = FALSE
  /\ UNCHANGED <<handleVars, session>>

\* AudioWrapperStop: Pa_StopStream begins no more callbacks and returns when
\* the one under way has.
StopStream ==
  /\ CtrlStep("stop_stream", "stop_join") /\ stream' = FALSE
  /\ UNCHANGED <<running, status, stopping, sem, ring, open, session>>

\* Mutant: the callback under way is not waited for, as after Pa_AbortStream.
StopJoinForgotten ==
  /\ CtrlStep("stop_join", "stop_status")
  /\ UNCHANGED <<handleVars, open, session>>

StopJoin ==
  /\ CtrlStep("stop_join", "stop_status") /\ bpc = "idle"
  /\ UNCHANGED <<handleVars, open, session>>

StopStatus ==
  /\ CtrlStep("stop_status", "stop_flag") /\ status' = "stop"
  /\ UNCHANGED <<running, stopping, sem, ring, stream, open, session>>

\* Mutant: the request is never made.
StopFlagForgotten ==
  /\ CtrlStep("stop_flag", "stop_wait")
  /\ UNCHANGED <<handleVars, open, session>>

StopFlag ==
  /\ CtrlStep("stop_flag", "stop_wait") /\ stopping' = TRUE
  /\ UNCHANGED <<running, status, sem, ring, stream, open, session>>

StopWait ==
  /\ CtrlStep("stop_wait", "stop_clear") /\ Acquire("stopped")
  /\ UNCHANGED <<running, status, stopping, ring, stream, open, session>>

\* Mutant: what is left in the ring stays there.
StopClearForgotten ==
  /\ CtrlStep("stop_clear", "push_stop")
  /\ UNCHANGED <<handleVars, open, session>>

StopClear ==
  /\ CtrlStep("stop_clear", "push_stop") /\ ring' = <<>>
  /\ UNCHANGED <<running, status, stopping, sem, stream, open, session>>

StopPushed ==
  /\ CtrlStep("push_stop", "idle")
  /\ UNCHANGED <<handleVars, open, session>>

-----------------------------------------------------------------------------
(* __portaudio_callback and __cb_data.                                      *)

\* Mutant: the free size is not looked at.
CallbackBlind(n) ==
  /\ stream /\ bpc = "idle"
  /\ bpc' = "write" /\ chunk' = n
  /\ UNCHANGED <<handleVars, ctrlVars, workerVars>>

\* A chunk that does not fit is dropped whole.
Callback(n) ==
  /\ stream /\ bpc = "idle"
  /\ IF RingUnits - Len(ring) < n THEN UNCHANGED cbVars
     ELSE bpc' = "write" /\ chunk' = n
  /\ UNCHANGED <<handleVars, ctrlVars, workerVars>>

CallbackWrite ==
  /\ bpc = "write" /\ bpc' = "idle"
  /\ ring' = ring \o [i \in 1 .. chunk |-> session]
  /\ UNCHANGED <<running, status, stopping, sem, stream, ctrlVars, chunk, workerVars>>

-----------------------------------------------------------------------------
(* __audioin_worker.                                                        *)

WorkerTest ==
  /\ WorkerStep("run", IF ~running THEN "exit"
                       ELSE IF status = "stop" THEN "stopped" ELSE "started")
  /\ UNCHANGED <<stopping, sem, ring, cur>>

\* Mutant: the request is answered again and again.
AnswerStopAgain ==
  /\ WorkerStep("stopped", IF stopping THEN "signal_stopped" ELSE "wait_start")
  /\ UNCHANGED <<stopping, sem, ring, cur>>

\* Only a handler that waits for this very thread raises the flag, so the test
\* and the reset are one step.
AnswerStop ==
  /\ WorkerStep("stopped", IF stopping THEN "signal_stopped" ELSE "wait_start")
  /\ stopping' = FALSE
  /\ UNCHANGED <<sem, ring, cur>>

SignalStopped ==
  /\ WorkerStep("signal_stopped", "wait_start") /\ Signal("stopped")
  /\ UNCHANGED <<stopping, ring, cur>>

\* Returns with a token, or without one when a second has passed.
WaitStart ==
  /\ WorkerStep("wait_start", "started")
  /\ IF sem["starting"] > 0 THEN Acquire("starting") ELSE sem' = sem
  /\ UNCHANGED <<stopping, ring, cur>>

\* The second look at the status, not an else of the first.
TestStarted ==
  /\ WorkerStep("started", IF status = "start" THEN "size" ELSE "run")
  /\ UNCHANGED <<stopping, sem, ring, cur>>

\* Mutant: a frame must be followed by more audio.
SizeCheckLate ==
  /\ WorkerStep("size", IF Len(ring) <= FrameUnits THEN "run" ELSE "read")
  /\ UNCHANGED <<stopping, sem, ring, cur>>

SizeCheck ==
  /\ WorkerStep("size", IF Len(ring) < FrameUnits THEN "run" ELSE "read")
  /\ UNCHANGED <<stopping, sem, ring, cur>>

Read ==
  /\ WorkerStep("read", "push")
  /\ cur' = SubSeq(ring, 1, FrameUnits)
  /\ ring' = SubSeq(ring, FrameUnits + 1, Len(ring))
  /\ UNCHANGED <<stopping, sem>>

Pushed == WorkerStep("push", "run") /\ UNCHANGED <<stopping, sem, ring, cur>>

WorkerExit ==
  /\ WorkerStep("exit", "gone") /\ Signal("worker_thread")
  /\ UNCHANGED <<stopping, ring, cur>>

-----------------------------------------------------------------------------
(* AudioInDestroy.                                                          *)

\* AudioWrapperDestroy stops the stream as AudioWrapperStop does.
DestroyStream ==
  /\ CtrlStep("idle", "destroy_join") /\ stream' = FALSE
  /\ UNCHANGED <<running, status, stopping, sem, ring, open, session>>

DestroyRequest ==
  /\ CtrlStep("destroy_join", "destroy_wait") /\ bpc = "idle"
  /\ running' = FALSE
  /\ UNCHANGED <<status, stopping, sem, ring, stream, open, session>>

DestroyReturn ==
  /\ CtrlStep("destroy_wait", "destroyed") /\ Acquire("worker_thread")
  /\ UNCHANGED <<running, status, stopping, ring, stream, open, session>>

-----------------------------------------------------------------------------
(* vui.c alternates START and STOP and gives each START a new number.       *)

StartCall(s) == ~open /\ s # session /\ StartCmd(s)
StopCall == open /\ StopCmd

Ctrl ==
  \/ StartPushed \/ StartSignal \/ StartStream
  \/ StopStream \/ StopJoin \/ StopStatus \/ StopFlag \/ StopWait
  \/ StopClear \/ StopPushed

Worker ==
  \/ WorkerTest \/ AnswerStop \/ SignalStopped \/ WaitStart \/ TestStarted
  \/ SizeCheck \/ Read \/ Pushed

Next ==
  \/ \E s \in Sessions : StartCall(s)
  \/ StopCall \/ Ctrl
  \/ \E n \in 1 .. MaxChunk : Callback(n)
  \/ CallbackWrite
  \/ Worker

Spec == Init /\ [][Next]_vars

\* A thread that can run is scheduled in the end.  Nobody has to call, and
\* PortAudio has to bring audio only so far as it ends the callbacks it began.
Fairness == WF_vars(Ctrl) /\ WF_vars(CallbackWrite) /\ WF_vars(Worker)

FairSpec == Spec /\ Fairness

\* The same with a caller that destroys the handle between two commands.
DestroyEnd == DestroyRequest \/ DestroyReturn

NextLife == Next \/ DestroyStream \/ DestroyEnd \/ WorkerExit

LifeSpec ==
  /\ Init /\ [][NextLife]_vars
  /\ Fairness /\ WF_vars(DestroyEnd) /\ WF_vars(WorkerExit)

-----------------------------------------------------------------------------
(* Properties.                                                              *)

Consuming == {"size", "read", "push"}

\* Every variable stays in its range; the ring never holds more than its size.
TypeOK ==
  /\ running \in BOOLEAN /\ status \in {"start", "stop"} /\ stopping \in BOOLEAN
  /\ sem \in [Sems -> Nat]
  /\ ring \in Seq(Sessions) /\ Len(ring) <= RingUnits
  /\ stream \in BOOLEAN /\ session \in Sessions /\ open \in BOOLEAN
  /\ cpc \in {"idle", "push_start", "start_signal", "start_stream",
              "stop_stream", "stop_join", "stop_status", "stop_flag",
              "stop_wait", "stop_clear", "push_stop",
              "destroy_join", "destroy_wait", "destroyed"}
  /\ bpc \in {"idle", "write"} /\ chunk \in 1 .. MaxChunk
  /\ wpc \in Consuming \cup {"run", "stopped", "signal_stopped", "wait_start",
                             "started", "exit", "gone"}
  /\ cur \in Seq(Sessions)

\* STOP clears the ring while nobody reads or writes it.
ClearAlone == cpc = "stop_clear" => bpc = "idle" /\ wpc \notin Consuming

\* "drop outofdate audio": a frame holds audio of the running session only,
\* never the end of the one before.
FrameOfOneSession ==
  wpc = "push" => Len(cur) = FrameUnits /\ Range(cur) = {session}

\* STOP is answered once: no token is left that would let the next STOP go on
\* before the worker has seen it.
AnsweredOnce ==
  /\ cpc = "idle" => ~stopping /\ sem["stopped"] = 0
  /\ sem["stopped"] <= 1

\* START and STOP return, also when PortAudio could not start the stream.
CommandsReturn ==
  cpc \notin {"idle", "destroy_join", "destroy_wait", "destroyed"} ~> cpc = "idle"

\* Audio that makes a frame is pushed, unless the session or the handle ends.
AudioFlows ==
  open /\ Len(ring) >= FrameUnits ~> wpc = "push" \/ ~open \/ ~running

=============================================================================
