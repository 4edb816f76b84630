-------------------------------- MODULE Lasr --------------------------------
(***************************************************************************)
(* The local recogniser, sdk/vui/src/recognize/src/lasr.c.                 *)
(*                                                                         *)
(* Three threads meet in it.  The control thread (the caller of VuiStart   *)
(* and VuiStop) runs the command handler and shakes hands with the worker  *)
(* over four semaphores and one flag.  The data thread (the worker of      *)
(* audioin) runs the data handler and fills the ring.  The worker empties  *)
(* the ring and posts results.                                             *)
(*                                                                         *)
(* The ring holds whole frames here: its size is a multiple of the frame,  *)
(* every transfer is one frame, and RingBufThreads shows that transfers    *)
(* then look atomic, provided the ring is cleared only between transfers   *)
(* (ClearAlone).  A frame is the vui_id of the session it was captured in. *)
(***************************************************************************)
EXTENDS Integers, Sequences

CONSTANTS
  VuiIds,      (* the session numbers                                        *)
  RingFrames,  (* LASR_RINGBUF_SIZE in frames: 60                            *)
  Period,      (* a result is posted every Period frames: 120                *)
  MaxTokens    (* sem_retrive_audio_data is counted up to here only: a wait  *)
               (* on it returns with or without a token, after 100 ms        *)

ASSUME VuiIdsAssumption == 0 \in VuiIds
ASSUME RingFramesAssumption == RingFrames \in Nat \ {0}
ASSUME PeriodAssumption == Period \in Nat \ {0}
ASSUME MaxTokensAssumption == MaxTokens \in Nat \ {0}

VARIABLES
  vui_id,      (* lasr->vui_id                                               *)
  running,     (* lasr->worker_running                                       *)
  stopping,    (* lasr->lasr_stopping                                        *)
  ring,        (* lasr->ringbuf, oldest frame first                          *)
  sem,         (* the counts of the semaphores                               *)
  frame,       (* the static counter of __do_lasr, modulo Period             *)
  posted,      (* the last result given to cb_event                          *)
  open,        (* a START has returned and no STOP has been called           *)
  cpc,         (* where the control thread is in the handler                 *)
  dpc,         (* where the data thread is in the handler                    *)
  wpc,         (* where the worker is                                        *)
  cur          (* buf, the frame the worker read last                        *)

handleVars == <<vui_id, running, stopping, ring>>
ctrlVars == <<cpc, open>>
resultVars == <<cur, frame, posted>>
vars == <<handleVars, sem, ctrlVars, dpc, wpc, resultVars>>

Sems == {"starting", "started", "stopping", "stopped", "audio", "worker_thread"}

NoResult == [vui_id |-> 0, audio |-> 0, valid |-> FALSE]

Signal(s) == sem' = [sem EXCEPT ![s] = @ + 1]

Acquire(s) == sem[s] > 0 /\ sem' = [sem EXCEPT ![s] = @ - 1]

\* A step of one thread from one point of its code to the next.
CtrlStep(from, to) ==
  cpc = from /\ cpc' = to /\ UNCHANGED <<dpc, wpc, resultVars>>
DataStep(from, to) ==
  dpc = from /\ dpc' = to /\ UNCHANGED <<ctrlVars, wpc, resultVars>>
WorkerStep(from, to) ==
  wpc = from /\ wpc' = to /\ UNCHANGED <<ctrlVars, dpc>>

\* LasrCreate: everything zeroed, the semaphores created with count 0.
Init ==
  /\ vui_id = 0 /\ running = TRUE /\ stopping = FALSE
  /\ sem = [s \in Sems |-> 0] /\ ring = <<>>
  /\ frame = 0 /\ posted = NoResult /\ cur = 0
  /\ open = FALSE /\ cpc = "idle" /\ dpc = "idle" /\ wpc = "run"

-----------------------------------------------------------------------------
(* __pipeline_accept_ctrl.  PIPELINE_START.                                 *)

\* Mutant: START does not clear the ring.
StartResetKeepingAudio(id) ==
  /\ CtrlStep("idle", "start_signal")
  /\ vui_id' = id
  /\ UNCHANGED <<ring, running, stopping, sem, open>>

StartReset(id) ==
  /\ CtrlStep("idle", "start_signal")
  /\ vui_id' = id /\ ring' = <<>>
  /\ UNCHANGED <<running, stopping, sem, open>>

StartSignal ==
  /\ CtrlStep("start_signal", "start_wait") /\ Signal("starting")
  /\ UNCHANGED <<handleVars, open>>

StartReturn ==
  /\ CtrlStep("start_wait", "idle") /\ Acquire("started")
  /\ open' = TRUE /\ UNCHANGED handleVars

(* PIPELINE_STOP.                                                           *)

StopSignal ==
  /\ CtrlStep("idle", "stop_flag") /\ Signal("stopping")
  /\ open' = FALSE /\ UNCHANGED handleVars

\* Mutant: the flag is never raised.
StopFlagForgotten ==
  /\ CtrlStep("stop_flag", "stop_wait")
  /\ UNCHANGED <<handleVars, sem, open>>

StopFlag ==
  /\ CtrlStep("stop_flag", "stop_wait") /\ stopping' = TRUE
  /\ UNCHANGED <<vui_id, running, ring, sem, open>>

\* Mutant: STOP does not wait for the worker.
StopReturnAtOnce ==
  /\ CtrlStep("stop_wait", "idle")
  /\ UNCHANGED <<handleVars, sem, open>>

StopReturn ==
  /\ CtrlStep("stop_wait", "idle") /\ Acquire("stopped")
  /\ UNCHANGED <<handleVars, open>>

-----------------------------------------------------------------------------
(* __pipeline_accept_data.                                                  *)

\* Mutant: the free size is not looked at.
DataCheckBlind == DataStep("idle", "write") /\ UNCHANGED <<handleVars, sem>>

\* A frame that finds the ring full is dropped.
DataCheck ==
  /\ DataStep("idle", IF Len(ring) < RingFrames THEN "write" ELSE "idle")
  /\ UNCHANGED <<handleVars, sem>>

DataWrite(f) ==
  /\ DataStep("write", "signal") /\ ring' = Append(ring, f)
  /\ UNCHANGED <<vui_id, running, stopping, sem>>

DataSignal ==
  /\ DataStep("signal", "idle")
  /\ IF sem["audio"] < MaxTokens THEN Signal("audio") ELSE sem' = sem
  /\ UNCHANGED handleVars

-----------------------------------------------------------------------------
(* __lasr_worker.                                                           *)

WorkerTest ==
  /\ WorkerStep("run", IF running THEN "wait_start" ELSE "exit")
  /\ UNCHANGED <<handleVars, sem, resultVars>>

WaitStarting ==
  /\ WorkerStep("wait_start", "signal_started") /\ Acquire("starting")
  /\ UNCHANGED <<handleVars, resultVars>>

SignalStarted ==
  /\ WorkerStep("signal_started", "loop") /\ Signal("started")
  /\ UNCHANGED <<handleVars, resultVars>>

(* __lasr.                                                                  *)

\* Only a handler that waits for this very thread writes the flag, so the test
\* and the reset are one step.
LoopTest ==
  /\ WorkerStep("loop", IF stopping THEN "wait_stopping" ELSE "wait_audio")
  /\ stopping' = FALSE
  /\ UNCHANGED <<vui_id, running, ring, sem, resultVars>>

\* Mutant: the worker does not take the token of the request it answers.
WaitStoppingForgotten ==
  /\ WorkerStep("wait_stopping", "signal_stopped")
  /\ UNCHANGED <<handleVars, sem, resultVars>>

WaitStopping ==
  /\ WorkerStep("wait_stopping", "signal_stopped") /\ Acquire("stopping")
  /\ UNCHANGED <<handleVars, resultVars>>

\* Mutant: the break is missing.
SignalStoppedAndGoOn ==
  /\ WorkerStep("signal_stopped", "loop") /\ Signal("stopped")
  /\ UNCHANGED <<handleVars, resultVars>>

SignalStopped ==
  /\ WorkerStep("signal_stopped", "run") /\ Signal("stopped")
  /\ UNCHANGED <<handleVars, resultVars>>

\* Returns with a token, or without one when 100 ms have passed.
WaitAudio ==
  /\ WorkerStep("wait_audio", "size")
  /\ IF sem["audio"] > 0 THEN Acquire("audio") ELSE sem' = sem
  /\ UNCHANGED <<handleVars, resultVars>>

SizeCheck ==
  /\ WorkerStep("size", IF ring = <<>> THEN "loop" ELSE "read")
  /\ UNCHANGED <<handleVars, sem, resultVars>>

\* Mutant: the worker looks at a frame and leaves it in the ring.
ReadPeek ==
  /\ WorkerStep("read", "do") /\ cur' = Head(ring)
  /\ UNCHANGED <<handleVars, sem, frame, posted>>

Read ==
  /\ WorkerStep("read", "do")
  /\ cur' = Head(ring) /\ ring' = Tail(ring)
  /\ UNCHANGED <<vui_id, running, stopping, sem, frame, posted>>

\* __do_lasr: the first frame ever and every Period-th after it give a result.
DoLasr ==
  /\ WorkerStep("do", "loop")
  /\ frame' = (frame + 1) % Period
  /\ posted' = IF frame = 0
               THEN [vui_id |-> vui_id, audio |-> cur, valid |-> TRUE]
               ELSE posted
  /\ UNCHANGED <<handleVars, sem, cur>>

\* while (worker_running) has ended.
WorkerExit ==
  /\ WorkerStep("exit", "gone") /\ Signal("worker_thread")
  /\ UNCHANGED <<handleVars, resultVars>>

-----------------------------------------------------------------------------
(* LasrDestroy.                                                             *)

DestroyRequest ==
  /\ CtrlStep("idle", "destroy_wait") /\ running' = FALSE
  /\ UNCHANGED <<vui_id, stopping, ring, sem, open>>

\* Mutant: frees the handle without waiting for the worker.
DestroyReturnAtOnce ==
  /\ CtrlStep("destroy_wait", "destroyed")
  /\ UNCHANGED <<handleVars, sem, open>>

DestroyReturn ==
  /\ CtrlStep("destroy_wait", "destroyed") /\ Acquire("worker_thread")
  /\ UNCHANGED <<handleVars, open>>

-----------------------------------------------------------------------------
(* The callers.  vui.c alternates START and STOP (vui->status) and gives    *)
(* every START a new vui_id; audioin.c pushes no data during a command,     *)
(* before START has returned, or after STOP was called.                     *)

StartCall(id) == ~open /\ dpc = "idle" /\ id # vui_id /\ StartReset(id)
StopCall == open /\ dpc = "idle" /\ StopSignal
DataCall == open /\ cpc = "idle" /\ DataCheck

Ctrl == StartSignal \/ StartReturn \/ StopFlag \/ StopReturn

Data == DataWrite(vui_id) \/ DataSignal

Worker ==
  \/ WorkerTest \/ WaitStarting \/ SignalStarted
  \/ LoopTest \/ WaitStopping \/ SignalStopped
  \/ WaitAudio \/ SizeCheck \/ Read \/ DoLasr

Next ==
  \/ \E id \in VuiIds : StartCall(id)
  \/ StopCall \/ DataCall
  \/ Ctrl \/ Data \/ Worker

Spec == Init /\ [][Next]_vars

\* Threads that can run are scheduled in the end; the callers owe nothing.
Fairness == WF_vars(Ctrl) /\ WF_vars(Data) /\ WF_vars(Worker)

FairSpec == Spec /\ Fairness

\* The same with a caller that destroys the handle between two commands, as
\* VuiCreate does when a later module cannot be created, and VuiDestroy.
NextLife == Next \/ (dpc = "idle" /\ DestroyRequest) \/ DestroyReturn \/ WorkerExit

LifeSpec == Init /\ [][NextLife]_vars
            /\ Fairness /\ WF_vars(DestroyReturn) /\ WF_vars(WorkerExit)

-----------------------------------------------------------------------------
(* Properties.                                                              *)

Parked == {"run", "wait_start"}
Busy == {"loop", "wait_audio", "size", "read", "do"}

\* Every variable stays in its range; the ring never holds more than it was
\* created for, and no semaphore of the handshake is ever posted twice.
TypeOK ==
  /\ vui_id \in VuiIds /\ cur \in VuiIds
  /\ running \in BOOLEAN /\ stopping \in BOOLEAN /\ open \in BOOLEAN
  /\ sem \in [Sems -> Nat] /\ sem["audio"] <= MaxTokens
  /\ \A s \in Sems \ {"audio"} : sem[s] <= 1
  /\ ring \in Seq(VuiIds) /\ Len(ring) <= RingFrames
  /\ frame \in 0 .. Period - 1
  /\ posted \in [vui_id : VuiIds, audio : VuiIds, valid : BOOLEAN]
  /\ cpc \in {"idle", "start_signal", "start_wait", "stop_flag", "stop_wait",
              "destroy_wait", "destroyed"}
  /\ dpc \in {"idle", "write", "signal"}
  /\ wpc \in Parked \cup Busy
             \cup {"signal_started", "wait_stopping", "signal_stopped",
                   "exit", "gone"}

\* START clears the ring while nobody reads or writes it: this is what the
\* lock-free ring needs, and what the STOP handshake is for.
ClearAlone == cpc = "start_signal" => wpc \in Parked /\ dpc = "idle"

\* A result names the session its audio was captured in, although vui_id is
\* read long after the frame was: the filter in VuiEventOutOfDate can work.
ResultSession == posted.valid => posted.vui_id = posted.audio

\* After STOP has returned and until the next START the worker is parked: it
\* neither reads audio nor posts a result.
QuietAfterStop == cpc = "idle" /\ ~open => wpc \in Parked

\* A handshake leaves nothing behind that a later one could mistake for its
\* own: between commands no token is left and the stop flag is down.
NoLeftovers ==
  cpc = "idle" =>
    /\ ~stopping
    /\ \A s \in {"starting", "started", "stopping", "stopped"} : sem[s] = 0

\* START and STOP return, whatever the worker was doing when they came.
CommandsReturn == cpc \in {"start_signal", "start_wait", "stop_flag", "stop_wait"}
                    ~> cpc = "idle"

\* A full ring does not stay full: the drops of __pipeline_accept_data end
\* unless the session does.
FullRingDrains ==
  open /\ Len(ring) = RingFrames ~> Len(ring) < RingFrames \/ ~open

\* Nothing of the handle is used by the worker once LasrDestroy has freed it.
NoUseAfterDestroy == cpc = "destroyed" => wpc = "gone"

\* LasrDestroy returns (lasr.h: "Destrpy Lasr handle").
DestroyReturns == cpc = "destroy_wait" ~> cpc = "destroyed"

=============================================================================
