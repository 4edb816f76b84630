-------------------------------- MODULE Rasr --------------------------------
(***************************************************************************)
(* The remote recogniser, sdk/vui/src/recognize/src/rasr.c.                *)
(*                                                                         *)
(* Its code is that of lasr.c but for one thing: __worker_launch creates   *)
(* only two of the six semaphores.  The waits and posts on the other four  *)
(* find a null handle and return -INVALID_IN_PARAM at once (porting.c), so *)
(* there is no handshake, START and STOP never wait, and START clears the  *)
(* ring while the worker may be reading it.  The ring is therefore kept at *)
(* the level of its two indices, and reading takes the steps it takes in   *)
(* ringbuf.c as built without optimisation: each mention of head or tail   *)
(* is a load of its own.                                                   *)
(*                                                                         *)
(* A unit of audio is <<session, place in its frame>>.                     *)
(***************************************************************************)
EXTENDS Integers, Sequences

CONSTANTS
  Sessions,    (* the vui_id of a session                                    *)
  FrameUnits,  (* ONE_FRAME_BYTES: 512                                       *)
  RingFrames   (* RASR_RINGBUF_SIZE in frames: 60                            *)

ASSUME SessionsAssumption == Sessions # {}
ASSUME FrameUnitsAssumption == FrameUnits \in Nat \ {0}
ASSUME RingFramesAssumption == RingFrames \in Nat \ {0}

VARIABLES
  vui_id,      (* rasr->vui_id                                               *)
  running,     (* rasr->worker_running                                       *)
  stopping,    (* rasr->rasr_stopping                                        *)
  exited,      (* a token of sem_worker_thread                               *)
  buf, head, tail,   (* rasr->ringbuf                                        *)
  open,        (* a START has returned and no STOP has been called           *)
  cpc,         (* where the control thread is in the handler                 *)
  dpc,         (* where the data thread is: "idle" or "write"                *)
  wpc,         (* where the worker is                                        *)
  h, pos, remain,    (* locals of a read: a loaded head, pos and remain      *)
  cur,         (* the frame the worker read last                             *)
  met          (* the last START, or the one before whose read is still      *)
               (* under way, cleared the ring while the worker was in a read *)
               (* (no variable of the code: the properties need it)          *)

R == INSTANCE RingBuf WITH Cap <- RingFrames * FrameUnits

handleVars == <<vui_id, running, stopping, exited>>
ringVars == <<buf, head, tail>>
ctrlVars == <<cpc, open, met>>
localVars == <<h, pos, remain, cur>>
vars == <<handleVars, ringVars, ctrlVars, dpc, wpc, localVars>>

Unit == Sessions \X (1 .. FrameUnits)
FrameOf(s) == [i \in 1 .. FrameUnits |-> <<s, i>>]

CtrlStep(from, to) ==
  cpc = from /\ cpc' = to /\ UNCHANGED <<dpc, wpc, localVars>>
DataStep(from, to) ==
  dpc = from /\ dpc' = to /\ UNCHANGED <<handleVars, ctrlVars, wpc, localVars>>
WorkerStep(from, to) ==
  wpc = from /\ wpc' = to /\ UNCHANGED <<vui_id, running, ctrlVars, dpc>>

\* RasrCreate.  The allocation's bytes are undefined; any unit will do, for the
\* first START clears an empty ring.  vui_id is zero, whichever number that is.
Init ==
  /\ vui_id \in Sessions /\ running = TRUE /\ stopping = FALSE /\ exited = FALSE
  /\ buf = [i \in R!Index |-> <<vui_id, 1>>] /\ head = 0 /\ tail = 0
  /\ open = FALSE /\ cpc = "idle" /\ dpc = "idle" /\ wpc = "run"
  /\ h = 0 /\ pos = 0 /\ remain = 0 /\ cur = FrameOf(vui_id) /\ met = FALSE

-----------------------------------------------------------------------------
(* __pipeline_accept_ctrl.                                                  *)

InRead == {"size_tail", "check_head", "check_tail",
           "pos", "branch", "remain", "copy", "commit", "do"}

StartReset(s) ==
  /\ CtrlStep("idle", "clear_tail") /\ vui_id' = s
  /\ met' = (met /\ wpc \in InRead)
  /\ UNCHANGED <<running, stopping, exited, ringVars, open>>

\* RingBufferClear: head = tail = 0 stores tail, and head from tail.
ClearTail ==
  /\ CtrlStep("clear_tail", "clear_head") /\ tail' = 0
  /\ met' = (wpc \in InRead)
  /\ UNCHANGED <<handleVars, buf, head, open>>

\* Mutant: only tail is set.
ClearHeadForgotten ==
  /\ CtrlStep("clear_head", "idle") /\ open' = TRUE
  /\ met' = (met \/ wpc \in InRead)
  /\ UNCHANGED <<handleVars, ringVars>>

\* The handshake that follows does nothing and START returns.
ClearHead ==
  /\ CtrlStep("clear_head", "idle") /\ head' = tail /\ open' = TRUE
  /\ met' = (met \/ wpc \in InRead)
  /\ UNCHANGED <<handleVars, buf, tail>>

\* STOP raises the flag and returns: neither sem_stopping nor sem_stopped exists.
Stop ==
  /\ CtrlStep("idle", "idle") /\ stopping' = TRUE /\ open' = FALSE
  /\ UNCHANGED <<vui_id, running, exited, ringVars, met>>

-----------------------------------------------------------------------------
(* __pipeline_accept_data.                                                  *)

DataCheck ==
  /\ DataStep("idle", IF R!WriteOverflow(head, tail, FrameUnits) THEN "idle"
                                                                 ELSE "write")
  /\ UNCHANGED ringVars

\* RingBufferWrite looks at the free size again.
DataRefused ==
  /\ DataStep("write", "idle") /\ R!WriteOverflow(head, tail, FrameUnits)
  /\ UNCHANGED ringVars

\* Only this thread moves head now, so the copy and the move are one step.
DataWrite(s) ==
  /\ DataStep("write", "idle") /\ ~R!WriteOverflow(head, tail, FrameUnits)
  /\ buf' = [c \in R!Index |->
               LET hit == {i \in 0 .. FrameUnits - 1 :
                             R!CellOf(head, FrameUnits, i) = c}
               IN  IF hit = {} THEN buf[c] ELSE <<s, 1 + CHOOSE i \in hit : TRUE>>]
  /\ head' = R!After(head, FrameUnits) /\ tail' = tail

-----------------------------------------------------------------------------
(* __rasr_worker and __rasr.  The wait for audio ends after 100 ms without  *)
(* a token and has no effect but on time.  A local that is not used again   *)
(* goes back to 0.                                                          *)

WorkerTest ==
  /\ WorkerStep("run", IF running THEN "loop" ELSE "exit")
  /\ UNCHANGED <<stopping, exited, ringVars, localVars>>

LoopTest ==
  /\ WorkerStep("loop", IF stopping THEN "reset" ELSE "size_head")
  /\ UNCHANGED <<stopping, exited, ringVars, localVars>>

LoopReset ==
  /\ WorkerStep("reset", "run") /\ stopping' = FALSE
  /\ UNCHANGED <<exited, ringVars, localVars>>

\* RingBufferGetDataSize, and the same test again in _ring_buffer_read.
LoadHead ==
  /\ \/ WorkerStep("size_head", "size_tail")
     \/ WorkerStep("check_head", "check_tail")
  /\ h' = head
  /\ UNCHANGED <<stopping, exited, ringVars, pos, remain, cur>>

SizeTail ==
  /\ WorkerStep("size_tail", IF R!ReadOverflow(h, tail, FrameUnits)
                             THEN "loop" ELSE "check_head")
  /\ h' = 0
  /\ UNCHANGED <<stopping, exited, ringVars, pos, remain, cur>>

\* When the read fails here, __rasr goes on with the frame it has in buf.
CheckTail ==
  /\ WorkerStep("check_tail", IF R!ReadOverflow(h, tail, FrameUnits)
                              THEN "do" ELSE "pos")
  /\ h' = 0
  /\ UNCHANGED <<stopping, exited, ringVars, pos, remain, cur>>

\* Mutant: pos is not taken modulo the size.
ReadPosNoWrap ==
  /\ WorkerStep("pos", "branch") /\ pos' = tail + FrameUnits
  /\ UNCHANGED <<stopping, exited, ringVars, h, remain, cur>>

\* _read_internal.
ReadPos ==
  /\ WorkerStep("pos", "branch") /\ pos' = R!After(tail, FrameUnits)
  /\ UNCHANGED <<stopping, exited, ringVars, h, remain, cur>>

ReadBranch ==
  /\ WorkerStep("branch", IF pos >= tail THEN "copy" ELSE "remain")
  /\ remain' = FrameUnits
  /\ UNCHANGED <<stopping, exited, ringVars, h, pos, cur>>

ReadRemain ==
  /\ WorkerStep("remain", "copy") /\ remain' = R!Size - tail
  /\ UNCHANGED <<stopping, exited, ringVars, h, pos, cur>>

\* The first copy starts at tail, the second at the start of the allocation.
\* If the clear fell between the branch and remain, remain is the whole
\* allocation: the first copy overruns the frame of the worker's stack and the
\* second has a negative length.  Nothing is known of the program from there.
ReadCopy ==
  /\ WorkerStep("copy", IF remain <= FrameUnits THEN "commit" ELSE "overrun")
  /\ cur' = IF remain <= FrameUnits
            THEN [i \in 1 .. FrameUnits |->
                    IF i <= remain THEN buf[tail + i - 1] ELSE buf[i - remain - 1]]
            ELSE cur
  /\ remain' = 0
  /\ UNCHANGED <<stopping, exited, ringVars, h, pos>>

ReadCommit ==
  /\ WorkerStep("commit", "do") /\ tail' = pos /\ pos' = 0
  /\ UNCHANGED <<stopping, exited, buf, head, h, remain, cur>>

\* __do_rasr is empty.
DoRasr ==
  /\ WorkerStep("do", "loop")
  /\ UNCHANGED <<stopping, exited, ringVars, localVars>>

WorkerExit ==
  /\ WorkerStep("exit", "gone") /\ exited' = TRUE
  /\ UNCHANGED <<stopping, ringVars, localVars>>

-----------------------------------------------------------------------------
(* RasrDestroy.                                                             *)

DestroyRequest ==
  /\ CtrlStep("idle", "destroy_wait") /\ running' = FALSE
  /\ UNCHANGED <<vui_id, stopping, exited, ringVars, open, met>>

DestroyReturn ==
  /\ CtrlStep("destroy_wait", "destroyed") /\ exited
  /\ UNCHANGED <<handleVars, ringVars, open, met>>

-----------------------------------------------------------------------------
(* The callers, as for Lasr: commands alternate, data comes only while open *)
(* and never during a command.                                              *)

StartCall(s) == ~open /\ dpc = "idle" /\ s # vui_id /\ StartReset(s)
StopCall == open /\ dpc = "idle" /\ Stop
DataCall == open /\ cpc = "idle" /\ DataCheck

DataEnd == DataRefused \/ DataWrite(vui_id)

Worker ==
  \/ WorkerTest \/ LoopTest \/ LoopReset \/ LoadHead \/ SizeTail \/ CheckTail
  \/ ReadPos \/ ReadBranch \/ ReadRemain \/ ReadCopy \/ ReadCommit \/ DoRasr

\* A behaviour ends where the code's is undefined.
Defined == wpc # "overrun"

Next ==
  /\ Defined
  /\ \/ \E s \in Sessions : StartCall(s)
     \/ ClearTail \/ ClearHead
     \/ StopCall \/ DataCall \/ DataEnd
     \/ Worker

Spec == Init /\ [][Next]_vars

NextLife ==
  \/ Next
  \/ /\ Defined
     /\ (dpc = "idle" /\ DestroyRequest) \/ DestroyReturn \/ WorkerExit

LifeSpec == Init /\ [][NextLife]_vars

-----------------------------------------------------------------------------
(* Properties.                                                              *)

\* Every variable stays in its range: although START races with the worker, head,
\* tail and the place a read goes on to are inside the allocation.  That is no claim
\* about the bytes copied, which at "overrun" go beyond it; CleanUnlessMet is.
TypeOK ==
  /\ vui_id \in Sessions /\ running \in BOOLEAN /\ stopping \in BOOLEAN
  /\ met \in BOOLEAN /\ exited \in BOOLEAN /\ open \in BOOLEAN
  /\ buf \in [R!Index -> Unit] /\ head \in R!Index /\ tail \in R!Index
  /\ cpc \in {"idle", "clear_tail", "clear_head", "destroy_wait", "destroyed"}
  /\ dpc \in {"idle", "write"}
  /\ wpc \in InRead \cup {"run", "loop", "reset", "size_head",
                         "overrun", "exit", "gone"}
  /\ h \in R!Index /\ pos \in R!Index /\ remain \in 0 .. R!Size
  /\ cur \in [1 .. FrameUnits -> Unit]

\* "drop outofdate audio": a frame that is recognised in a session is a frame
\* of that session, whole and not shifted.
FrameOfSession ==
  wpc = "do" /\ cpc = "idle" /\ open => cur = FrameOf(vui_id)

\* Unless START cleared the ring while the worker was inside a read, no copy is
\* longer than a frame, so that none overruns the worker's stack or leaves the
\* allocation, and the session is clean of the audio before it.
CleanUnlessMet == ~met => Defined /\ FrameOfSession

=============================================================================
