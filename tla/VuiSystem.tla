----------------------------- MODULE VuiSystem -----------------------------
(***************************************************************************)
(* The program of app/src/app.c around sdk/vui/src/vui.c: the main thread  *)
(* starts the voice interface, the local recogniser posts a result to the  *)
(* event loop, and the event loop's thread relaunches the interface, which *)
(* stops and starts every thread that the result came through.             *)
(*                                                                         *)
(* AudioIn and Lasr run in full.  A command or a frame that one pushes to  *)
(* the other is a call, so the caller's step that follows waits for the    *)
(* other's handler to return.  Between them is aec.c, which passes on what *)
(* it gets, and beside Lasr is rasr.c, whose handlers never wait (Rasr) and *)
(* post nothing: neither has a state that matters here.  The event loop is *)
(* the queue that EventLoop shows it to be; only one priority is used.     *)
(***************************************************************************)
EXTENDS Integers, Sequences

CONSTANTS
  IdCount,     (* the vui_ids before it wraps: 32, a field of five bits      *)
  StartMode,   (* the mode main gives to VuiStart                            *)
  MaxEvents,   (* bound on the results queued or still to come: no audio is  *)
               (* captured when there could be more                          *)
  FrameUnits, RingUnits, MaxChunk, RingFrames, Period, MaxTokens

ASSUME IdCountAssumption == IdCount \in Nat \ {0, 1}
ASSUME MaxEventsAssumption == MaxEvents \in Nat \ {0}
\* What AudioIn and Lasr ask of their constants.
ASSUME FrameUnitsAssumption == FrameUnits \in Nat \ {0}
ASSUME RingUnitsAssumption == RingUnits \in Nat /\ FrameUnits <= RingUnits
ASSUME MaxChunkAssumption == MaxChunk \in Nat \ {0}
ASSUME RingFramesAssumption == RingFrames \in Nat \ {0}
ASSUME PeriodAssumption == Period \in Nat \ {0}
ASSUME MaxTokensAssumption == MaxTokens \in Nat \ {0}

Modes == {"awaken", "lasr_only", "rasr_only", "lasr_rasr"}
ASSUME StartModeAssumption == StartMode \in Modes

VARIABLES
  vui_id, status,      (* vui->vui_id, vui->status                           *)
  mode, links,         (* the mode of the last VuiStart, the nodes after aec *)
  pc,                  (* where main and the event loop's thread are         *)
  queue,               (* the results in the event loop, oldest first        *)
  handled,             (* the result being handled                           *)
  cmd,                 (* the command pushed to Lasr: "none", "due", "called" *)
  data,                (* the frame pushed to Lasr, likewise                 *)
  a_running, a_status, a_stopping, a_sem, a_ring, a_stream, a_session,
  a_open, a_cpc, a_bpc, a_chunk, a_wpc, a_cur,
  l_vui_id, l_running, l_stopping, l_ring, l_sem, l_frame, l_posted,
  l_open, l_cpc, l_dpc, l_wpc, l_cur

VuiIds == 0 .. IdCount - 1

A == INSTANCE AudioIn WITH
       Sessions <- VuiIds,
       running <- a_running, status <- a_status, stopping <- a_stopping,
       sem <- a_sem, ring <- a_ring, stream <- a_stream, session <- a_session,
       open <- a_open, cpc <- a_cpc, bpc <- a_bpc, chunk <- a_chunk,
       wpc <- a_wpc, cur <- a_cur

L == INSTANCE Lasr WITH
       vui_id <- l_vui_id, running <- l_running, stopping <- l_stopping,
       ring <- l_ring, sem <- l_sem, frame <- l_frame, posted <- l_posted,
       open <- l_open, cpc <- l_cpc, dpc <- l_dpc, wpc <- l_wpc, cur <- l_cur

vuiVars == <<vui_id, status, mode, links>>
eventVars == <<queue, handled>>
aVars == <<a_running, a_status, a_stopping, a_sem, a_ring, a_stream, a_session,
           a_open, a_cpc, a_bpc, a_chunk, a_wpc, a_cur>>
lVars == <<l_vui_id, l_running, l_stopping, l_ring, l_sem, l_frame, l_posted,
           l_open, l_cpc, l_dpc, l_wpc, l_cur>>
vars == <<vuiVars, pc, eventVars, cmd, data, aVars, lVars>>

Thread == {"main", "loop"}

NoEvent == [vui_id |-> 0, age |-> 0]

Init ==
  /\ vui_id = 0 /\ status = "stopped" /\ mode = StartMode /\ links = {}
  /\ pc = [t \in Thread |-> IF t = "main" THEN "start" ELSE "idle"]
  /\ queue = <<>> /\ handled = NoEvent
  /\ cmd = "none" /\ data = "none"
  /\ A!Init /\ L!Init

Goes(t, to) == pc' = [pc EXCEPT ![t] = to]

-----------------------------------------------------------------------------
(* vui.c.                                                                   *)

\* __lasr_on: the last operand of its || is the constant UNI_LASR_RASR_MODE.
LasrOn(m) == TRUE

RasrOn(m) == m \in {"rasr_only", "lasr_rasr"}

\* The age of a result is how many sessions have begun since it was posted (the
\* code does not know it; the properties do).
Older(e) == [e EXCEPT !.age = IF @ < IdCount THEN @ + 1 ELSE @]

\* Mutant: a session keeps the number of the one before.
SameId == vui_id

\* __set_current_vui_id: a bit field, which wraps.
NextId == (vui_id + 1) % IdCount

\* VuiStart: refused when started; else a new vui_id and new links.
StartEnter(t, m) ==
  /\ pc[t] = "start"
  /\ IF status = "started"
     THEN Goes(t, "done") /\ UNCHANGED <<vuiVars, eventVars>>
     ELSE /\ Goes(t, "launch")
          /\ vui_id' = NextId
          /\ mode' = m
          /\ links' = {n \in {"lasr", "rasr"} : IF n = "lasr" THEN LasrOn(m)
                                                              ELSE RasrOn(m)}
          /\ queue' = [i \in DOMAIN queue |-> Older(queue[i])]
          /\ handled' = Older(handled)
          /\ UNCHANGED status
  /\ UNCHANGED <<cmd, data, aVars, lVars>>

\* __linking_module_launch: the command enters the pipeline.
Launch(t) ==
  /\ pc[t] = "launch" /\ Goes(t, "starting")
  /\ A!StartCmd(vui_id)
  /\ cmd' = IF "lasr" \in links THEN "due" ELSE "none"
  /\ UNCHANGED <<vuiVars, eventVars, data, lVars>>

\* The command has come back.
Started(t) ==
  /\ pc[t] = "starting" /\ a_cpc = "idle"
  /\ status' = "started" /\ Goes(t, "done")
  /\ UNCHANGED <<vui_id, mode, links, eventVars, cmd, data, aVars, lVars>>

\* Mutant: VuiStop does not look at the status.
StopEnterUnasked(t) ==
  /\ pc[t] = "stop" /\ Goes(t, "stopping") /\ A!StopCmd
  /\ cmd' = IF "lasr" \in links THEN "due" ELSE "none"
  /\ UNCHANGED <<vuiVars, eventVars, data, lVars>>

\* VuiStop: refused when stopped, and VuiRelaunch gives up; else the command
\* enters the pipeline.
StopEnter(t) ==
  /\ pc[t] = "stop"
  /\ IF status = "stopped"
     THEN Goes(t, "done") /\ UNCHANGED <<cmd, aVars>>
     ELSE /\ Goes(t, "stopping") /\ A!StopCmd
          /\ cmd' = IF "lasr" \in links THEN "due" ELSE "none"
  /\ UNCHANGED <<vuiVars, eventVars, data, lVars>>

\* Mutant: the links are taken apart while the command is on its way.
UnlinkAtOnce(t) ==
  /\ pc[t] = "stopping"
  /\ links' = {} /\ status' = "stopped" /\ Goes(t, "start")
  /\ UNCHANGED <<vui_id, mode, eventVars, cmd, data, aVars, lVars>>

\* __module_unlinking.
Unlink(t) ==
  /\ pc[t] = "stopping" /\ a_cpc = "idle"
  /\ links' = {} /\ status' = "stopped" /\ Goes(t, "start")
  /\ UNCHANGED <<vui_id, mode, eventVars, cmd, data, aVars, lVars>>

-----------------------------------------------------------------------------
(* app.c.                                                                   *)

\* The event loop's thread takes a result; __vui_event_handler looks whether it
\* is out of date, says so in the log, and calls VuiRelaunch in any case.
TakeEvent ==
  /\ pc["loop"] = "idle" /\ queue # <<>>
  /\ handled' = Head(queue) /\ queue' = Tail(queue)
  /\ Goes("loop", "stop")
  /\ UNCHANGED <<vuiVars, cmd, data, aVars, lVars>>

FreeEvent ==
  /\ pc["loop"] = "done" /\ Goes("loop", "idle") /\ handled' = NoEvent
  /\ UNCHANGED <<vuiVars, queue, cmd, data, aVars, lVars>>

VuiEventOutOfDate(id) == vui_id # id

-----------------------------------------------------------------------------
(* The pipeline: PipelinePushCmd and PipelinePushData to Lasr.              *)

CommandCalled ==
  /\ cmd = "due" /\ a_cpc \in {"push_start", "push_stop"}
  /\ IF a_cpc = "push_start" THEN L!StartReset(vui_id) ELSE L!StopSignal
  /\ cmd' = "called"
  /\ UNCHANGED <<vuiVars, pc, eventVars, data, aVars>>

CommandReturned ==
  /\ cmd = "called" /\ l_cpc = "idle"
  /\ cmd' = "none"
  /\ UNCHANGED <<vuiVars, pc, eventVars, data, aVars, lVars>>

LasrCtrl == L!Ctrl /\ UNCHANGED <<vuiVars, pc, eventVars, cmd, data, aVars>>

\* Mutant: audioin does not wait for the nodes after it.
AudioInCtrlAhead ==
  A!Ctrl /\ UNCHANGED <<vuiVars, pc, eventVars, cmd, data, lVars>>

\* audioin goes on when the pushed command has come back.
AudioInCtrl ==
  /\ A!Ctrl
  /\ a_cpc \in {"push_start", "push_stop"} => cmd = "none"
  /\ UNCHANGED <<vuiVars, pc, eventVars, cmd, data, lVars>>

FrameCalled ==
  /\ a_wpc = "push" /\ data = "due" /\ L!DataCheck
  /\ data' = "called"
  /\ UNCHANGED <<vuiVars, pc, eventVars, cmd, aVars>>

FrameAccepted ==
  /\ data = "called" /\ (L!DataWrite(a_cur[1]) \/ L!DataSignal)
  /\ UNCHANGED <<vuiVars, pc, eventVars, cmd, data, aVars>>

FrameReturned ==
  /\ data = "called" /\ l_dpc = "idle" /\ data' = "none"
  /\ UNCHANGED <<vuiVars, pc, eventVars, cmd, aVars, lVars>>

AudioInWorker ==
  /\ A!Worker
  /\ a_wpc = "push" => data = "none"
  /\ data' = IF a_wpc = "read" /\ "lasr" \in links THEN "due" ELSE data
  /\ UNCHANGED <<vuiVars, pc, eventVars, cmd, lVars>>

\* __event_router: a result goes into the event loop when it is posted.
LasrWorker ==
  /\ L!Worker
  /\ queue' = IF l_wpc = "do" /\ l_frame = 0
              THEN Append(queue, [vui_id |-> l_vui_id, age |-> 0]) ELSE queue
  /\ UNCHANGED <<vuiVars, pc, handled, cmd, data, aVars>>

\* What may still become a result.
Pending ==
  Len(queue) + Len(a_ring) + Len(l_ring)
    + (IF a_wpc = "push" THEN 1 ELSE 0) + (IF l_wpc = "do" THEN 1 ELSE 0)

Microphone ==
  /\ \/ Pending < MaxEvents /\ \E n \in 1 .. MaxChunk : A!Callback(n)
     \/ A!CallbackWrite
  /\ UNCHANGED <<vuiVars, pc, eventVars, cmd, data, lVars>>

-----------------------------------------------------------------------------

Control ==
  \/ StartEnter("main", StartMode) \/ StartEnter("loop", "lasr_rasr")
  \/ \E t \in Thread : Launch(t) \/ Started(t) \/ StopEnter(t) \/ Unlink(t)
  \/ TakeEvent \/ FreeEvent
  \/ CommandCalled \/ CommandReturned \/ LasrCtrl \/ AudioInCtrl

Pusher == FrameCalled \/ FrameAccepted \/ FrameReturned \/ AudioInWorker

Next == Control \/ Pusher \/ LasrWorker \/ Microphone

\* Every thread that can run does in the end; the microphone owes nothing but
\* the end of a callback.
Spec ==
  /\ Init /\ [][Next]_vars
  /\ WF_vars(Control) /\ WF_vars(Pusher) /\ WF_vars(LasrWorker)
  /\ WF_vars(Microphone /\ a_bpc = "write")

-----------------------------------------------------------------------------
(* Properties.                                                              *)

\* What AudioIn and Lasr assume of their callers holds in the program: commands
\* alternate, no frame comes during a command, outside a session, or from a
\* session that is over.
AudioInAsAlone == A!Init /\ [][A!Next]_A!vars
LasrAsAlone == L!Init /\ [][L!Next]_L!vars

\* A result posted before the last relaunch is told from one posted since, as
\* long as the event loop is fewer than IdCount sessions behind.
OutOfDateExact ==
  pc["loop"] # "idle" =>
    (VuiEventOutOfDate(handled.vui_id) <=> handled.age > 0)

\* Main and the event loop never run a command at the same time, though the
\* first result may come before VuiStart has returned in main.
OneCommander ==
  ~ \A t \in Thread : pc[t] \in {"launch", "starting", "stopping"}

\* Links change only while nothing travels along them.
LinksStable ==
  [][links' # links => cmd = "none" /\ a_wpc # "push" /\ l_dpc = "idle"]_vars

\* A relaunch ends: the threads that it stops in turn never wait for each other
\* in a circle, nor for the event loop that is stopping them.
RelaunchEnds == pc["loop"] # "idle" ~> pc["loop"] = "idle"

\* vui.c calls vui_id the means to "filter out of date event": a result that is
\* out of date when it is handled does not relaunch the session that followed.
StaleFiltered ==
  [][pc["loop"] = "stop" /\ pc'["loop"] = "stopping"
       => ~VuiEventOutOfDate(handled.vui_id)]_vars

\* vui.h: the mode says which recognisers run.
ModeRespected ==
  links # {} =>
    ("lasr" \in links <=> mode \in {"awaken", "lasr_only", "lasr_rasr"})

=============================================================================
