------------------------------ MODULE VuiLife -------------------------------
(***************************************************************************)
(* The life of a voice interface: VuiCreate, VuiStart, VuiStop and         *)
(* VuiDestroy of sdk/vui/src/vui.c with the constructors, destructors and  *)
(* command handlers of audioin.c, portaudio_wrapper.c, aec.c, lasr.c and   *)
(* rasr.c beneath them, on the lists of pipeline.c and the semaphores of   *)
(* porting.c.  Any allocation may fail.  The threads are there with what   *)
(* they hold and what they wait for; what they do to audio is in AudioIn,  *)
(* Lasr and Rasr.                                                          *)
(***************************************************************************)
EXTENDS Porting, FiniteSets, Sequences, SequencesExt

CONSTANTS
  MaxFailures,    (* how many allocations or initialisations fail           *)
  MaxStarts       (* how often VuiStart is called                           *)

ASSUME MaxFailuresAssumption == MaxFailures \in Nat
ASSUME MaxStartsAssumption == MaxStarts \in Nat

Node == {"vui", "audioin", "aec", "lasr", "rasr"}
NoNode == "none"
Recogniser == {"lasr", "rasr"}
Worker == Recogniser \cup {"audioin"}

VARIABLES
  mem, pre,        (* the lists, and what they stand for (Pipeline)          *)
  held,            (* the resources allocated, <<node, resource>>            *)
  sem,             (* the semaphores (Porting)                               *)
  failed,          (* the resources that could not be had                    *)
  pc, todo,        (* the function of vui.c under way, the rest of its calls *)
  cmd, stack, hpc, (* the command pushed, the walks of the lists by the      *)
                   (* calling thread and by audioin's worker, and whether    *)
                   (* the handler reached is waiting                         *)
  told,            (* the last command each node's handler has finished      *)
  starts, status,  (* the calls of VuiStart, vui->status                     *)
  stream, audio,   (* the PortAudio stream; a frame is in audioin's ring     *)
  pipe,            (* audioin->pipepile_status                               *)
  running,         (* worker_running of the three workers                    *)
  stopping,        (* audioin->stopping, lasr_stopping, rasr_stopping        *)
  worker           (* where the three workers are                            *)

P == INSTANCE Pipeline

ASSUME NoNodeAssumption == P!NoNodeApart

listVars == <<mem, pre>>
resVars == <<held, sem, failed>>
apiVars == <<pc, todo, cmd, starts, status>>
walkVars == <<stack, hpc, told>>
callVars == <<apiVars, walkVars>>
audioVars == <<stream, audio, pipe>>
workerVars == <<running, stopping, worker>>
vars == <<listVars, resVars, callVars, audioVars, workerVars>>

-----------------------------------------------------------------------------
(* What the constructors allocate, in order.                                *)

SemName ==
  {"sem_worker_thread", "sem_starting", "sem_started", "sem_stopping", "sem_stopped"}

Of(n, items) == [i \in DOMAIN items |-> <<n, items[i]>>]

\* AudioWrapperCreate: the wrapper, Pa_Initialize, Pa_OpenStream.
WrapperBuild == <<"wrapper", "portaudio", "stream">>

\* RingBufferCreate: the structure and, unchecked, its bytes.
RingBuild == <<"ring", "bytes">>

\* AudioInCreate and __worker_launch.
AudioInBuild ==
  <<"handle">> \o WrapperBuild \o RingBuild
    \o <<"sem_worker_thread", "sem_starting", "sem_stopped", "thread">>

AecBuild == <<"handle">>

\* LasrCreate and __worker_launch.
LasrBuild ==
  <<"handle">> \o RingBuild
    \o <<"sem_worker_thread", "sem_retrive_audio_data", "sem_starting",
         "sem_started", "sem_stopping", "sem_stopped", "thread">>

\* RasrCreate and __worker_launch, which creates two semaphores of six.
RasrBuild ==
  <<"handle">> \o RingBuild
    \o <<"sem_worker_thread", "sem_retrive_audio_data", "thread">>

\* VuiCreate; both optional modules are on (__load_vui_config).
VuiBuild ==
  Of("vui", <<"handle">>) \o Of("audioin", AudioInBuild) \o Of("aec", AecBuild)
    \o Of("lasr", LasrBuild) \o Of("rasr", RasrBuild)

\* Without these an assertion fails, or a null pointer is written at once
\* (_create_ring_buf).
Fatal == {"wrapper", "portaudio", "stream", "ring", "thread"}

(* What the destructors do, in order.                                       *)

\* AudioWrapperDestroy.
WrapperUndo == <<"stop_stream", "stream", "portaudio", "wrapper">>

RingUndo == <<"bytes", "ring">>

\* Mutant: the worker is waited for before it is told to go.
AudioInUndoJoinFirst ==
  WrapperUndo
    \o <<"join", "quit", "sem_worker_thread", "sem_stopped", "sem_starting">>
    \o RingUndo \o <<"handle">>

\* AudioInDestroy and __destroy_woker.
AudioInUndo ==
  WrapperUndo
    \o <<"quit", "join", "sem_worker_thread", "sem_stopped", "sem_starting">>
    \o RingUndo \o <<"handle">>

AecUndo == <<"handle">>

\* LasrDestroy and RasrDestroy are the same.
RecogniserUndo ==
  <<"quit", "join", "sem_worker_thread", "sem_starting", "sem_started",
    "sem_stopping", "sem_stopped", "sem_retrive_audio_data">>
    \o RingUndo \o <<"handle">>

\* __destroy_vui_handle.
VuiUndo ==
  Of("audioin", AudioInUndo) \o Of("aec", AecUndo)
    \o Of("lasr", RecogniserUndo) \o Of("rasr", RecogniserUndo)
    \o Of("vui", <<"handle">>)

SemId == {s \in Range(VuiUndo) : s[2] \in SemName}

Init ==
  /\ P!Init
  /\ held = {} /\ sem = [s \in SemId |-> NoHandle] /\ failed = {}
  /\ pc = "create" /\ todo = VuiBuild
  /\ cmd = "stop" /\ stack = [t \in {"caller", "audioin"} |-> <<>>] /\ hpc = "run"
  /\ told = [n \in Node |-> "none"]
  /\ starts = 0 /\ status = "stopped"
  /\ stream = "stopped" /\ audio = FALSE /\ pipe = "stop"
  /\ running = [n \in Worker |-> FALSE] /\ stopping = [n \in Worker |-> FALSE]
  /\ worker = [n \in Worker |-> "none"]

-----------------------------------------------------------------------------
(* VuiCreate and VuiDestroy.                                                *)

\* The calls left when those of n, which come first, are passed over.
Without(n) ==
  LET others == {i \in DOMAIN todo : todo[i][1] # n}
  IN  IF others = {} THEN <<>> ELSE SubSeq(todo, Min(others), Len(todo))

Holds(n, r) == <<n, r>> \in held

\* An allocation that succeeds.  The handles are zeroed and made nodes of the
\* pipeline at once (PipelineNodeInit); the worker runs when its thread exists.
Obtain ==
  /\ pc = "create" /\ todo # <<>> /\ todo' = Tail(todo)
  /\ LET n == Head(todo)[1]  r == Head(todo)[2]
     IN  /\ sem' = IF r \in SemName THEN SemNew(sem, Head(todo), 0) ELSE sem
         /\ held' = IF r \in SemName \cup {"thread"} THEN held ELSE held \cup {Head(todo)}
         /\ IF r = "handle" /\ n # "vui" THEN P!NodeInit(n) ELSE UNCHANGED listVars
         /\ IF r = "thread"
            THEN running' = [running EXCEPT ![n] = TRUE]
                 /\ worker' = [worker EXCEPT ![n] = "top"]
            ELSE UNCHANGED <<running, worker>>
  /\ UNCHANGED <<walkVars, audioVars, failed, pc, cmd, starts, status, stopping>>

\* One that does not: without a handle the module is not there, VuiCreate gives up
\* at once without its own; a semaphore or the bytes of a ring are not missed.
Fail ==
  /\ pc = "create" /\ todo # <<>> /\ Cardinality(failed) < MaxFailures
  /\ failed' = failed \cup {Head(todo)}
  /\ LET n == Head(todo)[1]  r == Head(todo)[2]
     IN  /\ pc' = IF r \in Fatal THEN "aborted"
                  ELSE IF r = "handle" /\ n = "vui" THEN "gone" ELSE pc
         /\ todo' = IF r = "handle" THEN Without(n) ELSE Tail(todo)
  /\ UNCHANGED <<listVars, walkVars, audioVars, workerVars, held, sem, cmd, starts, status>>

\* Mutant: VuiCreate does not look for aec.
CompleteButAec == \A n \in Node \ {"aec"} : Holds(n, "handle")

Complete == \A n \in Node : Holds(n, "handle")

\* VuiCreate takes apart what there is if a module is missing.
CreateDone ==
  /\ pc = "create" /\ todo = <<>>
  /\ IF Complete
     THEN pc' = "idle" /\ todo' = todo /\ P!NodeInit("vui")
     ELSE pc' = "destroy" /\ todo' = VuiUndo /\ UNCHANGED listVars
  /\ UNCHANGED <<resVars, walkVars, audioVars, workerVars, cmd, starts, status>>

\* VuiDestroy, in any state of the interface.
VuiDestroy ==
  /\ pc = "idle" /\ pc' = "destroy" /\ todo' = VuiUndo
  /\ UNCHANGED <<listVars, resVars, walkVars, audioVars, workerVars, cmd, starts, status>>

\* Mutant: the worker is not waited for.
NotJoined(n) == TRUE

\* The wait for what the worker signals last; it returns at once if the semaphore
\* could not be created.
Joined(n) == SemReturns(sem, <<n, "sem_worker_thread">>)

\* One call of a destructor.  Pa_StopStream returns when no callback is under way.
Undo ==
  /\ pc = "destroy" /\ todo # <<>>
  /\ LET n == Head(todo)[1]  r == Head(todo)[2]
     IN  IF ~Holds(n, "handle")
         THEN todo' = Without(n) /\ UNCHANGED <<held, sem, running, stream>>
         ELSE /\ todo' = Tail(todo)
              /\ r = "join" => Joined(n)
              /\ sem' = IF r \in SemName THEN SemFree(sem, Head(todo))
                        ELSE IF r = "join" THEN SemTaken(sem, <<n, "sem_worker_thread">>)
                        ELSE sem
              /\ held' = held \ {Head(todo)}
              /\ running' = [m \in Worker |-> running[m] /\ ~(m = n /\ r = "quit")]
              /\ stream' = IF r = "stop_stream" THEN "stopped" ELSE stream
  /\ UNCHANGED <<listVars, walkVars, failed, pc, cmd, starts, status, audio, pipe, stopping,
                 worker>>

\* VuiDestroy returns, or VuiCreate returns NULL.
UndoDone ==
  /\ pc = "destroy" /\ todo = <<>> /\ pc' = "gone"
  /\ UNCHANGED <<listVars, resVars, walkVars, audioVars, workerVars, todo, cmd, starts,
                 status>>

-----------------------------------------------------------------------------
(* VuiStart and VuiStop.                                                    *)

Mode == {"lasr_only", "lasr_rasr"}

\* Mutant: the remote recogniser is put after the local one.
LinksOfChained(mode) ==
  <<<<"vui", "audioin">>, <<"audioin", "aec">>, <<"aec", "lasr">>>>
    \o (IF mode = "lasr_rasr" THEN <<<<"lasr", "rasr">>>> ELSE <<>>)

\* __module_linking; __lasr_on is always true.
LinksOf(mode) ==
  <<<<"vui", "audioin">>, <<"audioin", "aec">>, <<"aec", "lasr">>>>
    \o (IF mode = "lasr_rasr" THEN <<<<"aec", "rasr">>>> ELSE <<>>)

Frame(n) == [node |-> n, at |-> mem.next[P!Rear(n)]]

\* Mutant: VuiStart does not look at the status.
VuiStartAgain(mode) ==
  /\ pc = "idle" /\ starts < MaxStarts
  /\ starts' = starts + 1 /\ pc' = "link" /\ todo' = LinksOf(mode)
  /\ UNCHANGED <<listVars, resVars, walkVars, audioVars, workerVars, cmd, status>>

VuiStart(mode) ==
  /\ pc = "idle" /\ status = "stopped" /\ starts < MaxStarts
  /\ starts' = starts + 1 /\ pc' = "link" /\ todo' = LinksOf(mode)
  /\ UNCHANGED <<listVars, resVars, walkVars, audioVars, workerVars, cmd, status>>

\* LINKING.
LinkStep ==
  /\ pc = "link" /\ todo # <<>> /\ todo' = Tail(todo)
  /\ P!Connect(Head(todo)[1], Head(todo)[2])
  /\ UNCHANGED <<resVars, walkVars, audioVars, workerVars, pc, cmd, starts, status>>

\* __linking_module_launch pushes START to the root.
Launch ==
  /\ pc = "link" /\ todo = <<>>
  /\ pc' = "push" /\ cmd' = "start"
  /\ stack' = [stack EXCEPT !["caller"] = <<Frame("vui")>>]
  /\ UNCHANGED <<listVars, resVars, audioVars, workerVars, todo, hpc, told, starts, status>>

\* VuiStop: __linking_module_stop pushes STOP to the root.
VuiStop ==
  /\ pc = "idle" /\ status = "started"
  /\ pc' = "push" /\ cmd' = "stop"
  /\ stack' = [stack EXCEPT !["caller"] = <<Frame("vui")>>]
  /\ UNCHANGED <<listVars, resVars, audioVars, workerVars, todo, hpc, told, starts, status>>

\* The command has come back.
Pushed ==
  /\ pc = "push" /\ stack["caller"] = <<>>
  /\ IF cmd = "start" THEN pc' = "idle" /\ status' = "started" /\ todo' = todo
     ELSE /\ pc' = "unlink" /\ status' = status
          /\ todo' = [i \in 1 .. 5 |->
                       <<<<"vui", "audioin", "aec", "lasr", "rasr">>[i], "clear">>]
  /\ UNCHANGED <<listVars, resVars, walkVars, audioVars, workerVars, cmd, starts>>

\* __module_unlinking: PipelineClear of each node.
UnlinkStep ==
  /\ pc = "unlink" /\ todo # <<>>
  /\ LET n == Head(todo)[1]
     IN  \/ P!ClearFirst(n) /\ todo' = todo
         \/ P!Cleared(n) /\ todo' = Tail(todo)
  /\ UNCHANGED <<resVars, walkVars, audioVars, workerVars, pc, cmd, starts, status>>

Unlinked ==
  /\ pc = "unlink" /\ todo = <<>> /\ pc' = "idle" /\ status' = "stopped"
  /\ UNCHANGED <<listVars, resVars, walkVars, audioVars, workerVars, todo, cmd, starts>>

-----------------------------------------------------------------------------
(* PipelinePushCmd and PipelinePushData.  A thread's stack has a frame for  *)
(* each list it is walking, with the cell the walk is at.                   *)

Walking(t) == stack[t] # <<>>
Top(t) == Last(stack[t])
AtEnd(t) == Walking(t) /\ Top(t).at = P!Rear(Top(t).node)

\* The node whose handler thread t calls next.
Calls(t, n) == Walking(t) /\ ~AtEnd(t) /\ Top(t).at[1] = n

\* p = p->next, once the handler has returned.
Advanced(s) == IF s = <<>> THEN <<>> ELSE [s EXCEPT ![Len(s)].at = mem.next[@]]

Enter(t, n) == stack' = [stack EXCEPT ![t] = Append(@, Frame(n))]
Return(t) == stack' = [stack EXCEPT ![t] = Advanced(@)]
Leave(t) == stack' = [stack EXCEPT ![t] = Advanced(Front(@))]

Tell(n) == told' = [told EXCEPT ![n] = cmd]

-----------------------------------------------------------------------------
(* The command handlers, run by the caller's thread.                        *)

\* The end of the root's list.
RootEnd ==
  /\ AtEnd("caller") /\ Top("caller").node = "vui" /\ Leave("caller")
  /\ UNCHANGED <<listVars, resVars, apiVars, audioVars, workerVars, hpc, told>>

\* __pipeline_accept_ctrl of aec.c passes the command on.
AecCommand ==
  /\ \/ Calls("caller", "aec") /\ Enter("caller", "aec") /\ told' = told
     \/ AtEnd("caller") /\ Top("caller").node = "aec" /\ Leave("caller") /\ Tell("aec")
  /\ UNCHANGED <<listVars, resVars, apiVars, audioVars, workerVars, hpc>>

\* audioin's handler, START: the nodes after it first.
AudioInStart ==
  /\ cmd = "start" /\ Calls("caller", "audioin") /\ Enter("caller", "audioin")
  /\ UNCHANGED <<listVars, resVars, apiVars, audioVars, workerVars, hpc, told>>

\* ... then the worker, and at last the stream, which may fail to start.
AudioInStarted ==
  /\ cmd = "start" /\ AtEnd("caller") /\ Top("caller").node = "audioin"
  /\ Leave("caller") /\ Tell("audioin")
  /\ pipe' = "start" /\ sem' = SemSignal(sem, <<"audioin", "sem_starting">>)
  /\ stream' \in {"started", "stopped"}
  /\ UNCHANGED <<listVars, apiVars, workerVars, held, failed, hpc, audio>>

\* STOP: the stream first, then the worker is asked.
AudioInStop ==
  /\ cmd = "stop" /\ Calls("caller", "audioin") /\ hpc = "run" /\ hpc' = "wait"
  /\ stream' = "stopped" /\ pipe' = "stop"
  /\ stopping' = [stopping EXCEPT !["audioin"] = TRUE]
  /\ UNCHANGED <<listVars, resVars, apiVars, stack, told, audio, running, worker>>

\* ... waited for, its ring cleared, and the nodes after it stopped.
AudioInStopped ==
  /\ Calls("caller", "audioin") /\ hpc = "wait" /\ hpc' = "run"
  /\ SemReturns(sem, <<"audioin", "sem_stopped">>)
  /\ sem' = SemTaken(sem, <<"audioin", "sem_stopped">>)
  /\ audio' = FALSE /\ Enter("caller", "audioin")
  /\ UNCHANGED <<listVars, apiVars, workerVars, held, failed, told, stream, pipe>>

AudioInStopEnd ==
  /\ cmd = "stop" /\ AtEnd("caller") /\ Top("caller").node = "audioin"
  /\ Leave("caller") /\ Tell("audioin")
  /\ UNCHANGED <<listVars, resVars, apiVars, audioVars, workerVars, hpc>>

\* The handlers of lasr.c and rasr.c ask their worker to begin or to end.
RecogniserAsk(n) ==
  /\ Calls("caller", n) /\ hpc = "run" /\ hpc' = "wait"
  /\ IF cmd = "start"
     THEN sem' = SemSignal(sem, <<n, "sem_starting">>) /\ UNCHANGED stopping
     ELSE /\ sem' = SemSignal(sem, <<n, "sem_stopping">>)
          /\ stopping' = [stopping EXCEPT ![n] = TRUE]
  /\ UNCHANGED <<listVars, apiVars, audioVars, held, failed, stack, told, running, worker>>

\* ... and wait for it.
RecogniserAnswered(n) ==
  /\ Calls("caller", n) /\ hpc = "wait" /\ hpc' = "run"
  /\ LET s == <<n, IF cmd = "start" THEN "sem_started" ELSE "sem_stopped">>
     IN  SemReturns(sem, s) /\ sem' = SemTaken(sem, s)
  /\ Tell(n) /\ Return("caller")
  /\ UNCHANGED <<listVars, apiVars, audioVars, workerVars, held, failed>>

Command ==
  \/ RootEnd \/ AecCommand
  \/ AudioInStart \/ AudioInStarted
  \/ AudioInStop \/ AudioInStopped \/ AudioInStopEnd
  \/ \E n \in Recogniser : RecogniserAsk(n) \/ RecogniserAnswered(n)

-----------------------------------------------------------------------------
(* The other threads.                                                       *)

\* The memcpy of RingBufferWrite, to bytes that could not be allocated.
Writes(n) == pc' = IF Holds(n, "bytes") THEN pc ELSE "aborted"

\* The callback of the stream brings a frame.
Callback ==
  /\ stream = "started" /\ ~audio /\ audio' = TRUE /\ Writes("audioin")
  /\ UNCHANGED <<listVars, resVars, walkVars, workerVars, todo, cmd, starts, status, stream,
                 pipe>>

Goes(n, to) == worker' = [worker EXCEPT ![n] = to]

\* __audioin_worker: the head of its loop, where it leaves it or answers STOP.
AudioInTop ==
  /\ worker["audioin"] = "top"
  /\ IF ~running["audioin"]
     THEN Goes("audioin", "gone") /\ UNCHANGED stopping
          /\ sem' = SemSignal(sem, <<"audioin", "sem_worker_thread">>)
     ELSE IF pipe = "start"
     THEN Goes("audioin", "look") /\ UNCHANGED <<stopping, sem>>
     ELSE /\ Goes("audioin", "wait")
          /\ stopping' = [stopping EXCEPT !["audioin"] = FALSE]
          /\ sem' = IF stopping["audioin"]
                    THEN SemSignal(sem, <<"audioin", "sem_stopped">>) ELSE sem
  /\ UNCHANGED <<listVars, callVars, audioVars, held, failed, running>>

\* The timed wait.
AudioInWait ==
  /\ worker["audioin"] = "wait" /\ Goes("audioin", "look")
  /\ sem' = SemTaken(sem, <<"audioin", "sem_starting">>)
  /\ UNCHANGED <<listVars, callVars, audioVars, held, failed, running, stopping>>

\* The second look at the status; a frame is read and pushed.
AudioInLook ==
  /\ worker["audioin"] = "look"
  /\ IF pipe = "start" /\ audio
     THEN Goes("audioin", "push") /\ audio' = FALSE /\ Enter("audioin", "audioin")
     ELSE Goes("audioin", "top") /\ UNCHANGED <<audio, stack>>
  /\ UNCHANGED <<listVars, resVars, apiVars, hpc, told, stream, pipe, running, stopping>>

\* PipelinePushData calls the handlers of the nodes: aec passes the frame on ...
AecData == Calls("audioin", "aec") /\ Enter("audioin", "aec") /\ UNCHANGED <<pc, worker>>

\* ... a recogniser puts it into its ring.
RecogniserData(n) ==
  Calls("audioin", n) /\ Return("audioin") /\ Writes(n) /\ UNCHANGED worker

PushReturns ==
  /\ AtEnd("audioin") /\ Leave("audioin") /\ UNCHANGED pc
  /\ IF Len(stack["audioin"]) = 1 THEN Goes("audioin", "top") ELSE UNCHANGED worker

AudioInPush ==
  /\ worker["audioin"] = "push"
  /\ AecData \/ PushReturns \/ \E n \in Recogniser : RecogniserData(n)
  /\ UNCHANGED <<listVars, resVars, audioVars, todo, cmd, hpc, told, starts, status,
                 running, stopping>>

\* __lasr_worker and __rasr_worker: the head of the loop, and the wait for START.
RecogniserTop(n) ==
  /\ worker[n] = "top"
  /\ IF running[n] THEN Goes(n, "wait") /\ sem' = sem
     ELSE Goes(n, "gone") /\ sem' = SemSignal(sem, <<n, "sem_worker_thread">>)
  /\ UNCHANGED <<listVars, callVars, audioVars, held, failed, running, stopping>>

RecogniserBegin(n) ==
  /\ worker[n] = "wait" /\ SemReturns(sem, <<n, "sem_starting">>) /\ Goes(n, "session")
  /\ sem' = SemSignal(SemTaken(sem, <<n, "sem_starting">>), <<n, "sem_started">>)
  /\ UNCHANGED <<listVars, callVars, audioVars, held, failed, running, stopping>>

\* __lasr and __rasr: a session ends when the flag is up, and only then; the token
\* of sem_stopping is there before the flag.
RecogniserEnd(n) ==
  /\ worker[n] = "session" /\ stopping[n] /\ Goes(n, "top")
  /\ stopping' = [stopping EXCEPT ![n] = FALSE]
  /\ sem' = SemSignal(SemTaken(sem, <<n, "sem_stopping">>), <<n, "sem_stopped">>)
  /\ UNCHANGED <<listVars, callVars, audioVars, held, failed, running>>

AudioInWorker == AudioInTop \/ AudioInWait \/ AudioInLook \/ AudioInPush

RecogniserWorker(n) ==
  RecogniserTop(n) \/ RecogniserBegin(n) \/ RecogniserEnd(n)

-----------------------------------------------------------------------------

Alive == pc # "aborted"

Api ==
  \/ \E mode \in Mode : VuiStart(mode)
  \/ VuiStop \/ VuiDestroy

\* What the caller's thread does of itself once a function has been called.
Calling ==
  \/ Obtain \/ Fail \/ CreateDone \/ Undo \/ UndoDone
  \/ LinkStep \/ Launch \/ Command \/ Pushed \/ UnlinkStep \/ Unlinked

Next ==
  /\ Alive
  /\ \/ Api \/ Calling \/ Callback \/ AudioInWorker
     \/ \E n \in Recogniser : RecogniserWorker(n)

\* Every thread that can run does in the end; nobody has to call, and no audio has
\* to come.
Spec ==
  /\ Init /\ [][Next]_vars
  /\ WF_vars(Alive /\ Calling)
  /\ WF_vars(Alive /\ AudioInWorker)
  /\ \A n \in Recogniser : WF_vars(Alive /\ RecogniserWorker(n))

-----------------------------------------------------------------------------
(* Properties.                                                              *)

\* VuiCreate makes a whole interface or nothing: what it returns has all its
\* modules, and when it returns NULL, as when VuiDestroy returns, nothing that was
\* allocated on the way is left, whichever allocation failed.  Nor is a thread, but
\* one whose last semaphore could not be created, which is not waited for.
AllOrNothing ==
  /\ pc \in {"idle", "link", "push", "unlink"} =>
       /\ \A n \in Node : Holds(n, "handle")
       /\ \A r \in Range(VuiBuild) \ failed :
            CASE r[2] = "thread" -> worker[r[1]] \notin {"none", "gone"}
              [] r[2] \in SemName -> sem[r] # NoHandle
              [] OTHER -> r \in held
  /\ pc = "gone" =>
       /\ held = {} /\ \A s \in SemId : sem[s] = NoHandle
       /\ \A n \in Worker :
            <<n, "sem_worker_thread">> \notin failed => worker[n] \in {"none", "gone"}

\* No thread uses what has been freed: a worker its handle and its ring, the
\* callback those of audioin and the wrapper, a walk the nodes it is at.  Only a
\* worker whose semaphore could not be created is not waited for.
NoUseAfterFree ==
  /\ \A n \in Worker :
       worker[n] \notin {"none", "gone"} /\ <<n, "sem_worker_thread">> \notin failed
         => Holds(n, "handle") /\ Holds(n, "ring")
  /\ stream = "started" =>
       Holds("audioin", "wrapper") /\ Holds("audioin", "handle") /\ Holds("audioin", "ring")
  /\ <<"audioin", "sem_worker_thread">> \notin failed =>
       \A t \in DOMAIN stack : \A i \in DOMAIN stack[t] :
         Holds(stack[t][i].node, "handle") /\ Holds(stack[t][i].at[1], "handle")

\* Between calls every node that is linked has been started, and every other one
\* has been stopped or never started: a command reaches each node by its links,
\* whatever the mode and whatever the last mode was.
EveryNodeTold ==
  pc = "idle" =>
    \A n \in Node \ {"vui"} :
      told[n] = "start" <=> status = "started" /\ pre[n] # NoNode

\* vui.c connects only nodes that are initialised and in no list, as Pipeline
\* asks of its caller.
PipelineAsAlone == P!Init /\ [][UNCHANGED listVars \/ P!Next]_vars

Tree == INSTANCE PipelineTree WITH after <- [n \in Node |-> P!After(n)]

\* A step on the pointers is a step of the tree or none.
TreeStep == (\A n \in Node : P!After(n)' = P!After(n)) \/ Tree!Next

\* The pointers of the lists implement the tree that vui.c means.
LinksAsTree == Tree!Init /\ [][UNCHANGED listVars \/ TreeStep]_vars

\* The caller waits for the end of recogniser n, whose worker waits for a START (lasr)
\* or is in a session that no STOP has ended (lasr or rasr, which does not wait for
\* START).  Only the caller could send either, so neither comes.
JoinsForEver(n) ==
  /\ pc = "destroy" /\ todo # <<>> /\ Head(todo) = <<n, "join">> /\ ~Joined(n)
  /\ \/ worker[n] = "wait" /\ ~SemReturns(sem, <<n, "sem_starting">>)
     \/ worker[n] = "session" /\ ~stopping[n]

\* Every call of the interface returns, whichever allocation failed, or takes a
\* recogniser apart whose worker cannot end: VuiDestroy, and VuiCreate too, which is
\* to return NULL, when it takes apart what it has made.  Not if audioin's STOP had no
\* semaphore to wait on: the lists are then cleared under a walk of its worker, which
\* may never find its end, and VuiDestroy waits for that worker.
CallsReturn ==
  pc # "destroy" \/ <<"audioin", "sem_stopped">> \notin failed
    ~> pc \in {"idle", "gone", "aborted"} \/ \E n \in Recogniser : JoinsForEver(n)

=============================================================================
