# voice-sdk: a TLA+ model, its checks and its proofs

voice-sdk is a C program that captures audio with PortAudio, cuts it into
frames of 512 bytes, sends them down a small pipeline to speech recognisers, and
relaunches the whole pipeline whenever the local recogniser reports a result.
Its difficulty is not in its data but in its threads. Six meet in it, almost
without locks:

| thread | created in | what it does |
|---|---|---|
| main | `app.c` | creates everything, calls `VuiStart` once, then sleeps |
| event loop | `event_loop.c:220` | handles results; each one calls `VuiRelaunch` |
| PortAudio callback | `portaudio_wrapper.c:76` | writes audio into the ring of audioin |
| audioin worker | `audioin.c:145` | reads frames, pushes them down the pipeline |
| lasr worker | `lasr.c:178` | takes frames out of its ring, posts results |
| rasr worker | `rasr.c:150` | the same for the remote recogniser, still a stub |

## 1. Inventory

### Components, their state, their operations

| component | state | operations |
|---|---|---|
| ring buffer, `utils/ringbuf` | bytes, `head`, `tail`, `size` | create, write, read, peek, clear, sizes |
| pipeline, `utils/pipeline` on `utils/list_head` | each node's list of the nodes after it | init, connect, disconnect, clear, push data, push command |
| audio input, `sdk/vui/src/audioin` | running, status, stop flag, three semaphores, a ring, the stream | START, STOP, callback, worker, create, destroy |
| echo cancellation, `sdk/vui/src/aec` | none of its own | passes on data and commands |
| local recogniser, `recognize/src/lasr.c` | running, stop flag, `vui_id`, six semaphores, a ring, a frame counter | START, STOP, data, worker, create, destroy |
| remote recogniser, `recognize/src/rasr.c` | the same, but four of its semaphores are never created | the same |
| voice interface, `sdk/vui/src/vui.c` | `status`, `vui_id` (five bits), the links | create, destroy, start, stop, relaunch, out of date? |
| event loop, `utils/event_loop` | three lists with counters, `running`, a mutex and a condition | create, destroy, add, clear, its thread |
| application, `app/src/app.c` | the two handles | main, router, handler, free handler |
| porting layer, `hal` | semaphores and mutexes behind a pointer | new, free, wait, signal, thread, sleep |
| logger, `utils/logger` | configuration, a file and its mutex | initialise, finalise, set the level, write a line |
| cJSON (vendored, unused), `sdk/engine` (empty), `3rd` (PortAudio) | | |

### How they interact

Commands and data travel by function calls along the links
`vui -> audioin -> aec -> {rasr, lasr}`. A command is run by the thread that
called vui.c, all the way to the last node; a frame is pushed by the worker of
audioin into the rings of the recognisers. Each node's command handler
synchronises with its own worker: audioin over a flag, a status and two
semaphores, lasr over a flag and four semaphores, rasr (by mistake) not at all.
A result goes to the event loop, whose thread calls `VuiRelaunch`, that is STOP,
unlink, link and START, in which it waits for every thread the result came
through.

### What is hard, and what makes each part correct

- *Ring*: a writer and a reader at once with no lock. Correct when they never
  touch the same byte and the ring looks like a FIFO queue to both.
- *Clear*: needs the writer and the reader stopped. This is what the handshakes
  of STOP and START are for. Correct when a clear is alone.
- *Handshakes*: flags and counting semaphores, some waited on with a timeout.
  Correct when every command returns, after the worker has answered it, and no
  token or flag is left that a later command could mistake for its own.
- *Sessions*: a frame, a result and a `vui_id` belong together. Correct when no
  audio of one session reaches a recogniser in the next, and a result says which
  session it is of, although `vui_id` wraps after 32.
- *Relinking*: the links are plain lists that one thread changes and another
  walks. Correct when they never do so at once.
- *Relaunch from the event loop*: threads wait for each other in a chain.
  Correct when the chain is no circle.
- *Event loop*: two looks at the lists around a lock, two threads that empty
  them. Correct when no event is lost, freed twice or slept on.
- *Create and destroy*: `VuiCreate` starts threads module by module, and any
  allocation on the way may fail; destroy waits for a worker, then frees what it uses.
  Correct when a call makes all or nothing and no thread uses what is freed.
- *Lists*: intrusive, unchecked, linked and unlinked through the same pointers for
  ever. Correct when neighbours agree and no node is in two lists.
- *Semaphores*: a handle that may be null, a wait that may time out, and nobody who
  looks at what either returns.
- *Log*: a line cut to a buffer nobody has cleared, and a file that threads share.
  Correct when each line ends, is whole in the file, and is one the level lets pass.

`PROJECT.json` lists these hazards one by one, with their lines, under
"hazards".

## 2. The modules

| module | models | built on |
|---|---|---|
| `RingBuf` | the index arithmetic of `ringbuf.c` | |
| `RingBufThreads` | one ring, a writer and a reader, byte by byte | `RingBuf` |
| `ByteFifo` | what the ring promises: a bounded queue of bytes | |
| `RingBufThreadsProofs` | proofs about the three above | |
| `Lasr` | `lasr.c` with its three threads | whole frames in the ring |
| `LasrProofs` | proofs about `Lasr` | |
| `AudioIn` | `audioin.c` and `portaudio_wrapper.c` with their three threads | units of audio in the ring |
| `AudioInProofs` | proofs about `AudioIn` | |
| `Rasr` | `rasr.c`, each load and store of the ring's indices a step | `RingBuf` |
| `RasrProofs` | proofs about `Rasr` | |
| `EventLoop` | `event_loop.c` | |
| `VuiSystem` | `vui.c` and `app.c`, with `AudioIn` and `Lasr` in full | instances `A` and `L` |
| `VuiSystemProofs` | proofs about `VuiSystem` | instances `AP` and `LP` of `AudioInProofs` and `LasrProofs` |
| `ListHead` | the macros of `list_head.h` on `next` and `prev` | |
| `PipelineTree` | what the pipeline promises: a tree of links | |
| `Pipeline` | `pipeline.c`: nodes on those lists | `ListHead`, refines `PipelineTree` |
| `Porting` | `porting.c`: semaphores and deadlines | |
| `VuiLife` | `VuiCreate` to `VuiDestroy` and every constructor, destructor and command handler beneath | `Porting`, instance `P` of `Pipeline` |
| `VuiLifeProofs` | proofs about `ListHead`, `Pipeline` and `VuiLife` | |
| `Logger` | `log.c` | |
| `LoggerProofs` | proofs about `Logger` | |
| `EventLoopProofs` | proofs about `EventLoop` and about the deadlines of `Porting` | |
| `MC*` | instances for TLC | |

Names follow the code. A variable `cpc`, `dpc`, `wpc`, `bpc`, `lpc`, `kpc` is the
place of one thread in its code; an action is the code between two places where
another thread can change what it reads. Definitions whose comment begins with
"Mutant" are deliberately wrong variants of the definition after them: replacing
one by the other breaks the property named beside it in `PROJECT.json`, which
shows that the property depends on the code being as it is.

### The ring (`RingBuf`, `RingBufThreads`, `ByteFifo`)

`RingBuf` takes `head` and `tail` as parameters, for its users read and write
them from different threads. `RingBufThreads` gives a write three kinds of steps:
look at both indices (`_ring_buffer_write`), copy one byte (`memcpy` of
`_write_internal`, with its two branches in `CellOf`), move `head`. A read has the
same and moves `tail`, unless it is a peek. The steps of the two interleave.
`ByteFifo` is the abstract queue, and `FifoSpec` says that the ring implements it
with `queue <- Contents`, the bytes between `tail` and `head`. A transfer copied
byte by byte is therefore, to its users, one step. The other modules rely on it.

### The recognisers (`Lasr`, `Rasr`)

`Lasr` holds whole frames: the ring's size is a multiple of the frame, each
transfer is one frame, and each transfer is one step by the refinement above,
provided that the ring is cleared between transfers, which is the invariant
`ClearAlone` of this module. A frame is the number of the session it was captured in.
`uni_sem_wait` with a timeout returns with a token or without one. Test and reset
of `lasr_stopping` are one step because the only other writer waits for the
reset.

`Rasr` cannot be written so. `__worker_launch` creates two of six semaphores, and
the other four have a null handle, on which `uni_sem_wait` and `uni_sem_signal`
return an error that nobody looks at. START clears the ring while the worker
may be reading it. So the ring is kept as `buf`, `head` and `tail`, and a read takes
the loads and stores of `ringbuf.c` one by one, as the default build without
optimisation does. Its `DataWrite` is still one step: only the data thread moves
`head` then, since no command runs while a frame is pushed (`LinksStable`,
`LasrAsAlone`).

### Audio input (`AudioIn`)

The callback writes chunks of any length, so the ring holds units, `FrameUnits`
to a frame. `StartStream` may fail, as the handler ignores what
`AudioWrapperStart` returns. `Pa_StopStream` begins no more callbacks and
returns when the one under way has (`StopStream`, `StopJoin`). The callback has no
return statement; as built its value is that of the disabled log call,
`paContinue`.

### The event loop (`EventLoop`)

What runs under the mutex is one step; the look at the counters before it, the
handler and the free are steps of their own. `EventLoopClear` runs in a thread
beside the loop.

### The system (`VuiSystem`)

Main and the event loop's thread run `vui.c`; both go through the program
counter `pc`. The instances `A` and `L` take all their steps here, with what
they call: a command that audioin pushes is a call into lasr's handler, and
audioin's next step waits until it has returned; a frame likewise. aec passes on
what it gets, and rasr's handlers never wait and post nothing, so both are left
out. A result in the queue carries its `vui_id` and, for the properties only, its
age in sessions. The links are a set here; their pointers are in `VuiLife`.

`AudioIn` and `Lasr` alone assume callers that alternate START and STOP, give each
START a new number and push no frame outside a session. The properties
`AudioInAsAlone` and `LasrAsAlone` check that each step of the program is a step of
the module alone, so what is checked of the modules holds in the program.

### The lists and the pipeline (`ListHead`, `Pipeline`, `PipelineTree`)

A node of the pipeline has two cells, `link` and `rear_list`; a memory is the two
functions `next` and `prev` on cells. The operators of `ListHead` are the macros,
store by store, and `Pipeline` has one action for each function that changes
links; `PipelineClear` takes its nodes out one at a time. A push does not
change links: it is a walk, and `After` is the order in which it calls. Zeroed memory
is a cell whose pointers are `Null`. The functions do not look at what they are
given; `Next` says what they need of the caller, and `PipelineAsAlone` of `VuiLife`
checks that vui.c gives it. `PipelineTree` has the same operations on sequences of
nodes; that the pointers implement it is proved for any nodes (`PointersAsTree`), and
`LinksAsTree` checks it of the links that vui.c makes.

### The life of an interface (`VuiLife`, `Porting`)

`VuiBuild` is all that `VuiCreate` allocates, in order, from the handle to the six
semaphores of lasr and the thread of rasr; `Obtain` and `Fail` are the two ends of
one allocation. What a failure does differs: a handle is missing and the module with
it; a semaphore, or the bytes of a ring, is not missed until later; anything else
ends the program (`pc = "aborted"`). `VuiUndo` is `__destroy_vui_handle`, and
`VuiCreate` runs it too when a module is missing.

Commands and frames walk the real lists: `stack` has, for the calling thread and for
the worker of audioin, one frame for each list being walked, with the cell it is at,
and `p = p->next` is read when a handler returns. The handlers and workers have the
steps that matter to what they hold and wait for; stores that no other thread
can tell apart here are one step, as `AudioIn` and `Lasr` check them one by one.
`Porting` says what a semaphore does when its handle is null, which lets rasr's four
missing semaphores and a failed `uni_sem_new` be the same thing.

### The log (`Logger`)

A byte of a line's buffer is what it is for: prefix, text, newline, terminator, or
unset, as the buffer is on the stack. The parts before the message are one length.
A byte of the file is the line it is of. `LogInitialize` is three steps, since threads
look at the descriptor without the mutex, and `Restart` is a process that ends
anywhere and begins again on the same file, which is neither truncated nor appended to.

## 3. The runs

| run | configuration | bounds | shows |
|---|---|---|---|
| `ring` | `MCRingBufThreads` | 3 bytes, 2 values, requests up to 3 | no race, no misfit, FIFO, at each of the 4 offsets |
| `lasr` | `MCLasr` | 3 sessions, ring of 2 frames, a result every 2 | handshake, sessions, liveness, no use after destroy |
| `lasr_destroy` | `MCLasrDestroy` | 2 sessions | `LasrDestroy` hangs |
| `audioin` | `MCAudioIn` | 3 sessions, frames of 2 units, ring of 4, chunks up to 3 | what STOP and START leave, frames of one session, STOP answered once, liveness |
| `rasr` | `MCRasr` | 2 sessions, frames of 2 units, ring of 2 frames | indices stay in range; only a raced clear makes a copy overrun or lets old audio in |
| `rasr_frame` | `MCRasrFrameOfSession` | the same | that race does let old audio in |
| `eventloop` | `MCEventLoop` | 3 events, 3 priorities | ownership, wake-up, the highest list served, shutdown |
| `vui` | `MCVuiSystem` | 4 ids, 2 results waiting or on their way, rings of one frame | two threads in vui.c, links, ids that wrap, relaunches that end, modules as alone |
| `vui_stale` | `MCVuiSystemStale` | 4 ids, 2 results | a stale result relaunches |
| `vui_mode` | `MCVuiSystemMode` | `rasr_only` | the mode is not looked at |
| `vui_life` | `MCVuiLife` | any one failure, 2 starts, both sets of links | create is all or nothing, destroy in any state, no use after free, commands reach the linked, pointers as a tree, calls return but for finding 1 |
| `logger` | `MCLogger` | 2 threads, 2 lines each, buffer of 4 bytes, levels 0 and 4, 2 runs | ends of lines, the mutex, whole lines in the file, lines above the level |

Why the bounds are enough. A ring of three bytes is allocated as four, so
requests of 0 to 3 bytes wrap at every offset, end on the end of the
allocation, and fill it; the theorems below are for every size. Two sessions
differ, and with a third a number can come back. A ring of two frames can be
empty, half full and full. In `AudioIn` chunks shorter and longer than a frame
put frame boundaries anywhere. In `Rasr` the allocation (five units) is no multiple
of the frame (two), as in the code (60 * 512 + 1 and 512). Three events put one in
each pair of hands and one in a list. In `VuiSystem` one result is handled while two
wait, or one waits and a frame that will give a third is on its way, so a waiting result
gets two sessions old before the four ids wrap. In `VuiLife` a failure is any one of
the 28 resources; the theorems about it are for any number of failures. Two starts
in different modes show whether the first leaves a link behind. A buffer of four bytes
after a prefix of one has messages that leave room for both newline and terminator, for
one, and for none. `MaxTokens`, `MaxEvents`, `MaxChunk` and
`MaxLen` bound what the code leaves open: tokens of a semaphore whose waits
return in any case, results under way, lengths of chunks and requests.

Fairness. A thread that can take a step does so in the end (`WF` on each
thread's actions): the scheduler's promise, and for a timed wait the timer's. No
fairness is assumed of callers, of the microphone (except that a callback that has
begun returns) or of `Add`. No run needs strong fairness. In `VuiLife` each
thread has its fairness, and the caller is only obliged to go on with a call it
has made. Deadlock is checked where nothing is destroyed; a destroyed handle does stop,
and there the liveness properties say that what was begun ends. A behaviour of `Rasr` also
stops at "overrun", where the code's is undefined. `Logger` has no
liveness: its threads stop after `MaxLines`.

### Findings

The runs that expect a violation each show a difference between the code and
what the repository says of it:

1. `lasr_destroy`: `LasrDestroy` never returns. The worker waits for ever for a START
   (`lasr.c:152`) that does not come, so it does not see `worker_running`. `VuiDestroy`
   hangs with it, and so does a `VuiCreate` that cannot make a later module and takes
   lasr apart (`vui.c:102`) where the header promises NULL. In a session nobody has
   stopped, the worker of either recogniser is waited for in vain in the same way; rasr's
   is soon in one again after a STOP, as its wait for START returns at once. `CallsReturn`
   of `vui_life` names these two places of a worker (`JoinsForEver`), and shows that
   every other call returns, but for a destroy after an audioin's STOP that had no
   semaphore to wait on (section 4).
2. `rasr_frame`: four of the six semaphores of rasr are not created
   (`rasr.c:142-152`), so its START and STOP do not wait for its worker, START clears
   the ring in the middle of a read, and a frame of the previous session, or one that
   is shifted, can be recognised in the next. If the clear falls between two lines of
   `_read_internal` (`ringbuf.c:90` and `93`), `remain` is the whole allocation: the
   `memcpy` of line 94 overruns the 512 bytes of the worker's stack, and that of line 95
   has a negative length and reads outside the allocation. The model's behaviours end
   there, at "overrun".
3. `vui_stale`: a result that is out of date relaunches the session that followed it
   (`app.c:43-46`); what `VuiEventOutOfDate` returns is only logged.
4. `vui_mode`: `__lasr_on` (`vui.c:122`) is true for every mode.

## 4. The proofs

`RingBufThreadsProofs` proves, for every capacity, every set of bytes and every
bound on requests:

| theorem | says |
|---|---|
| `TypeCorrect` | `Spec => []TypeOK`: no index leaves the allocation |
| `TransfersStayFit` | `Spec => []TransfersFit` |
| `DataRaceFreedom` | `Spec => []NoDataRace` |
| `RingIsFifo` | `Spec => FifoSpec`: the refinement of `ByteFifo` |

They assume only `CapAssumption` (`RingBufferCreate` refuses a size that is not
positive), `ByteAssumption` (there is a byte) and `MaxLenAssumption`.

`NoDataRace` is not inductive: it says nothing of a transfer that has been
checked but whose counterpart has not begun. The invariant is `TypeOK /\
TransfersFit`: a write under way still fits the free bytes, a read under way still
fits the data, and what each has copied is where it belongs. It survives the other
thread's steps because a read only adds to the free bytes and a write only adds to
the data. From it follows that the cells of the two are disjoint (`RaceFree`), as a
free cell is not an unread one. For the refinement, the step that moves `head`
appends the chunk to `Contents`, the step that moves `tail` drops what was read,
and all the others leave `Contents` alone: the bytes copied before an index
moves are outside it.

The module begins with the arithmetic. `%` is removed once and for all: `DataSize`
and `FreeSize` become sums and differences (`SizesLinear`), an index that advances
wraps at most once (`AfterLinear`), and the two `memcpy` branches address the cell
`i` places on (`CellIsAfter`). The rest is linear arithmetic.

`LasrProofs` proves, for every ring size, period, set of session numbers and bound
on the data tokens, with `LasrDestroy` called between any two commands:

| theorem | says |
|---|---|
| `HandshakeHolds` | `LifeSpec => []IInv`, the inductive invariant below |
| `TypeCorrect` | `LifeSpec => []TypeOK`: among others, no handshake semaphore is posted twice |
| `ClearsAlone` | `LifeSpec => []ClearAlone`: what `RingBufThreads` asks of the caller of clear |
| `ResultsNameTheirSession` | `LifeSpec => []ResultSession` |
| `QuietBetweenSessions` | `LifeSpec => []QuietAfterStop` |
| `HandshakesAreClean` | `LifeSpec => []NoLeftovers` |
| `FreedWhenGone` | `LifeSpec => []NoUseAfterDestroy` |

They assume the four assumptions of `Lasr` on its constants, and what `LifeSpec`
says of the callers. None of the properties is inductive: that the worker is parked
when START clears the ring depends on the STOP before it having waited for the right
token. The invariant has four parts. `Handshake` says, for each place of the
control thread, which token exists, whether the flag is up and where the worker may
be: there is never more than one token, and it is the one the other side waits
for. `Exit` says when the worker may leave its loop. `Fresh` says that the frames in the
ring and in the worker's hands are of the present session, and that room found for a
frame is still there when it is written. Each action has a lemma that it keeps the
four, one step for each.

`AudioInProofs` proves, for every ring, frame and chunk size and every set of session
numbers, with `AudioInDestroy` called between any two commands:

| theorem | says |
|---|---|
| `TypeCorrect` | `LifeSpec => []TypeOK`: among others, the ring never holds more than its size |
| `StopClearsAlone` | `LifeSpec => []ClearAlone`: what `RingBufThreads` asks of the caller of clear |
| `FramesOfOneSession` | `LifeSpec => []FrameOfOneSession` |
| `StopsAnsweredOnce` | `LifeSpec => []AnsweredOnce` |

Here START is no handshake: nobody waits for its token, which the worker may take long
after, or never. So the invariant says nothing of that token. `OneRequest` says that the
request of STOP is in one place, the flag, the worker or the token of the answer, and
`WorkerSettles` that between the answer and the next START the worker cannot be past its
second look at the status. `Said` ties the status to the place of the control thread,
`Producer` the callback to the stream, and `Fresh` says that the ring is empty between
sessions and that all that is in it, or in the worker's hands, is of this session.

`RasrProofs` proves, for every size of a frame and of the ring and every set of session
numbers, with `RasrDestroy` called between any two commands:

| theorem | says |
|---|---|
| `TypeCorrect` | `LifeSpec => [](TypeOK /\ CopyFits)`: although START clears the ring in the middle of a read, no index leaves the allocation, nor does a copy of no more than a frame |
| `CleanUnlessClearMetRead` | `LifeSpec => []CleanUnlessMet`: the race of START with a read is the only way a copy gets longer than a frame, and so overruns the worker's stack and leaves the allocation, and the only way an earlier session's audio gets into a session |

Nothing keeps the control thread and the worker apart here, so the invariants follow a
read load by load. For the types it is enough to know what a clear leaves of a copy:
`tail` only ever becomes smaller, so a copy whose two parts fitted still fits
(`CopyFits`). One that took its branch by one value of `tail` and its length by another
need not have fitted: this is the overrun, and a read that no clear has met cannot come to
it (`ReadInv`). For the session, if START has met no read, the ring holds whole frames and
each cell has the unit that its distance from `tail` asks for (`RingFresh`), and the
worker, whose copy of `head` may be out of date, has too little of it and never too much
(`WorkerFresh`). That needs a little arithmetic of remainders by the size of a frame
(`FrameMore`, `FrameBegins`), and again that `%` by the size of the ring is a wrap.

`VuiSystemProofs` proves of the whole program, for every number of ids, size of the rings
and of the event loop's lists:

| theorem | says |
|---|---|
| `AudioInImplemented` | `Spec => AudioInAsAlone`: in the program `AudioIn` is called as it asks |
| `LasrImplemented` | `Spec => LasrAsAlone`: and so is `Lasr` |
| `ModulesHoldInTheProgram` | `Spec => []` of the safety properties of both modules, in the program |
| `OneCommands` | `Spec => []OneCommander` |
| `LinksStayStable` | `Spec => LinksStable` |
| `OutOfDateNear` | `VuiEventOutOfDate` is exact of every result fewer than `IdCount` sessions old |
| `OutOfDateTold` | `Spec => []OutOfDateExact`, if `MaxEvents + MaxChunk < IdCount` |

The two refinements go round in a circle if each is to be proved first: that no frame
reaches lasr outside a session needs the worker of audioin to be settled after STOP,
which is an invariant of `AudioIn` when it is called as it asks. So the invariant has
three parts, `SysInv` about `vui.c` (the place of each thread, the command and the frame
that are being pushed, the numbers) and the inductive invariants of `AudioInProofs` and
`LasrProofs`, taken as instances. From a state that has all three, each step of the
program is a step of each module or leaves its variables alone (`StepAlone`), and then the
lemmas of those modules say that their parts are kept. `ModulesHoldInTheProgram` draws
the conclusion.

That a result's age stays below what five bits count is no matter of one step either.
The number changes only by a relaunch, which takes a result out of the queue. So each
step that makes a result older also brings it nearer to its turn, and its age, its place
in the queue and the relaunch whose START is still to come never add up to more than a
bound (`AgeInv`). A new result enters within that bound because the queue and the frames
in the rings and in hands are never more than the event loop and a chunk together
(`WorkInv`). The bound, `MaxEvents + MaxChunk < IdCount`, is the only hypothesis of
`OutOfDateTold`. It is one about load, as nothing in the code limits what the event loop
holds; `OutOfDateNear` needs no such bound and says how far the filter can be relied on.

`VuiLifeProofs` proves first, for every set of nodes `N` with a null node `Z` that is none
of them, about `Lists(N, Z)`, which is `Pipeline` with these nodes:

| theorem | says |
|---|---|
| `ListsStaySound` | its `Spec => []ListsSound`: pointers of initialised cells lead to initialised cells, and those of neighbours agree |
| `ListsStayApart` | its `Spec => []ListsApart`: no walk strays into another list |
| `PointersAsTree` | `Lists(N, Z)!Spec => TreeOf(N, Z)!Spec`, if `N` is finite: the pointers implement `PipelineTree`, with `After` as the sequences |

What each macro does to any well linked memory is a lemma (`InitKeeps`, `AddKeeps`,
`DelKeeps`), which the operations cite. The invariant is the two
properties with the types of the memory: each needs the other, since a `list_del` of a
cell whose neighbours were of another list would join the two.

`PointersAsTree` is about walks, which are as long as the list, and so needs induction. An
induction theorem of the library takes a predicate as a parameter, which the provers
cannot instantiate, but that `<` on the numbers is well founded is a fact without one, and
from it follow the principle of the least number (`Least`) and induction for a set of numbers
(`Induct`). With these, the function by which `Visited` follows the pointers exists and
has the values it defines (`WalkExists`, `WalkSteps`, `VisitedIs`). The invariant
`Chained` says that some sequence of different nodes stands for each list (`Chain`), its
pointers leading from each node to the next and from the last to the head. A walk of such a
list ends, as it has no more cells than there are, and visits these nodes
(`ChainVisited`), so `After` is that sequence (`AfterChain`). What an operation does to
the sequences is then a matter of three or four pointers (`AfterInit`, `AfterConnect`,
`AfterUnlink`), and that is a step of the tree (`TreeStepped`).

Then, about `VuiLife`, for any number of failures and of starts:

| theorem | says |
|---|---|
| `AllOrNothingStays` | `Spec => []AllOrNothing` |
| `PipelineAsAloneHolds` | `Spec => PipelineAsAlone`: vui.c calls the pipeline as it asks, so the theorems above hold of its lists |
| `LinksAsTreeHolds` | `Spec => LinksAsTree`: what it makes of the pointers is `PipelineTree` |
| `NothingUsedAfterFree` | `Spec => []NoUseAfterFree` |
| `EveryNodeIsTold` | `Spec => []EveryNodeTold` |

They assume what the module assumes: the two bounds are natural numbers and the null
node is no node. The invariant is in five parts, each inductive with those before it:

- `LifeInv`: what is held. `VuiCreate` and `VuiDestroy` are sequences of calls, and in
  each the caller has come to some call (`BuiltTo`, `UndoneTo`): what the calls before it
  allocate is there unless it failed, what the later ones free is still there. A worker is
  at work only with its handle and ring, and has ended before its last semaphore is
  signalled (`Workers`), so that a destructor that has had the token may free them.
  `Streams` says the same of the callback.
- `ListInv`: what is linked. `Linking` says how far the caller has come in connecting the
  nodes of a mode or in clearing them, and `Shape` what the pointers then are, cell by
  cell. Hence a node that `PipelineConnect` is given is in no list.
- `Chained`, above, of the five nodes.
- `Walks`: a walk is at a cell that is in use, and only while all nodes are there.
  The worker of audioin walks only while it pushes a frame.
- `ToldInv`: a command's walk is at one of seven places (`Walked`), with the nodes
  it has told at each. A handler passes a command on before or after its own work, so
  the order is not that of the list.

If the semaphore of audioin's STOP could not be created, the lists are cleared under the
walk of audioin's worker, which may then go astray. It stays among cells in use, and
`VuiDestroy` frees no node before it has waited for the worker. Only if the semaphore of that
last wait is missing too is nothing said of it (`Awaited`), as in the property.

`LoggerProofs` proves, for any threads, lengths, levels, and size of buffer from two:

| theorem | says |
|---|---|
| `LinesAlwaysEnd` | `Spec => []LineEnds` |
| `MutexStaysSound` | `Spec => []MutexSound` |
| `OverAtMostOnce` | `Spec => []OverOnce` |
| `FileStaysWhole` | `Spec => []FileWhole` |

`LineEnds` is about the buffer as it is, and its invariant says that the buffer of a
thread with a line is one that `_log_assemble` has built; that such a buffer ends well
is the lemma `AssembledEnds`, by cases on how much room the message leaves. The next
two invariants say how far `LogInitialize` has come, and which line was let pass
by which level. `FileWhole` needs all of them but the last: a line's length is that of
a buffer that ends well, and the write is at the offset because the mutex had one owner
since it was read. Its own invariant adds that the line a thread is about to save is not
yet in the file (`InOrder`), so that the bytes of a line can be told by their tag, and
that nothing is written before the file is open (`WriteHere`), so that the lines a thread
could not save all come before those it did.

`EventLoopProofs` proves, for every set of events and any number of them in the lists:

| theorem | says |
|---|---|
| `EachEventHasOneOwner` | `Spec => []OneOwner` |
| `NoWakeupIsLost` | `Spec => []NoLostWakeup` |

Taking the first event out of a list is the same for the loop and for
`EventLoopClear`, and is one lemma (`TakenOut`). The invariant adds to `OneOwner` which
places of the two threads have an event in hand.

The last part of that module is about the deadlines of timed waits. It proves, for every
time and timeout: `SemDeadlineExact`, that `__sem_timedwait` waits until a valid time
exactly `msec` milliseconds away, and `DeadlinesAgree`, that `_set_ts` of the event loop,
which divides instead of carrying, gives the same. Both assume that the numbers do not
overflow.

What stays with TLC:

- liveness and fairness (`FullRingDrains`, `AudioFlows`, `RelaunchEnds`, `HighestServed`,
  `DestroyEnds`, `CommandsReturn`, `CallsReturn`), which is out of the prover's reach;
- the runs that expect a violation, each of one property that the code does not have.

All other properties of the runs are theorems.

## 5. What is not modelled

- The mutex of the porting layer (no caller) and `uni_sleep` (no effect on state); a
  wait interrupted by a signal (the program has no handler).
- Failures of allocations in the event loop and of a result, which end in an assertion or
  in an event that is lost.
- `EventLoopAdd` with a priority that is none of the three (no caller).
- A thread that logs after `LogFinalize` (nobody calls it), and what the log says.
- cJSON (no caller), `engine.c` (empty), PortAudio beyond what the wrapper uses of it.
- What audio means: `__do_lasr` and `__do_rasr` are stubs in the code.
- Weak memory: flags and indices are plain variables, and the models take each
  load and store in order. Between commands the semaphores order them.
- The width of `static int frame` in `__do_lasr`: 2^31 frames are more than a year of
  audio, and the model counts them modulo `Period`.

## 6. What could come next

The components with state are all modelled. Left of the plan:

1. An abstract session (closed, open, closing) that `Lasr` and `AudioIn` implement, in
   place of `AudioInAsAlone` and `LasrAsAlone`, which compare with the modules themselves.
2. The three lists of the event loop as pointers of `ListHead`, with a proof that they
   implement the sequences of `EventLoop`, as those of the pipeline implement its tree.
