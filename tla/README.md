# Verification of the TW5864 DVR software

TLA+ models of the DVR in this repository: the kernel driver of the TW5864
(ISIL5864) video chip under `src/driver/tw5864`, and the recorder application
under `src/dvr` (`isilsdk`, the SDK over the driver; `filesdk`, the recording
files; `netsdk`, sessions over the network; `app`, the program). TLC checks the
models on small instances; TLAPS proves theorems about eight of them for every
value of their constants.

`PROJECT.json` maps every definition to the lines it translates, lists the
runs, and for each property a *faulty variant*: a definition of the module,
marked as such in its comment, that changes a mapped definition the way a
plausible bug in the code would and makes the property fail.

- [The system](#the-system)
- [The modules](#the-modules)
- [Runs](#runs)
- [Proofs](#proofs)
- [What the models show about the code](#what-the-models-show-about-the-code)
- [Not modelled](#not-modelled)
- [Plan](#plan)

## The system

Video goes up from the chip: DMA into the driver's push buffers, an interrupt, a
tasklet that copies frames to the queues user space reads. The SDK's event loop
reads encoded frames from the driver's files into frame buffers, cuts them into
packets and gives each packet to the consumers registered for the channel:
network sessions that send it, recorders that write it to preallocated files.
Commands go down: client threads queue a message for the SDK's thread and wait.

| part | state | operations | what is hard | what makes it correct |
|---|---|---|---|---|
| worker pool, `eventcore/isil_thread_pool.c` | array of idle threads, number of threads, shutdown flag; a lock and a condition per thread and three conditions of the pool | dispatch a job, worker loop, free the pool | several conditions, a counter changed outside the lock, shutdown | every job runs once, no thread is freed while it lives, nobody waits for ever |
| frame pool and packets, `isil_frame.c`, `isil_data_stream.c`, `isil_media_sdk_ev.c` | free frames, reference counts of frames and packets | blocking get, read, cut, clone, release, release of the pool | counts of several threads, two locks in two orders, an empty pool | a frame is reused only when no packet points into it, none is lost, the loop gets one again |
| synchronous calls, `isil_msg.c`, `isil_msg_mgt.c` | queue of blocks, count and answer of each block | call, run the hooks between two turns of the loop, release at shutdown | unlocked count, parameters on the caller's stack, shutdown while clients call | a hook runs once, while its caller waits; the block is not freed in use |
| SDK's event loop, `isil_sdk_main.c`, `isil_sdk_center_mgt.c` | run flag, watched files | start, turn, stop, release of the managers | order of the release | what is queued when the loop ends is answered |
| push buffer pool, `isil_push_buf_mgt.c` | format and map of each buffer, number of free ones | get and release a picture of a format | formats that share a buffer, a format that changes before the release | pictures the chip writes never overlap, none is lost |
| preview channels and machine, `isil_preview.c`, `chip_bus_scheduler.c` | state, pending events and completions of each channel; the chip's enable register, push switch and map | open, close, REQBUFS, STREAMON/OFF, S_FMT, S_PARM; frame interrupt, tasklet | machine driven from calls and tasklet, one call that suspends all channels, shared registers | the chip writes only where there are buffers, registers agree with the machines, calls return |
| recording files, `isil_fm_file_allocate.c`, `isil_fm_rec.c`, `isil_recapp.c`, `isil_file_record_session.c` | index of the disk, per channel the open file and its offsets | choose, enter, fill, change, reopen and cover files; start, stop | several channels, crashes between writes of the index, failed writes, wrap of the disk | a file belongs to one recording channel, nothing is overwritten too early, recordings are listed |
| registration of encoder data, `isil_net_nty.c`, `isil_enc_data_mgt_cent.c` | subscribers of each channel, callback on or off | subscribe, unsubscribe, hand out | lists changed while they are walked, last leaves as first joins | a subscriber gets frames until it leaves and none later |
| sessions and data threads, `net_task.c`, `isil_data_thread_mgt.c`, `isil_net_data_header.c`, `isil_file_rec_mgt.c` | tasks, references, queues of data nodes | create, release, queue, send, fail | a failed send, removal while sending | a task is not used after its release, every node is freed once |
| frames and packets of an encode channel, `isil_new_buf.c`, `isil_h264_video_buf.c`, read side of `tc_video_en.c` | pools of frames and packets, packet queue of each frame, frame queue with the frame being encoded and the one being read | take, fill, queue, copy, give back, drop, flush | interrupt against reader, packets that run out in a picture, reads that are too short | each frame and packet has one owner, a delivered frame is whole, shortages end |
| H264 encode channels, `isil_h264_encode.c`, `isil_kthread.c`, `isil_devices_machine.c`, `isil_chip.c` | machine, slice head and picture of each channel, queue for the encoder, messages of the thread and their timers | open, enable, disable, flush, close, read; interrupt, polling, thread | interrupt completes for a channel that stops, starts another under the wrong lock, messages that cannot be sent | the encoder serves one channel, none is forgotten, a reader can decode what he gets |
| JPEG and audio, `isil_jpeg_encode.c`, `isil_vb_common.c` | the same pools and a machine like the preview's | request, serve, finish | as above | as above |
| device layer, `device_layer/*` | V4L2-like buffers and their queues | reqbufs, qbuf, dqbuf, streamon/off | ring against interrupt | a buffer is in one queue |
| search and playback, `isil_fm_play.c`, `app/pbapp` | list of files of a search | search by time, open, seek | counters computed modulo the disk | every recording in the interval is found |
| system log, `isil_fm_log.c` | ring of log entries | append, search | wrap | the newest entries are kept |
| notification lists and event tasks, `isil_notify.c`, `isil_ev_task.c` | lists of waiting blocks | add, wait, notify | add without the lock | no notification is lost |

Interactions: `FramePool`'s consumers are the sessions and recorders that the
registration lists; a recorder calls the file allocation from its own thread,
while starts and stops of recordings come from the network loop. A session is
started by a message to the SDK's thread (`MsgMgt`), and jobs that block run in
the worker pool. In the driver, the preview channels own the pictures of the
push buffer pool; `PrevChan` keeps of them only whether a channel has its two. `EncChan` counts the frames of an
encode channel; which packets they hold is `VideoBuf`. The search of recordings
reads the index that the recorders of `FileAlloc` write.
`PROJECT.json` lists every component, also those not modelled, and 40 hazards
at their lines.

## The modules

Each module begins with a comment on its threads and locks. An action is a
stretch of code that no other thread can see half done (a critical section, a
call with the lock held, a single access to an unlocked variable); it makes all
the changes of that stretch. Control state (`pc`, `wpc`, `lpc`, ...) names the
place between two stretches. A definition whose comment begins with "Faulty
variant" is not part of the specification.

**ThreadPool** (`ThreadPoolProofs`, `MCThreadPool`). A member of `Calls` is one
`thread_dispatch` with its job, a member of `Workers` a thread it may create.
`DispatchWait`, `DispatchCreate`, `DispatchPop`, `DispatchSignal` are the
stretches of `thread_dispatch`; `WorkerTest` ... `WorkerUnlock` those of
`thread_wrapperFunc`, with `SaveThread` for `save_thread`; `Free...` those of
`free_thread_pool`. A thread holds a mutex exactly in the places the operators
`PoolUnlocked` and `HoldsOwnLock` name. The decrement of
`threads_num` is a load and a store.

**FramePool** (`FramePoolProofs`, `MCFramePool`). The loop thread of the SDK goes
through `GetFrame`, `GetFrameRef`, `ReadData`, `NewPacket`, `Notify`, `LoopDropsPacket`
and `EndOfFrame`; consumers drop the packets they cloned; `ReleaseDec`,
`ReleasePut` and `ReleaseUnlock` are `release_frame` of any thread, with
`ref_lock` held from the first to the last. A failed allocation and a failed
parse are alternatives of `NewPacket` and `ReadData`.

**MsgMgt** (`MsgMgtProofs`, `MCMsgMgt`). A member of `Calls` is one
`isil_msg_set_param` and its block. `Put`, `Wait`, `ReadResult`, and the load,
store and test of the count are the client; `Turn`, `TakeBlk`, `RunHook`,
`Weekup` and the same three are the SDK's thread, which after `Stop` becomes the
main thread in `msg_mgt_release`. A read of a block the other side has freed
yields any value.

**PushBuf** (`PushBufProofs`, `MCPushBuf`). Buffers of 16 units, formats D1,
CIF and QCIF of 16, 4 and 1 units. `GetShared`, `GetUnused` and `Release` are
the pool's operations under `preview_queue_lock`; `ReqBufs`, `SetFmt` and
`Close` with `ReleaseA`, `ReleaseB`, `GetA`, `GetB`, `Fill` and `End` are what a
channel does with them, with the pool free for others in between. A release uses
the format the code passes, old or new.

**PrevChan** (`PrevChanProofs`, `MCPrevChan`). One machine per channel. A transition is the steps
of `isil_ed_fsm_transfer` in order: raise the event (`Raise`), read the state and look
the handler up (`Read`), act (`ActSuspend`, `ActResume`, `ActClose`, `ActOpen`,
`ActDeliver`), and, for handlers that change a register, load and store it
(`Load`, `Store`), then look for a pending event (`Check`). Each actor, the call
on each channel and the tasklet, has a place in this. The calls are `Open`,
`OpenBusy`, `ReqBufs`, `Ioctl`, `Lock`, `Close`, `Continue`, `Wait`, `Wake`,
`Remap`, `Free`, `Alloc`, `ResumeAll`, `End`. `cpus` is the number of processors, chosen at
the start: on one the tasklet runs between steps of a call and to its end, on
two (`SMP`) at any time. The kernel lock around ioctl and open (not release) is
`cpu`.

**FileAlloc** (`FileAllocProofs`, `MCFileAlloc`). The variables `base`, `using`, `full`, `log` are
the blocks of `index00.bin`; those of a channel are its structures in memory,
which a crash loses. `GetDataFile` and `UpdateFileIndex` are the two lock
sections of opening a file, and the four writes of an index update are steps of their own
(`WriteIndexUsing`, `WriteIndexBase`, `WriteIndexFull`, ...), so that a write can
fail or a crash fall between them; no other channel sees the index meanwhile.
`Frame`, `SwitchFile`, `UpdateFull` and what follows are the recording thread. Offsets count
units, a frame is one, and what ends a file is one. `SearchFile` is what a
search of a channel reads of the index (`ISIL_FM_SEACH_SearchFile`); it holds the
lock all the time and changes nothing, so it is an operator and no action.
`SearchStart`, `SearchEnd` and `Searched` are its range of files, computed with
32-bit numbers that wrap (`Minus`), and `SearchEnds` says when its loop does.

**EncChan** (`EncChanProofs`, `MCEncChan`), **EncStream**. One machine per channel, on the code
side of the encoder. `SliceHead` is the kernel thread, `Picture` the polling of
the chip, `Irq`, `FrameReady`, `FrameDropped` the interrupt at the end of a
picture; `Deliver`, `StartEncode`, `Escape`, `CheckPending` are what these do on
their way through the machines, also for other channels, kept as a `stack` per
context. A message that could not be sent is sent later by the hook of a timer:
`MsgTimer` is its firing, `TimerSend` and `TimerClear` are the hook, which puts the
message and then clears the timer's id. `timers` are the jobs that are to fire,
`timer_id` the ids the controller of the messages still has; they differ while a
hook runs. The calls are `Open`, `Resume`, `Suspend`, `FlushAll`, `Close` with their parts, and
`Read`, `GetConsumer`, `Copied`, with the timer `Poll` of the read side. Where
the model is coarser than the code: the strides of a GOP end at any picture;
packets run out only while the reader has frames (`VideoBuf` shows why); an
encode size the chip refuses, the time-outs and the watchdog (their counters
are commented out) and the robust processing are left out; the flag of a
picture's arrival is the environment's; setting up the registers for a picture
is one step. Of the message timers: several of a kind count as one; `send_msg`, and
adding a job with the storing of its id, are one step each; a slot of
`SingleFireQueue` that a call frees and another takes again while the hook still
runs is freed once more after it (`isil_devices_machine.c:431`), which is left
out, as is a hook that goes on after `delete_send_msg_controller` and finds
`chip` NULL; a message it puts then has no type, and is taken as one of the
channel, which the thread does not want either. `EncStream` is the abstract specification of what a reader gets.

**VideoBuf** (`VideoBufProofs`, `MCVideoBuf`). `SliceHead` takes a frame and its first packet,
`Irq` and the actions named after it copy the picture, packet by packet,
`SubmitP`, `SubmitIDR`, `CopyPacket`, `Copy`, `Copied` are the read; `Flush`,
`Disable` and `Close` are calls. A length is a number of packets. The counters
of a pool and its lists change together under the pool's lock and are one
variable; frame and packet numbers of the driver are equal to their nodes; the
release of a frame is one step; faults of `copy_to_user` are left out.

**CallOnce**. What is promised to threads that hand work to another: the work
that was taken runs once, before the service closes, and who waits for its end
returns after it or because the service closes. `MsgMgt` and `ThreadPool`
implement it.

## Runs

| run | instance | checked | distinct states |
|---|---|---|---|
| `thread_pool` | `MCThreadPool`: 3 calls, 2 threads, `MaxThreads = 2`, fair | no count too low, no thread freed alive; the refinement of `CallOnce`; calls return, taken jobs run, threads leave | 9 743 |
| `frame_pool` | `MCFramePool`: 2 frames, 2 packets, 2 consumers, at most 2 packets per frame, fair | every reference counted, the pool exact; frames come back, the loop gets one | 61 448 |
| `msg_mgt` | `MCMsgMgt`: 3 calls, fair | no block freed in use; the refinement of `CallOnce`; what is queued is answered | 245 564 |
| `push_buf` | `MCPushBuf`: 2 channels, 3 buffers | overlap, release, map, all or nothing | 147 057, symmetric channels |
| `prev_chan` | `MCPrevChan`: 2 channels on one processor, or 1 of them in use on two, fair | on one processor: buffers, enable register, a stopped channel is off through every change of the map, calls return; on two: a call that sleeps is woken while frames come | 699 859 |
| `prev_chan_lock` | 2 channels on two processors | `VpExclusive` is violated | counterexample |
| `enc_chan` | `MCEncChan`: 2 channels with 1 frame each, 1 message, `SMP`; one channel makes every call, the other is opened, enabled once and read when a frame is there | machines, queue and chip agree, and the encoder is not idle while a channel waits; an off channel is quiet | 1 203 516, by a view |
| `enc_chan_live` | 1 channel with 2 frames, 1 message, one processor, fair | no wait for a slice head is forgotten; the refinement of `EncStream`; the reader keeps the frame he copies; calls return; an enabled channel goes on | 29 565 |
| `video_buf` | `MCVideoBuf`: 2 frames, 3 packets, pictures of at most 2 packets, reads of 1 or 2 packets, 2 calls, fair | one owner each, frames whole, shortages end | 137 218 |
| `file_alloc` | `MCFileAlloc`: 1 channel, videos and MJPEG, 2 files of 2 units, 3 logs each, 2 logs begun, at most 2 crashes inside an update | counts, listing, searching, appending, no early covering | 1 891 108 |
| `file_alloc_two` | 2 channels, 3 files of 3 units, no overwriting, one opening at a time | one channel per file, never overwrites | 1 346 655 |
| `file_alloc_race` | the same with two openings at a time | `NeverOverwrites` is violated | counterexample |

`IsCallOnce` and `IsStream` are refinements: the specification of the abstract
module, instantiated with what the state of the detailed one comes to.

Why the bounds are enough:

- `thread_pool`: three calls for two threads make a call wait for an idle
  thread, a newcomer steal it, and both threads exit together, which is the race
  of the decrement. More threads repeat these pairs.
- `frame_pool`: two frames let one be released while the other is filled, two
  consumers and the loop are three threads that count one frame down; two
  packets are what one frame takes, and the pool runs empty while consumers keep
  theirs.
- `msg_mgt`: three calls are one running its hook, one queued behind it and one
  arriving during the release.
- `push_buf`: two channels hold up to four pictures; with three buffers two D1
  channels exhaust the pool, and a QCIF and a CIF channel mix.
- `prev_chan`: the interaction of channels is S_FMT of one against everything
  of another and the tasklet. On one processor the tasklet runs to its end, so a
  call never finds a frame being transferred; that it sleeps and is woken takes
  two processors and one channel (`SmpChans`). With two channels in use on two
  processors only `VpExclusive` is run.
- `enc_chan`: of two channels one has the encoder while the other waits,
  withdraws or is started under the first one's lock. One message for two
  channels makes sending fail, and one frame makes every frame the reader keeps a
  shortage. `Free` spares the second channel the calls it would only repeat: it is enabled
  while it is off, and read when a frame waits. `View` takes states as one that
  differ only in whether pictures are I or P pictures: no guard looks at that, and
  no invariant of this run but the types.
- `enc_chan_live`: what one reader gets depends on the order of frames in one
  channel; two frames let one be queued while the other is read or encoded.
- `video_buf`: two frames of two packets need four, so three run out in the middle
  of a picture; two calls flush and close while a read is under way. `MaxCalls`
  bounds calls only, reading and encoding go on for ever.
- `file_alloc*`: two or three files are the least that wrap and cover, capacity 2 or 3 the
  least that fills during a recording and by a reopening. `MaxLogs` bounds the
  recordings begun in one file, and with it the counters; `MaxTorn` and `MayTear`
  bound the crashes inside an update, and keep them to indexes without MJPEG logs.
  The search's range wraps with two files already; with three files of videos
  (`Types <- Videos`, `LOGS = 2`, `MaxTorn = 0`: 72 699 states) it passes as well. With two channels three
  files leave a last one to race for. Two channels with overwriting are not run:
  there the files do meet, see below.

`CHECK_DEADLOCK FALSE` stands where the system stops: when all calls are done
(`thread_pool`, `msg_mgt`); when the pool has been released, or its release
waits for ever (`frame_pool`); when an open of an open channel kept `chan->sem`
(`prev_chan`).

### Fairness

- `ThreadPool`: weak fairness of each thread: it is scheduled, a mutex is not
  withheld for ever, and a job returns.
- `FramePool`: strong fairness of the loop and of each consumer, since the locks
  they need come and go. A consumer takes its queue in order, so no packet is
  passed over for ever. `ReleasePool` has no fairness: the program may run on.
- `MsgMgt`: weak fairness of the SDK's thread and of the clients that have begun
  a call. `Stop` is not fair.
- `PrevChan`: weak fairness of the tasklet, as the kernel runs scheduled tasklets;
  strong fairness of a call under way, since the kernel lock and `vp_mutex`
  come and go under it. Neither frames nor new calls are fair.
- `EncChan`: contexts that have begun, a timer's hook among them, go on; the thread, the timers and the interrupt
  get the lock of a channel in the end, although calls take it again and again;
  the chip answers, video comes, and not every picture is damaged. Nothing makes
  a user call or read, and `EnabledEncodes` says what depends on him.
- `VideoBuf`: the thread and the chip go on, and not every picture's length is
  wrong; a user who reads goes on reading.
- `PushBuf` and `FileAlloc` state no liveness.

## Proofs

The theorems are `Spec => []P` and, for the refinements, `Spec => IsCallOnce`,
for any set of calls, threads, channels, frames and packets and any sizes, from the
named assumptions of the modules (finite sets where members are counted,
`MaxThreads` positive, special values that are not members of the sets). Each follows from
one inductive invariant, `IInv`, by the three facts Init => IInv,
IInv /\ [Next]_vars => IInv', IInv => P, with a step per action.

The theorems about `FileAlloc` have a hypothesis besides, `Exclusive`: no file's
log entries run out (`MaxLogs <= LOGS`), and either there is one channel, which
may cover files and crash at any write of the index, or any number of
channels that do not cover files, open them one at a time and crash only between
updates. These are the instances of the two passing runs, for disks,
files and numbers of logs of any size. Without it the properties are false. TLC finds
`OneChannelPerFile` violated with two channels when files are covered or a crash
tears an update, and with three when two open a file at the same time (two
then give up a recording, `file_alloc_race`); and the logs of a file that has too
many lie in the area of the next.
`NoneGivenUp` asks for `MaxTorn = 0` with one channel too, since a torn update
leaves a full file in the using entry. So none of these theorems says that a DVR
with several channels gives up no recording: nothing in the code makes its
channels open their files one at a time (`OneOpener`).

`HeadCorrect` of `EncChan` is stated for one processor (`~SMP`), for the reason
given [below](#what-the-models-show-about-the-code).

| module | theorems | inductive invariant |
|---|---|---|
| `ThreadPoolProofs` | `CountCorrect`, `FreeCorrect`, `TypeCorrect`, `Refines` | `threads_num` is at least the number of threads yet to decrement (`CountNeverTooLow`), which is inductive only with what each worker has loaded (`LoadedEnough`): a stored value is at least as large as what is left after it. `FreedOnlyAfterExit` needs `ListInv` (the idle threads are distinct and parked), `RunningInv` (before the shutdown the count is exact) and `ShutdownInv` (after it nobody enters). `Refines` maps every step to one of `CallOnce` or a stutter, with an invariant that ties what a worker is about to run to a call that was taken. |
| `MsgMgtProofs` | `TypeCorrect`, `HookCorrect`, `FreeCorrect`, `AnswerCorrect`, `Refines` | `QueueInv` places each block in the queue, in the server's hands or with its client only; `CountInv` bounds `ref` and the loaded values by who has still to count down, which gives both that a block is not freed in use and that a lost decrement only leaks; `RunsOnce`. `Refines` is a step per action on top of them. |
| `PushBufProofs` | `NoOverlapCorrect`, `ReleaseCorrect`, `MapCorrect`, `CountCorrect`, `AllOrNothingCorrect`, `TypeCorrect` | `PoolInv` has six parts: areas are disjoint, held addresses have their buffer's format, the map covers exactly the held areas (two inclusions), a buffer is unused exactly if its map is empty, and the counter counts those. `PlaceInv` says which pictures a channel holds at each place of its call, and with which format. |
| `VideoBufProofs` | `ConservedCorrect`, `WholeCorrect` | `PacketInv` (a packet is in the pool or with one frame, once) and `OwnerInv` (a frame is in the pool or with one owner) are inductive once `EncoderInv` and `ReaderInv` say what the encoder and the reader have at each of their places: the encoder a frame exactly while it is not idle, with as many packets filled as it has copied; the reader a whole frame, copied and remaining packets together, which a poll or a flush takes only between two reads. `OtherTypes` gives the types. |
| `EncChanProofs` | `TypeCorrect`, `EngineCorrect`, `HeadCorrect`, `OffCorrect`, `ReaderCorrect`, `Refines` | Each entry of a context's `stack` says what it left behind: the state its machine is in, the slice head or frame it holds, what it has still to do. A context that looks at a channel again (`CheckPending`) may do so long after that channel has changed; it is harmless because its bit stays out of the status until it has looked, so nobody asks for the channel again. Where the encoder's queue, the chip and the machines disagree, exactly one context is between two of their changes. `Refines` follows a frame from the encoder to the reader: after a loss either the next frame is an I picture or the producer is still to be flushed, which forces one. `HeadCorrect` has an invariant of its own on top, `WaitInv`: one context is at work at a time (`OneInv`), so a timer's id is there only with its timer or with its hook under way (`IdInv`), and a request that is dropped for an id has that timer. |
| `PrevChanProofs` | `TypeCorrect`, `BufsCorrect`, `ExactCorrect`, `StoppedCorrect` | `Inv` holds with one or two processors: which events a call drives (`CallInv`) and the tasklet (`TaskletInv`), and that a channel is at most twice open (`OpenInv`: to find a pending open event the tasklet must have found the machine running, which it is not while the channel is closed). On one processor `AloneInv` holds as well: one call moves at a time (`LockInv`), and the tasklet handles an event only that this call has raised and not yet read (`FrameInv`). So the state a call has read stays good (`ReadInv`), `VP_CHANNEL_EN` is current when it is written back (`EnInv`), completions are there when they are waited for (`DoneInv`), and S_FMT finds and keeps all channels quiet while it holds `vp_mutex` (`QuietInv`), whence `BufInv` and `OnInv`. |
| `FileAllocProofs` | `TypeCorrect`, `CountsAreExact`, `AllAreListed`, `NothingWrittenOver`, `FilesApart`, `NoneGivenUpEarly`, `NoneGivenUp`, `SearchFindsAll` | `IInv` has two halves. `PlaceInv`, `IndexInv` and `OffsetInv` hold whatever crashes: what a channel may assume at each place of an opening or a filling, and that `UpdateFileIndex`, which chooses again, arrives at the file `GetDataFile` chose and at an offset behind its logs. `WholeInv` holds while no update is torn. `FilesInv` says which of three updates the copy `new` makes (go on with a file, use the next one, cover the next one) and which file is half entered at each write, so that the used files are always the first ones; `CountInv` is the number of full files with the one that a write has yet to count; `ListInv` relates the log entries to the counts in the using and the full entry. For the search, `Last` ties the file of the last opening to the base block: the full files are all others, and the range modulo 2^32 is exactly theirs. |
| `FramePoolProofs` | `PoolCorrect` | `FrameCounts` and `PacketCounts` say that each count is the number of its holders. They are inductive because a packet is in a consumer's queue once and, while it is handed out, in none (`QueueInv`), and because a frame on its way into or out of the pool has the count 0 and one thread that moves it (`PutInv`, `InPool`). Each step adds a member to a set of holders or takes one away (`OneMore`, `OneLess`). |

What rests on TLC alone: every liveness property (`CallReturns` of `PrevChan`,
`CallReturns` and `EnabledEncodes` of `EncChan`, and
those of the other modules), since the prover has no ENABLED and no fairness, and
the violations, which are counterexamples. Every invariant and every
action property that a passing run checks is a theorem, under the hypotheses named
above.
Induction over data and recursive operators are out of the prover's reach as well; no
module here needs them.

## What the models show about the code

Two violations are runs:

- `prev_chan_lock`: `prev_chan_release` takes neither `vp_mutex` nor, as a
  release, the kernel lock; two closes on two processors interleave the read and
  the write of `VP_CHANNEL_EN`.
- `file_alloc_race`: the file is chosen in one lock section and entered in
  another, which chooses again and does not look at `ISIL_FM_DISK_OVER_WRITE`.

Others are why a property is stated as it is:

- `free_thread_pool` may wait for ever: `mEmptyCond` is signalled without
  `threads_lock` and can fall between the test and the wait, and of two racing
  decrements one can be lost. `CallsReturn` therefore says that
  `free_thread_pool` gets past its wait on `mFullCond` and that every thread
  leaves, not that it sees the last one leave. The list is destroyed after the last
  decrement, while that worker still unlocks its own mutex
  (`FreedOnlyAfterExit` counts a worker past its decrement as gone).
- `pthread_cond_wait` is called without a loop around it; a spurious wake-up of
  a worker would run its last job again. The model leaves spurious wake-ups
  out.
- `frame_pool_release` waits on the condition that `put` signals only
  when the pool was empty, so it may wait for ever with all frames back. In
  `FramePool` it may remain in `poolwait`, and no property says it ends.
- Of two racing decrements of `blk->ref` one can be lost, which leaks the block;
  when both sides see zero it is freed twice. `FreedAfterUse` says what still holds: no one
  uses the block after its free except for that last test.
- A client that puts a block in the queue after `msg_mgt_release` has emptied it
  waits for ever; `QueuedIsAnswered` speaks of what is queued before.
- On more than one processor the machine of a channel changes between the look at its state
  and the handler, since `isil_ed_fsm_transfer` reads the state without
  `fsm->lock`. `EnabledHasBufs`, `EnableExact` and `StoppedIsOff` hold on one
  processor only, and say so by `~SMP`: for the first, TLC shows a REQBUFS that
  finds the channel in SUSPEND and frees the buffers while the tasklet has yet
  to clear the enable register. A call can make its event
  pending just after the tasklet has looked at the pending events; then it
  waits for the next frame, for ever when none comes (`CallReturns` assumes that
  frames come). A close can go round with the tasklet for ever, as each frame moves
  the machine before its event is raised again, or handle its event in a state
  where it gives no completion: of the calls on two processors `CallReturns`
  speaks only of those that sleep for a suspension. And a first open can be
  counted twice when the tasklet finds its event pending.
- An open of an open channel returns `-EBUSY` with `chan->sem` held
  (`isil_preview.c:1619`): `OpenBusy` leaves the channel unusable, and `CallReturns` speaks of the calls
  that hold it.
- With overwriting, covering reaches a file that another channel is still
  filling: two channels then share it. `OneChannelPerFile` is checked without
  overwriting.
- `UpdateFileIndex` never compares the number of logs with
  `FILE_INDEX_RECLOG_SUM`; `MaxLogs` stays below it and the model makes no
  claim beyond it. `AddIndexRecLog` does compare, and returns with
  `FILE_INDEX_LOCK` held.
- An MJPEG log is written behind a gap and not counted, and a later video's log
  takes its place: `AllListed` speaks of videos, `AppendOnly` of files without
  MJPEG logs.
- A crash between the writes of one index update leaves counts that disagree
  with the entries and nothing repairs them, so `CountsExact` and
  `NoEarlyOverwrite` are stated for runs without such a crash (`torn = 0`),
  `AppendOnly` also after them.
- A search computes its last full file from the counters, with 32-bit numbers. It
  never ends, and keeps `FILE_INDEX_LOCK`, when every file is full before covering
  has begun (the last file is also the last of the range, and the loop begins
  again, `isil_fm_play.c:258-261`), and when covering has begun with file 0 (the
  last file becomes 0xffffffff). When covering has come to the end of the disk it
  begins beyond the last file. `SearchFinds` is about searches that end
  (`SearchEnds`). With two channels the files do not become full in order, the
  range, which counts full files from the first, misses some, and TLC shows a
  full file that is not searched: `SearchFinds` is stated for one channel. That the time of
  day is compared apart from the date is left out with the interval.
- The hook of the timer "nonblock" puts its message and only then clears
  `nonblock_msg_timer_id`, without `send_msg_contr->lock`
  (`isil_devices_machine.c:985`, `992`). On another processor the thread can take
  the message in between, find head and picture there, start a picture that is
  to be flushed and escape to IDLE; its request for the next head meets the old
  id and is dropped (1150, 1169), then the hook clears the id. The channel
  waits with no message and no timer until it is disabled and enabled again.
  `HeadComes` therefore is checked and proved for one processor, where the hook is
  over before the thread goes on; with `SMP = TRUE` in `MCEncChanLive.cfg` and
  `HeadComes` alone TLC prints a trace to such a drop. `EnabledEncodes` is checked
  on one processor as well.
- A resume of an encode channel makes another picture the chip's reference without
  forcing an I frame (`isil_h264_encode.c:3482`). The next P frame can be decoded only
  because the SDK's disable is a suspend and a flush, and the flush forces one;
  `EncChan` models the SDK's calls.
- A frame longer than the buffer of a read stays with the reader for good: the
  comment at `isil_h264_video_buf.c:774` speaks of discarding it, but nobody
  releases it, and each later read of it gives 0 or waits for packets with
  `tve->sem` held. `GoesOn` states this
  exception, and whether the user reads with a large buffer is up to him.
- `b_flush` is not reset by a close, and a message timer can be set between the
  deletion of the timers and the end of a close; both do no harm (`OffIsQuiet`).
- `REQUEST_MEM` and `RELEASE_MEM` of an encoder take `tve->sem`, which their
  caller, `videoh264_en_ioctl`, holds (`tc_video_en.c:510`): they wait for ever,
  and are not modelled.

## Not modelled

Register programming, DMA set-up, bit streams, rate control, on-screen text,
configuration records, message formats and board porting change no state the
properties are about, or the hardware's answer is not in the repository.
Vendored headers (libev, libevent) and test programs are left out. They are
most of the lines of the repository.

Registration, sessions and data threads of the application (`isil_net_nty.c`,
`isil_enc_data_mgt_cent.c`, `net_task.c`, `isil_data_thread_mgt.c`,
`isil_net_data_header.c`) were read and left out. A subscriber is put into its
list without the lock under which others walk it; a list of data nodes
is changed under `lst_lock` in one place and `data_send_lock` in another; after
a failed send a task is used that has been released. A model would end in the
undefined outcome of these races, no invariant of the lists holds, and nothing
in the repository says what they promise. They are listed as hazards.

Also left out: the JPEG channel and the packets of JPEG and audio, which repeat
the pools of `VideoBuf` and a machine with one queue of requests; the device
layer's ring of buffers, used under one semaphore per device; the system log,
under one lock; notification lists and event tasks, walked by one thread; the
order in which `main.c` ends the parts; playback.

Left out of a modelled part: the HD frame pool and `try_get` (no caller), the
`ISIL_DATE_MGT` queue (only in a build that is switched off), the frame queues
and robust processing of the preview, the second-level GOP index and the
formatting of the disk, a stop of a recording that overlaps a frame of the same
channel, the H264, MV, audio and JPEG push buffers, motion vectors of the
encoder. `PROJECT.json` gives the reason for each.

## Plan

- An abstract disk (each file unused, filled by one channel, or full) that
  `FileAlloc` implements under `Exclusive`; the steps follow from `FilesInv`.
- What `CallOnce` promises its callers, as theorems about `CallOnce` that carry over
  to `MsgMgt` and `ThreadPool` by their refinements.
