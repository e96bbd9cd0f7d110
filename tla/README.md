# A TLA+ model of zion

zion is a daemon that stabilizes sports videos. A client connects over TCP, asks for
a video to be stabilized, and is told when the result is written. This directory
holds TLA+ modules that follow the daemon's C++ source, configurations that
model-check them with TLC, and proofs that TLAPS checks. `PROJECT.json` links every
definition to the lines it models, every run to its properties, every property to a
fault in the model it detects, and every hazard to the properties meant for it.
Paths below are relative to `src/src/`.

To repeat the checks, in this directory:

    tlc -config MCTaskPipeline_safety.cfg MCTaskPipeline     # any run of PROJECT.json
    tlapm TaskPipelineProofs.tla                             # any module with theorems

## 1. The system

    client --TCP--> DMServer --RecJson--> DaemonMgr --OnRcvMessage--> MsgManager
                       ^                                                 |
                       |  SendData                          m_qRMSG, RcvMSGThread
                       |                                                 v
                SndMSGThread <--m_qSMSG-- WatchFuture <--m_future-- TaskManager
                                              ^                          | jobs
                                              +---------m_qTMSG          v
                                                            WorkerThread: RunStabilize
                                                               Dove::Process (one video)
                                                               trackers, spline, FrTrans

| Component | State | Operations | Talks to | What makes it correct |
|---|---|---|---|---|
| Packet framing, `DMServer::handle_clnt` and `RECV` | the counters of `RECV`, the size in the last header | reading a header, a body, leaving | one client's stream of bytes | packets come out whole and in order, wherever TCP cuts them; the handler leaves when its client is gone |
| Socket server, `daemon/DMServer` | listening socket, `m_ClientSockets` (one client), send buffer, `m_Sockmutx`, `m_SendMutex` | `beginSocket`, `RunSocket`, `handle_clnt`, `SendData` | clients; `DaemonMgr` by a callback on the client's thread | one client at a time; an answer goes to the client that asked; one message in the buffer at a time; places become free; nobody waits for ever on a client that does not read |
| Request dispatch, `daemon/DaemonMgr`, `daemon/DaemonParser` | `m_bThreadStop`, the pointers between the managers | construction, `Classfication`, `RecJson`, `RunParse` | server (answers), `MsgManager` (requests) | known requests are answered, before any notice of their result |
| Message manager, `MessageManager` | `m_qRMSG`, `m_qSMSG` | `OnRcvMessage`, `RcvMSGThread`, `SndMSGThread` | `TaskManager`, server | requests are handled in order, none is lost |
| Task manager, `TaskManager` | `m_qTMSG`, `m_future`, job queue, workers, `cur_worker` | `OnRcvTask`, `CommandTask`, `EnqueueJob`, `WorkerThread`, `WatchFuture`, `MakeSendMsg` | `MsgManager`, `Dove` | a result is reported for the right request, once; consumers never wait on an empty queue; the counter counts |
| Request import, `dove/ExpUtil` | the periods of one request | `ImportVideoInfo` | `TaskManager`, file system | the periods are ordered and usable |
| Stabilization, `dove/Stabilization` | `all`, `si`, frame and period indices, extremes, margin, the picture kept | `Process`: first pass, `MakeNewTrajectory`, `CalculcateMargin`, second pass | trackers, GSL, `FrTrans` | every picture is recorded once; a period is followed by its own tracker; corrections fit their pictures; no picture is lost; no border shows |
| Tracking, `dove/Tracking`, `GrayTracking`, `ColorTracking` | box, background, a copy of the parameters | `SetBg`, `TrackerInitFx`, `TrackerUpdate` | `Dove` | boxes stay inside the picture |
| Algebra, `dove/Algebra` | none of interest | `BSplineTrajectory` | GSL | enough points for the spline |
| GPU video input and output, `FrTrans` | demuxer, decoder queue, `_remain` | `OpenReader`, `ReadFrame`, `CloseReader`, the same for writing | `Dove` | both passes see the same pictures |
| Shutdown, `~DaemonMgr`, `~MsgManager`, `~TaskManager`, `~DMServer` | the flags of the loops, `stop_all` | the destructors, in their order | every thread | no thread runs on in an object that is gone; the teardown ends |
| Queue, `common/ThingQueue.h` | deque, mutex, condition variable | `Enqueue`, `Dequeue`, `IsQueue`, `Destory` | all threads | no wake-up is lost |
| Configurator, `common/Configurator` | `serial` | `GenerateToken`, paths, times | `TaskManager` | tokens in use differ |

Where the difficulty lies:

* **Many threads, few locks.** main, the accept thread, one handler per client,
  `RcvMSGThread`, `SndMSGThread`, the workers and the watcher. `m_qTMSG` has two
  consumers, `cur_worker` two writers without a lock, `m_ClientSockets` is read
  again outside its mutex, `SendData` sends to whoever is connected at the moment.
* **Results that travel apart from their requests.** `m_future` carries a result
  code; which request it belongs to is decided by the head of `m_qTMSG`.
* **Failure.** Requests that are rejected, skipped, or throw; clients that close at
  any moment or stop reading; texts on which rapidjson asserts; a spline with too
  few points; a decoder that has no picture yet.
* **The end.** Seven kinds of threads are stopped in one order by flags without a lock, and
  requests go on arriving until the server, the last to go, is closed.
* **Positions.** The two passes over a video agree only by the number of a picture,
  and the periods come from the request: they can overlap, run backwards or end
  behind the video.

The `hazards` of `PROJECT.json` list these one by one, at the line where they bite.

## 2. The modules

| Module | Models |
|---|---|
| `StabilizeService` | what the pipeline promises: requests settle in order, each once, and the successful ones are handed over in that order |
| `TaskPipeline` | `MsgManager` and `TaskManager`, from `OnRcvMessage` to `SendData`; implements `StabilizeService` |
| `MCTaskPipeline` | requests and outcomes for TLC |
| `TaskPipelineProofs` | the invariants of `TaskPipeline` and that it implements `StabilizeService`, for any requests and pool size |
| `PacketStream` | what a connection promises its handler: its good packets whole, in order and all of them |
| `Framing` | `handle_clnt` and `RECV` on a stream of bytes; implements `PacketStream` |
| `MCFraming` | streams of packets for TLC |
| `FramingProofs` | that `Framing` implements `PacketStream`, for any packets and any sizes |
| `RequestDispatch` | whether `RecJson` knows, queues or dies of one text; operators only |
| `DMServer` | the server, its clients, the handlers and the construction of `DaemonMgr`; uses `RequestDispatch` |
| `MCDMServer` | clients and scripts for TLC |
| `DMServerProofs` | the invariants of `DMServer` and the ways of answers and notices, for any clients and scripts |
| `StabilizedVideo` | what `Dove::Process` promises: pictures in order, none twice, an error means nothing was written |
| `Margin` | `CalculcateMargin`, with the integer quotients of C; operators only |
| `Stabilize` | `Dove::Process`; uses `Margin`, implements `StabilizedVideo` |
| `VideoInfo` | `ImportVideoInfo`: sorting, limiting, checking and completing the periods of a request; operators only |
| `RequestedVideo` | a request and `Process` on the periods that `VideoInfo` makes of it |
| `MCStabilize` | requests and small videos for TLC |
| `StabilizeProofs` | the arithmetic of `CalculcateMargin`; types, records and writing, and that `Process` implements `StabilizedVideo`; the correction of one picture |
| `TrajectoryProofs` | what `MakeNewTrajectory` finds: the right records, made by the right tracker; what that makes of a request |
| `FrTrans` | reading and writing video on the GPU, in both passes of `Process` |
| `MCFrTrans` | small videos for TLC |
| `FrTransProofs` | where the pictures are and how both passes number them, for any video and number of waits |
| `Shutdown` | the destructors of the managers against the threads they stop |
| `MCShutdown` | two workers and two requests for TLC |
| `ShutdownProofs` | that the joins protect what the threads use, for any number of workers and requests |
| `FifoQueue` | what a queue between threads promises |
| `ThingQueue` | `common/ThingQueue.h` with its mutex and condition variable; implements `FifoQueue` |
| `MCThingQueue` | threads and the operations they call, for TLC |
| `ThingQueueProofs` | the invariants of `ThingQueue` and that it implements `FifoQueue`, for any threads |

### TaskPipeline and the code

A request is a model value of `Requests`, one `MSG_T`. What the program finds in it
is given by the constants: `Malformed` are those on which `json::parse` throws although
rapidjson let them pass in `RecJson` (it does not check UTF-8), `NoAction` and `NoOutput`
name the fields that are missing, `ImportOutcomes` and `JobOutcomes` what `ImportVideoInfo` and
`RunStabilize` may answer. The four queues and `jobs` are sequences. `rcv` and
`wat` are the places of `RcvMSGThread` and `WatchFuture` between two operations
that other threads can see; each statement of theirs that touches shared state is
an action with the name of the function or the statement. The rest:

* Every queue operation holds the queue's mutex, so it is one step. `IsQueue` and
  the `Dequeue` after it are two critical sections, but only `m_qTMSG` has more
  than one consumer, and its consumers do not ask `IsQueue`; they can wait there,
  and `DequeueNeverWaits` says that they never do.
* `cur_worker++` and `cur_worker--` are a load and a store each, so that updates
  get lost as they can in the program; the arithmetic is that of a `size_t` of
  `SizeMod` values.
* The arguments of `MakeSendMsg(m_qTMSG.Dequeue(), m_future.Dequeue())` are
  evaluated in either order, as the language allows.
* `EnqueueJob` waits for the future on the thread that feeds the pool; a promise
  with an exception is rethrown there and ends the process (`Terminate`), as does
  an exception of the json library on the receiving thread (`ParseThrows`,
  `ImportThrows`) or on the watcher (`MakeThrows`).
* `SndMSGThread` is one step here; its mutexes and the blocking `send` are in
  `DMServer`.
* The fields `job` of the records are history: they say which job a result came
  from, which the program does not know. `fate`, `received`, `announced`
  and `disturbed` are history too; no action reads them in its guard except
  `OnRcvMessage`, which takes each request once.

The managers declare their queues as `MessageQueue`, a name that no file of the
repository defines. `common/ThingQueue.h` has the operations that are used, with the same
meaning, and is what the model follows.

### Framing and the code

A byte is its position in the stream of one connection, and a packet a header with the
size it names and a body with the bytes the client really sent, which need not agree.
`Write` lets TCP deliver any piece; the client closes or is reset after any byte.
`RECV` is one step for each `recv()`, with its two counters as they are: `nRecvSize` is at
most `Chunk` and never more than what is missing, which is what keeps it out of the next
packet. When `recv()` is 0 `RECV` answers 0; when it is -1 it answers with what it has, so
a header that a reset cuts is read as if it were refused (`ResetInHeader`) and a body that
a reset cuts is handed over with zeros behind it (`ResetInBody`). A header whose size or
kind is bad is dropped alone; the body behind it is read as the next header. What such
bytes seem to say is any of `Claims`, and `lost` remembers that it came to that.

### DMServer and the code

`main` walks through the constructor of `DaemonMgr`: the server listens before its
handler is set, and `MsgManager` learns of the server last. `acc` is the accept
thread, `pc[c]` the handler of the connection `c`, `pc[Snd]` `SndMSGThread`.
`SendData` is three steps: it obtains `m_SendMutex` and builds the packet, obtains
`m_Sockmutx`, and sends. Both mutexes stay locked while `send()` waits for a client
whose buffer (`Window`) is full. Every other section under `m_Sockmutx` is one step.
A connection refused or given up is `shut` but never closed, because `CloseSocket`
only shuts down; `fds` counts the descriptors, and with `MaxFds` of them `accept()`
fails for ever. `m_bThreadStop` is a member nobody initializes, so `Init` leaves it
open; the pointer to the server that `SndMSGThread` uses before `SetDMServer` is
likewise uninitialized, and its use is a crash (`UseUnsetServer`).

`Client` is outside the program: a client connects once, sends the packets of its
`Script`, reads what it likes and may close at any moment. A packet is received as
a whole here; `ImplementsStream` of `Framing` is the reason why it may, and says where it
ends. The jobs between `OnRcvMessage` and `m_qSMSG` are those of
`StabilizeService`: they end in order, with or without a notice.

### Stabilize and the code

The loop of the first pass is seven actions, one for each way through its body:
`Wait` (FrTrans has no picture), `SkipPicture` (outside the periods), `StartPeriod`,
`NothingToTrack`, `TrackPicture` with its three ends (`NextPicture`, `NextPeriod`,
`Final`), `UpdateUnstarted` (a period that begins before the first picture is met in its
middle, with a tracker nobody started), and `NoMorePictures`. `MakeNewTrajectory` is one action for one picture
(`SmoothPicture`), one for the end of a period, and two for what goes wrong: GSL
aborts when a period has fewer points than coefficients (`SplineAborts`), and a
period that ends behind the recorded pictures leaves the vector (`Overrun`), after
which nothing is known. The numbers of a period are `int`s that nothing checks, and the
loop compares them as `size_t` (`Before`): a negative end lies behind every picture
(`RunsAway`), and a start below -1 leaves no point for the spline. `MakeMargin` is `CalculcateMargin` with its verdict. The
second pass is `FirstPicture`, `WritePicture`, `ReadsBehindEnd` and `Finish`.

Pictures are their numbers. The boxes trackers see and the values of the spline are
any of `Boxes` and `Curves`. Movements are whole pixels and smoothed positions
multiples of `1/Parts` pixel. `GrayTracking`'s update of its box is commented out in
the source, so an object found by it never moves (`SeenAt`). `tck` is the tracker:
the period it was started for, the picture its background was taken from, and its
own copy of the box size, made by `SetInitialData` before `Process` begins. Only the
branches that `Initialize` chooses are modelled.

### VideoInfo, RequestedVideo and the code

A request says whether its fields and its file are there, names the event and lists
periods with a number, two pictures, a target and a zoom. `InOrder` is `std::sort` by the
number, which leaves periods of one number in any order; `Limited` is `swipe_limit`, an
`int` that may be negative; `Verdict` the three refusals; `WithTargets` puts the middle of
the picture for a target of `-1, -1`. `Imported` is the lists `Dove` may be given: none for
a refused request, for which no video is processed. `RInit` begins `Stabilize` with one of
them: `ConvertToParam` gives a period the number of its place, and `TrackerPoint` is the
quotient that `TrackerInitFx` forms, which C cuts off towards zero. No step of `Process`
changes the request; it is there so that properties can compare the two.

### Shutdown and the code

`main` walks through the destructors in the order the language gives them: the body of
`~MsgManager` joins `RcvMSGThread` and `SndMSGThread`; its member `m_taskmanager` goes next
and stops the workers and the watcher; `~DMServer` comes last, because `m_dmServer` is
declared first, and closes the sockets and joins the accept thread. Every
loop is two or more steps, because its flag is read without a lock. The queues are
numbers: what becomes of a message is in `TaskPipeline`. `stop_all` is set and
`notify_all` called without `m_job`, so a worker may be between its test and its wait
(`tested`), and `missed` remembers it. `JoinHandler` is
`m_clientReceiveThread.join()`, which throws in a destructor once a client was ever
admitted, because the thread was detached. A handler may still classify a packet after
the `MsgManager` is gone (`ManagerGone`), and then anything may happen.
Three things are coarser than the code, and no property tells the difference: `Notify` is
the end of the watcher's loop (`TaskManager.cpp:39`) and `notify_all` (`:41`) in one step,
`Receive` the test of the handler's loop (`DMServer.cpp:173`) and its first `recv`, and a
client that is refused is left out.
Nothing in the tree runs these destructors: the daemon's `main` is commented out, and
loops for ever. They are modelled because the code is there and says what it means to do.

### FrTrans and the code

`FrTrans` follows one object through `Process`: `FirstOpen`, `ReadFrame` again and again,
`FirstClose`, `SecondOpen`, `OpenWriter`, `ReadFrame` and `WriteFrame`, `Finish`. A call of
`ReadFrame` is one step, with what `Process` does with its answer: 0 is asked again (and
counted in the first pass), -1 is taken for the end of the video, 1 is a picture. Its
ways are `ReadFails`, `BadPacket` (read, but not decoded: gone), `ReadPacket`, `Drain`
(at the end, while pictures wait) and `Flush` (at the end, the decoder is asked for
more). A picture is its number in the video; a packet carries some of them, the
decoder holds some back (`held`) and hands out the first of what it has, `vDecFrame` is
the vector of the same name, and `shown` is what each pass got. The external library may
fail at every call. What it kept by failing is in `lost`, which is history, as is `how`.
A decoder with `slow` may also succeed without a picture; `bLowDelayDecoding` asks it not to.

The handles have no initializers, so `Init` leaves them `null` or `stray`; closing or
using a stray one may do no harm or anything (`StrayClose`, `StrayWrite`). The analysis
of the pictures is in `Stabilize`; here the first pass may stop at any picture.

### ThingQueue and the code

Each thread calls the operations of its script. A step is what happens between two points
at which another thread can come in: obtaining the mutex, the body, releasing it; in
`Dequeue` the test, the wait and the way back to the test. `wait` may return without
reason (`Spurious`), `notify_one` wakes any one waiter. `Destory` takes no mutex and is two
steps. `TaskPipeline` uses the operations as single steps; `ImplementsFifo` is the reason
why it may.

## 3. What the runs show

| Run | States | What it shows |
|---|---|---|
| `pipeline_safety` | 1.50 million | five requests through two workers in every interleaving: `TypeOK`, `DequeueNeverWaits`, `LabelsCorrect`, `WatcherThrowsOnlyMislabelled` |
| `pipeline_service` | 69 thousand | the pipeline implements `StabilizeService` and handles every request, with a text, an import and a job that throw |
| `pipeline_counter` | - | refutes what the log says of `cur_worker` |
| `server_safety` | 3.50 million | three connections, two sockets, jobs and a version asked for, a text that aborts the process: `TypeOK`, `OneClient`, `AnswersToAsker`, `BufferIntact`, `AnswerBeforeNotice`, `NoticeToAskerWhileServed` |
| `server_live` | 106 thousand | a client that asks for the version while its job is under way or its notice is sent, and another with a job: `PlaceFreed`, `ConnectionDecided`, `KnownRequestAnswered` |
| `framing` | 3391 | five streams of packets, whole, cut and with headers that lie: `TypeOK`, `HandlerLeaves`, and that the framing implements `PacketStream` |
| `stabilize_safety` | 229 thousand | 29 requests, two lengths of video, both kinds of tracker: `TypeOK`, `OneRecordPerPicture`, `TrajectoryInRange`, `OwnTracker`, `RequestFollowed`, `StartsOnPicture`, `NothingLost`, `PrevToCur`, `NoBorder`, `Ends`, and that `Process` implements `StabilizedVideo` |
| `media` | 93 thousand | five videos, quick and slow decoders, every external call failing: `TypeOK`, `EveryPictureSomewhere`, `SameNumbers`, `FrontIsThere`, `SecondPassEnds` |
| `thing_queue` | 2054 | four threads with four scripts: `TypeOK`, `NobodySleepsOverThings`, `AllReturn`, and that the queue implements `FifoQueue` |
| `shutdown` | 63 thousand | a teardown at any moment of two requests: `JoinsProtect`, `ShutdownEnds` |
| `stabilize_drop` | - | refutes the log's "frame drop apply" |
| `stabilize_zoom` | - | refutes the log's "zooming. roi" |

Each property is stated in words above its definition.

### Properties with a precondition

Some properties hold only up to a point, and the point is part of what they say:

* `LabelsCorrect` and `WatcherThrowsOnlyMislabelled` hold until `disturbed`: until a
  request without `Action` was skipped after it entered `m_qTMSG`, or a rejected
  request took the entry of another one. Both happen in `pipeline_safety`, and from
  there on replies can carry the output of another request. `ImplementsService` holds on
  both sides of that point.
* `AnswerBeforeNotice` and `KnownRequestAnswered` ask that the uninitialized
  `m_bThreadStop` came up as zero, and the second that the handler is set.
* `ConnectionDecided` excuses only a connection that is never accepted because all
  descriptors are used up. One that is accepted, the last included, must be admitted or
  refused, also while another client is served; `server_live` has descriptors enough, so that
  nothing is excused there.
* `OwnTracker` asks that periods begin at a picture and are separated, `TrajectoryInRange`
  that they begin and end inside the video, `RequestFollowed` both of the client's message, in the order of its numbers
  and not in the order it lists them (`Orderly`). `ImportVideoInfo` guarantees none of
  this: it sorts by number, never compares two periods and accepts numbers below zero. All other properties of
  `Stabilize` hold for any list.
* `StartsOnPicture` excuses a target at or beyond the right or lower edge, which
  nothing rejects. What it does promise covers a request that names no target, and one
  with `-1` in a single coordinate: neither replaced nor rejected, it ends on the picture
  only because the quotient of `TrackerInitFx` is cut off towards zero.
* `ImplementsStream` promises nothing after a header that does not fit its body, not even
  that the next packet is found again, and allows one incomplete packet at a reset. Until then
  only a packet with a refused header and no body may be skipped (`Skip`), and the step is lost
  only by a header that does not fit (`LoseStep`).
* `ShutdownEnds` excuses a notification that comes between a worker's test and its wait
  (`missed`), after which `~TaskManager` can wait for ever, and a client that does not
  read. It takes the end of the process by an exception for an end: once a client was
  ever served, `~DMServer` always ends so.
* `NoBorder` asks that no correction exceeds half the picture. Beyond that the
  corners of the margin change places, and a rectangle that does not cover the moved
  picture can be accepted. It is stated to whole pixels: a fraction of a pixel, that
  `warpAffine` interpolates, is cut off on both sides.

* `SameNumbers` holds where no external call kept a picture. A packet that fails to
  decode in one pass only shifts all later numbers, and corrections go to the wrong
  pictures. `Stabilize` assumes that this does not happen. `EveryPictureSomewhere` says the
  rest: a pass that reads to the end hands out all the pictures that were not kept.
* `FrontIsThere` excuses decoders that answer without a picture, and a second pass in
  which nothing decodes: there `_remain` is that of the first pass, and the front of an
  empty vector is taken.
* `SecondPassEnds` asks that the second `OpenReader` succeeded, which `Process` does not
  look at; with a reader that is not open it asks for ever.
  Where `Process` returns from the first pass, nothing is closed.
* `ImplementsFifo` lets a thing be lost only to a thread inside `Clear`, and the front of an
  empty queue be taken only after `Destory`. `AllReturn`, `FrontIsFilled` and its theorem
  `FrontIsSafe` exclude what comes after `Destory`: a thread between its
  test and its wait is not woken, and a woken one takes the front of an empty queue.

### Disagreements between the code and what it says of itself

* `TaskManager.cpp:101` logs `cur_worker` as the number of working workers and jobs.
  A request `ImportVideoInfo` rejects is counted in and never out, so an idle
  process reads a positive number (`CounterCountsWork`).
* `Stabilization.cpp:370` and `:499` log that a picture whose movement is beyond
  `drop_threshold` is removed. Its record has `onswipe = false`, and the second pass
  asks for `remove` only where `onswipe` is set, so it is written uncorrected
  (`RemovedNotShown`; `NothingIsDropped` is the theorem behind it). The
  program's threshold is the width of the picture, which a tracked box hardly ever
  crosses between two pictures; the run uses a small one.
* `Stabilization.cpp:340` logs the size of the box for the zoom of a period. The
  tracker follows a box of its own copy of the parameters, which keeps the default
  size (`BoxFollowsZoom`).

### Bounds, and why they are enough

| Constant | Value | Why |
|---|---|---|
| `Requests` | 5 | one of each kind that takes its own way (good, failing, missing input, no output, no `Action`; in the live run also throwing and not to be parsed) and in the safety run a second good one, so that a wrong label can land on another request |
| `Workers` | 2 | two suffice to show that the second is never used; more are symmetric |
| `MaxSerial` | 2 | tokens wrap within the requests there are |
| `SizeMod` | 8 | more than the requests, and small enough to wrap below zero |
| `Clients`, `Script` | 3 (safety), 2 (live), up to three packets | one served, one refused or next, one that only connects; a known request behind a job, a job behind a job, a text on which rapidjson asserts |
| `Window` | 1 | the second message to a client that does not read blocks |
| `MaxFds` | 2 | in `server_live` enough for both clients, so that each must be admitted or refused; in `server_safety` too few for three |
| `HeaderSize`, `Chunk`, `MaxSize` | 5, 2, 3 | a header of three pieces, the last shorter; a body of one or two; the program's are 5, 1024 and 5000000 bytes |
| `Streams`, `Claims` | 5 streams, 8 headers | packets that follow each other; an empty and a negative size; one too large and one of no known kind, whose bodies are read as headers; one with more bytes than it names |
| `Lengths` | 5, 8 | videos that end inside, at the end of and after the periods |
| `VideoRequests`, `SwipeLists` | 29 requests | periods separated, touching, overlapping, too short, starting at the first picture, zoomed, of one number, listed or numbered against the time, beginning or ending below zero; limits that leave none, one or all; targets missing, half missing, beyond the picture, refused; fields or file missing. The lists are those `Imported` makes of them |
| `DefaultTarget` | 8, 4 | the middle of the picture |
| `Width`, `Height` | 16, 9 | the shape of the pictures, so that quotients are inexact |
| `Boxes`, `Curves` | 4, 2 | no movement, a small one, one beyond the threshold, a box that leaves the picture; corrections in both directions, fractions of a pixel |
| `Parts`, `TrackScale`, `DropThreshold` | 2, 3, 16 | half pixels; the scale the program sets; a threshold that one of the movements crosses (the program's is the width of the picture) |
| `NCOEFFS` | 1 | one of the periods has too few points |
| `Waits` | 2 | the first pass gives up at the second wait |
| `Files` | 5 videos | empty, one packet, and packets of one and two pictures in both orders, so that pictures wait in the queue and in the decoder |
| `Threads`, `Scripts` | 4, 4 scripts | two that wait at once and two that wake them; as many things as are asked for, polling with `IsQueue`, `Clear`, `Destory` |
| `MaxCalls` | 2 | the length of the scripts |
| `Workers`, `MaxRequests` (`Shutdown`) | 2, 2 | one worker runs the job while the other waits; one request under way and one that comes during the teardown |

The depths of the graphs (63 and 46 steps for the pipeline, 73 and 56 for the server, 18
for the framing, 25, 17 and 24 for the video, its files and the queue, 54 for the teardown) show
that the runs go through whole lives of requests, connections and videos. `CHECK_DEADLOCK
FALSE` stands only in the configurations of `Stabilize` and `FrTrans`, because `Process`
returns, of `ThingQueue`, because the scripts end, of `Framing`, because the handler
leaves, and of `Shutdown`, because the process is over or hangs. `TaskPipeline` and
`DMServer` have an explicit step for having nothing to do (`PollEmpty`, `Wait`), and
in every other state without a successor TLC would report a deadlock.

### Fairness

* `TaskPipeline`: weak fairness of the receiving thread, the pool, the watcher and
  the sender. Each is a thread with an endless loop. Beside the queues the model shows, a
  worker waits for `Process` to return, which in the code may ask for pictures for ever, and
  the sender for the mutexes and the `send` of `SendData`, which a client that does not read
  can hold up: the assumption is that both return. The workers are taken together, since any
  of them may pick up a job.
* `DMServer`: strong fairness of the accept thread, of each handler and of the
  sender, because they compete for two mutexes: a thread that finds a mutex free
  again and again obtains it. Weak fairness of `Read`, for clients that have not
  closed read what they are sent; without it a client can stop the daemon, which is
  a hazard and not a property. Nothing is assumed of connecting, sending and closing.
* `Framing`: weak fairness of `RECV`, the handler's thread. The client owes nothing: it may
  stop for ever in the middle of a packet, and the handler then waits for it.
* `Stabilize`: weak fairness of the whole, one thread. The waits of the first pass
  are actions and are limited by `retry_cnt`; the second pass waits without a limit
  and changes nothing, so there a wait is a stuttering step, and the assumption says
  that FrTrans comes up with a picture some time.

* `FrTrans`: weak fairness of the whole, one thread: in the second pass, where a failing
  read changes nothing, it says that a reader that was started does not fail for ever.
* `ThingQueue`: weak fairness of each thread. The mutex is not fair, so a thread is certain
  to get it only if it stays free; `AllReturn` therefore asks that threads do not wake
  without reason for ever.

* `Shutdown`: weak fairness of each thread and of the destructors, strong fairness of taking
  `m_job`, for which several threads compete. `Exit` need not come, no client need read
  (`SendUnblocks`) and no wait ends without a reason (`WakeUp`).

## 4. What is proved

Each theorem holds for every value of the constants that satisfies the assumption
of its module. An assumption says what kind of value a constant is, and beyond that only
what the code or its use settles:

* `PipelineAssumption`: a request without `output` is never imported (`ExpUtil.cpp:37-46`
  rejects it).
* `StabilizeAssumption`: a list has a period (`ExpUtil.cpp:82-83` refuses an empty one); its
  numbers are any integers.
* `RequestedVideoAssumption`: the target put in for a missing one lies on the picture
  (`ExpUtil.cpp:90-91` takes the middle of 1920 by 1080, the size `Stabilization.cpp:145-146`
  sets), and the picture is scaled down for the trackers (by 3, `Stabilization.cpp:112`).
* `ShutdownAssumption`: there is a worker (`CMDefine.hpp:49` makes three). Without one
  `RcvMSGThread` would wait for its first job for ever.
* `FrTransAssumption`: packets bring pictures in ascending numbers, which is how the model
  numbers them, and the first pass waits at least once.
* `MarginAssumption`: the least part cut out is no larger than the picture.
* `FramingAssumption`: a header has a byte, and `RECV` asks for at least one.

TLC evaluates all of them in the runs. Every safety invariant, action property and
refinement that a passing run checks is stated by a theorem.

**TaskPipelineProofs** (`PipelineAssumption`). The inductive invariant is
`BaseInv /\ QueueInv /\ LabelInv /\ OutputInv`, and `OrderInv` for the order.
`TypeOK` is not inductive alone: that the promise holds a result when it is
published needs `PoolInv`, which follows the one job through the pool in the five
forms it can have. `QueueInv` counts: `m_qTMSG` holds at least as many entries as
there are results on the way, corrected by `Shift` while the watcher has taken one of
the two. It is an inequality because skipped requests leave entries behind, and this is
enough for `NoDequeueWaits`. `LabelInv` says that until `disturbed` the count is exact
and the entries are the requests of the results, position by position; that gives
`RepliesLabelled`. `OutputInv` follows a request without output and gives, with
`LabelInv`, `WatcherThrows`. Further theorems: `TypeCorrect`, `PoolIsSerial`.
`OrderInv` reads the requests on their way (the one whose result the watcher holds, those
in `m_future`, the one in the hands of `RcvMSGThread`, those in `m_qRMSG`) as one sequence:
it holds exactly the requests without a fate, in the order in which they came, each once
(`InOrder`). A refusal takes one out of the middle, and a result is always that of the first
(`FinishTakesFirst`), as `StabilizeService` asks; so `PipelineImplementsService` is proved
action by action.

**DMServerProofs** (`ServerAssumption`). The invariant is `TypeOK`, `OneClient`,
`NotStarted`, `LockInv`, `BufferIntact`, `NoticeInv` and `AnswersToAsker`.
`OneClient` needs `NotStarted`: between the test of `m_ClientSockets` and the start of
the handler no other handler can free the slot, because none is running. `LockInv`
(who is past a lock holds it) keeps the buffer intact, and with `NoticeInv`, which tells
the two kinds of senders apart, an answer is sent by a handler that is in its loop, so
that the socket `SendData` finds is its own. Theorems: `ServerTypes` (no packet received
that was not sent, no send into a full buffer), `ServesOneClient` (a handler is always given
the socket that was accepted, and nobody else is in its loop), `BufferProtected`, `AnswerRouted`. `TakenInv` says that what is queued as
a job or as a notice was taken from a client whose handler ran, and was answered before,
unless `m_bThreadStop` came up wrong; with it `AnsweredBeforeNotice`. `NoticeRouted`
takes from it that the asker's handler exists; while that is in its loop, `OneClient` leaves
nobody else a notice could go to.

**FramingProofs** (`FramingAssumption`). `StepKept` is the invariant: until a header is looked
for in the wrong place (`lost`), the handler is in step with some packet `i`, whose header
begins where the handler's does and whose body is of the size it read, or a reset has cut a
packet and no byte comes after it (`CutOff`). The counters of `RECV` keep a read from
reaching beyond what is missing, so that each `recv()` leaves the handler in step or
finishes a packet that is the next of the stream; a handler in a body has read a header
that is good and fits it, so what is handed over is a good packet and what is skipped is not. Where packet `i` begins is defined by
recursion over the packets before it (`StartOf`). What it defines is proved without an
induction theorem: a set of naturals has a least element (`LeastOf`), because the finite
subsets of a set are well-founded under inclusion, which the library states without an
operator parameter; so there is no least packet at which the sum could be wrong
(`StartsExist`, `StartsOfPackets`, `StartsAscend`). Theorems: `FramingTypes`,
`FramingImplementsStream`.

**StabilizeProofs** (`StabilizeAssumption`, `MarginAssumption`). First the arithmetic.
`CropInside`: with `mx` and `my` up to half the picture, the rectangle lies inside the
picture moved by that much. The near corner stays in the first half and at least the
margin away (`NearCorner`), the far one behind it (`FarCorner`), whatever the quotients
cut off. Then the two passes. `Core` is `TypeOK`,
`OneRecordPerPicture`, `NeverBoth` and `Written`. `Written` ties the number of written
pictures to the picture the second pass is at; it needs `NeverBoth` (no record is both
`onswipe` and `remove`), since a dropped picture would shift everything, and
`OneRecordPerPicture`, since otherwise `Warp` would look behind the vector. Theorems:
`ProcessTypes`, `EachPictureRecorded`, `NothingIsLost`, `NothingIsDropped` and
`ProcessImplementsVideo`, the refinement: initial states map to initial states and every
step to a step of `StabilizedVideo` or to none.

Last the pictures. `Correcting` adds to `Core` that corrections lie within the extremes
(`Reached`) and inside periods (`Inside`), that the margin is the one for these extremes
(`MarginKept`), and that what was written was moved by the correction of the picture
after it (`Warps`). Theorems: `EachOwnCorrection` and, with `CropInside` and the
monotonicity of quotients, `NoBorderShown`.

**TrajectoryProofs** (also `RequestedVideoAssumption`). `Passing` adds to `Core` where the
first pass is: periods left behind lie behind the picture (`Passed`), separated ones are
never run past (`InTime`), background and tracker are those of the period (`Background`,
`OwnPeriod`), and the pictures passed carry their records (`RecordedSoFar`). Theorems:
`TrajectoryRecorded`, `EachPeriodOwnTracker`, `EachPeriodRecorded`.
`Requesting` ties this to the client's message: the periods in use are those
`ImportVideoInfo` made (`AsImported`), only pictures inside a period carry a movement
(`OnlyInside`), and a tracker just started has its object where the target is
(`StartedAt`). For an orderly request the rank of a period that the limit leaves is its
place in the list `Process` is given (`KeptPeriods`, which counts the periods of lower
number), so `EachPeriodRecorded` becomes `FollowsRequest`, about the request. `TrackerStartsOnPicture`
holds of every request, because a coordinate of `-1` is cut off to 0 by a scale above 1.

**FrTransProofs** (`FrTransAssumption`). That what was handed out, then the queue,
then the decoder, hold in this order all the pictures of the packets read but the lost ones
is `EveryPictureSomewhere` while a pass reads; `PlacesInv` makes it inductive with what the
queue and `_remain` are before the first picture of a pass. It needs `PassInv`, what each place of `Process` says of the two passes (the queue is
empty when the writer is opened, which is why closing must clear it), and it carries that
with nothing lost picture `n` is the `n`-th (`Identity`), from which `NumberedAlike`
follows. `EndInv` and `NumberInv` keep this of a pass that is over, `WriteInv` says what
the file has. Theorems: `TypesKept`, `NoPictureForgotten`, `NumberedAlike`, `FrontOfQueue`,
`WrittenWithoutGap` (no run checks `TimesWithoutGap`; it says nothing of a file that could not
be opened, in which there is no picture).

**ShutdownProofs** (`ShutdownAssumption`). `JoinsProtect` rests on the order of the joins:
once `main` has passed a join, the thread has ended (`RcvJoined`, `SndJoined`, `PoolJoined`,
`WatJoined`). For the pool this takes more: a worker ends only when `stop_all` is set and
there are no jobs, and a job can be added only by `RcvMSGThread`, which `main` has joined
before it sets `stop_all` (`StopInOrder`); that thread is itself joined only after its job
is done, which needs that the job is on its way (`JobOnItsWay`) and has a worker left to do
it (`JobHasWorker`). Theorem: `TeardownProtected`.

**ThingQueueProofs** (`ThingQueueAssumption`). `IInv` adds to `TypeOK` that a thread inside
an operation has one to be in (`InCall`) and that a thread at the front found something
there (`FrontKnown`), which the mutex protects until it is taken. This gives `QueueTypes`,
`FrontIsSafe`. For `NobodySleeps` it takes `WaitersDequeue` as well: a thread that is about to wait has found the queue empty and
nobody could fill it since; then every thing put in wakes one more thread, as long as one
waits, and every thing taken takes one from the way. The refinement `QueueImplementsFifo`
uses both: a thread that wakes is in `Dequeue`, so only one that locks the mutex for `Clear`
asks to empty the queue, and a thread that finds nothing at the front does so after `Destory`.

**Only model-checked.** All liveness (`EveryRequestHandled`, `PlaceFreed`,
`ConnectionDecided`, `KnownRequestAnswered`, `Ends`, `SecondPassEnds`, `AllReturn`,
`HandlerLeaves`, `ShutdownEnds`): it rests on fairness and ENABLED, which the prover cannot
treat.

## 5. What is not modelled, and why

* `main.cpp`: the function that is built imports one file and runs `Process`; the one that
  starts the daemon is commented out. What either starts is modelled.
* Most of the tree: more than nine lines in ten of its C and C++ are third-party headers (`common/json.hpp`, three
  copies of fmt and spdlog, rapidjson) or generated. What the program asks of
  them is in the models where it matters (an exception, an assertion, a lost packet).
  Of the program's own files, what is left out is listed here.
* A client that sends a part of a packet and stops for ever keeps the only place; the
  handler waits in `recv()`, in `Framing` as in the code. No property forbids it, the
  code has no timeout.
* Restarts: nothing is kept on disk between two runs of the process, so there is
  no recovery to model; a model ends where the process ends.
* The pictures themselves: `ImageProcess`, `warpAffine`, `resize`, detection and masks.
  They compute values and keep no state between pictures but the boxes.
* The geometry of a box: `MakeROI`, `GetIOU`, `CheckWithin` and the clamping of
  `GrayTracking`. They are functions of coordinates that the search for a maximum produces;
  the search is masked so that the limits are met at the lower edge only, and
  `ColorTracking::TrackerInit`, which would use the rest, is never called. `Boxes` stands for
  what they return, and may lie outside the picture.
* The Kalman filters, the median, darknet's detector and optical flow: `Initialize` chooses
  none of them.
* The commands `UPDATE_CONFIGURE` and `SEND_VERSION` of `CommandTask`: nothing sends them.
* That the two passes may number the pictures of a video differently (a packet that does not
  decode is skipped): `Stabilize` takes one number of pictures for both; `FrTrans` says when
  they agree.
* Races on the `std::function` of the handler and on `m_bThreadStop` beyond their values: a
  read gives the old or the new value.
* What an answer says: its fields, the code of an error, the version. Every known request gets
  one, with an error or without, and is queued all the same if it asks for a job.
* Logging, error texts, address lists, paths and times: they format.
* `Stabilization_bckp.cpp`, the Python experiments and the libraries under `3rd/`.

## 6. Plan

The order is that of importance: first how a request gets through the daemon, then what
happens to a video, then the edges.

| Step | Modules | State |
|---|---|---|
| A | `StabilizeService`, `TaskPipeline`, `TaskPipelineProofs` | done |
| B | `RequestDispatch`, `DMServer`, `DMServerProofs` | done |
| C | `StabilizedVideo`, `Margin`, `Stabilize`, `StabilizeProofs`, `TrajectoryProofs` | done |
| D | `FifoQueue`, `ThingQueue`, `ThingQueueProofs` | done |
| E | `FrTrans`, `FrTransProofs` | done |
| F | `PacketStream`, `Framing`, `FramingProofs` | done |
| G | `VideoInfo`, `RequestedVideo`; proofs in `TrajectoryProofs` | done |
| H | `Geometry` (`MakeROI`, `GetIOU`, `CheckWithin`) | dropped: pure functions without a caller that meets their limits, see section 5 |
| I | `Shutdown`, `ShutdownProofs` | done |
| J | `Daemon`: `DMServer` composed with `TaskPipeline`, where what the answer says meets what becomes of the request: from the text a client sends to the notice it gets | open |

Proofs that are open, the most useful first: what the daemon as a whole promises, once
step J composes its two halves; what `Verdict` and `WithTargets` of `VideoInfo` return for
any list of periods, refused ones included; safety inside the liveness properties, such as the
number of waits the first pass can make. New theorems of a component join its existing
proofs.
