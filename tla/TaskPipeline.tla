----------------------------- MODULE TaskPipeline -----------------------------
(***************************************************************************)
(* The path of a stabilization request through MsgManager and TaskManager, *)
(* from OnRcvMessage to DMServer::SendData:                                *)
(*                                                                         *)
(*    m_qRMSG -> RcvMSGThread -> jobs -> WorkerThread -> m_future          *)
(*                     \-> m_qTMSG -----------------------\   |            *)
(*                                   SndMSGThread <- m_qSMSG <- WatchFuture*)
(*                                                                         *)
(* An element of Requests is one MSG_T object.  A job's result travels in  *)
(* m_future without the request it belongs to: the watcher labels it with  *)
(* whatever message is then at the head of m_qTMSG.  The field "job" of    *)
(* the records below is a history value, the code holds only the rest.     *)
(*                                                                         *)
(* Every queue operation runs under the queue's own mutex, so each is one  *)
(* step; IsQueue and the Dequeue that follows it are one step where the    *)
(* caller is the queue's only consumer.  cur_worker is a plain size_t that *)
(* two threads update, so ++ and -- are a load and a store.                *)
(***************************************************************************)
EXTENDS Integers, Sequences, FiniteSets

CONSTANTS
    Requests,        \* the MSG_T objects that reach OnRcvMessage
    Workers,         \* the TASKPOOL_SIZE threads of the pool
    None,            \* a null pointer, an idle thread
    Malformed,       \* requests json::parse rejects though RecJson let them pass
    NoAction,        \* requests whose JSON has no "Action"
    NoOutput,        \* requests whose JSON has no "output"
    ImportOutcomes,  \* request -> what ImportVideoInfo may do with it
    JobOutcomes,     \* request -> what RunStabilize may do with it
    MaxSerial,       \* 9999: the last serial number of GenerateToken
    SizeMod          \* 2^64: cur_worker is a size_t

(* ImportVideoInfo returns an error before any other result when "output"  *)
(* is missing, so such a request is never imported.                        *)
ASSUME PipelineAssumption ==
    /\ None \notin Requests \cup {"complete", "error", "throw"}
    /\ Workers # {}
    /\ Malformed \subseteq Requests
    /\ NoAction \subseteq Requests \ Malformed
    /\ NoOutput \subseteq Requests
    /\ ImportOutcomes \in [Requests -> SUBSET {"ok", "error", "throw"}]
    /\ \A m \in NoOutput : "ok" \notin ImportOutcomes[m]
    /\ JobOutcomes \in [Requests -> SUBSET {"complete", "error", "throw"}]
    /\ MaxSerial \in Nat \ {0}
    /\ SizeMod \in Nat \ {0}

VARIABLES
    m_qRMSG, m_qTMSG, m_future, m_qSMSG,   \* the four message queues
    jobs,         \* the pool's job queue
    worker,       \* worker -> the request it is stabilizing
    promise,      \* the result job_result_future waits for
    rcv, rmsg,    \* RcvMSGThread: where it is, the message it holds
    wat, wmsg, wres,   \* WatchFuture: where it is, what it has dequeued
    cur_worker, rreg, wreg,   \* the counter, and the two threads' copies
    serial,       \* Configurator::serial
    alive,        \* no exception has left a thread function yet
    received,     \* history: requests in the order OnRcvMessage took them
    fate,         \* history: how far each request has come
    announced,    \* history: StabilizeDone messages handed to SendData
    disturbed     \* history: m_qTMSG has lost step with the jobs

queues   == <<m_qRMSG, m_qTMSG, m_future, m_qSMSG>>
pool     == <<jobs, worker, promise>>
rcvVars  == <<rcv, rmsg, rreg>>
watVars  == <<wat, wmsg, wres, wreg>>
history  == <<received, fate, announced, disturbed>>
vars     == <<queues, pool, rcvVars, watVars, cur_worker, serial, alive, history>>

RcvPC == {"poll", "forward", "parse", "store", "import", "discard", "push",
          "wait", "publish"}
WatPC == {"poll", "haveMsg", "haveResult", "make", "load", "store"}
Fates == {"new", "received", "ignored", "rejected", "failed", "done"}

Reply == [job : Requests, label : Requests, token : 1..MaxSerial]
Result == [job : Requests, result : {"complete", "error"}]

QueueTypes ==
    /\ m_qRMSG \in Seq(Requests) /\ m_qTMSG \in Seq(Requests)
    /\ m_future \in Seq(Result)  /\ m_qSMSG \in Seq(Reply)

PoolTypes ==
    /\ jobs \in Seq(Requests)
    /\ worker \in [Workers -> Requests \cup {None}]
    /\ promise \in {"complete", "error", "throw", None}

RcvTypes ==
    /\ rcv \in RcvPC
    /\ rmsg \in Requests \cup {None}
    /\ rcv # "poll" => rmsg \in Requests

WatTypes ==
    /\ wat \in WatPC
    /\ wmsg \in Requests \cup {None}
    /\ wres \in Result \cup {None}
    /\ wat \in {"haveMsg", "make"} => wmsg \in Requests
    /\ wat \in {"haveResult", "make"} => wres \in Result

CounterTypes ==
    /\ cur_worker \in 0..(SizeMod - 1)
    /\ rreg \in 0..(SizeMod - 1) /\ wreg \in 0..(SizeMod - 1)
    /\ serial \in 0..MaxSerial

HistoryTypes ==
    /\ received \in Seq(Requests)
    /\ fate \in [Requests -> Fates]
    /\ announced \in Seq(Reply)

FlagTypes == alive \in BOOLEAN /\ disturbed \in BOOLEAN

(* The values the variables take; a thread that is past its Dequeue holds  *)
(* what it dequeued, and cur_worker stays within a size_t.                 *)
TypeOK ==
    /\ QueueTypes /\ PoolTypes /\ RcvTypes /\ WatTypes /\ CounterTypes
    /\ HistoryTypes /\ FlagTypes

Init ==
    /\ m_qRMSG = <<>> /\ m_qTMSG = <<>> /\ m_future = <<>> /\ m_qSMSG = <<>>
    /\ jobs = <<>>
    /\ worker = [w \in Workers |-> None]
    /\ promise = None
    /\ rcv = "poll" /\ rmsg = None
    /\ wat = "poll" /\ wmsg = None /\ wres = None
    /\ cur_worker = 0 /\ rreg = 0 /\ wreg = 0
    /\ serial = 0
    /\ alive = TRUE
    /\ received = <<>>
    /\ fate = [m \in Requests |-> "new"]
    /\ announced = <<>>
    /\ disturbed = FALSE

-----------------------------------------------------------------------------
(* The queues' Enqueue and what their Dequeue leaves, and two faulty       *)
(* forms: a stack and a lost message.                                      *)
EnqueuedFirst(q, x) == <<x>> \o q
EnqueuedNowhere(q, x) == q
Enqueued(q, x) == Append(q, x)
Dequeued(q) == Tail(q)

(* An exception that leaves a thread function ends the process.            *)
Terminate ==
    /\ alive' = FALSE
    /\ UNCHANGED <<queues, pool, rcvVars, watVars, cur_worker, serial, history>>

(* DaemonMgr hands over a "Stabilize" request, on a client's thread.       *)
OnRcvMessage(m) ==
    /\ alive
    /\ fate[m] = "new"
    /\ m_qRMSG' = Enqueued(m_qRMSG, m)
    /\ received' = Append(received, m)
    /\ fate' = [fate EXCEPT ![m] = "received"]
    /\ UNCHANGED <<m_qTMSG, m_future, m_qSMSG, pool, rcvVars, watVars, cur_worker,
                   serial, alive, announced, disturbed>>

-----------------------------------------------------------------------------
(* RcvMSGThread                                                            *)

RcvGoes(from, to) ==
    /\ alive
    /\ rcv = from
    /\ rcv' = to
    /\ UNCHANGED <<m_qSMSG, worker, watVars, serial, alive, received, announced>>

RcvDequeuedTo(pc) ==
    /\ RcvGoes("poll", pc)
    /\ m_qRMSG # <<>>
    /\ rmsg' = Head(m_qRMSG)
    /\ m_qRMSG' = Dequeued(m_qRMSG)
    /\ UNCHANGED <<m_qTMSG, m_future, jobs, promise, rreg, cur_worker, fate, disturbed>>

RcvDequeueNoTask == RcvDequeuedTo("parse")   \* without the call of OnRcvTask
RcvDequeue == RcvDequeuedTo("forward")

OnRcvTask ==
    /\ RcvGoes("forward", "parse")
    /\ m_qTMSG' = Enqueued(m_qTMSG, rmsg)
    /\ UNCHANGED <<m_qRMSG, m_future, jobs, promise, rmsg, rreg, cur_worker, fate,
                   disturbed>>

(* A text that rapidjson takes, json::parse may not (it must be UTF-8), or  *)
(* its "Action" is no string: the exception leaves the thread.             *)
ParseThrows == alive /\ rcv = "parse" /\ rmsg \in Malformed /\ Terminate

(* "Json component missing": the thread goes on to the next message and    *)
(* leaves this one in m_qTMSG.                                             *)
RcvIgnore ==
    /\ RcvGoes("parse", "poll")
    /\ rmsg \in NoAction
    /\ fate' = [fate EXCEPT ![rmsg] = "ignored"]
    /\ disturbed' = TRUE
    /\ UNCHANGED <<queues, jobs, promise, rmsg, rreg, cur_worker>>

(* CommandTask: cur_worker++, whether or not the pool is full.             *)
CommandTaskLoad ==
    /\ RcvGoes("parse", "store")
    /\ rmsg \notin NoAction \cup Malformed
    /\ rreg' = cur_worker
    /\ UNCHANGED <<queues, jobs, promise, rmsg, cur_worker, fate, disturbed>>

CommandTaskStore ==
    /\ RcvGoes("store", "import")
    /\ cur_worker' = (rreg + 1) % SizeMod
    /\ UNCHANGED <<queues, jobs, promise, rmsg, rreg, fate, disturbed>>

ImportOfUnchecked(m) == ImportOutcomes[m] \cup {"ok"}   \* "output" not asked for
ImportOf(m) == ImportOutcomes[m]

ImportVideoInfo ==
    /\ \/ RcvGoes("import", "push") /\ "ok" \in ImportOf(rmsg)
       \/ RcvGoes("import", "discard") /\ "error" \in ImportOf(rmsg)
    /\ UNCHANGED <<queues, jobs, promise, rmsg, rreg, cur_worker, fate, disturbed>>

ImportThrows == alive /\ rcv = "import" /\ "throw" \in ImportOf(rmsg) /\ Terminate

(* The rejected request's entry is meant to go; the head goes, whichever   *)
(* request it is, so with another entry ahead the wrong one goes.  With    *)
(* m_qTMSG empty the thread would wait here.                               *)
DiscardTaskMsg ==
    /\ RcvGoes("discard", "poll")
    /\ m_qTMSG # <<>>
    /\ m_qTMSG' = Dequeued(m_qTMSG)
    /\ disturbed' = (disturbed \/ Len(m_qTMSG) > 1)
    /\ fate' = [fate EXCEPT ![rmsg] = "rejected"]
    /\ UNCHANGED <<m_qRMSG, m_future, jobs, promise, rmsg, rreg, cur_worker>>

EnqueueJob ==
    /\ RcvGoes("push", "wait")
    /\ jobs' = Append(jobs, rmsg)
    /\ UNCHANGED <<queues, promise, rmsg, rreg, cur_worker, fate, disturbed>>

(* job_result_future.get(): the thread is blocked until the job has run.   *)
FutureGet ==
    /\ RcvGoes("wait", "publish")
    /\ promise \in {"complete", "error"}
    /\ UNCHANGED <<queues, jobs, promise, rmsg, rreg, cur_worker, fate, disturbed>>

FutureRethrows == alive /\ rcv = "wait" /\ promise = "throw" /\ Terminate

PublishResult ==
    /\ RcvGoes("publish", "poll")
    /\ m_future' = Enqueued(m_future, [job |-> rmsg, result |-> promise])
    /\ promise' = None
    /\ UNCHANGED <<m_qRMSG, m_qTMSG, jobs, rmsg, rreg, cur_worker, fate, disturbed>>

RcvMSGThread ==
    \/ RcvDequeue \/ OnRcvTask \/ ParseThrows \/ RcvIgnore
    \/ CommandTaskLoad \/ CommandTaskStore
    \/ ImportVideoInfo \/ ImportThrows \/ DiscardTaskMsg
    \/ EnqueueJob \/ FutureGet \/ FutureRethrows \/ PublishResult

-----------------------------------------------------------------------------
(* The pool.  The packaged task keeps an exception for the future.         *)

TakeJob(w) ==
    /\ alive
    /\ worker[w] = None /\ jobs # <<>>
    /\ worker' = [worker EXCEPT ![w] = Head(jobs)]
    /\ jobs' = Tail(jobs)
    /\ UNCHANGED <<queues, promise, rcvVars, watVars, cur_worker, serial, alive, history>>

RunStabilize(w) ==
    /\ alive
    /\ worker[w] # None
    /\ promise' \in JobOutcomes[worker[w]]
    /\ worker' = [worker EXCEPT ![w] = None]
    /\ UNCHANGED <<queues, jobs, rcvVars, watVars, cur_worker, serial, alive, history>>

WorkerThread(w) == TakeJob(w) \/ RunStabilize(w)

-----------------------------------------------------------------------------
(* WatchFuture: the compiler chooses which argument of                     *)
(* MakeSendMsg(m_qTMSG.Dequeue(), m_future.Dequeue()) it evaluates first.  *)

WatGoes(from, to) ==
    /\ alive
    /\ wat = from
    /\ wat' = to
    /\ UNCHANGED <<m_qRMSG, pool, rcvVars, alive, received, announced, disturbed>>

WatchTakeMsg ==
    /\ \/ WatGoes("poll", "haveMsg") /\ m_future # <<>>
       \/ WatGoes("haveResult", "make")
    /\ m_qTMSG # <<>>
    /\ wmsg' = Head(m_qTMSG)
    /\ m_qTMSG' = Dequeued(m_qTMSG)
    /\ UNCHANGED <<m_future, m_qSMSG, wres, wreg, cur_worker, serial, fate>>

WatchTakeResult ==
    /\ WatGoes("poll", "haveResult") \/ WatGoes("haveMsg", "make")
    /\ m_future # <<>>
    /\ wres' = Head(m_future)
    /\ m_future' = Dequeued(m_future)
    /\ UNCHANGED <<m_qTMSG, m_qSMSG, wmsg, wreg, cur_worker, serial, fate>>

NextSerial == IF serial >= MaxSerial THEN 1 ELSE serial + 1

(* A failed job is not answered.                                           *)
MakeNoReply ==
    /\ WatGoes("make", "load")
    /\ wres.result = "error"
    /\ fate' = [fate EXCEPT ![wres.job] = "failed"]
    /\ UNCHANGED <<m_qTMSG, m_future, m_qSMSG, wmsg, wres, wreg, cur_worker, serial>>

MakeSendMsg ==
    /\ WatGoes("make", "load")
    /\ wres.result = "complete"
    /\ wmsg \notin NoOutput
    /\ serial' = NextSerial
    /\ m_qSMSG' = Enqueued(m_qSMSG,
                     [job |-> wres.job, label |-> wmsg, token |-> NextSerial])
    /\ fate' = [fate EXCEPT ![wres.job] = "done"]
    /\ UNCHANGED <<m_qTMSG, m_future, wmsg, wres, wreg, cur_worker>>

(* j["output"] of a message that has none does not convert to a string.    *)
MakeThrows ==
    /\ alive /\ wat = "make"
    /\ wres.result = "complete"
    /\ wmsg \in NoOutput
    /\ Terminate

WatchLoad ==
    /\ WatGoes("load", "store")
    /\ wreg' = cur_worker
    /\ UNCHANGED <<m_qTMSG, m_future, m_qSMSG, wmsg, wres, cur_worker, serial, fate>>

DecrementedSigned(n) == n - 1     \* the counter is not a size_t
Decremented(n) == (n - 1) % SizeMod

WatchStore ==
    /\ WatGoes("store", "poll")
    /\ cur_worker' = Decremented(wreg)
    /\ UNCHANGED <<m_qTMSG, m_future, m_qSMSG, wmsg, wres, wreg, serial, fate>>

WatchFuture ==
    \/ WatchTakeMsg \/ WatchTakeResult
    \/ MakeNoReply \/ MakeSendMsg \/ MakeThrows
    \/ WatchLoad \/ WatchStore

-----------------------------------------------------------------------------
(* SndMSGThread hands the message to SendData and ignores its result.      *)
SndMSGThread ==
    /\ alive
    /\ m_qSMSG # <<>>
    /\ announced' = Append(announced, Head(m_qSMSG))
    /\ m_qSMSG' = Dequeued(m_qSMSG)
    /\ UNCHANGED <<m_qRMSG, m_qTMSG, m_future, pool, rcvVars, watVars, cur_worker,
                   serial, alive, received, fate, disturbed>>

(* With nothing to do every loop finds its queue empty and sleeps; after   *)
(* Terminate there is no process.                                          *)
Idle ==
    /\ m_qRMSG = <<>> /\ m_future = <<>> /\ m_qSMSG = <<>> /\ jobs = <<>>
    /\ rcv = "poll" /\ wat = "poll"

PollEmpty == (Idle \/ ~alive) /\ UNCHANGED vars

Next ==
    \/ \E m \in Requests : OnRcvMessage(m)
    \/ RcvMSGThread
    \/ \E w \in Workers : WorkerThread(w)
    \/ WatchFuture
    \/ SndMSGThread
    \/ PollEmpty

(* Every loop of the process is scheduled again and again, and a job ends. *)
Fairness ==
    /\ WF_vars(RcvMSGThread)
    /\ WF_vars(\E w \in Workers : WorkerThread(w))
    /\ WF_vars(WatchFuture)
    /\ WF_vars(SndMSGThread)

Spec == Init /\ [][Next]_vars
FairSpec == Spec /\ Fairness

-----------------------------------------------------------------------------
(* Properties                                                              *)

(* The pool never holds two jobs: EnqueueJob waits for the future on the   *)
(* thread that feeds the pool, so of TASKPOOL_SIZE workers one is busy.    *)
SerialPool ==
    /\ Len(jobs) <= 1
    /\ jobs # <<>> => promise = None
    /\ \A w \in Workers : worker[w] # None =>
          /\ jobs = <<>> /\ promise = None
          /\ \A v \in Workers \ {w} : worker[v] = None

(* Two threads remove from m_qTMSG and neither looks first: the Dequeue of *)
(* CommandTask and those of WatchFuture never wait on an empty queue.      *)
DequeueNeverWaits ==
    /\ rcv = "discard" => m_qTMSG # <<>>
    /\ wat = "haveResult" => m_qTMSG # <<>>
    /\ wat = "haveMsg" => m_future # <<>>
    /\ wat = "poll" /\ m_future # <<>> => m_qTMSG # <<>>

RepliesInFlight == announced \o m_qSMSG

(* A StabilizeDone names the output of the job that ended, until a request *)
(* without "Action" was skipped or a rejected request took another's entry *)
(* out of m_qTMSG.                                                         *)
LabelsCorrect ==
    ~disturbed =>
        \A i \in 1..Len(RepliesInFlight) :
            RepliesInFlight[i].label = RepliesInFlight[i].job

(* TaskManager.cpp:101 logs cur_worker as "working worker + job", so an    *)
(* idle process should read 0.                                             *)
CounterCountsWork == Idle /\ alive => cur_worker = 0

(* The watcher can only be killed by a message without "output" after the  *)
(* queue of messages has lost step with the jobs: such a message never     *)
(* reaches it as the label of its own job.                                 *)
WatcherThrowsOnlyMislabelled ==
    wat = "make" /\ wres.result = "complete" /\ wmsg \in NoOutput => disturbed

Handled(m) ==
    \/ fate[m] \in {"ignored", "rejected", "failed"}
    \/ \E i \in 1..Len(announced) : announced[i].job = m

(* Every request is skipped, rejected, fails, or has its reply handed to   *)
(* SendData, unless an exception ends the process.                         *)
EveryRequestHandled ==
    \A m \in Requests : fate[m] = "received" ~> Handled(m) \/ ~alive

Jobs(replies) == [i \in 1..Len(replies) |-> replies[i].job]

Service == INSTANCE StabilizeService WITH
    order  <- received,
    status <- [m \in Requests |->
                 IF fate[m] \in {"ignored", "rejected"} THEN "refused" ELSE fate[m]],
    outbox <- Jobs(m_qSMSG),
    sent   <- Jobs(announced),
    up     <- alive

(* The threads and queues together keep the promise of StabilizeService:   *)
(* jobs end in the order the requests came, each at most once, and exactly *)
(* the completed ones reach SendData, in that order.                       *)
ImplementsService == Service!Spec

=============================================================================
