------------------------------- MODULE Shutdown -------------------------------
(* The end of a DaemonMgr.  Its members are destroyed in reverse order:      *)
(* first m_manger, whose destructor joins RcvMSGThread and SndMSGThread and  *)
(* then destroys m_taskmanager with its workers and its watcher, and last    *)
(* m_dmServer with the thread that accepts clients.  The queues are numbers  *)
(* of messages; what becomes of a message is TaskPipeline's.                 *)
EXTENDS Integers

CONSTANTS Workers,       \* TASKPOOL_SIZE threads
          MaxRequests,   \* bound: requests that clients send
          None           \* m_job is free

ASSUME ShutdownAssumption == MaxRequests \in Nat /\ Workers # {} /\ None \notin Workers

VARIABLES
    main,                  \* where the thread that destroys the DaemonMgr is
    b_RMSGThread, b_SMSGThread, stop_all, watching, bMainSocketThread,
    rcv, snd, wat, acc,    \* the four threads that are joined
    hnd,                   \* the handler of the client served, detached
    m_clientReceiveThread, \* whether it was ever set: a client was admitted
    wk,                    \* worker -> where it is
    m_job,                 \* who holds the mutex
    m_qRMSG, jobs, ready, m_future, m_qSMSG,
    asked,                 \* requests sent so far
    missed,                \* history: notify_all came between a test and its wait
    alive

flags == <<b_RMSGThread, b_SMSGThread, stop_all, watching, bMainSocketThread>>
server == <<acc, hnd, m_clientReceiveThread, asked>>
pool == <<wk, m_job, jobs, ready>>
vars == <<main, flags, rcv, snd, wat, server, pool, m_qRMSG, m_future, m_qSMSG, missed, alive>>

\* The socket may fail to bind: then nobody accepts.
Init ==
    /\ main = "run" /\ b_RMSGThread = TRUE /\ b_SMSGThread = TRUE /\ watching = TRUE
    /\ bMainSocketThread = TRUE /\ stop_all = FALSE /\ missed = FALSE /\ alive = TRUE
    /\ rcv = "loop" /\ snd = "loop" /\ wat = "loop" /\ acc \in {"loop", "ended"}
    /\ hnd = "none" /\ m_clientReceiveThread = FALSE
    /\ wk = [w \in Workers |-> "lock"] /\ m_job = None
    /\ m_qRMSG = 0 /\ jobs = 0 /\ ready = FALSE /\ m_future = 0 /\ m_qSMSG = 0 /\ asked = 0

\* An exception leaves a thread or a destructor, or memory is used that is gone.
Terminate ==
    /\ alive' = FALSE
    /\ UNCHANGED <<main, flags, rcv, snd, wat, server, pool, m_qRMSG, m_future, m_qSMSG, missed>>

-----------------------------------------------------------------------------
\* The destructors.

MainGoes(from, to) ==
    /\ alive /\ main = from /\ main' = to
    /\ UNCHANGED <<rcv, snd, wat, server, m_job, jobs, ready, m_qRMSG, m_future, m_qSMSG, alive>>

Exit ==
    /\ MainGoes("run", "joinRcv")
    /\ b_RMSGThread' = FALSE
    /\ UNCHANGED <<b_SMSGThread, stop_all, watching, bMainSocketThread, wk, missed>>

\* mutant: the receiving thread is not waited for
LeaveRcv ==
    /\ MainGoes("joinRcv", "joinSnd")
    /\ b_SMSGThread' = FALSE
    /\ UNCHANGED <<b_RMSGThread, stop_all, watching, bMainSocketThread, wk, missed>>

JoinRcv ==
    /\ MainGoes("joinRcv", "joinSnd") /\ rcv = "ended"
    /\ b_SMSGThread' = FALSE
    /\ UNCHANGED <<b_RMSGThread, stop_all, watching, bMainSocketThread, wk, missed>>

JoinSnd ==
    /\ MainGoes("joinSnd", "stopAll") /\ snd = "ended"
    /\ UNCHANGED <<flags, wk, missed>>

\* m_job is not held.
StopAll ==
    /\ MainGoes("stopAll", "notify")
    /\ stop_all' = TRUE
    /\ UNCHANGED <<b_RMSGThread, b_SMSGThread, watching, bMainSocketThread, wk, missed>>

Notify ==
    /\ MainGoes("notify", "joinWorkers")
    /\ watching' = FALSE
    /\ wk' = [w \in Workers |-> IF wk[w] = "waiting" THEN "lock" ELSE wk[w]]
    /\ missed' = (\E w \in Workers : wk[w] = "tested")
    /\ UNCHANGED <<b_RMSGThread, b_SMSGThread, stop_all, bMainSocketThread>>

JoinWorkers ==
    /\ MainGoes("joinWorkers", "joinWatcher") /\ \A w \in Workers : wk[w] = "ended"
    /\ UNCHANGED <<flags, wk, missed>>

\* Then the members of TaskManager and MsgManager go, and DaemonParser.
JoinWatcher ==
    /\ MainGoes("joinWatcher", "closeServer") /\ wat = "ended"
    /\ UNCHANGED <<flags, wk, missed>>

CloseServer ==
    /\ MainGoes("closeServer", "joinAccept")
    /\ bMainSocketThread' = FALSE
    /\ UNCHANGED <<b_RMSGThread, b_SMSGThread, stop_all, watching, wk, missed>>

JoinAccept ==
    /\ MainGoes("joinAccept", "joinHandler") /\ acc = "ended"
    /\ UNCHANGED <<flags, wk, missed>>

\* A detached thread cannot be joined: std::thread::join throws.
JoinHandler ==
    \/ alive /\ main = "joinHandler" /\ m_clientReceiveThread /\ Terminate
    \/ /\ MainGoes("joinHandler", "done") /\ ~m_clientReceiveThread
       /\ UNCHANGED <<flags, wk, missed>>

Destroy ==
    \/ JoinRcv \/ JoinSnd \/ StopAll \/ Notify \/ JoinWorkers \/ JoinWatcher
    \/ CloseServer \/ JoinAccept \/ JoinHandler

-----------------------------------------------------------------------------
\* RcvMSGThread.  A message may be skipped or rejected.

RcvGoes(from, to) ==
    /\ alive /\ rcv = from /\ rcv' = to
    /\ UNCHANGED <<main, flags, snd, wat, server, m_qSMSG, missed, alive>>

RcvTest ==
    /\ RcvGoes("loop", IF b_RMSGThread THEN "poll" ELSE "ended")
    /\ UNCHANGED <<pool, m_qRMSG, m_future>>

RcvPoll ==
    /\ \/ m_qRMSG = 0 /\ RcvGoes("poll", "loop") /\ UNCHANGED m_qRMSG
       \/ /\ m_qRMSG > 0 /\ m_qRMSG' = m_qRMSG - 1
          /\ RcvGoes("poll", "loop") \/ RcvGoes("poll", "enqueue")
    /\ UNCHANGED <<pool, m_future>>

EnqueueTest ==
    IF stop_all THEN alive /\ rcv = "enqueue" /\ Terminate
                ELSE RcvGoes("enqueue", "push") /\ UNCHANGED <<pool, m_qRMSG, m_future>>

EnqueuePush ==
    /\ RcvGoes("push", "notify") /\ m_job = None
    /\ jobs' = jobs + 1
    /\ UNCHANGED <<wk, m_job, ready, m_qRMSG, m_future>>

\* notify_one wakes one of the workers that wait, if any does.
EnqueueNotify ==
    /\ RcvGoes("notify", "wait")
    /\ IF \E w \in Workers : wk[w] = "waiting"
       THEN \E w \in Workers : wk[w] = "waiting" /\ wk' = [wk EXCEPT ![w] = "lock"]
       ELSE UNCHANGED wk
    /\ UNCHANGED <<m_job, jobs, ready, m_qRMSG, m_future>>

FutureGet ==
    /\ RcvGoes("wait", "loop") /\ ready
    /\ ready' = FALSE /\ m_future' = m_future + 1
    /\ UNCHANGED <<wk, m_job, jobs, m_qRMSG>>

RcvMSGThread ==
    \/ RcvTest \/ RcvPoll \/ EnqueueTest \/ EnqueuePush
    \/ EnqueueNotify \/ FutureGet

-----------------------------------------------------------------------------
\* WorkerThread: the predicate of the wait is tested under m_job, and the wait
\* gives m_job back; a wait may also end without a reason.

WorkerGoes(w, from, to) ==
    /\ alive /\ wk[w] = from /\ wk' = [wk EXCEPT ![w] = to]
    /\ UNCHANGED <<main, flags, rcv, snd, wat, server, m_qRMSG, m_future, m_qSMSG, missed, alive>>

Lock(w) ==
    /\ WorkerGoes(w, "lock", "test") /\ m_job = None
    /\ m_job' = w
    /\ UNCHANGED <<jobs, ready>>

\* mutant: the wait only looks for jobs
TestJobs(w) ==
    \/ jobs = 0 /\ WorkerGoes(w, "test", "tested") /\ UNCHANGED <<m_job, jobs, ready>>
    \/ /\ jobs > 0 /\ WorkerGoes(w, "test", "run")
       /\ jobs' = jobs - 1 /\ m_job' = None
       /\ UNCHANGED ready

Test(w) ==
    \/ /\ jobs = 0 /\ ~stop_all /\ WorkerGoes(w, "test", "tested")
       /\ UNCHANGED <<m_job, jobs, ready>>
    \/ /\ jobs = 0 /\ stop_all /\ WorkerGoes(w, "test", "ended")
       /\ m_job' = None
       /\ UNCHANGED <<jobs, ready>>
    \/ /\ jobs > 0 /\ WorkerGoes(w, "test", "run")
       /\ jobs' = jobs - 1 /\ m_job' = None
       /\ UNCHANGED ready

Wait(w) ==
    /\ WorkerGoes(w, "tested", "waiting")
    /\ m_job' = None
    /\ UNCHANGED <<jobs, ready>>

WakeUp(w) == WorkerGoes(w, "waiting", "lock") /\ UNCHANGED <<m_job, jobs, ready>>

RunJob(w) ==
    /\ WorkerGoes(w, "run", "lock")
    /\ ready' = TRUE
    /\ UNCHANGED <<m_job, jobs>>

WorkerThread(w) == Lock(w) \/ Test(w) \/ Wait(w) \/ RunJob(w)

-----------------------------------------------------------------------------
\* WatchFuture and SndMSGThread.

WatGoes(from, to) ==
    /\ alive /\ wat = from /\ wat' = to
    /\ UNCHANGED <<main, flags, rcv, snd, server, pool, m_qRMSG, missed, alive>>

WatchFuture ==
    \/ /\ WatGoes("loop", IF watching THEN "poll" ELSE "ended")
       /\ UNCHANGED <<m_future, m_qSMSG>>
    \/ WatGoes("poll", "loop") /\ m_future = 0 /\ UNCHANGED <<m_future, m_qSMSG>>
    \/ /\ WatGoes("poll", "make") /\ m_future > 0
       /\ m_future' = m_future - 1
       /\ UNCHANGED m_qSMSG
    \/ /\ WatGoes("make", "loop")                \* only a completed job is answered
       /\ m_qSMSG' \in {m_qSMSG, m_qSMSG + 1}
       /\ UNCHANGED m_future

SndGoes(from, to) ==
    /\ alive /\ snd = from /\ snd' = to
    /\ UNCHANGED <<main, flags, rcv, wat, server, pool, m_qRMSG, m_future, missed, alive>>

SndMSGThread ==
    \/ SndGoes("loop", IF b_SMSGThread THEN "poll" ELSE "ended") /\ UNCHANGED m_qSMSG
    \/ SndGoes("poll", "loop") /\ m_qSMSG = 0 /\ UNCHANGED m_qSMSG
    \/ SndGoes("poll", "send") /\ m_qSMSG > 0 /\ m_qSMSG' = m_qSMSG - 1
    \/ SndGoes("send", "loop") /\ UNCHANGED m_qSMSG

\* send() blocks, or m_SendMutex is held by a handler's, until the client
\* reads or leaves.
SendBlocks == SndGoes("send", "blocked") /\ UNCHANGED m_qSMSG
SendUnblocks == SndGoes("blocked", "send") /\ UNCHANGED m_qSMSG

-----------------------------------------------------------------------------
\* The accepting thread and the handler of one client.

ServerStep ==
    /\ alive
    /\ UNCHANGED <<main, flags, rcv, snd, wat, pool, m_future, m_qSMSG, missed>>

AcceptTest ==
    /\ ServerStep /\ acc = "loop"
    /\ acc' = IF bMainSocketThread THEN "accept" ELSE "ended"
    /\ UNCHANGED <<hnd, m_clientReceiveThread, asked, m_qRMSG, alive>>

Admit ==
    /\ ServerStep /\ acc = "accept" /\ hnd = "none"
    /\ acc' = "loop" /\ hnd' = "loop" /\ m_clientReceiveThread' = TRUE
    /\ UNCHANGED <<asked, m_qRMSG, alive>>

\* accept() fails once the listening socket is shut down.
AcceptFails ==
    /\ ServerStep /\ acc = "accept" /\ ~bMainSocketThread
    /\ acc' = "loop"
    /\ UNCHANGED <<hnd, m_clientReceiveThread, asked, m_qRMSG, alive>>

Receive ==
    /\ ServerStep /\ hnd = "loop" /\ bMainSocketThread /\ asked < MaxRequests
    /\ hnd' = "classify" /\ asked' = asked + 1
    /\ UNCHANGED <<acc, m_clientReceiveThread, m_qRMSG, alive>>

\* The client left, or its socket is shut down.
HandlerEnds ==
    /\ ServerStep /\ hnd = "loop"
    /\ hnd' = "none"
    /\ UNCHANGED <<acc, m_clientReceiveThread, asked, m_qRMSG, alive>>

\* RunParse and OnRcvMessage; the objects may be gone, with any outcome.
ManagerGone == main \in {"closeServer", "joinAccept", "joinHandler", "done"}

Classify ==
    /\ ServerStep /\ hnd = "classify"
    /\ hnd' = "loop"
    /\ IF ManagerGone THEN alive' \in BOOLEAN /\ UNCHANGED m_qRMSG
                      ELSE m_qRMSG' = m_qRMSG + 1 /\ UNCHANGED alive
    /\ UNCHANGED <<acc, m_clientReceiveThread, asked>>

Handler == Receive \/ HandlerEnds \/ Classify
Acceptor == AcceptTest \/ Admit \/ AcceptFails

-----------------------------------------------------------------------------
Next ==
    \/ Exit \/ Destroy \/ RcvMSGThread \/ WatchFuture \/ SndMSGThread
    \/ SendBlocks \/ SendUnblocks \/ Handler \/ Acceptor
    \/ \E w \in Workers : WorkerThread(w) \/ WakeUp(w)

Spec == Init /\ [][Next]_vars

\* Every thread is scheduled, m_job goes round, and a job ends.  Nobody has
\* to begin the end, a client need not read, and no wait ends by itself.
Fairness ==
    /\ WF_vars(Destroy) /\ WF_vars(WatchFuture) /\ WF_vars(SndMSGThread)
    /\ WF_vars(AcceptTest \/ AcceptFails)
    /\ WF_vars(RcvMSGThread) /\ SF_vars(EnqueuePush)
    /\ \A w \in Workers : WF_vars(WorkerThread(w)) /\ SF_vars(Lock(w))

FairSpec == Spec /\ Fairness

-----------------------------------------------------------------------------
PoolEnded == \A w \in Workers : wk[w] = "ended"
ThreadsEnded == rcv = "ended" /\ snd = "ended" /\ wat = "ended" /\ PoolEnded

\* The order of the joins alone keeps the teardown safe: EnqueueJob never
\* meets stop_all, whose throw would end the process with the jobs it still
\* has; no worker stops while the job RcvMSGThread waits for is queued; and
\* no thread of the pipeline runs on in a MsgManager that is gone, into which
\* the watcher still calls after the threads of its own are joined.
JoinsProtect ==
    /\ ~(stop_all /\ rcv = "enqueue")
    /\ rcv \in {"notify", "wait"} => ready \/ jobs > 0 \/ \E w \in Workers : wk[w] = "run"
    /\ jobs > 0 => \E w \in Workers : wk[w] # "ended"
    /\ ManagerGone => ThreadsEnded /\ jobs = 0

\* Once the end has begun it comes: the process is left, or ended by the join
\* of a detached thread, as long as clients read in the end and
\* notify_all does not meet a worker between its test and its wait.
Over == main = "done" \/ ~alive
ShutdownEnds == <>[](snd # "blocked") => (main = "joinRcv" ~> Over \/ missed)

=============================================================================
