---------------------------- MODULE ShutdownProofs ----------------------------
(* For any number of workers and requests: the order in which the threads    *)
(* are joined protects what they use.  A thread that is joined has ended and *)
(* stays so; the pool gets no more jobs once the thread that feeds it has    *)
(* ended, and only then is stop_all set.                                     *)
EXTENDS Shutdown, TLAPS

Feeding == {"run", "joinRcv"}                  \* RcvMSGThread may still run
Working == Feeding \cup {"joinSnd", "stopAll"} \* the workers are not yet stopped
Joined == {"joinWatcher", "closeServer", "joinAccept", "joinHandler", "done"}
WorkerPlaces == {"lock", "test", "tested", "waiting", "run", "ended"}

PoolTypes == wk \in [Workers -> WorkerPlaces] /\ jobs \in Nat

\* Who is joined has ended.
RcvJoined == main \notin Feeding => rcv = "ended"
SndJoined == main \notin Feeding \cup {"joinSnd"} => snd = "ended"
PoolJoined == main \in Joined => PoolEnded
WatJoined == ManagerGone => wat = "ended"

\* Nobody stops before stop_all, and stop_all is set when nobody feeds the pool.
StopInOrder ==
    /\ stop_all => main \notin Working
    /\ \A w \in Workers : wk[w] = "ended" => stop_all

\* RcvMSGThread's job is queued, run or done; a job that is queued has a worker.
JobOnItsWay ==
    rcv \in {"notify", "wait"} => ready \/ jobs > 0 \/ \E w \in Workers : wk[w] = "run"
JobHasWorker == jobs > 0 => \E w \in Workers : wk[w] # "ended"

IInv ==
    /\ PoolTypes /\ RcvJoined /\ SndJoined /\ PoolJoined /\ WatJoined
    /\ StopInOrder /\ JobOnItsWay /\ JobHasWorker

LEMMA InitInv == Init => IInv
  BY ShutdownAssumption
     DEF Init, IInv, PoolTypes, WorkerPlaces, Feeding, Working, Joined, RcvJoined, SndJoined, PoolJoined,
         PoolEnded, WatJoined, ManagerGone, StopInOrder, JobOnItsWay, JobHasWorker

-----------------------------------------------------------------------------
\* The destructors join in order, and what they change is no thread's place
\* but that of a worker that waits.
LEMMA DestructorStep == IInv /\ (Exit \/ Destroy) => IInv'
  <1> SUFFICES ASSUME IInv, Exit \/ Destroy PROVE IInv'
    OBVIOUS
  <1> USE DEF MainGoes, server, Feeding, Working, Joined, ManagerGone
  <1>1. CASE Exit \/ JoinRcv \/ JoinSnd \/ StopAll \/ JoinWatcher \/ CloseServer \/ JoinAccept
    <2>1. PoolTypes' /\ JobOnItsWay' /\ JobHasWorker'
      BY <1>1 DEF IInv, PoolTypes, JobOnItsWay, JobHasWorker, Exit, JoinRcv, JoinSnd, StopAll,
                  JoinWatcher, CloseServer, JoinAccept, flags
    <2>2. RcvJoined' /\ SndJoined' /\ WatJoined'
      BY <1>1 DEF IInv, RcvJoined, SndJoined, WatJoined, Exit, JoinRcv, JoinSnd, StopAll,
                  JoinWatcher, CloseServer, JoinAccept, flags
    <2>3. PoolJoined' /\ StopInOrder'
      BY <1>1 DEF IInv, PoolJoined, PoolEnded, StopInOrder, Exit, JoinRcv, JoinSnd, StopAll,
                  JoinWatcher, CloseServer, JoinAccept, flags
    <2>4. QED BY <2>1, <2>2, <2>3 DEF IInv
  <1>2. CASE Notify
    <2>1. PoolTypes' /\ RcvJoined' /\ SndJoined' /\ PoolJoined' /\ WatJoined'
      BY <1>2 DEF IInv, PoolTypes, WorkerPlaces, RcvJoined, SndJoined, PoolJoined, WatJoined, Notify
    <2>2. \A w \in Workers : /\ wk'[w] = "ended" <=> wk[w] = "ended"
                             /\ wk'[w] = "run" <=> wk[w] = "run"
      BY <1>2 DEF Notify
    <2>3. StopInOrder' /\ JobOnItsWay' /\ JobHasWorker'
      BY <1>2, <2>2 DEF IInv, StopInOrder, JobOnItsWay, JobHasWorker, Notify
    <2>4. QED BY <2>1, <2>3 DEF IInv
  <1>3. CASE JoinWorkers
    BY <1>3 DEF IInv, PoolTypes, RcvJoined, SndJoined, PoolJoined, PoolEnded, WatJoined, StopInOrder,
                JobOnItsWay, JobHasWorker, JoinWorkers, flags
  <1>4. CASE JoinHandler
    BY <1>4 DEF IInv, PoolTypes, RcvJoined, SndJoined, PoolJoined, PoolEnded, WatJoined, StopInOrder,
                JobOnItsWay, JobHasWorker, JoinHandler, Terminate, flags, pool
  <1>5. QED BY <1>1, <1>2, <1>3, <1>4 DEF Destroy

\* RcvMSGThread feeds the pool only while it is not stopped.
LEMMA ReceiverStep == IInv /\ RcvMSGThread => IInv'
  <1> SUFFICES ASSUME IInv, RcvMSGThread PROVE IInv'
    OBVIOUS
  <1> USE DEF RcvGoes, server, flags, Feeding, Working, Joined, ManagerGone
  <1>1. rcv # "ended"
    BY DEF RcvMSGThread, RcvTest, RcvPoll, EnqueueTest, EnqueuePush, EnqueueNotify, FutureGet
  <1>2. main \in Feeding /\ ~stop_all /\ \A w \in Workers : wk[w] # "ended"
    BY <1>1 DEF IInv, RcvJoined, StopInOrder
  <1>3. CASE RcvTest \/ RcvPoll \/ EnqueueTest
    BY <1>2, <1>3 DEF IInv, PoolTypes, RcvJoined, SndJoined, PoolJoined, WatJoined, StopInOrder,
                      JobOnItsWay, JobHasWorker, RcvTest, RcvPoll, EnqueueTest, Terminate, pool
  <1>4. CASE EnqueuePush
    <2>1. jobs' > 0 /\ PoolTypes' /\ PoolJoined' /\ StopInOrder' /\ JobHasWorker'
      BY <1>2, <1>4, ShutdownAssumption
         DEF IInv, PoolTypes, PoolJoined, StopInOrder, JobHasWorker, EnqueuePush
    <2>2. RcvJoined' /\ SndJoined' /\ WatJoined' /\ JobOnItsWay'
      BY <1>2, <1>4, <2>1 DEF RcvJoined, SndJoined, WatJoined, JobOnItsWay, EnqueuePush
    <2>3. QED BY <2>1, <2>2 DEF IInv
  <1>5. CASE EnqueueNotify
    <2>1. \A w \in Workers : /\ wk'[w] # "ended"
                             /\ wk'[w] = "run" <=> wk[w] = "run"
      BY <1>2, <1>5 DEF IInv, PoolTypes, EnqueueNotify
    <2>2. PoolTypes' /\ PoolJoined' /\ StopInOrder' /\ JobHasWorker'
      BY <1>2, <1>5, <2>1, ShutdownAssumption
         DEF IInv, PoolTypes, WorkerPlaces, PoolJoined, StopInOrder, JobHasWorker, EnqueueNotify
    <2>3. RcvJoined' /\ SndJoined' /\ WatJoined' /\ JobOnItsWay'
      BY <1>2, <1>5, <2>1 DEF IInv, RcvJoined, SndJoined, WatJoined, JobOnItsWay, EnqueueNotify
    <2>4. QED BY <2>2, <2>3 DEF IInv
  <1>6. CASE FutureGet
    BY <1>2, <1>6 DEF IInv, PoolTypes, RcvJoined, SndJoined, PoolJoined, WatJoined, StopInOrder,
                      JobOnItsWay, JobHasWorker, FutureGet
  <1>7. QED BY <1>3, <1>4, <1>5, <1>6 DEF RcvMSGThread

\* A worker ends only when it is stopped and no job is left.
LEMMA WorkerStep == ASSUME IInv, NEW w \in Workers, WorkerThread(w) \/ WakeUp(w) PROVE IInv'
  <1> USE DEF WorkerGoes, server, flags, ManagerGone
  <1>1. wk[w] # "ended" /\ UNCHANGED <<main, rcv, snd, wat, stop_all>>
    BY DEF WorkerThread, Lock, Test, Wait, WakeUp, RunJob
  <1>2. main \notin Joined
    BY <1>1 DEF IInv, PoolJoined, PoolEnded
  <1>3. RcvJoined' /\ SndJoined' /\ PoolJoined' /\ WatJoined'
    BY <1>1, <1>2 DEF IInv, RcvJoined, SndJoined, PoolJoined, WatJoined
  <1>4. CASE Lock(w) \/ Wait(w) \/ WakeUp(w)
    <2>1. PoolTypes' /\ StopInOrder'
      BY <1>4 DEF IInv, PoolTypes, WorkerPlaces, StopInOrder, Lock, Wait, WakeUp
    <2>2. JobOnItsWay' /\ JobHasWorker'
      BY <1>1, <1>4 DEF IInv, PoolTypes, JobOnItsWay, JobHasWorker, Lock, Wait, WakeUp
    <2>3. QED BY <1>3, <2>1, <2>2 DEF IInv
  <1>5. CASE Test(w)
    <2>1. PoolTypes' /\ StopInOrder'
      BY <1>5 DEF IInv, PoolTypes, WorkerPlaces, StopInOrder, Test
    <2>2. JobOnItsWay' /\ JobHasWorker'
      BY <1>1, <1>5 DEF IInv, PoolTypes, JobOnItsWay, JobHasWorker, Test
    <2>3. QED BY <1>3, <2>1, <2>2 DEF IInv
  <1>6. CASE RunJob(w)
    BY <1>1, <1>3, <1>6 DEF IInv, PoolTypes, WorkerPlaces, StopInOrder, JobOnItsWay, JobHasWorker, RunJob
  <1>7. QED BY <1>4, <1>5, <1>6 DEF WorkerThread

\* The other threads leave the pool alone, and stay ended once they are.
LEMMA OtherStep ==
    IInv /\ (WatchFuture \/ SndMSGThread \/ SendBlocks \/ SendUnblocks \/ Handler \/ Acceptor) => IInv'
  <1> SUFFICES ASSUME IInv,
                      WatchFuture \/ SndMSGThread \/ SendBlocks \/ SendUnblocks \/ Handler \/ Acceptor
               PROVE  IInv'
    OBVIOUS
  <1>1. UNCHANGED <<main, rcv, stop_all, wk, jobs, ready>>
    BY DEF WatchFuture, WatGoes, SndMSGThread, SendBlocks, SendUnblocks, SndGoes, Handler, Acceptor,
           ServerStep, AcceptTest, Admit, AcceptFails, Receive, HandlerEnds, Classify, pool, flags
  <1>2. wat = "ended" => wat' = "ended"
    BY DEF WatchFuture, WatGoes, SndMSGThread, SendBlocks, SendUnblocks, SndGoes, Handler, Acceptor,
           ServerStep, AcceptTest, Admit, AcceptFails, Receive, HandlerEnds, Classify
  <1>3. snd = "ended" => snd' = "ended"
    BY DEF WatchFuture, WatGoes, SndMSGThread, SendBlocks, SendUnblocks, SndGoes, Handler, Acceptor,
           ServerStep, AcceptTest, Admit, AcceptFails, Receive, HandlerEnds, Classify
  <1>4. QED
    BY <1>1, <1>2, <1>3 DEF IInv, PoolTypes, RcvJoined, SndJoined, PoolJoined, PoolEnded, WatJoined,
                            ManagerGone, StopInOrder, JobOnItsWay, JobHasWorker

LEMMA NextKeeps == IInv /\ [Next]_vars => IInv'
  <1> SUFFICES ASSUME IInv, [Next]_vars PROVE IInv'
    OBVIOUS
  <1>1. CASE UNCHANGED vars
    BY <1>1 DEF vars, flags, pool, IInv, PoolTypes, RcvJoined, SndJoined, PoolJoined, PoolEnded, WatJoined,
                ManagerGone, StopInOrder, JobOnItsWay, JobHasWorker
  <1>2. CASE Next
    BY <1>2, DestructorStep, ReceiverStep, WorkerStep, OtherStep DEF Next
  <1>3. QED BY <1>1, <1>2

LEMMA InvProtects == IInv => JoinsProtect
  <1> SUFFICES ASSUME IInv PROVE JoinsProtect
    OBVIOUS
  <1>1. ~(stop_all /\ rcv = "enqueue")
    BY DEF IInv, RcvJoined, StopInOrder, Feeding, Working
  <1>2. ManagerGone => ThreadsEnded /\ jobs = 0
    <2>1. ManagerGone => ThreadsEnded
      BY DEF IInv, RcvJoined, SndJoined, PoolJoined, WatJoined, ThreadsEnded, ManagerGone, Feeding, Joined
    <2>2. PoolEnded => jobs = 0
      BY DEF IInv, PoolTypes, PoolEnded, JobHasWorker
    <2>3. QED BY <2>1, <2>2 DEF ThreadsEnded
  <1>3. QED BY <1>1, <1>2 DEF IInv, JobOnItsWay, JobHasWorker, JoinsProtect

\* For any number of workers, requests and moments at which they come: nobody
\* feeds a pool that is stopped, a job that is waited for is never left alone,
\* and no thread of the pipeline outlives MsgManager and TaskManager.
THEOREM TeardownProtected == Spec => []JoinsProtect
  <1>1. Spec => []IInv
    BY InitInv, NextKeeps, PTL DEF Spec
  <1>2. QED BY <1>1, InvProtects, PTL

=============================================================================
