-------------------------- MODULE TaskPipelineProofs --------------------------
(***************************************************************************)
(* Proofs about TaskPipeline for any requests, workers and outcomes.       *)
(*                                                                         *)
(* None of the invariants is inductive alone.  That a result in m_future   *)
(* is "complete" or "error" (TypeOK) needs that no second job overwrites   *)
(* the promise (PoolInv); that the watcher's Dequeue finds an entry needs  *)
(* the number of entries in m_qTMSG compared with all that will be taken   *)
(* out of it (QueueInv); and that a label is right needs m_qTMSG and       *)
(* m_future compared entry by entry (LabelInv).  Two theorems at the end   *)
(* rest on OrderInv, which strings all requests on their way between the   *)
(* threads into one sequence: nothing overtakes (InOrder), and the         *)
(* pipeline implements StabilizeService.                                   *)
(***************************************************************************)
EXTENDS TaskPipeline, SequenceTheorems, TLAPS

(* The wrappers the actions are written with.                              *)
USE DEF Enqueued, Dequeued, RcvGoes, WatGoes, RcvDequeuedTo,
        ImportOf, Decremented

NoneBusy == \A w \in Workers : worker[w] = None

(* Where the one job is while RcvMSGThread is at each of its places.       *)
PoolInv ==
    \/ /\ rcv \notin {"wait", "publish"}
       /\ jobs = <<>> /\ NoneBusy /\ promise = None
    \/ /\ rcv = "wait"
       /\ jobs = <<rmsg>> /\ NoneBusy /\ promise = None
    \/ /\ rcv = "wait"
       /\ jobs = <<>> /\ promise = None
       /\ \E w \in Workers : /\ worker[w] = rmsg
                             /\ \A v \in Workers \ {w} : worker[v] = None
    \/ /\ rcv = "wait"
       /\ jobs = <<>> /\ NoneBusy /\ promise # None
    \/ /\ rcv = "publish"
       /\ jobs = <<>> /\ NoneBusy /\ promise \in {"complete", "error"}

(* RcvMSGThread has put its message into m_qTMSG and not yet settled it.   *)
InHand == rcv \in {"parse", "store", "import", "discard", "push", "wait", "publish"}

(* How far the watcher, between its two Dequeues, has put m_qTMSG behind   *)
(* or ahead of m_future.                                                   *)
Shift == IF wat = "haveMsg" THEN -1 ELSE IF wat = "haveResult" THEN 1 ELSE 0

Expected == Len(m_future) + Shift + (IF InHand THEN 1 ELSE 0)

QueueInv ==
    /\ Len(m_qTMSG) >= Expected
    /\ wat = "haveMsg" => m_future # <<>>

LabelInv ==
    ~disturbed =>
        /\ Len(m_qTMSG) = Expected
        /\ \A i \in 1..Len(m_future) :
              i + Shift > 0 => m_future[i].job = m_qTMSG[i + Shift]
        /\ wat = "haveMsg" => wmsg = m_future[1].job
        /\ wat = "haveResult" => wres.job = m_qTMSG[1]
        /\ wat = "make" => wmsg = wres.job
        /\ InHand => rmsg = m_qTMSG[Len(m_qTMSG)]
        /\ \A i \in 1..Len(m_qSMSG) : m_qSMSG[i].label = m_qSMSG[i].job
        /\ \A i \in 1..Len(announced) : announced[i].label = announced[i].job

(* Only a request with an "output" becomes a job.                          *)
OutputInv ==
    /\ rcv \in {"push", "wait", "publish"} => rmsg \notin NoOutput
    /\ \A i \in 1..Len(m_future) : m_future[i].job \notin NoOutput
    /\ wat \in {"haveResult", "make"} => wres.job \notin NoOutput

BaseInv == TypeOK /\ PoolInv
IInv == BaseInv /\ QueueInv /\ LabelInv /\ OutputInv

-----------------------------------------------------------------------------
(* The initial states satisfy the whole invariant.                         *)
LEMMA InitIInv == Init => IInv
<1> SUFFICES ASSUME Init PROVE IInv
  OBVIOUS
<1> USE PipelineAssumption DEF Init
<1>1. QueueTypes /\ HistoryTypes
  <2>1. QueueTypes /\ received \in Seq(Requests) /\ announced \in Seq(Reply)
    BY EmptySeq DEF QueueTypes
  <2>2. fate \in [Requests -> Fates]
    BY DEF Fates
  <2>3. QED
    BY <2>1, <2>2 DEF HistoryTypes
<1>2. PoolTypes
  BY DEF PoolTypes
<1>3. RcvTypes /\ WatTypes
  BY DEF RcvTypes, WatTypes, RcvPC, WatPC
<1>4. CounterTypes
  BY DEF CounterTypes
<1>5. PoolInv /\ FlagTypes
  <2>1. PoolInv
    BY DEF PoolInv, NoneBusy
  <2>2. FlagTypes
    BY DEF FlagTypes
  <2>3. QED
    BY <2>1, <2>2
<1>6. QueueInv /\ LabelInv /\ OutputInv
  BY DEF QueueInv, LabelInv, OutputInv, Expected, Shift, InHand
<1>7. QED
  BY <1>1, <1>2, <1>3, <1>4, <1>5, <1>6 DEF IInv, BaseInv, TypeOK

-----------------------------------------------------------------------------
(* The flags stay Boolean.                                                 *)
LEMMA FlagStep == FlagTypes /\ [Next]_vars => FlagTypes'
<1> SUFFICES ASSUME FlagTypes, [Next]_vars PROVE FlagTypes'
  OBVIOUS
<1> USE DEF FlagTypes, history
<1>1. ASSUME NEW m \in Requests, OnRcvMessage(m) PROVE FlagTypes'
  BY <1>1 DEF OnRcvMessage
<1>2. CASE RcvMSGThread
  BY <1>2 DEF RcvMSGThread, RcvDequeue, OnRcvTask, RcvIgnore, CommandTaskLoad,
       CommandTaskStore, ImportVideoInfo, ParseThrows, ImportThrows, DiscardTaskMsg, EnqueueJob,
       FutureGet, FutureRethrows, PublishResult, Terminate
<1>3. ASSUME NEW w \in Workers, WorkerThread(w) PROVE FlagTypes'
  BY <1>3 DEF WorkerThread, TakeJob, RunStabilize
<1>4. CASE WatchFuture
  BY <1>4 DEF WatchFuture, WatchTakeMsg, WatchTakeResult, MakeNoReply, MakeSendMsg,
       MakeThrows, WatchLoad, WatchStore, Terminate
<1>5. CASE SndMSGThread \/ PollEmpty \/ UNCHANGED vars
  BY <1>5 DEF SndMSGThread, PollEmpty, vars
<1>6. QED
  BY <1>1, <1>2, <1>3, <1>4, <1>5 DEF Next

(* No step leaves the types; the promise that PublishResult wraps is a     *)
(* result because the pool holds no other job (PoolInv).                   *)
LEMMA TypeStep == BaseInv /\ [Next]_vars => TypeOK'
<1> SUFFICES ASSUME BaseInv, [Next]_vars PROVE TypeOK'
  OBVIOUS
<1> USE PipelineAssumption DEF BaseInv, TypeOK, queues, pool, rcvVars, watVars,
        history
<1>1. FlagTypes'
  BY FlagStep
<1> USE DEF QueueTypes, PoolTypes, RcvTypes, WatTypes, CounterTypes, HistoryTypes
<1>2. ASSUME NEW m \in Requests, OnRcvMessage(m) PROVE TypeOK'
  BY <1>1, <1>2, AppendProperties DEF OnRcvMessage, Fates
<1>3. CASE RcvDequeue
  BY <1>1, <1>3, HeadTailProperties DEF RcvDequeue, RcvPC
<1>4. CASE OnRcvTask
  BY <1>1, <1>4, AppendProperties DEF OnRcvTask, RcvPC
<1>5. CASE RcvIgnore
  BY <1>1, <1>5 DEF RcvIgnore, RcvPC, Fates
<1>6. CASE CommandTaskLoad
  BY <1>1, <1>6 DEF CommandTaskLoad, RcvPC
<1>7. CASE CommandTaskStore
  BY <1>1, <1>7 DEF CommandTaskStore, RcvPC
<1>8. CASE ImportVideoInfo
  BY <1>1, <1>8 DEF ImportVideoInfo, RcvPC
<1>9. CASE DiscardTaskMsg
  BY <1>1, <1>9, HeadTailProperties DEF DiscardTaskMsg, RcvPC, Fates
<1>10. CASE EnqueueJob
  BY <1>1, <1>10, AppendProperties DEF EnqueueJob, RcvPC
<1>11. CASE FutureGet
  BY <1>1, <1>11 DEF FutureGet, RcvPC
<1>12. CASE PublishResult
  BY <1>1, <1>12, AppendProperties DEF PublishResult, RcvPC, Result, PoolInv
<1>13. CASE WatchTakeMsg
  BY <1>1, <1>13, HeadTailProperties DEF WatchTakeMsg, WatPC
<1>14. CASE WatchTakeResult
  <2>1. wres' \in Result /\ m_future' \in Seq(Result)
    BY <1>14, HeadTailProperties DEF WatchTakeResult
  <2>2. QED
    BY <1>1, <1>14, <2>1 DEF WatchTakeResult, WatPC
<1>15. CASE MakeNoReply
  BY <1>1, <1>15 DEF MakeNoReply, WatPC, Result, Fates
<1>16. CASE MakeSendMsg
  BY <1>1, <1>16, AppendProperties DEF MakeSendMsg, WatPC, Result, Reply, Fates, NextSerial
<1>17. CASE WatchLoad
  BY <1>1, <1>17 DEF WatchLoad, WatPC
<1>18. CASE WatchStore
  BY <1>1, <1>18 DEF WatchStore, WatPC
<1>19. CASE SndMSGThread
  BY <1>1, <1>19, AppendProperties, HeadTailProperties DEF SndMSGThread
<1>20. ASSUME NEW w \in Workers, WorkerThread(w) PROVE TypeOK'
  <2>1. CASE TakeJob(w)
    BY <1>1, <2>1, HeadTailProperties DEF TakeJob
  <2>2. CASE RunStabilize(w)
    <3>1. PoolTypes'
      BY <2>2 DEF RunStabilize, PoolTypes
    <3>2. QED
      BY <1>1, <2>2, <3>1 DEF RunStabilize
  <2>3. QED
    BY <1>20, <2>1, <2>2 DEF WorkerThread
<1>21. CASE ParseThrows \/ ImportThrows \/ FutureRethrows \/ MakeThrows \/ PollEmpty \/ UNCHANGED vars
  <2>1. UNCHANGED <<queues, pool, rcvVars, watVars, cur_worker, serial, history>>
    BY <1>21 DEF ParseThrows, ImportThrows, FutureRethrows, MakeThrows, Terminate, PollEmpty, vars
  <2>2. QED
    BY <1>1, <2>1
<1>22. QED
  BY <1>2, <1>3, <1>4, <1>5, <1>6, <1>7, <1>8, <1>9, <1>10, <1>11, <1>12, <1>13,
     <1>14, <1>15, <1>16, <1>17, <1>18, <1>19, <1>20, <1>21
     DEF Next, RcvMSGThread, WatchFuture

(* The one job moves from the queue to a worker to the promise to m_future *)
(* while RcvMSGThread waits for it.                                        *)
LEMMA PoolStep == BaseInv /\ [Next]_vars => PoolInv'
<1> SUFFICES ASSUME BaseInv, [Next]_vars PROVE PoolInv'
  OBVIOUS
<1> USE PipelineAssumption DEF BaseInv, pool, rcvVars
<1> rmsg \in Requests \cup {None} /\ (rcv # "poll" => rmsg \in Requests)
  BY DEF TypeOK, RcvTypes
<1> jobs \in Seq(Requests) /\ worker \in [Workers -> Requests \cup {None}]
  BY DEF TypeOK, PoolTypes
<1>1. CASE RcvDequeue \/ OnRcvTask \/ RcvIgnore \/ CommandTaskLoad
           \/ CommandTaskStore \/ ImportVideoInfo \/ DiscardTaskMsg
  BY <1>1 DEF RcvDequeue, OnRcvTask, RcvIgnore, CommandTaskLoad, CommandTaskStore,
       ImportVideoInfo, DiscardTaskMsg, PoolInv, NoneBusy
<1>2. CASE EnqueueJob
  <2>1. jobs = <<>> /\ NoneBusy /\ promise = None
    BY <1>2 DEF EnqueueJob, PoolInv
  <2>2. jobs' = <<rmsg>>
    BY <1>2, <2>1 DEF EnqueueJob
  <2>3. QED
    BY <1>2, <2>1, <2>2 DEF EnqueueJob, PoolInv, NoneBusy
<1>3. CASE FutureGet \/ PublishResult
  BY <1>3 DEF FutureGet, PublishResult, PoolInv, NoneBusy
<1>4. ASSUME NEW w \in Workers, TakeJob(w) PROVE PoolInv'
  <2>1. rcv = "wait" /\ jobs = <<rmsg>> /\ NoneBusy /\ promise = None
    BY <1>4 DEF TakeJob, PoolInv
  <2>2. jobs' = <<>> /\ worker'[w] = rmsg /\ \A v \in Workers \ {w} : worker'[v] = None
    BY <1>4, <2>1 DEF TakeJob, NoneBusy
  <2>3. QED
    BY <1>4, <2>1, <2>2 DEF TakeJob, PoolInv
<1>5. ASSUME NEW w \in Workers, RunStabilize(w) PROVE PoolInv'
  <2>1. /\ rcv = "wait" /\ jobs = <<>>
        /\ \A v \in Workers \ {w} : worker[v] = None
    BY <1>5 DEF RunStabilize, PoolInv, NoneBusy
  <2>2. worker[w] \in Requests
    BY <1>5 DEF RunStabilize
  <2>3. promise' # None
    BY <1>5, <2>2 DEF RunStabilize
  <2>4. QED
    BY <1>5, <2>1, <2>3 DEF RunStabilize, PoolInv, NoneBusy
<1>6. CASE \/ \E m \in Requests : OnRcvMessage(m)
           \/ WatchFuture \/ SndMSGThread \/ PollEmpty \/ UNCHANGED vars
           \/ ParseThrows \/ ImportThrows \/ FutureRethrows
  <2>1. UNCHANGED <<pool, rcvVars>>
    BY <1>6 DEF OnRcvMessage, WatchFuture, WatchTakeMsg, WatchTakeResult, MakeNoReply,
         MakeSendMsg, MakeThrows, WatchLoad, WatchStore, SndMSGThread, PollEmpty,
         ParseThrows, ImportThrows, FutureRethrows, Terminate, vars
  <2>2. QED
    BY <2>1 DEF PoolInv, NoneBusy
<1>7. QED
  BY <1>1, <1>2, <1>3, <1>4, <1>5, <1>6 DEF Next, RcvMSGThread, WorkerThread

(* Steps that change none of what QueueInv and LabelInv speak of.          *)
QuietStep ==
    \/ \E m \in Requests : OnRcvMessage(m)
    \/ RcvDequeue \/ CommandTaskLoad \/ CommandTaskStore \/ ImportVideoInfo
    \/ ParseThrows \/ ImportThrows \/ EnqueueJob \/ FutureGet \/ FutureRethrows
    \/ \E w \in Workers : WorkerThread(w)
    \/ MakeNoReply \/ MakeThrows \/ WatchLoad \/ WatchStore
    \/ PollEmpty \/ UNCHANGED vars

LEMMA QuietKeeps ==
  ASSUME QuietStep
  PROVE  /\ UNCHANGED <<m_qTMSG, m_future, m_qSMSG, wmsg, wres, announced, disturbed>>
         /\ InHand' = InHand
         /\ InHand => rmsg' = rmsg
         /\ Shift' = Shift
         /\ wat' \in {"haveMsg", "haveResult", "make"} => wat' = wat
<1> USE DEF queues, pool, rcvVars, watVars, history, InHand, Shift
<1>1. CASE \/ \E m \in Requests : OnRcvMessage(m)
           \/ \E w \in Workers : WorkerThread(w)
           \/ PollEmpty \/ UNCHANGED vars
  BY <1>1 DEF OnRcvMessage, WorkerThread, TakeJob, RunStabilize, PollEmpty, vars
<1>2. CASE \/ RcvDequeue \/ CommandTaskLoad \/ CommandTaskStore \/ ImportVideoInfo
           \/ ParseThrows \/ ImportThrows \/ EnqueueJob \/ FutureGet \/ FutureRethrows
  BY <1>2 DEF RcvDequeue, CommandTaskLoad, CommandTaskStore, ImportVideoInfo,
       ParseThrows, ImportThrows, EnqueueJob, FutureGet, FutureRethrows, Terminate
<1>3. CASE MakeNoReply \/ MakeThrows \/ WatchLoad \/ WatchStore
  BY <1>3 DEF MakeNoReply, MakeThrows, WatchLoad, WatchStore, Terminate
<1>4. QED
  BY <1>1, <1>2, <1>3 DEF QuietStep

LoudStep ==
    \/ OnRcvTask \/ RcvIgnore \/ DiscardTaskMsg \/ PublishResult
    \/ WatchTakeMsg \/ WatchTakeResult \/ MakeSendMsg \/ SndMSGThread

LEMMA QuietOrLoud == [Next]_vars => QuietStep \/ LoudStep
  BY DEF Next, RcvMSGThread, WatchFuture, QuietStep, LoudStep

(* m_qTMSG holds at least one entry for everything that will be taken out. *)
LEMMA QueueStep == IInv /\ [Next]_vars => QueueInv'
<1> SUFFICES ASSUME IInv, [Next]_vars PROVE QueueInv'
  OBVIOUS
<1> USE DEF IInv, BaseInv, QueueInv, Expected
<1>q. /\ m_qTMSG \in Seq(Requests) /\ m_future \in Seq(Result)
      /\ rmsg \in Requests \cup {None} /\ (rcv # "poll" => rmsg \in Requests)
  BY DEF TypeOK, QueueTypes, RcvTypes
<1>l. Len(m_qTMSG) \in Nat /\ Len(m_future) \in Nat
  BY <1>q, LenProperties
<1>s. Shift \in {-1, 0, 1}
  BY DEF Shift
<1>1. CASE QuietStep
  BY <1>1, QuietKeeps
<1>2. CASE OnRcvTask
  BY <1>2, <1>q, <1>l, AppendProperties DEF OnRcvTask, InHand, Shift, watVars
<1>3. CASE RcvIgnore
  BY <1>3, <1>q, <1>l DEF RcvIgnore, InHand, Shift, watVars, queues
<1>4. CASE DiscardTaskMsg
  BY <1>4, <1>q, <1>l, HeadTailProperties DEF DiscardTaskMsg, InHand, Shift, watVars
<1>5. CASE PublishResult
  <2>1. [job |-> rmsg, result |-> promise] \in Result
    BY <1>5, <1>q DEF PublishResult, PoolInv, Result
  <2>2. QED
    BY <1>5, <2>1, <1>q, <1>l, AppendProperties DEF PublishResult, InHand, Shift, watVars
<1>6. CASE WatchTakeMsg
  <2>1. /\ Len(m_qTMSG') = Len(m_qTMSG) - 1
        /\ m_future' = m_future /\ InHand' = InHand
    BY <1>6, <1>q, HeadTailProperties DEF WatchTakeMsg, InHand, rcvVars
  <2>2. wat' = "haveMsg" => m_future # <<>>
    BY <1>6 DEF WatchTakeMsg
  <2>3. Shift' = Shift - 1
    BY <1>6 DEF WatchTakeMsg, Shift
  <2>4. QED
    BY <2>1, <2>2, <2>3, <1>l, <1>s
<1>7. CASE WatchTakeResult
  <2>1. /\ Len(m_future') = Len(m_future) - 1
        /\ m_qTMSG' = m_qTMSG /\ InHand' = InHand
    BY <1>7, <1>q, HeadTailProperties DEF WatchTakeResult, InHand, rcvVars
  <2>2. wat' # "haveMsg"
    BY <1>7 DEF WatchTakeResult
  <2>3. Shift' = Shift + 1
    BY <1>7 DEF WatchTakeResult, Shift
  <2>4. QED
    BY <2>1, <2>2, <2>3, <1>l, <1>s
<1>8. CASE MakeSendMsg \/ SndMSGThread
  BY <1>8 DEF MakeSendMsg, SndMSGThread, InHand, Shift, rcvVars, watVars
<1>9. QED
  BY <1>1, <1>2, <1>3, <1>4, <1>5, <1>6, <1>7, <1>8, QuietOrLoud DEF LoudStep

(* Entry by entry, m_qTMSG and the results still to be taken agree, until  *)
(* a request is skipped or a rejected one takes another's entry out.       *)
LEMMA LabelStep == IInv /\ [Next]_vars => LabelInv'
<1> SUFFICES ASSUME IInv, [Next]_vars, ~disturbed' PROVE LabelInv'
  BY DEF LabelInv
<1>q. /\ m_qTMSG \in Seq(Requests) /\ m_future \in Seq(Result)
      /\ m_qSMSG \in Seq(Reply) /\ announced \in Seq(Reply)
      /\ rmsg \in Requests \cup {None} /\ (rcv # "poll" => rmsg \in Requests)
  BY DEF IInv, BaseInv, TypeOK, QueueTypes, RcvTypes, HistoryTypes
<1>l. /\ Len(m_qTMSG) \in Nat /\ Len(m_future) \in Nat
      /\ Len(m_qSMSG) \in Nat /\ Len(announced) \in Nat
  BY <1>q, LenProperties
<1>s. Shift \in {-1, 0, 1} /\ (wat = "haveMsg" <=> Shift = -1)
                            /\ (wat = "haveResult" <=> Shift = 1)
  BY DEF Shift
<1>d. ~disturbed
  <2>1. CASE QuietStep
    BY <2>1, QuietKeeps
  <2>2. CASE LoudStep
    BY <2>2 DEF LoudStep, OnRcvTask, RcvIgnore, DiscardTaskMsg, PublishResult,
         WatchTakeMsg, WatchTakeResult, MakeSendMsg, SndMSGThread, history
  <2>3. QED
    BY <2>1, <2>2, QuietOrLoud
<1>i. /\ Len(m_qTMSG) = Expected
      /\ \A i \in 1..Len(m_future) :
            i + Shift > 0 => m_future[i].job = m_qTMSG[i + Shift]
      /\ wat = "haveMsg" => wmsg = m_future[1].job
      /\ wat = "haveResult" => wres.job = m_qTMSG[1]
      /\ wat = "make" => wmsg = wres.job
      /\ InHand => rmsg = m_qTMSG[Len(m_qTMSG)]
      /\ \A i \in 1..Len(m_qSMSG) : m_qSMSG[i].label = m_qSMSG[i].job
      /\ \A i \in 1..Len(announced) : announced[i].label = announced[i].job
  BY <1>d DEF IInv, LabelInv
<1>1. CASE QuietStep
  BY <1>1, <1>i, <1>s, QuietKeeps DEF LabelInv, Expected
<1>2. CASE OnRcvTask
  <2>1. /\ m_qTMSG' = Append(m_qTMSG, rmsg) /\ ~InHand /\ InHand'
        /\ UNCHANGED <<m_future, m_qSMSG, wat, wmsg, wres, announced, rmsg>>
        /\ rmsg \in Requests /\ Shift' = Shift
    BY <1>2, <1>q DEF OnRcvTask, InHand, Shift, watVars, history
  <2>2. /\ Len(m_qTMSG') = Len(m_qTMSG) + 1
        /\ m_qTMSG'[Len(m_qTMSG) + 1] = rmsg
        /\ \A i \in 1..Len(m_qTMSG) : m_qTMSG'[i] = m_qTMSG[i]
    BY <2>1, <1>q, AppendProperties
  <2>3. Len(m_qTMSG) = Len(m_future) + Shift
    BY <1>i, <2>1, <1>l, <1>s DEF Expected
  <2>4. \A i \in 1..Len(m_future) :
           i + Shift > 0 => m_future[i].job = m_qTMSG'[i + Shift]
    <3> SUFFICES ASSUME NEW i \in 1..Len(m_future), i + Shift > 0
                 PROVE  m_future[i].job = m_qTMSG'[i + Shift]
      OBVIOUS
    <3>1. i + Shift \in 1..Len(m_qTMSG)
      BY <2>3, <1>l, <1>s
    <3>2. QED
      BY <3>1, <2>2, <1>i
  <2>5. wat = "haveResult" => m_qTMSG'[1] = m_qTMSG[1]
    BY <2>2, <2>3, <1>l, <1>s
  <2>6. QED
    BY <1>i, <2>1, <2>2, <2>3, <2>4, <2>5, <1>l, <1>s DEF LabelInv, Expected
<1>3. CASE RcvIgnore
  BY <1>3 DEF RcvIgnore
<1>4. CASE DiscardTaskMsg
  <2>1. /\ m_qTMSG' = Tail(m_qTMSG) /\ m_qTMSG # <<>> /\ InHand /\ ~InHand'
        /\ UNCHANGED <<m_future, m_qSMSG, wat, wmsg, wres, announced>>
        /\ Shift' = Shift
    BY <1>4 DEF DiscardTaskMsg, InHand, Shift, watVars
  <2>2. Len(m_qTMSG) <= 1 /\ Len(m_qTMSG) > 0
    <3>1. ~(Len(m_qTMSG) > 1)
      BY <1>4 DEF DiscardTaskMsg
    <3>2. Len(m_qTMSG) \in Nat \ {0}
      BY <2>1, <1>q, EmptySeq
    <3>3. QED
      BY <3>1, <3>2
  <2>3. Len(m_qTMSG') <= 0 /\ Len(m_qTMSG') >= 0
    <3>1. Len(m_qTMSG') = Len(m_qTMSG) - 1
      BY <2>1, <1>q, HeadTailProperties
    <3>2. QED
      BY <3>1, <2>2, <1>l
  <2>4. Len(m_future) + Shift = 0
    <3>1. Expected = Len(m_future) + Shift + 1
      BY <2>1 DEF Expected
    <3>2. Len(m_future) + Shift + 1 <= 1 /\ Len(m_future) + Shift + 1 > 0
      BY <3>1, <1>i, <2>2
    <3>3. QED
      BY <3>2, <1>l, <1>s
  <2>5. wat # "haveResult"
    BY <2>4, <1>l, <1>s
  <2>6. QED
    BY <1>i, <2>1, <2>3, <2>4, <2>5, <1>l, <1>s DEF LabelInv, Expected
<1>5. CASE PublishResult
  <2>1. /\ m_future' = Append(m_future, [job |-> rmsg, result |-> promise])
        /\ InHand /\ ~InHand' /\ Shift' = Shift
        /\ UNCHANGED <<m_qTMSG, m_qSMSG, wat, wmsg, wres, announced>>
    BY <1>5 DEF PublishResult, InHand, Shift, watVars, history
  <2>2. [job |-> rmsg, result |-> promise] \in Result
    BY <1>5, <1>q DEF IInv, BaseInv, PublishResult, PoolInv, Result
  <2>3. /\ Len(m_future') = Len(m_future) + 1
        /\ m_future'[Len(m_future) + 1].job = rmsg
        /\ \A i \in 1..Len(m_future) : m_future'[i] = m_future[i]
    BY <2>1, <2>2, <1>q, AppendProperties
  <2>4. Len(m_qTMSG) = Len(m_future') + Shift
    BY <1>i, <2>1, <2>3, <1>l, <1>s DEF Expected
  <2>5. \A i \in 1..Len(m_future') :
           i + Shift > 0 => m_future'[i].job = m_qTMSG[i + Shift]
    <3> SUFFICES ASSUME NEW i \in 1..Len(m_future'), i + Shift > 0
                 PROVE  m_future'[i].job = m_qTMSG[i + Shift]
      OBVIOUS
    <3>1. CASE i \in 1..Len(m_future)
      BY <3>1, <1>i, <2>3
    <3>2. CASE i = Len(m_future) + 1
      BY <3>2, <1>i, <2>1, <2>3, <2>4
    <3>3. QED
      BY <3>1, <3>2, <2>3, <1>l
  <2>6. wat = "haveMsg" => m_future # <<>>
    BY DEF IInv, QueueInv
  <2>7. wat = "haveMsg" => m_future'[1] = m_future[1]
    BY <2>3, <2>6, <1>q, <1>l, EmptySeq
  <2>8. QED
    BY <1>i, <2>1, <2>4, <2>5, <2>7 DEF LabelInv, Expected
<1>6. CASE WatchTakeMsg
  <2>1. /\ m_qTMSG' = Tail(m_qTMSG) /\ m_qTMSG # <<>> /\ wmsg' = Head(m_qTMSG)
        /\ InHand' = InHand
        /\ UNCHANGED <<m_future, m_qSMSG, wres, announced, rmsg>>
    BY <1>6 DEF WatchTakeMsg, InHand, rcvVars, history
  <2>2. /\ Len(m_qTMSG') = Len(m_qTMSG) - 1
        /\ \A i \in 1..Len(m_qTMSG') : m_qTMSG'[i] = m_qTMSG[i + 1]
        /\ wmsg' = m_qTMSG[1]
    BY <2>1, <1>q, HeadTailProperties
  <2>3. /\ Shift' = Shift - 1
        /\ \/ wat = "poll" /\ m_future # <<>> /\ wat' = "haveMsg"
           \/ wat = "haveResult" /\ wat' = "make"
    BY <1>6 DEF WatchTakeMsg, Shift
  <2>4. Len(m_qTMSG') = Expected'
    BY <1>i, <2>1, <2>2, <2>3, <1>l, <1>s DEF Expected
  <2>5. \A i \in 1..Len(m_future) :
           i + Shift' > 0 => m_future[i].job = m_qTMSG'[i + Shift']
    <3> SUFFICES ASSUME NEW i \in 1..Len(m_future), i + Shift - 1 > 0
                 PROVE  m_future[i].job = m_qTMSG'[i + Shift - 1]
      BY <2>3
    <3>1. i + Shift - 1 \in 1..Len(m_qTMSG')
      BY <2>4, <2>1, <2>3, <1>l, <1>s DEF Expected
    <3>2. m_qTMSG'[i + Shift - 1] = m_qTMSG[i + Shift]
      BY <3>1, <2>2, <1>s
    <3>3. QED
      BY <3>2, <1>i, <1>l, <1>s
  <2>6. wat' = "haveMsg" => wmsg' = m_future[1].job
    <3> SUFFICES ASSUME wat' = "haveMsg" PROVE wmsg' = m_future[1].job
      OBVIOUS
    <3>1. Shift = 0 /\ 1 \in 1..Len(m_future)
      BY <2>3, <1>q, <1>l, EmptySeq DEF Shift
    <3>2. QED
      BY <3>1, <1>i, <2>2
  <2>7. wat' = "make" => wmsg' = wres.job
    BY <2>2, <2>3, <1>i
  <2>8. InHand => rmsg = m_qTMSG'[Len(m_qTMSG')]
    <3> SUFFICES ASSUME InHand PROVE rmsg = m_qTMSG'[Len(m_qTMSG')]
      OBVIOUS
    <3>0. m_future # <<>> => Len(m_future) > 0
      BY <1>q, EmptySeq
    <3>1. Len(m_qTMSG) > 1
      BY <1>i, <2>3, <3>0, <1>l, <1>s DEF Expected, Shift
    <3>2. QED
      BY <3>1, <1>i, <2>2, <1>l
  <2>9. QED
    BY <1>i, <2>1, <2>3, <2>4, <2>5, <2>6, <2>7, <2>8 DEF LabelInv
<1>7. CASE WatchTakeResult
  <2>1. /\ m_future' = Tail(m_future) /\ m_future # <<>> /\ wres' = Head(m_future)
        /\ InHand' = InHand
        /\ UNCHANGED <<m_qTMSG, m_qSMSG, wmsg, announced, rmsg>>
    BY <1>7 DEF WatchTakeResult, InHand, rcvVars, history
  <2>2. /\ Len(m_future') = Len(m_future) - 1
        /\ \A i \in 1..Len(m_future') : m_future'[i] = m_future[i + 1]
        /\ wres' = m_future[1] /\ 1 \in 1..Len(m_future)
    BY <2>1, <1>q, <1>l, HeadTailProperties, EmptySeq
  <2>3. /\ Shift' = Shift + 1
        /\ \/ wat = "poll" /\ wat' = "haveResult"
           \/ wat = "haveMsg" /\ wat' = "make"
    BY <1>7 DEF WatchTakeResult, Shift
  <2>4. Len(m_qTMSG) = Expected'
    BY <1>i, <2>1, <2>2, <2>3, <1>l, <1>s DEF Expected
  <2>5. \A i \in 1..Len(m_future') :
           i + Shift' > 0 => m_future'[i].job = m_qTMSG[i + Shift']
    <3> SUFFICES ASSUME NEW i \in 1..Len(m_future'), i + (Shift + 1) > 0
                 PROVE  m_future'[i].job = m_qTMSG[i + (Shift + 1)]
      BY <2>3
    <3>1. i + 1 \in 1..Len(m_future) /\ m_future'[i] = m_future[i + 1]
      BY <2>2, <1>l
    <3>2. i + 1 + Shift = i + (Shift + 1) /\ i + 1 + Shift > 0
      BY <1>s
    <3>3. QED
      BY <3>1, <3>2, <1>i, <1>s
  <2>6. wat' = "haveResult" => wres'.job = m_qTMSG[1]
    <3> SUFFICES ASSUME wat' = "haveResult" PROVE wres'.job = m_qTMSG[1]
      OBVIOUS
    <3>1. Shift = 0
      BY <2>3 DEF Shift
    <3>2. QED
      BY <3>1, <2>2, <1>i
  <2>7. wat' = "make" => wmsg = wres'.job
    BY <2>2, <2>3, <1>i
  <2>8. QED
    BY <1>i, <2>1, <2>3, <2>4, <2>5, <2>6, <2>7 DEF LabelInv
<1>8. CASE MakeSendMsg
  <2> DEFINE reply == [job |-> wres.job, label |-> wmsg, token |-> NextSerial]
  <2>1. /\ UNCHANGED <<m_qTMSG, m_future, announced>>
        /\ InHand' = InHand /\ rmsg' = rmsg /\ Shift' = Shift /\ wat' = "load"
    BY <1>8 DEF MakeSendMsg, InHand, Shift, rcvVars, history
  <2>2. m_qSMSG' = Append(m_qSMSG, reply) /\ reply.label = reply.job
    BY <1>8, <1>i DEF MakeSendMsg
  <2>3. reply \in Reply
    BY <1>8, PipelineAssumption DEF MakeSendMsg, NextSerial, Reply, IInv, BaseInv,
         TypeOK, WatTypes, CounterTypes, Result
  <2>4. \A i \in 1..Len(m_qSMSG') : m_qSMSG'[i].label = m_qSMSG'[i].job
    <3> HIDE DEF reply
    <3>1. /\ Len(m_qSMSG') = Len(m_qSMSG) + 1
          /\ m_qSMSG'[Len(m_qSMSG) + 1] = reply
          /\ \A i \in 1..Len(m_qSMSG) : m_qSMSG'[i] = m_qSMSG[i]
      BY <2>2, <2>3, <1>q, AppendProperties
    <3>2. QED
      BY <3>1, <2>2, <1>i, <1>l
  <2>5. QED
    BY <1>i, <2>1, <2>4 DEF LabelInv, Expected
<1>9. CASE SndMSGThread
  <2>1. /\ UNCHANGED <<m_qTMSG, m_future, wat, wmsg, wres>>
        /\ InHand' = InHand /\ rmsg' = rmsg /\ Shift' = Shift
    BY <1>9 DEF SndMSGThread, InHand, Shift, rcvVars, watVars
  <2>2. m_qSMSG # <<>> /\ Head(m_qSMSG) = m_qSMSG[1] /\ Head(m_qSMSG) \in Reply
    BY <1>9, <1>q, HeadTailProperties DEF SndMSGThread
  <2>3. \A i \in 1..Len(m_qSMSG') : m_qSMSG'[i].label = m_qSMSG'[i].job
    <3>1. /\ Len(m_qSMSG') = Len(m_qSMSG) - 1
          /\ \A i \in 1..Len(m_qSMSG') : m_qSMSG'[i] = m_qSMSG[i + 1]
      BY <1>9, <1>q, HeadTailProperties DEF SndMSGThread
    <3>2. \A i \in 1..Len(m_qSMSG') : i + 1 \in 1..Len(m_qSMSG)
      BY <3>1, <1>l
    <3>3. QED
      BY <3>1, <3>2, <1>i
  <2>4. \A i \in 1..Len(announced') : announced'[i].label = announced'[i].job
    <3>1. /\ Len(announced') = Len(announced) + 1
          /\ announced'[Len(announced) + 1] = m_qSMSG[1]
          /\ \A i \in 1..Len(announced) : announced'[i] = announced[i]
      BY <1>9, <2>2, <1>q, AppendProperties DEF SndMSGThread
    <3>2. 1 \in 1..Len(m_qSMSG)
      BY <2>2, <1>q, <1>l, EmptySeq
    <3>3. QED
      BY <3>1, <3>2, <1>i, <1>l
  <2>5. QED
    BY <1>i, <2>1, <2>3, <2>4 DEF LabelInv, Expected
<1>10. QED
  BY <1>1, <1>2, <1>3, <1>4, <1>5, <1>6, <1>7, <1>8, <1>9, QuietOrLoud DEF LoudStep

(* Only an imported request is pushed, and an import asks for "output".    *)
LEMMA OutputStep == IInv /\ [Next]_vars => OutputInv'
<1> SUFFICES ASSUME IInv, [Next]_vars PROVE OutputInv'
  OBVIOUS
<1>q. m_future \in Seq(Result) /\ rmsg \in Requests \cup {None}
      /\ (rcv # "poll" => rmsg \in Requests) /\ Len(m_future) \in Nat
  BY LenProperties DEF IInv, BaseInv, TypeOK, QueueTypes, RcvTypes
<1>i. /\ rcv \in {"push", "wait", "publish"} => rmsg \notin NoOutput
      /\ \A i \in 1..Len(m_future) : m_future[i].job \notin NoOutput
      /\ wat \in {"haveResult", "make"} => wres.job \notin NoOutput
      /\ wat = "haveMsg" => m_future # <<>>
  BY DEF IInv, OutputInv, QueueInv
<1>1. CASE RcvMSGThread /\ ~PublishResult
  <2>1. UNCHANGED <<m_future, wat, wres>>
    BY <1>1 DEF RcvMSGThread, RcvDequeue, OnRcvTask, RcvIgnore, CommandTaskLoad,
         CommandTaskStore, ImportVideoInfo, ParseThrows, ImportThrows, DiscardTaskMsg, EnqueueJob,
         FutureGet, FutureRethrows, Terminate, queues, watVars
  <2>2. rcv' \in {"push", "wait", "publish"} => rmsg' \notin NoOutput
    <3>1. CASE ImportVideoInfo
      BY <3>1, <1>q, PipelineAssumption DEF ImportVideoInfo
    <3>2. CASE ~ImportVideoInfo
      BY <3>2, <1>1, <1>i DEF RcvMSGThread, RcvDequeue, OnRcvTask, RcvIgnore,
         CommandTaskLoad, CommandTaskStore, ParseThrows, ImportThrows, DiscardTaskMsg, EnqueueJob,
         FutureGet, FutureRethrows, Terminate, rcvVars
    <3>3. QED
      BY <3>1, <3>2
  <2>3. QED
    BY <1>i, <2>1, <2>2 DEF OutputInv
<1>2. CASE PublishResult
  <2>1. /\ rmsg \notin NoOutput /\ rcv' = "poll" /\ UNCHANGED <<wat, wres>>
        /\ m_future' = Append(m_future, [job |-> rmsg, result |-> promise])
    BY <1>2, <1>i DEF PublishResult, watVars
  <2>2. [job |-> rmsg, result |-> promise] \in Result
    BY <1>2, <1>q DEF IInv, BaseInv, PublishResult, PoolInv, Result
  <2>3. /\ Len(m_future') = Len(m_future) + 1
        /\ m_future'[Len(m_future) + 1].job = rmsg
        /\ \A i \in 1..Len(m_future) : m_future'[i] = m_future[i]
    BY <2>1, <2>2, <1>q, AppendProperties
  <2>4. \A i \in 1..Len(m_future') : m_future'[i].job \notin NoOutput
    BY <2>1, <2>3, <1>i, <1>q
  <2>5. QED
    BY <1>i, <2>1, <2>4 DEF OutputInv
<1>3. CASE WatchTakeResult
  <2>1. /\ Len(m_future') = Len(m_future) - 1
        /\ \A i \in 1..Len(m_future') : m_future'[i] = m_future[i + 1]
        /\ wres' = m_future[1] /\ 1 \in 1..Len(m_future)
    BY <1>3, <1>q, HeadTailProperties, EmptySeq DEF WatchTakeResult
  <2>2. \A i \in 1..Len(m_future') : m_future'[i].job \notin NoOutput
    BY <2>1, <1>i, <1>q
  <2>3. UNCHANGED <<rcv, rmsg>>
    BY <1>3 DEF WatchTakeResult, rcvVars
  <2>4. QED
    BY <1>i, <2>1, <2>2, <2>3 DEF OutputInv
<1>4. CASE WatchTakeMsg
  BY <1>4, <1>i DEF WatchTakeMsg, OutputInv, rcvVars
<1>5. CASE \/ \E m \in Requests : OnRcvMessage(m)
           \/ \E w \in Workers : WorkerThread(w)
           \/ WatchFuture /\ ~WatchTakeMsg /\ ~WatchTakeResult
           \/ SndMSGThread \/ PollEmpty \/ UNCHANGED vars
  <2>1. /\ UNCHANGED <<m_future, wres, rcv, rmsg>>
        /\ wat' \in {"haveResult", "make"} => wat' = wat
    BY <1>5 DEF OnRcvMessage, WorkerThread, TakeJob, RunStabilize, WatchFuture, MakeNoReply,
         MakeSendMsg, MakeThrows, WatchLoad, WatchStore, SndMSGThread, PollEmpty,
         Terminate, vars, queues, pool, rcvVars, watVars
  <2>2. QED
    BY <1>i, <2>1 DEF OutputInv
<1>6. QED
  BY <1>1, <1>2, <1>3, <1>4, <1>5 DEF Next

-----------------------------------------------------------------------------
(* Every reachable state satisfies the whole invariant.                    *)
THEOREM Invariance == Spec => []IInv
<1>1. IInv /\ [Next]_vars => IInv'
  BY TypeStep, PoolStep, QueueStep, LabelStep, OutputStep DEF IInv, BaseInv
<1>2. QED
  BY InitIInv, <1>1, PTL DEF Spec

(* Type correctness: in particular cur_worker is always a size_t and what  *)
(* PublishResult wraps is a job's result.                                  *)
THEOREM TypeCorrect == Spec => []TypeOK
<1>1. IInv => TypeOK
  BY DEF IInv, BaseInv
<1>2. QED
  BY <1>1, Invariance, PTL

(* However many workers the pool has, it never holds two jobs.             *)
THEOREM PoolIsSerial == Spec => []SerialPool
<1>1. IInv => SerialPool
  <2> SUFFICES ASSUME IInv PROVE SerialPool
    OBVIOUS
  <2>1. rcv # "poll" => rmsg \in Requests
    BY DEF IInv, BaseInv, TypeOK, RcvTypes
  <2>2. CASE jobs = <<>> /\ NoneBusy
    BY <2>2, EmptySeq DEF SerialPool, NoneBusy
  <2>3. CASE jobs = <<rmsg>> /\ NoneBusy /\ promise = None
    BY <2>3 DEF SerialPool, NoneBusy
  <2>4. CASE /\ jobs = <<>> /\ promise = None /\ rcv = "wait"
             /\ \E w \in Workers : /\ worker[w] = rmsg
                                   /\ \A v \in Workers \ {w} : worker[v] = None
    BY <2>4, EmptySeq DEF SerialPool
  <2>5. QED
    BY <2>2, <2>3, <2>4 DEF IInv, BaseInv, PoolInv
<1>2. QED
  BY <1>1, Invariance, PTL

(* No Dequeue that is not preceded by IsQueue ever waits.                  *)
THEOREM NoDequeueWaits == Spec => []DequeueNeverWaits
<1>1. IInv => DequeueNeverWaits
  <2> SUFFICES ASSUME IInv PROVE DequeueNeverWaits
    OBVIOUS
  <2>1. m_qTMSG \in Seq(Requests) /\ m_future \in Seq(Result)
    BY DEF IInv, BaseInv, TypeOK, QueueTypes
  <2>2. /\ Len(m_future) \in Nat /\ Len(m_qTMSG) \in Nat
        /\ m_future # <<>> => Len(m_future) > 0
        /\ m_qTMSG = <<>> => Len(m_qTMSG) <= 0
    BY <2>1, LenProperties, EmptySeq
  <2>3. Len(m_qTMSG) >= Expected /\ (wat = "haveMsg" => m_future # <<>>)
    BY DEF IInv, QueueInv
  <2>4. rcv = "discard" => m_qTMSG # <<>>
    BY <2>2, <2>3 DEF Expected, Shift, InHand
  <2>5. wat = "haveResult" => m_qTMSG # <<>>
    BY <2>2, <2>3 DEF Expected, Shift
  <2>6. wat = "poll" /\ m_future # <<>> => m_qTMSG # <<>>
    BY <2>2, <2>3 DEF Expected, Shift
  <2>7. QED
    BY <2>3, <2>4, <2>5, <2>6 DEF DequeueNeverWaits
<1>2. QED
  BY <1>1, Invariance, PTL

(* Until a request is skipped, or a rejected one takes another's entry out *)
(* of m_qTMSG, every reply names the output of the job that ended.         *)
THEOREM RepliesLabelled == Spec => []LabelsCorrect
<1>1. IInv => LabelsCorrect
  <2> SUFFICES ASSUME IInv, ~disturbed,
                      NEW i \in 1..Len(RepliesInFlight)
               PROVE  RepliesInFlight[i].label = RepliesInFlight[i].job
    BY DEF LabelsCorrect
  <2>1. /\ m_qSMSG \in Seq(Reply) /\ announced \in Seq(Reply)
        /\ Len(m_qSMSG) \in Nat /\ Len(announced) \in Nat
    BY LenProperties DEF IInv, BaseInv, TypeOK, QueueTypes, HistoryTypes
  <2>2. /\ \A k \in 1..Len(m_qSMSG) : m_qSMSG[k].label = m_qSMSG[k].job
        /\ \A k \in 1..Len(announced) : announced[k].label = announced[k].job
    BY DEF IInv, LabelInv
  <2>3. /\ i \in 1..(Len(announced) + Len(m_qSMSG))
        /\ RepliesInFlight[i] = IF i <= Len(announced) THEN announced[i]
                                ELSE m_qSMSG[i - Len(announced)]
    BY <2>1, ConcatProperties DEF RepliesInFlight
  <2>4. QED
    BY <2>1, <2>2, <2>3
<1>2. QED
  BY <1>1, Invariance, PTL

(* The watcher meets a message without "output" only after that.           *)
THEOREM WatcherThrows == Spec => []WatcherThrowsOnlyMislabelled
<1>1. IInv => WatcherThrowsOnlyMislabelled
  BY DEF IInv, LabelInv, OutputInv, WatcherThrowsOnlyMislabelled
<1>2. QED
  BY <1>1, Invariance, PTL

-----------------------------------------------------------------------------
(* The order of the requests.  What the watcher holds, the results waiting *)
(* for it, what RcvMSGThread holds and m_qRMSG, one after the other, are   *)
(* the requests nobody has settled yet.                                    *)
WithWatcher == IF wat \in {"haveResult", "make"} THEN <<wres.job>> ELSE <<>>
Ended == WithWatcher \o Jobs(m_future)
WithReceiver == IF rcv # "poll" THEN <<rmsg>> ELSE <<>>
Waiting == WithReceiver \o m_qRMSG
Pending == Ended \o Waiting

Precedes(a, b, r) ==
    \E i, j \in 1..Len(r) : i < j /\ r[i] = a /\ r[j] = b

(* r: the requests in the order they came, f: what became of each, p: those *)
(* that are pending, which are the unsettled ones in the order of r.       *)
Ordered(r, f, p) ==
    /\ \A i, j \in 1..Len(r) : r[i] = r[j] => i = j
    /\ \A m \in Requests : f[m] # "new" <=> \E i \in 1..Len(r) : r[i] = m
    /\ \A i, j \in 1..Len(p) : i < j => Precedes(p[i], p[j], r)
    /\ \A m \in Requests : f[m] = "received" <=> \E i \in 1..Len(p) : p[i] = m

OrderInv == Ordered(received, fate, Pending)

(* A request accepted now comes after everything pending.                  *)
LEMMA AcceptKeepsOrder ==
  ASSUME NEW r \in Seq(Requests), NEW f \in [Requests -> Fates], NEW p \in Seq(Requests),
         NEW m \in Requests, f[m] = "new", Ordered(r, f, p)
  PROVE  Ordered(Append(r, m), [f EXCEPT ![m] = "received"], Append(p, m))
<1> DEFINE rr == Append(r, m)
           pp == Append(p, m)
           ff == [f EXCEPT ![m] = "received"]
<1>1. /\ Len(r) \in Nat /\ Len(p) \in Nat
      /\ Len(rr) = Len(r) + 1 /\ rr[Len(r) + 1] = m
      /\ \A i \in 1..Len(r) : rr[i] = r[i] /\ r[i] \in Requests
  BY AppendProperties, LenProperties
<1>2. /\ Len(pp) = Len(p) + 1 /\ pp[Len(p) + 1] = m
      /\ \A i \in 1..Len(p) : pp[i] = p[i] /\ p[i] \in Requests
  BY AppendProperties, LenProperties
<1>3. ff[m] = "received" /\ \A n \in Requests \ {m} : ff[n] = f[n]
  OBVIOUS
<1> HIDE DEF rr, pp, ff
<1>4. \A i \in 1..Len(r) : r[i] # m
  BY DEF Ordered
<1>5. \A i, j \in 1..Len(rr) : rr[i] = rr[j] => i = j
  BY <1>1, <1>4 DEF Ordered
<1>6. ASSUME NEW n \in Requests
      PROVE  ff[n] # "new" <=> \E i \in 1..Len(rr) : rr[i] = n
  <2>1. CASE n = m
    BY <2>1, <1>1, <1>3
  <2>2. CASE n # m
    BY <2>2, <1>1, <1>3 DEF Ordered
  <2>3. QED
    BY <2>1, <2>2
<1>7. ASSUME NEW i \in 1..Len(pp), NEW j \in 1..Len(pp), i < j
      PROVE  Precedes(pp[i], pp[j], rr)
  <2>1. i \in 1..Len(p) /\ pp[i] = p[i]
    BY <1>7, <1>2, <1>1
  <2>2. CASE j \in 1..Len(p)
    <3>1. pp[j] = p[j] /\ Precedes(p[i], p[j], r)
      BY <1>7, <1>2, <2>1, <2>2 DEF Ordered
    <3>2. PICK k, l \in 1..Len(r) : k < l /\ r[k] = p[i] /\ r[l] = p[j]
      BY <3>1 DEF Precedes
    <3>3. QED
      BY <3>1, <3>2, <2>1, <1>1 DEF Precedes
  <2>3. CASE j = Len(p) + 1
    <3>1. p[i] \in Requests /\ f[p[i]] = "received"
      BY <1>2, <2>1 DEF Ordered
    <3>2. PICK k \in 1..Len(r) : r[k] = p[i]
      BY <3>1 DEF Ordered
    <3>3. /\ k \in 1..Len(rr) /\ Len(r) + 1 \in 1..Len(rr) /\ k < Len(r) + 1
          /\ rr[k] = pp[i] /\ rr[Len(r) + 1] = pp[j]
      BY <1>1, <1>2, <2>1, <2>3, <3>2
    <3>4. QED
      BY <3>3 DEF Precedes
  <2>4. QED
    BY <2>2, <2>3, <1>1, <1>2
<1>8. ASSUME NEW n \in Requests
      PROVE  ff[n] = "received" <=> \E i \in 1..Len(pp) : pp[i] = n
  <2>1. CASE n = m
    BY <2>1, <1>1, <1>2, <1>3
  <2>2. CASE n # m
    <3>1. ff[n] = "received" <=> \E i \in 1..Len(p) : p[i] = n
      BY <2>2, <1>3 DEF Ordered
    <3>2. \A i \in 1..Len(pp) : pp[i] = n => i \in 1..Len(p)
      BY <2>2, <1>1, <1>2
    <3>3. \A i \in 1..Len(p) : i \in 1..Len(pp)
      BY <1>1, <1>2
    <3>4. QED
      BY <3>1, <3>2, <3>3, <1>2
  <2>3. QED
    BY <2>1, <2>2
<1>9. Ordered(rr, ff, pp)
  BY <1>5, <1>6, <1>7, <1>8 DEF Ordered
<1>10. QED
  BY <1>9 DEF rr, pp, ff

(* A pending request stands at one place only of what is pending.          *)
LEMMA PendingOnce ==
  ASSUME NEW r \in Seq(Requests), NEW f, NEW p \in Seq(Requests), Ordered(r, f, p),
         NEW i \in 1..Len(p), NEW j \in 1..Len(p), p[i] = p[j]
  PROVE  i = j
<1>1. ASSUME NEW a \in 1..Len(p), NEW b \in 1..Len(p), a < b, p[a] = p[b]
      PROVE  FALSE
  <2>1. PICK k, l \in 1..Len(r) : k < l /\ r[k] = p[a] /\ r[l] = p[b]
    BY <1>1 DEF Ordered, Precedes
  <2>2. k = l
    BY <1>1, <2>1 DEF Ordered
  <2>3. QED
    BY <2>1, <2>2
<1>2. i \in Int /\ j \in Int
  BY LenProperties
<1>3. QED
  BY <1>1, <1>2

(* Settling one of the pending requests takes it out of them and leaves    *)
(* the others in their order.                                              *)
LEMMA SettleKeepsOrder ==
  ASSUME NEW r \in Seq(Requests), NEW f \in [Requests -> Fates],
         NEW a \in Seq(Requests), NEW m \in Requests, NEW d \in Seq(Requests),
         Ordered(r, f, a \o (<<m>> \o d)), NEW s \in Fates \ {"new", "received"}
  PROVE  f[m] = "received" /\ Ordered(r, [f EXCEPT ![m] = s], a \o d)
<1> DEFINE p == a \o (<<m>> \o d)
           q == a \o d
           ff == [f EXCEPT ![m] = s]
           at == Len(a) + 1
<1>1. Len(a) \in Nat /\ Len(d) \in Nat
  BY LenProperties
<1>2. /\ <<m>> \o d \in Seq(Requests) /\ Len(<<m>> \o d) = 1 + Len(d)
      /\ (<<m>> \o d)[1] = m
      /\ \A i \in 1..Len(d) : (<<m>> \o d)[i + 1] = d[i]
  <2>1. <<m>> \in Seq(Requests) /\ Len(<<m>>) = 1 /\ <<m>>[1] = m
    OBVIOUS
  <2>2. QED
    BY <2>1, <1>1, ConcatProperties
<1>3. /\ p \in Seq(Requests) /\ Len(p) = Len(a) + 1 + Len(d)
      /\ p[at] = m
      /\ \A i \in 1..Len(a) : p[i] = a[i]
      /\ \A i \in 1..Len(d) : p[at + i] = d[i]
  <2>1. /\ p \in Seq(Requests) /\ Len(p) = Len(a) + (1 + Len(d))
        /\ \A i \in 1..(Len(a) + (1 + Len(d))) :
              p[i] = IF i <= Len(a) THEN a[i] ELSE (<<m>> \o d)[i - Len(a)]
    BY <1>2, ConcatProperties
  <2>2. \A i \in 1..Len(d) : p[at + i] = (<<m>> \o d)[i + 1]
    BY <2>1, <1>1
  <2>3. p[at] = (<<m>> \o d)[1] /\ \A i \in 1..Len(a) : p[i] = a[i]
    BY <2>1, <1>1
  <2>4. QED
    BY <2>1, <2>2, <2>3, <1>1, <1>2
<1>4. /\ q \in Seq(Requests) /\ Len(q) = Len(a) + Len(d)
      /\ \A i \in 1..Len(a) : q[i] = a[i]
      /\ \A i \in 1..Len(d) : q[Len(a) + i] = d[i]
  <2>1. /\ q \in Seq(Requests) /\ Len(q) = Len(a) + Len(d)
        /\ \A i \in 1..(Len(a) + Len(d)) :
              q[i] = IF i <= Len(a) THEN a[i] ELSE d[i - Len(a)]
    BY ConcatProperties
  <2>2. QED
    BY <2>1, <1>1
<1>5. ff[m] = s /\ \A n \in Requests \ {m} : ff[n] = f[n]
  OBVIOUS
<1>o. Ordered(r, f, p)
  OBVIOUS
<1> HIDE DEF p, q, ff
<1> DEFINE up(i) == IF i <= Len(a) THEN i ELSE i + 1
<1>6. \A i \in 1..Len(q) : up(i) \in 1..Len(p) /\ up(i) # at /\ q[i] = p[up(i)]
  <2> SUFFICES ASSUME NEW i \in 1..Len(q)
               PROVE  up(i) \in 1..Len(p) /\ up(i) # at /\ q[i] = p[up(i)]
    OBVIOUS
  <2>1. CASE i <= Len(a)
    BY <2>1, <1>1, <1>3, <1>4
  <2>2. CASE i > Len(a)
    <3>1. i - Len(a) \in 1..Len(d) /\ Len(a) + (i - Len(a)) = i
          /\ at + (i - Len(a)) = i + 1
      BY <2>2, <1>1, <1>4
    <3>2. q[i] = d[i - Len(a)] /\ p[i + 1] = d[i - Len(a)]
      BY <3>1, <1>3, <1>4
    <3>3. up(i) = i + 1 /\ i + 1 \in 1..Len(p) /\ i + 1 # at
      BY <2>2, <1>1, <1>3, <1>4
    <3>4. QED
      BY <3>2, <3>3
  <2>3. QED
    BY <2>1, <2>2, <1>1
<1>7. \A k \in 1..Len(p) : k # at => \E i \in 1..Len(q) : q[i] = p[k]
  <2> SUFFICES ASSUME NEW k \in 1..Len(p), k # at
               PROVE  \E i \in 1..Len(q) : q[i] = p[k]
    OBVIOUS
  <2>1. CASE k <= Len(a)
    BY <2>1, <1>1, <1>3, <1>4
  <2>2. CASE k > Len(a)
    <3>0. k \in Int /\ k > at /\ k <= Len(a) + 1 + Len(d)
      BY <2>2, <1>1, <1>3
    <3>1. /\ k - at \in 1..Len(d) /\ at + (k - at) = k
          /\ Len(a) + (k - at) = k - 1 /\ k - 1 \in 1..(Len(a) + Len(d))
      BY <3>0, <1>1
    <3> HIDE DEF at
    <3>2. p[k] = d[k - at]
      BY <3>1, <1>3
    <3>4. q[k - 1] = d[k - at] /\ k - 1 \in 1..Len(q)
      BY <3>1, <1>4
    <3>3. QED
      BY <3>2, <3>4
  <2>3. QED
    BY <2>1, <2>2, <1>1
<1>8. f[m] = "received"
  BY <1>o, <1>1, <1>3 DEF Ordered
<1>9. \A n \in Requests : ff[n] # "new" <=> \E i \in 1..Len(r) : r[i] = n
  BY <1>o, <1>5, <1>8 DEF Ordered
<1>10. ASSUME NEW i \in 1..Len(q), NEW j \in 1..Len(q), i < j
       PROVE  Precedes(q[i], q[j], r)
  <2>1. up(i) < up(j)
    BY <1>10, <1>1, <1>4
  <2>2. QED
    BY <2>1, <1>6, <1>o DEF Ordered
<1>11. ASSUME NEW n \in Requests
       PROVE  ff[n] = "received" <=> \E i \in 1..Len(q) : q[i] = n
  <2>1. CASE n = m
    <3>1. at \in 1..Len(p)
      BY <1>1, <1>3
    <3>2. \A k \in 1..Len(p) : p[k] = m => k = at
      <4> SUFFICES ASSUME NEW k \in 1..Len(p), p[k] = m PROVE k = at
        OBVIOUS
      <4>1. p[k] = p[at] /\ p \in Seq(Requests)
        BY <1>3
      <4> HIDE DEF at
      <4>2. QED
        BY <4>1, <3>1, <1>o, PendingOnce
    <3>4. \A i \in 1..Len(q) : q[i] # m
      BY <1>6, <3>2
    <3>3. QED
      BY <2>1, <3>4, <1>5
  <2>2. CASE n # m
    <3>1. ff[n] = "received" <=> \E k \in 1..Len(p) : p[k] = n
      BY <2>2, <1>5, <1>o DEF Ordered
    <3>2. (\E k \in 1..Len(p) : p[k] = n) <=> (\E i \in 1..Len(q) : q[i] = n)
      BY <2>2, <1>3, <1>6, <1>7
    <3>3. QED
      BY <3>1, <3>2
  <2>3. QED
    BY <2>1, <2>2
<1>12. Ordered(r, ff, q)
  BY <1>9, <1>10, <1>11, <1>o DEF Ordered
<1>13. QED
  BY <1>8, <1>12 DEF q, ff

(* Everything that came before m is settled.                               *)
ComesFirst(r, f, m) ==
    \E i \in 1..Len(r) :
        /\ r[i] = m
        /\ \A j \in 1..(i - 1) : f[r[j]] # "received"

(* The first pending request is the first unsettled one of those received. *)
LEMMA FirstPending ==
  ASSUME NEW r \in Seq(Requests), NEW f, NEW p \in Seq(Requests), Ordered(r, f, p),
         p # <<>>
  PROVE  f[p[1]] = "received" /\ ComesFirst(r, f, p[1])
<1>1. 1 \in 1..Len(p) /\ p[1] \in Requests /\ Len(r) \in Nat
  BY EmptySeq, LenProperties
<1>2. f[p[1]] = "received"
  BY <1>1 DEF Ordered
<1>3. PICK i \in 1..Len(r) : r[i] = p[1]
  BY <1>1, <1>2 DEF Ordered
<1>4. ASSUME NEW j \in 1..(i - 1), f[r[j]] = "received"
      PROVE  FALSE
  <2>1. j \in 1..Len(r) /\ j < i /\ r[j] \in Requests
    BY <1>1, LenProperties
  <2>2. PICK k \in 1..Len(p) : p[k] = r[j]
    BY <1>4, <2>1 DEF Ordered
  <2>3. k # 1
    BY <2>1, <2>2, <1>3 DEF Ordered
  <2>4. Precedes(p[1], p[k], r)
    BY <2>2, <2>3, <1>1 DEF Ordered
  <2>5. PICK x, y \in 1..Len(r) : x < y /\ r[x] = p[1] /\ r[y] = p[k]
    BY <2>4 DEF Precedes
  <2>6. r[x] = r[i] /\ r[y] = r[j]
    BY <2>2, <2>5, <1>3
  <2>8. x = i /\ y = j
    BY <2>1, <2>6 DEF Ordered
  <2>7. QED
    BY <2>1, <2>5, <2>8
<1>5. ComesFirst(r, f, p[1])
  BY <1>3, <1>4 DEF ComesFirst
<1>6. QED
  BY <1>2, <1>5

(* The jobs of a queue of results or replies, through its operations.      *)
LEMMA JobsProperties ==
  ASSUME NEW S, \A x \in S : x.job \in Requests, NEW s \in Seq(S)
  PROVE  /\ Jobs(s) \in Seq(Requests)
         /\ Len(Jobs(s)) = Len(s)
         /\ \A i \in 1..Len(s) : Jobs(s)[i] = s[i].job
<1>1. Len(s) \in Nat /\ \A i \in 1..Len(s) : s[i].job \in Requests
  BY LenProperties
<1>2. QED
  BY <1>1 DEF Jobs

LEMMA JobsAppend ==
  ASSUME NEW S, \A x \in S : x.job \in Requests, NEW s \in Seq(S), NEW x \in S
  PROVE  Jobs(Append(s, x)) = Append(Jobs(s), x.job)
<1>1. /\ Append(s, x) \in Seq(S) /\ Len(s) \in Nat
      /\ Len(Append(s, x)) = Len(s) + 1 /\ Append(s, x)[Len(s) + 1] = x
      /\ \A i \in 1..Len(s) : Append(s, x)[i] = s[i]
  BY AppendProperties, LenProperties
<1>2. /\ Jobs(s) \in Seq(Requests) /\ Len(Jobs(s)) = Len(s)
      /\ \A i \in 1..Len(s) : Jobs(s)[i] = s[i].job
  BY JobsProperties
<1>3. /\ Jobs(Append(s, x)) \in Seq(Requests)
      /\ Len(Jobs(Append(s, x))) = Len(s) + 1
      /\ \A i \in 1..(Len(s) + 1) : Jobs(Append(s, x))[i] = Append(s, x)[i].job
  BY <1>1, JobsProperties
<1>4. /\ Append(Jobs(s), x.job) \in Seq(Requests)
      /\ Len(Append(Jobs(s), x.job)) = Len(s) + 1
      /\ Append(Jobs(s), x.job)[Len(s) + 1] = x.job
      /\ \A i \in 1..Len(s) : Append(Jobs(s), x.job)[i] = Jobs(s)[i]
  BY <1>2, AppendProperties
<1>5. \A i \in 1..(Len(s) + 1) : Jobs(Append(s, x))[i] = Append(Jobs(s), x.job)[i]
  BY <1>1, <1>2, <1>3, <1>4
<1>6. QED
  BY <1>3, <1>4, <1>5, SeqEqual

LEMMA JobsTail ==
  ASSUME NEW S, \A x \in S : x.job \in Requests, NEW s \in Seq(S), s # <<>>
  PROVE  /\ Jobs(s) # <<>> /\ Head(Jobs(s)) = Head(s).job
         /\ Jobs(Tail(s)) = Tail(Jobs(s))
<1>1. /\ Len(s) \in Nat \ {0} /\ Tail(s) \in Seq(S) /\ Len(Tail(s)) = Len(s) - 1
      /\ \A i \in 1..(Len(s) - 1) : Tail(s)[i] = s[i + 1]
      /\ Head(s) = s[1]
  BY EmptySeq, HeadTailProperties
<1>2. /\ Jobs(s) \in Seq(Requests) /\ Len(Jobs(s)) = Len(s)
      /\ \A i \in 1..Len(s) : Jobs(s)[i] = s[i].job
  BY JobsProperties
<1>3. /\ Jobs(Tail(s)) \in Seq(Requests) /\ Len(Jobs(Tail(s))) = Len(s) - 1
      /\ \A i \in 1..(Len(s) - 1) : Jobs(Tail(s))[i] = Tail(s)[i].job
  BY <1>1, JobsProperties
<1>4. Jobs(s) # <<>>
  BY <1>1, <1>2, EmptySeq
<1>5. /\ Tail(Jobs(s)) \in Seq(Requests) /\ Len(Tail(Jobs(s))) = Len(s) - 1
      /\ \A i \in 1..(Len(s) - 1) : Tail(Jobs(s))[i] = Jobs(s)[i + 1]
      /\ Head(Jobs(s)) = Jobs(s)[1]
  BY <1>2, <1>4, HeadTailProperties
<1>6. \A i \in 1..(Len(s) - 1) : Jobs(Tail(s))[i] = Tail(Jobs(s))[i]
  BY <1>1, <1>2, <1>3, <1>5
<1>7. Jobs(Tail(s)) = Tail(Jobs(s))
  BY <1>3, <1>5, <1>6, SeqEqual
<1>8. Head(Jobs(s)) = Head(s).job
  BY <1>1, <1>2, <1>5
<1>9. QED
  BY <1>4, <1>7, <1>8

LEMMA HeadThenTail ==
  ASSUME NEW s \in Seq(Requests), s # <<>>
  PROVE  s = <<Head(s)>> \o Tail(s)
<1>1. /\ Len(s) \in Nat \ {0} /\ Head(s) \in Requests /\ Head(s) = s[1]
      /\ Tail(s) \in Seq(Requests) /\ Len(Tail(s)) = Len(s) - 1
      /\ \A i \in 1..(Len(s) - 1) : Tail(s)[i] = s[i + 1]
  BY EmptySeq, HeadTailProperties
<1>2. <<Head(s)>> \in Seq(Requests) /\ Len(<<Head(s)>>) = 1 /\ <<Head(s)>>[1] = Head(s)
  BY <1>1
<1> DEFINE h == <<Head(s)>>
           u == Tail(s)
           t == h \o u
<1>3. /\ t \in Seq(Requests) /\ Len(t) = 1 + (Len(s) - 1)
      /\ \A i \in 1..(1 + (Len(s) - 1)) : t[i] = IF i <= 1 THEN h[i] ELSE u[i - 1]
  <2> HIDE DEF h, u
  <2>1. h \in Seq(Requests) /\ u \in Seq(Requests) /\ Len(h) = 1 /\ Len(u) = Len(s) - 1
    BY <1>1, <1>2 DEF h, u
  <2>2. /\ t \in Seq(Requests) /\ Len(t) = Len(h) + Len(u)
        /\ \A i \in 1..(Len(h) + Len(u)) : t[i] = IF i <= Len(h) THEN h[i] ELSE u[i - Len(h)]
    BY <2>1, ConcatProperties
  <2> HIDE DEF t
  <2>3. QED
    BY <2>1, <2>2
<1> HIDE DEF t
<1>4. \A i \in 1..Len(s) : t[i] = s[i]
  <2> SUFFICES ASSUME NEW i \in 1..Len(s) PROVE t[i] = s[i]
    OBVIOUS
  <2>1. CASE i = 1
    BY <2>1, <1>1, <1>2, <1>3
  <2>2. CASE i # 1
    <3>1. i - 1 \in 1..(Len(s) - 1) /\ (i - 1) + 1 = i
      BY <2>2, <1>1
    <3>2. t[i] = Tail(s)[i - 1]
      BY <2>2, <1>1, <1>3
    <3>3. QED
      BY <3>1, <3>2, <1>1
  <2>3. QED
    BY <2>1, <2>2
<1>5. t = s
  BY <1>1, <1>3, <1>4, SeqEqual
<1>6. QED
  BY <1>5 DEF t

(* What Pending is made of.                                                *)
LEMMA PendingTypes ==
  ASSUME TypeOK
  PROVE  /\ WithWatcher \in Seq(Requests) /\ Jobs(m_future) \in Seq(Requests)
         /\ Ended \in Seq(Requests)
         /\ WithReceiver \in Seq(Requests) /\ m_qRMSG \in Seq(Requests)
         /\ Waiting \in Seq(Requests)
         /\ Pending \in Seq(Requests)
<1>1. WithReceiver \in Seq(Requests) /\ m_qRMSG \in Seq(Requests)
  BY DEF TypeOK, RcvTypes, QueueTypes, WithReceiver
<1>2. WithWatcher \in Seq(Requests)
  BY DEF TypeOK, WatTypes, Result, WithWatcher
<1>3. Jobs(m_future) \in Seq(Requests)
  <2>1. m_future \in Seq(Result) /\ \A x \in Result : x.job \in Requests
    BY DEF TypeOK, QueueTypes, Result
  <2>2. QED
    BY <2>1, JobsProperties
<1>4. Ended \in Seq(Requests) /\ Waiting \in Seq(Requests)
  BY <1>1, <1>2, <1>3, ConcatProperties DEF Ended, Waiting
<1>5. QED
  BY <1>1, <1>2, <1>3, <1>4, ConcatProperties DEF Pending

(* What an acceptance, a refusal and the end of a job do to Pending; every *)
(* other step leaves it, and the fates and the order, as they are.         *)
RefuseStep == RcvIgnore \/ DiscardTaskMsg
FinishStep == MakeNoReply \/ MakeSendMsg

LEMMA AcceptAppends ==
  ASSUME TypeOK, NEW m \in Requests, OnRcvMessage(m)
  PROVE  Pending' = Append(Pending, m)
<1>1. Ended' = Ended /\ WithReceiver' = WithReceiver
  BY DEF OnRcvMessage, Ended, WithWatcher, Jobs, WithReceiver, rcvVars, watVars
<1>2. Pending' = Ended \o (WithReceiver \o Append(m_qRMSG, m))
  BY <1>1 DEF Pending, Waiting, OnRcvMessage
<1>3. /\ Append(m_qRMSG, m) = m_qRMSG \o <<m>> /\ <<m>> \in Seq(Requests)
      /\ Append(Pending, m) = Pending \o <<m>>
  BY PendingTypes, AppendIsConcat
<1>4. WithReceiver \o (m_qRMSG \o <<m>>) = Waiting \o <<m>>
  BY <1>3, PendingTypes, ConcatAssociative DEF Waiting
<1>5. Ended \o (Waiting \o <<m>>) = Pending \o <<m>>
  BY <1>3, PendingTypes, ConcatAssociative DEF Pending
<1>6. QED
  BY <1>2, <1>3, <1>4, <1>5

LEMMA RefuseTakesOut ==
  ASSUME TypeOK, RefuseStep
  PROVE  /\ rmsg \in Requests
         /\ Pending = Ended \o (<<rmsg>> \o m_qRMSG)
         /\ Pending' = Ended \o m_qRMSG
         /\ received' = received
<1> USE DEF RefuseStep, RcvIgnore, DiscardTaskMsg
<1>1. /\ rcv # "poll" /\ rcv' = "poll"
      /\ UNCHANGED <<m_qRMSG, m_future, wat, wres, received>>
  BY DEF queues, watVars
<1>2. Pending = Ended \o (<<rmsg>> \o m_qRMSG)
  BY <1>1 DEF Pending, Waiting, WithReceiver
<1>3. Ended' = Ended
  BY <1>1 DEF Ended, WithWatcher, Jobs
<1>4. Waiting' = <<>> \o m_qRMSG
  BY <1>1 DEF Waiting, WithReceiver
<1>5. Waiting' = m_qRMSG
  BY <1>4, PendingTypes, ConcatEmptySeq
<1>6. QED
  BY <1>1, <1>2, <1>3, <1>5 DEF Pending, TypeOK, RcvTypes

LEMMA FinishTakesFirst ==
  ASSUME TypeOK, FinishStep
  PROVE  /\ wres.job \in Requests
         /\ Pending = <<>> \o (<<wres.job>> \o (Jobs(m_future) \o Waiting))
         /\ Pending' = <<>> \o (Jobs(m_future) \o Waiting)
         /\ received' = received
<1>1. /\ wat = "make" /\ wat' = "load"
      /\ UNCHANGED <<m_qRMSG, m_future, rcv, rmsg, wres, received>>
  BY DEF FinishStep, MakeNoReply, MakeSendMsg, rcvVars
<1>2. wres.job \in Requests
  BY <1>1 DEF TypeOK, WatTypes, Result
<1>3. WithWatcher = <<wres.job>> /\ WithWatcher' = <<>>
  BY <1>1 DEF WithWatcher
<1>4. Jobs(m_future') = Jobs(m_future) /\ Waiting' = Waiting
  BY <1>1 DEF Waiting, WithReceiver
<1>5. Ended' = <<>> \o Jobs(m_future)
  BY <1>1, <1>3 DEF Ended, Jobs
<1>6. Pending' = Jobs(m_future) \o Waiting
  BY <1>4, <1>5, PendingTypes, ConcatEmptySeq DEF Pending
<1>7. Pending = <<wres.job>> \o (Jobs(m_future) \o Waiting)
  <2>1. (WithWatcher \o Jobs(m_future)) \o Waiting
          = WithWatcher \o (Jobs(m_future) \o Waiting)
    <3>1. /\ WithWatcher \in Seq(Requests) /\ Jobs(m_future) \in Seq(Requests)
          /\ Waiting \in Seq(Requests)
      BY PendingTypes
    <3>2. QED
      BY <3>1, ConcatAssociative
  <2>2. Pending = (<<wres.job>> \o Jobs(m_future)) \o Waiting
    BY <1>3 DEF Pending, Ended
  <2>3. QED
    BY <1>3, <2>1, <2>2
<1>8. /\ Jobs(m_future) \o Waiting \in Seq(Requests)
      /\ <<wres.job>> \o (Jobs(m_future) \o Waiting) \in Seq(Requests)
  <2>1. Jobs(m_future) \o Waiting \in Seq(Requests) /\ <<wres.job>> \in Seq(Requests)
    BY <1>2, PendingTypes, ConcatProperties
  <2>2. QED
    BY <2>1, ConcatProperties
<1>9. QED
  BY <1>1, <1>2, <1>6, <1>7, <1>8, ConcatEmptySeq

LEMMA DequeueMoves ==
  ASSUME TypeOK, RcvDequeue
  PROVE  Pending' = Pending
<1> USE DEF RcvDequeue
<1>1. /\ m_qRMSG # <<>> /\ rcv = "poll" /\ rcv' # "poll" /\ rmsg' = Head(m_qRMSG)
      /\ m_qRMSG' = Tail(m_qRMSG) /\ UNCHANGED <<m_future, wat, wres>>
  BY DEF watVars
<1>2. Ended' = Ended
  BY <1>1 DEF Ended, WithWatcher, Jobs
<1>3. Waiting' = <<Head(m_qRMSG)>> \o Tail(m_qRMSG) /\ Waiting = <<>> \o m_qRMSG
  BY <1>1 DEF Waiting, WithReceiver
<1>4. Waiting' = Waiting
  BY <1>1, <1>3, PendingTypes, HeadThenTail, ConcatEmptySeq
<1>5. QED
  BY <1>2, <1>4 DEF Pending

LEMMA PublishMoves ==
  ASSUME BaseInv, PublishResult
  PROVE  Pending' = Pending
<1> USE DEF PublishResult, BaseInv
<1> DEFINE res == [job |-> rmsg, result |-> promise]
<1>1. /\ rcv # "poll" /\ rcv' = "poll" /\ rmsg \in Requests
      /\ m_future' = Append(m_future, res) /\ UNCHANGED <<m_qRMSG, wat, wres>>
  BY DEF watVars, TypeOK, RcvTypes
<1>2. res \in Result /\ res.job = rmsg
  BY <1>1 DEF PoolInv, Result
<1> HIDE DEF res
<1>3. Jobs(m_future') = Append(Jobs(m_future), rmsg)
  <2>1. m_future \in Seq(Result) /\ \A x \in Result : x.job \in Requests
    BY DEF TypeOK, QueueTypes, Result
  <2>2. QED
    BY <1>1, <1>2, <2>1, JobsAppend
<1>4. Ended' = WithWatcher \o (Jobs(m_future) \o <<rmsg>>)
  <2>1. Append(Jobs(m_future), rmsg) = Jobs(m_future) \o <<rmsg>>
    BY <1>1, PendingTypes, AppendIsConcat
  <2>2. Ended' = WithWatcher \o Jobs(m_future')
    BY <1>1 DEF Ended, WithWatcher, Jobs
  <2>3. QED
    BY <1>3, <2>1, <2>2
<1>5. Ended' = Ended \o <<rmsg>> /\ <<rmsg>> \in Seq(Requests)
  <2>1. <<rmsg>> \in Seq(Requests)
    BY <1>1
  <2>2. WithWatcher \o (Jobs(m_future) \o <<rmsg>>)
          = (WithWatcher \o Jobs(m_future)) \o <<rmsg>>
    BY <2>1, PendingTypes, ConcatAssociative
  <2>3. QED
    BY <1>4, <2>1, <2>2 DEF Ended
<1>6. Waiting' = m_qRMSG
  BY <1>1, PendingTypes, ConcatEmptySeq DEF Waiting, WithReceiver
<1>7. Waiting = <<rmsg>> \o m_qRMSG
  BY <1>1 DEF Waiting, WithReceiver
<1>8. QED
  BY <1>5, <1>6, <1>7, PendingTypes, ConcatAssociative DEF Pending

LEMMA TakeResultMoves ==
  ASSUME TypeOK, WatchTakeResult
  PROVE  Pending' = Pending
<1> USE DEF WatchTakeResult
<1>1. /\ wat \notin {"haveResult", "make"} /\ wat' \in {"haveResult", "make"}
      /\ m_future # <<>> /\ wres' = Head(m_future) /\ m_future' = Tail(m_future)
      /\ UNCHANGED <<m_qRMSG, rcv, rmsg>>
  BY DEF rcvVars
<1>2. /\ Jobs(m_future) # <<>> /\ Head(Jobs(m_future)) = Head(m_future).job
      /\ Jobs(Tail(m_future)) = Tail(Jobs(m_future))
  <2>1. m_future \in Seq(Result) /\ \A x \in Result : x.job \in Requests
    BY DEF TypeOK, QueueTypes, Result
  <2>2. QED
    BY <1>1, <2>1, JobsTail
<1>3. Ended' = <<Head(m_future).job>> \o Jobs(Tail(m_future))
  BY <1>1 DEF Ended, WithWatcher, Jobs
<1>4. Ended' = Jobs(m_future)
  BY <1>2, <1>3, PendingTypes, HeadThenTail
<1>5. Ended = Jobs(m_future)
  BY <1>1, PendingTypes, ConcatEmptySeq DEF Ended, WithWatcher
<1>6. Waiting' = Waiting
  BY <1>1 DEF Waiting, WithReceiver
<1>7. QED
  BY <1>4, <1>5, <1>6 DEF Pending

LEMMA OthersKeepOrder ==
  ASSUME BaseInv, [Next]_vars, ~RefuseStep, ~FinishStep,
         ~ \E m \in Requests : OnRcvMessage(m)
  PROVE  UNCHANGED <<received, fate, Pending>>
<1> USE DEF queues, pool, rcvVars, watVars, history
<1>1. UNCHANGED <<received, fate>>
  BY DEF Next, RcvMSGThread, WatchFuture, RefuseStep, FinishStep, RcvDequeue, OnRcvTask,
     CommandTaskLoad, CommandTaskStore, ImportVideoInfo, ParseThrows, ImportThrows,
     EnqueueJob, FutureGet, FutureRethrows, PublishResult, WorkerThread, TakeJob,
     RunStabilize, WatchTakeMsg, WatchTakeResult, MakeThrows, WatchLoad, WatchStore,
     SndMSGThread, PollEmpty, Terminate, vars
<1>2. CASE RcvDequeue \/ PublishResult \/ WatchTakeResult
  BY <1>1, <1>2, DequeueMoves, PublishMoves, TakeResultMoves DEF BaseInv
<1>3. CASE WatchTakeMsg
  <2>1. /\ UNCHANGED <<m_qRMSG, m_future, rcv, rmsg, wres>>
        /\ wat \in {"haveResult", "make"} <=> wat' \in {"haveResult", "make"}
    BY <1>3 DEF WatchTakeMsg
  <2>2. QED
    BY <1>1, <2>1 DEF Pending, Ended, Waiting, WithWatcher, WithReceiver, Jobs
<1>4. CASE ~ (RcvDequeue \/ PublishResult \/ WatchTakeResult \/ WatchTakeMsg)
  <2>1. /\ UNCHANGED <<m_qRMSG, m_future, rmsg, wres>>
        /\ rcv = "poll" <=> rcv' = "poll"
        /\ wat \in {"haveResult", "make"} <=> wat' \in {"haveResult", "make"}
    BY <1>4 DEF Next, RcvMSGThread, WatchFuture, RefuseStep, FinishStep, OnRcvTask,
     CommandTaskLoad, CommandTaskStore, ImportVideoInfo, ParseThrows, ImportThrows,
     EnqueueJob, FutureGet, FutureRethrows, WorkerThread, TakeJob,
     RunStabilize, MakeThrows, WatchLoad, WatchStore,
     SndMSGThread, PollEmpty, Terminate, vars
  <2>2. QED
    BY <1>1, <2>1 DEF Pending, Ended, Waiting, WithWatcher, WithReceiver, Jobs
<1>5. QED
  BY <1>2, <1>3, <1>4

LEMMA InitOrder == Init => OrderInv
<1> SUFFICES ASSUME Init PROVE OrderInv
  OBVIOUS
<1>1. received = <<>> /\ \A m \in Requests : fate[m] = "new"
  BY DEF Init
<1>2. Pending = (<<>> \o Jobs(<<>>)) \o (<<>> \o <<>>)
  BY DEF Init, Pending, Ended, Waiting, WithWatcher, WithReceiver
<1>3. Jobs(<<>>) = <<>>
  BY DEF Jobs
<1>4. Pending = <<>>
  BY <1>2, <1>3, EmptySeq, ConcatEmptySeq
<1>5. QED
  BY <1>1, <1>4 DEF OrderInv, Ordered

LEMMA OrderStep == IInv /\ OrderInv /\ [Next]_vars => OrderInv'
<1> SUFFICES ASSUME IInv, OrderInv, [Next]_vars PROVE Ordered(received', fate', Pending')
  BY DEF OrderInv, Ordered, Precedes
<1> USE DEF IInv, BaseInv
<1>1. /\ received \in Seq(Requests) /\ fate \in [Requests -> Fates]
      /\ Pending \in Seq(Requests) /\ Ordered(received, fate, Pending)
  BY PendingTypes DEF TypeOK, HistoryTypes, OrderInv
<1>2. ASSUME NEW m \in Requests, OnRcvMessage(m)
      PROVE  Ordered(received', fate', Pending')
  <2>1. /\ fate[m] = "new" /\ received' = Append(received, m)
        /\ fate' = [fate EXCEPT ![m] = "received"]
        /\ Pending' = Append(Pending, m)
    BY <1>2, AcceptAppends DEF OnRcvMessage
  <2>2. QED
    BY <1>1, <2>1, AcceptKeepsOrder
<1>3. CASE RefuseStep
  <2>1. /\ rmsg \in Requests /\ received' = received
        /\ Pending = Ended \o (<<rmsg>> \o m_qRMSG)
        /\ Pending' = Ended \o m_qRMSG
        /\ Ended \in Seq(Requests) /\ m_qRMSG \in Seq(Requests)
    BY <1>3, RefuseTakesOut, PendingTypes
  <2>2. PICK s \in {"ignored", "rejected"} : fate' = [fate EXCEPT ![rmsg] = s]
    BY <1>3 DEF RefuseStep, RcvIgnore, DiscardTaskMsg
  <2>3. s \in Fates \ {"new", "received"}
    BY DEF Fates
  <2>4. QED
    BY <1>1, <2>1, <2>2, <2>3, SettleKeepsOrder
<1>4. CASE FinishStep
  <2>1. /\ wres.job \in Requests /\ received' = received
        /\ Pending = <<>> \o (<<wres.job>> \o (Jobs(m_future) \o Waiting))
        /\ Pending' = <<>> \o (Jobs(m_future) \o Waiting)
        /\ <<>> \in Seq(Requests) /\ Jobs(m_future) \o Waiting \in Seq(Requests)
    BY <1>4, FinishTakesFirst, PendingTypes, ConcatProperties
  <2>2. PICK s \in {"failed", "done"} : fate' = [fate EXCEPT ![wres.job] = s]
    BY <1>4 DEF FinishStep, MakeNoReply, MakeSendMsg
  <2>3. s \in Fates \ {"new", "received"}
    BY DEF Fates
  <2>4. QED
    BY <1>1, <2>1, <2>2, <2>3, SettleKeepsOrder
<1>5. CASE ~RefuseStep /\ ~FinishStep /\ ~ \E m \in Requests : OnRcvMessage(m)
  BY <1>1, <1>5, OthersKeepOrder
<1>6. QED
  BY <1>2, <1>3, <1>4, <1>5

(* The unsettled requests are in the pipeline in the order they came, each *)
(* at one place of it.                                                     *)
THEOREM InOrder == Spec => [](IInv /\ OrderInv)
<1>1. IInv /\ OrderInv /\ [Next]_vars => (IInv /\ OrderInv)'
  BY TypeStep, PoolStep, QueueStep, LabelStep, OutputStep, OrderStep DEF IInv, BaseInv
<1>2. QED
  BY InitIInv, InitOrder, <1>1, PTL DEF Spec

-----------------------------------------------------------------------------
(* TaskPipeline implements StabilizeService.                               *)

LEMMA InitImplements == Init => Service!Init
<1> SUFFICES ASSUME Init PROVE Service!Init
  OBVIOUS
<1>1. Jobs(<<>>) = <<>>
  BY DEF Jobs
<1>2. QED
  BY <1>1 DEF Init, Service!Init

(* What became of each request, as StabilizeService sees it.               *)
Status(f) ==
    [m \in Requests |-> IF f[m] \in {"ignored", "rejected"} THEN "refused" ELSE f[m]]

LEMMA StatusOfRefused ==
  ASSUME NEW f \in [Requests -> Fates], NEW m \in Requests, NEW s \in {"ignored", "rejected"}
  PROVE  Status([f EXCEPT ![m] = s]) = [Status(f) EXCEPT ![m] = "refused"]
<1>1. ASSUME NEW n \in Requests
      PROVE  Status([f EXCEPT ![m] = s])[n] = [Status(f) EXCEPT ![m] = "refused"][n]
  BY DEF Status
<1>2. QED
  BY <1>1 DEF Status

LEMMA StatusOfEnded ==
  ASSUME NEW f \in [Requests -> Fates], NEW m \in Requests,
         NEW s \in Fates \ {"ignored", "rejected"}
  PROVE  Status([f EXCEPT ![m] = s]) = [Status(f) EXCEPT ![m] = s]
<1>1. ASSUME NEW n \in Requests
      PROVE  Status([f EXCEPT ![m] = s])[n] = [Status(f) EXCEPT ![m] = s][n]
  BY DEF Status
<1>2. QED
  BY <1>1 DEF Status

LEMMA StepImplements == IInv /\ OrderInv /\ [Next]_vars => [Service!Next]_Service!vars
<1> SUFFICES ASSUME IInv, OrderInv, [Next]_vars
             PROVE  Service!Next \/ UNCHANGED Service!vars
  OBVIOUS
<1> USE DEF IInv, BaseInv
<1>1. /\ received \in Seq(Requests) /\ fate \in [Requests -> Fates]
      /\ Pending \in Seq(Requests) /\ Ordered(received, fate, Pending)
      /\ m_qSMSG \in Seq(Reply) /\ announced \in Seq(Reply)
      /\ \A x \in Reply : x.job \in Requests
  BY PendingTypes DEF TypeOK, HistoryTypes, QueueTypes, OrderInv, Reply
<1>2. ASSUME NEW m \in Requests, OnRcvMessage(m) PROVE Service!Next
  <2>1. /\ alive /\ fate[m] = "new" /\ fate' = [fate EXCEPT ![m] = "received"]
        /\ received' = Append(received, m)
        /\ UNCHANGED <<m_qSMSG, announced, alive>>
    BY <1>2 DEF OnRcvMessage
  <2>2. Service!Accept(m)
    BY <1>1, <2>1 DEF Service!Accept, Jobs
  <2>3. QED
    BY <2>1, <2>2 DEF Service!Next
<1>3. CASE RefuseStep
  <2>0. PICK m \in Requests : m = rmsg
    BY <1>3, RefuseTakesOut
  <2>1. /\ alive
        /\ UNCHANGED <<received, m_qSMSG, announced, alive>>
    BY <1>3, RefuseTakesOut DEF RefuseStep, RcvIgnore, DiscardTaskMsg, queues
  <2>2. PICK s \in {"ignored", "rejected"} : fate' = [fate EXCEPT ![m] = s]
    BY <1>3, <2>0 DEF RefuseStep, RcvIgnore, DiscardTaskMsg
  <2>3. fate[m] = "received"
    <3>1. /\ Pending = Ended \o (<<m>> \o m_qRMSG)
          /\ Ended \in Seq(Requests) /\ m_qRMSG \in Seq(Requests)
          /\ "failed" \in Fates \ {"new", "received"}
      BY <1>3, <2>0, RefuseTakesOut, PendingTypes DEF Fates
    <3>2. QED
      BY <1>1, <2>1, <3>1, SettleKeepsOrder
  <2>6. Status(fate') = [Status(fate) EXCEPT ![m] = "refused"]
    <3>1. Status([fate EXCEPT ![m] = s]) = [Status(fate) EXCEPT ![m] = "refused"]
      BY <1>1, <2>1, StatusOfRefused
    <3>2. QED
      BY <2>2, <3>1
  <2>4. Service!Refuse(m)
    <3>1. Status(fate)[m] = "received"
      BY <2>1, <2>3 DEF Status
    <3>2. Jobs(m_qSMSG)' = Jobs(m_qSMSG) /\ Jobs(announced)' = Jobs(announced)
      BY <2>1 DEF Jobs
    <3>3. QED
      BY <2>1, <2>6, <3>1, <3>2 DEF Service!Refuse, Status
  <2>5. QED
    BY <2>1, <2>4 DEF Service!Next
<1>4. CASE FinishStep
  <2>0. PICK m \in Requests : m = wres.job
    BY <1>4, FinishTakesFirst
  <2>1. /\ alive /\ UNCHANGED <<received, announced, alive>>
    BY <1>4, FinishTakesFirst DEF FinishStep, MakeNoReply, MakeSendMsg
  <2>2. Pending # <<>> /\ Pending[1] = m
    <3>1. /\ Pending = <<m>> \o (Jobs(m_future) \o Waiting)
          /\ Jobs(m_future) \o Waiting \in Seq(Requests)
      <4>1. /\ Pending = <<>> \o (<<m>> \o (Jobs(m_future) \o Waiting))
            /\ Jobs(m_future) \o Waiting \in Seq(Requests) /\ <<m>> \in Seq(Requests)
        BY <1>4, <2>0, FinishTakesFirst, PendingTypes, ConcatProperties
      <4>2. <<m>> \o (Jobs(m_future) \o Waiting) \in Seq(Requests)
        BY <4>1, ConcatProperties
      <4>3. QED
        BY <4>1, <4>2, ConcatEmptySeq
    <3>2. Len(<<m>>) = 1 /\ <<m>>[1] = m /\ <<m>> \in Seq(Requests)
      BY <2>1
    <3>3. Len(Pending) > 0 /\ Pending[1] = m
      BY <3>1, <3>2, ConcatProperties, LenProperties
    <3>4. QED
      BY <3>3, EmptySeq
  <2>3. fate[m] = "received" /\ ComesFirst(received, fate, m)
    <3>1. fate[Pending[1]] = "received" /\ ComesFirst(received, fate, Pending[1])
      BY <1>1, <2>2, FirstPending
    <3>2. QED
      BY <2>2, <3>1
  <2>4. Service!FirstUnsettled(m)
    <3>1. PICK i \in 1..Len(received) :
              /\ received[i] = m
              /\ \A j \in 1..(i - 1) : fate[received[j]] # "received"
      BY <2>3 DEF ComesFirst
    <3>2. \A j \in 1..(i - 1) : received[j] \in Requests
      BY <1>1, LenProperties
    <3>3. QED
      BY <3>1, <3>2 DEF Service!FirstUnsettled
  <2>5. CASE MakeNoReply
    <3>1. fate' = [fate EXCEPT ![m] = "failed"] /\ m_qSMSG' = m_qSMSG
      BY <2>0, <2>5 DEF MakeNoReply
    <3>4. Status(fate') = [Status(fate) EXCEPT ![m] = "failed"]
      <4>1. Status([fate EXCEPT ![m] = "failed"]) = [Status(fate) EXCEPT ![m] = "failed"]
        BY <1>1, <2>1, StatusOfEnded DEF Fates
      <4>2. QED
        BY <3>1, <4>1
    <3>5. Jobs(m_qSMSG)' = Jobs(m_qSMSG) /\ Jobs(announced)' = Jobs(announced)
      BY <2>1, <3>1 DEF Jobs
    <3>6. Status(fate)[m] = "received"
      BY <2>1, <2>3 DEF Status
    <3>2. Service!Finish(m)
      BY <2>1, <2>4, <3>4, <3>5, <3>6 DEF Service!Finish, Status
    <3>3. QED
      BY <2>1, <3>2 DEF Service!Next
  <2>6. CASE MakeSendMsg
    <3> DEFINE reply == [job |-> m, label |-> wmsg, token |-> NextSerial]
    <3>1. /\ fate' = [fate EXCEPT ![m] = "done"]
          /\ m_qSMSG' = Append(m_qSMSG, reply) /\ reply.job = m
      BY <2>0, <2>6 DEF MakeSendMsg
    <3>2. reply \in Reply
      BY <2>1, <2>6, PipelineAssumption DEF MakeSendMsg, NextSerial, Reply,
         TypeOK, WatTypes, CounterTypes
    <3> HIDE DEF reply
    <3>3. Jobs(m_qSMSG') = Append(Jobs(m_qSMSG), m)
      BY <1>1, <3>1, <3>2, JobsAppend
    <3>4. Jobs(m_qSMSG)' = Append(Jobs(m_qSMSG), m) /\ Jobs(announced)' = Jobs(announced)
      BY <2>1, <3>3 DEF Jobs
    <3>7. Status(fate') = [Status(fate) EXCEPT ![m] = "done"]
      <4>1. Status([fate EXCEPT ![m] = "done"]) = [Status(fate) EXCEPT ![m] = "done"]
        BY <1>1, <2>1, StatusOfEnded DEF Fates
      <4>2. QED
        BY <3>1, <4>1
    <3>8. Status(fate)[m] = "received"
      BY <2>1, <2>3 DEF Status
    <3>5. Service!Finish(m)
      BY <2>1, <2>4, <3>4, <3>7, <3>8 DEF Service!Finish, Status
    <3>6. QED
      BY <2>1, <3>5 DEF Service!Next
  <2>7. QED
    BY <1>4, <2>5, <2>6 DEF FinishStep
<1>5. CASE SndMSGThread
  <2>1. /\ alive /\ m_qSMSG # <<>> /\ m_qSMSG' = Tail(m_qSMSG)
        /\ announced' = Append(announced, Head(m_qSMSG))
        /\ UNCHANGED <<received, fate, alive>>
    BY <1>5 DEF SndMSGThread
  <2>2. Head(m_qSMSG) \in Reply
    BY <1>1, <2>1, HeadTailProperties
  <2>3. /\ Jobs(m_qSMSG) # <<>> /\ Jobs(m_qSMSG') = Tail(Jobs(m_qSMSG))
        /\ Head(Jobs(m_qSMSG)) = Head(m_qSMSG).job
    BY <1>1, <2>1, JobsTail
  <2>4. Jobs(announced') = Append(Jobs(announced), Head(m_qSMSG).job)
    BY <1>1, <2>1, <2>2, JobsAppend
  <2>5. Jobs(m_qSMSG)' = Jobs(m_qSMSG') /\ Jobs(announced)' = Jobs(announced')
    BY DEF Jobs
  <2>6. Service!HandOver
    BY <2>1, <2>3, <2>4, <2>5 DEF Service!HandOver
  <2>7. QED
    BY <2>1, <2>6 DEF Service!Next
<1>6. CASE ParseThrows \/ ImportThrows \/ FutureRethrows \/ MakeThrows
  <2>1. alive /\ ~alive' /\ UNCHANGED <<received, fate, m_qSMSG, announced>>
    BY <1>6 DEF ParseThrows, ImportThrows, FutureRethrows, MakeThrows, Terminate,
       queues, history
  <2>2. alive' = FALSE
    BY <1>6 DEF ParseThrows, ImportThrows, FutureRethrows, MakeThrows, Terminate
  <2>3. Service!Fail
    BY <2>1, <2>2 DEF Service!Fail, Jobs
  <2>4. QED
    BY <2>1, <2>3 DEF Service!Next
<1>7. CASE /\ ~RefuseStep /\ ~FinishStep /\ ~SndMSGThread
           /\ ~(ParseThrows \/ ImportThrows \/ FutureRethrows \/ MakeThrows)
           /\ ~ \E m \in Requests : OnRcvMessage(m)
  <2>1. UNCHANGED <<received, fate, m_qSMSG, announced, alive>>
    BY <1>7 DEF Next, RcvMSGThread, WatchFuture, RefuseStep, FinishStep, RcvDequeue,
       OnRcvTask, CommandTaskLoad, CommandTaskStore, ImportVideoInfo, EnqueueJob, FutureGet,
       PublishResult, WorkerThread, TakeJob, RunStabilize, WatchTakeMsg, WatchTakeResult,
       WatchLoad, WatchStore, PollEmpty, vars, queues, pool, rcvVars, watVars, history
  <2>2. UNCHANGED Service!vars
    BY <2>1 DEF Service!vars, Jobs
  <2>3. QED
    BY <2>2
<1>8. QED
  BY <1>2, <1>3, <1>4, <1>5, <1>6, <1>7

(* The threads and queues together keep the promise of StabilizeService:   *)
(* jobs end in the order the requests came, each at most once, and exactly *)
(* the completed ones reach SendData, in that order.                       *)
THEOREM PipelineImplementsService == Spec => ImplementsService
  BY InOrder, InitImplements, StepImplements, PTL DEF Spec, Service!Spec, ImplementsService

===============================================================================
