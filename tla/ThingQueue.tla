------------------------------ MODULE ThingQueue ------------------------------
(* ThingQueue (common/ThingQueue.h): a queue, its mutex and its condition    *)
(* variable.  Threads call its operations; every step at which another       *)
(* thread can come in between is a step here.                                *)
EXTENDS Naturals, Sequences, FiniteSets

CONSTANTS Threads,
          Scripts,    \* which operations each thread calls, in order
          MaxCalls    \* the bound on their number

Free == "free"
Operations == {"Enqueue", "Dequeue", "IsQueue", "Clear", "Destory"}

ASSUME ThingQueueAssumption ==
    /\ Scripts \subseteq [Threads -> Seq(Operations)] /\ MaxCalls \in Nat
    /\ Free \notin Threads /\ IsFiniteSet(Threads)
    /\ \A s \in Scripts : \A t \in Threads : Len(s[t]) =< MaxCalls

VARIABLES
    script,
    at,           \* the operation each thread is at
    pc,
    mQueue,
    mMutex,       \* the thread that holds it
    mIsLoop,
    taken         \* what each thread's Dequeue returned

vars == <<script, at, pc, mQueue, mMutex, mIsLoop, taken>>

Calls(t, op) == at[t] =< Len(script[t]) /\ script[t][at[t]] = op

Init ==
    /\ script \in Scripts
    /\ at = [t \in Threads |-> 1]
    /\ pc = [t \in Threads |-> "ready"]
    /\ mQueue = <<>> /\ mMutex = Free /\ mIsLoop = TRUE
    /\ taken = [t \in Threads |-> <<>>]

\* lock_guard and unique_lock take the mutex where they are constructed ...
Lock(t) ==
    /\ pc[t] = "ready" /\ at[t] =< Len(script[t]) /\ ~Calls(t, "Destory")
    /\ mMutex = Free
    /\ mMutex' = t
    /\ pc' = [pc EXCEPT ![t] = "locked"]
    /\ UNCHANGED <<script, at, mQueue, mIsLoop, taken>>

\* ... and release it at the end of the operation.
Unlock(t) ==
    /\ pc[t] = "done"
    /\ mMutex' = Free
    /\ pc' = [pc EXCEPT ![t] = "ready"] /\ at' = [at EXCEPT ![t] = @ + 1]
    /\ UNCHANGED <<script, mQueue, mIsLoop, taken>>

\* mCondition.notify_one(), then thread t is at next.
Waiters == {t \in Threads : pc[t] = "waiting"}
NotifyOne(t, next) ==
    IF Waiters = {} THEN pc' = [pc EXCEPT ![t] = next]
                    ELSE \E w \in Waiters : pc' = [pc EXCEPT ![t] = next, ![w] = "woken"]

\* mutant: only a thing put into an empty queue is announced
EnqueueFirst(t) ==
    /\ pc[t] = "locked" /\ Calls(t, "Enqueue")
    /\ mQueue' = Append(mQueue, <<t, at[t]>>)
    /\ IF mQueue = <<>> THEN NotifyOne(t, "done") ELSE pc' = [pc EXCEPT ![t] = "done"]
    /\ UNCHANGED <<script, at, mMutex, mIsLoop, taken>>

Enqueue(t) ==
    /\ pc[t] = "locked" /\ Calls(t, "Enqueue")
    /\ mQueue' = Append(mQueue, <<t, at[t]>>)
    /\ NotifyOne(t, "done")
    /\ UNCHANGED <<script, at, mMutex, mIsLoop, taken>>

IsQueue(t) ==
    /\ pc[t] = "locked" /\ Calls(t, "IsQueue")
    /\ NotifyOne(t, "done")
    /\ UNCHANGED <<script, at, mQueue, mMutex, mIsLoop, taken>>

Clear(t) ==
    /\ pc[t] = "locked" /\ Calls(t, "Clear")
    /\ mQueue' = <<>>
    /\ pc' = [pc EXCEPT ![t] = "done"]
    /\ UNCHANGED <<script, at, mMutex, mIsLoop, taken>>

\* Dequeue tests, and sleeps until it is notified while there is nothing.
Test(t) ==
    /\ pc[t] = "locked" /\ Calls(t, "Dequeue")
    /\ pc' = [pc EXCEPT ![t] = IF mIsLoop /\ mQueue = <<>> THEN "sleepy" ELSE "front"]
    /\ UNCHANGED <<script, at, mQueue, mMutex, mIsLoop, taken>>

\* mutant: the waiting thread keeps the mutex
WaitHolding(t) ==
    /\ pc[t] = "sleepy"
    /\ pc' = [pc EXCEPT ![t] = "waiting"]
    /\ UNCHANGED <<script, at, mQueue, mMutex, mIsLoop, taken>>

\* wait releases the mutex and sleeps in one step ...
Wait(t) ==
    /\ pc[t] = "sleepy"
    /\ pc' = [pc EXCEPT ![t] = "waiting"]
    /\ mMutex' = Free
    /\ UNCHANGED <<script, at, mQueue, mIsLoop, taken>>

\* ... may wake for no reason ...
Spurious(t) ==
    /\ pc[t] = "waiting"
    /\ pc' = [pc EXCEPT ![t] = "woken"]
    /\ UNCHANGED <<script, at, mQueue, mMutex, mIsLoop, taken>>

\* ... and has the mutex again before the test is repeated.
Relock(t) ==
    /\ pc[t] = "woken" /\ mMutex = Free
    /\ mMutex' = t
    /\ pc' = [pc EXCEPT ![t] = "locked"]
    /\ UNCHANGED <<script, at, mQueue, mIsLoop, taken>>

\* mutant: what is taken is the front after pop
FrontAfterPop(t) ==
    /\ pc[t] = "front" /\ mQueue # <<>>
    /\ taken' = [taken EXCEPT ![t] = Append(@, Head(IF Len(mQueue) > 1 THEN Tail(mQueue) ELSE mQueue))]
    /\ mQueue' = Tail(mQueue)
    /\ pc' = [pc EXCEPT ![t] = "done"]
    /\ UNCHANGED <<script, at, mMutex, mIsLoop>>

Front(t) ==
    /\ pc[t] = "front" /\ mQueue # <<>>
    /\ taken' = [taken EXCEPT ![t] = Append(@, Head(mQueue))]
    /\ mQueue' = Tail(mQueue)
    /\ pc' = [pc EXCEPT ![t] = "done"]
    /\ UNCHANGED <<script, at, mMutex, mIsLoop>>

\* front() of an empty std::queue is undefined.
FrontOfNothing(t) ==
    /\ pc[t] = "front" /\ mQueue = <<>>
    /\ pc' = [pc EXCEPT ![t] = "undefined"]
    /\ UNCHANGED <<script, at, mQueue, mMutex, mIsLoop, taken>>

\* Destory takes no lock: the end of the loop, then one notification.
Destory(t) ==
    /\ pc[t] = "ready" /\ Calls(t, "Destory")
    /\ mIsLoop' = FALSE
    /\ pc' = [pc EXCEPT ![t] = "notify"]
    /\ UNCHANGED <<script, at, mQueue, mMutex, taken>>
DestoryNotify(t) ==
    /\ pc[t] = "notify"
    /\ NotifyOne(t, "ready")
    /\ at' = [at EXCEPT ![t] = @ + 1]
    /\ UNCHANGED <<script, mQueue, mMutex, mIsLoop, taken>>

Defined == \A t \in Threads : pc[t] # "undefined"

Step(t) == \/ Lock(t) \/ Unlock(t) \/ Enqueue(t) \/ IsQueue(t) \/ Clear(t)
           \/ Test(t) \/ Wait(t) \/ Relock(t) \/ Front(t) \/ FrontOfNothing(t)
           \/ Destory(t) \/ DestoryNotify(t)

Next == Defined /\ \E t \in Threads : Step(t) \/ Spurious(t)

Spec == Init /\ [][Next]_vars

\* Every thread runs on while it can.  A mutex is not fair: a thread gets it
\* for certain only if it stays free.  Nothing makes a thread wake without
\* reason.
FairSpec == Spec /\ \A t \in Threads : WF_vars(Defined /\ Step(t))

-----------------------------------------------------------------------------
\* Properties.

Things == Threads \X (1..MaxCalls)

\* Every variable keeps its type, and exactly the threads inside an operation
\* hold the mutex.
TypeOK ==
    /\ script \in Scripts /\ at \in [Threads -> 1..MaxCalls + 1]
    /\ pc \in [Threads -> {"ready", "locked", "done", "front", "sleepy", "waiting", "woken",
                           "notify", "undefined"}]
    /\ mQueue \in Seq(Things) /\ mMutex \in Threads \cup {Free} /\ mIsLoop \in BOOLEAN
    /\ taken \in [Threads -> Seq(Things)]
    /\ \A t \in Threads : pc[t] \in {"locked", "done", "front", "sleepy", "undefined"} <=> mMutex = t

\* Nobody sleeps over a thing: while a thread waits, there are as many
\* threads on their way to the front as there are things in the queue.
OnTheWay == {t \in Threads : pc[t] \in {"woken", "locked", "front"} /\ Calls(t, "Dequeue")}
NobodySleepsOverThings == Waiters = {} \/ Len(mQueue) =< Cardinality(OnTheWay)

\* However threads are woken, front() of an empty queue is not taken before
\* Destory has been called.
FrontIsFilled == Defined \/ ~mIsLoop

\* The queue behaves as FifoQueue: no thing is lost but to a thread inside
\* Clear, or taken twice, and front() fails only once Destory was called.
Emptying == {t \in Threads : pc[t] = "locked" /\ Calls(t, "Clear")}
Fifo == INSTANCE FifoQueue WITH
    contents <- mQueue, emptying <- Emptying, open <- mIsLoop, failed <- ~Defined
ImplementsFifo == Fifo!Spec

\* Where as many things are put in as are asked for, nothing is thrown away
\* and Destory is not called, every operation returns, unless threads wake
\* without reason for ever and keep the others from the mutex.
AllCalls == {c \in Threads \X (1..MaxCalls) : c[2] =< Len(script[c[1]])}
Count(op) == Cardinality({c \in AllCalls : script[c[1]][c[2]] = op})
Balanced == Count("Enqueue") >= Count("Dequeue") /\ Count("Clear") + Count("Destory") = 0
AllReturn ==
    Balanced /\ <>[][\A t \in Threads : ~Spurious(t)]_vars =>
        <>(\A t \in Threads : at[t] > Len(script[t]))

=============================================================================
