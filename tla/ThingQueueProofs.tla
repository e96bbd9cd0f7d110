--------------------------- MODULE ThingQueueProofs ---------------------------
(* For any threads calling any operations in any order: the mutex protects   *)
(* the queue, which behaves as a FIFO queue, and front() is safe until       *)
(* Destory is called.                                                        *)
EXTENDS ThingQueue, SequenceTheorems, FiniteSetTheorems, TLAPS

Places == {"ready", "locked", "done", "front", "sleepy", "waiting", "woken", "notify", "undefined"}
Inside == {"locked", "done", "front", "sleepy", "undefined"}

\* A step moves the thread that takes it, and may wake a waiting one.
Moves(t, next) ==
    /\ pc' \in [Threads -> Places] /\ pc'[t] = next
    /\ \A u \in Threads \ {t} : pc'[u] = pc[u] \/ (pc[u] = "waiting" /\ pc'[u] = "woken")

ScriptOK == script \in Scripts /\ at \in [Threads -> 1..MaxCalls + 1]
PlaceOK == pc \in [Threads -> Places]
QueueOK == mQueue \in Seq(Things) /\ taken \in [Threads -> Seq(Things)]
MutexOK == mMutex \in Threads \cup {Free} /\ mIsLoop \in BOOLEAN
Holder == \A t \in Threads : pc[t] \in Inside <=> mMutex = t

LEMMA TypeParts == TypeOK <=> ScriptOK /\ PlaceOK /\ QueueOK /\ MutexOK /\ Holder
  BY DEF TypeOK, ScriptOK, PlaceOK, QueueOK, MutexOK, Holder, Places, Inside

\* A thread inside an operation has one to be in.
InCall == \A t \in Threads : pc[t] # "ready" => at[t] =< Len(script[t])

\* A thread at the front has something there, or Destory was called.
FrontKnown ==
    \A t \in Threads : /\ pc[t] = "front" => mQueue # <<>> \/ ~mIsLoop
                       /\ pc[t] = "undefined" => ~mIsLoop

IInv == TypeOK /\ InCall /\ FrontKnown

LEMMA ScriptLength ==
    ASSUME ScriptOK, NEW t \in Threads
    PROVE  /\ script[t] \in Seq(Operations) /\ Len(script[t]) \in 0..MaxCalls
           /\ at[t] \in 1..MaxCalls + 1 /\ MaxCalls \in Nat
  <1>1. script[t] \in Seq(Operations)
    BY ThingQueueAssumption DEF ScriptOK
  <1>2. Len(script[t]) \in Nat
    BY <1>1, LenProperties
  <1>3. QED BY <1>1, <1>2, ThingQueueAssumption DEF ScriptOK

LEMMA MovesSelf ==
    ASSUME PlaceOK, NEW t \in Threads, NEW next \in Places, pc' = [pc EXCEPT ![t] = next]
    PROVE  Moves(t, next)
  BY DEF PlaceOK, Moves

LEMMA MovesNotify ==
    ASSUME PlaceOK, NEW t \in Threads, NEW next \in Places, pc[t] # "waiting", NotifyOne(t, next)
    PROVE  Moves(t, next)
  <1>1. CASE Waiters = {}
    BY <1>1, MovesSelf DEF NotifyOne
  <1>2. CASE Waiters # {}
    <2>1. PICK w \in Waiters : pc' = [pc EXCEPT ![t] = next, ![w] = "woken"]
      BY <1>2 DEF NotifyOne
    <2>2. w \in Threads /\ w # t /\ pc[w] = "waiting" /\ "woken" \in Places
      BY DEF Waiters, Places
    <2>3. QED BY <2>1, <2>2 DEF Moves, PlaceOK
  <1>3. QED BY <1>1, <1>2

-----------------------------------------------------------------------------
LEMMA InitInv == Init => IInv
  <1> SUFFICES ASSUME Init PROVE IInv
    OBVIOUS
  <1>1. MaxCalls \in Nat /\ Free \notin Threads
    BY ThingQueueAssumption
  <1>2. ScriptOK
    BY <1>1 DEF Init, ScriptOK
  <1>3. PlaceOK /\ MutexOK /\ InCall /\ FrontKnown
    BY DEF Init, PlaceOK, MutexOK, InCall, FrontKnown, Places
  <1>4. QueueOK
    BY EmptySeq DEF Init, QueueOK
  <1>5. Holder
    BY <1>1 DEF Init, Holder, Inside
  <1>6. QED BY <1>2, <1>3, <1>4, <1>5, TypeParts DEF IInv

\* What a step must do to keep each part.
LEMMA HolderKept ==
    ASSUME Holder, NEW t \in Threads, NEW next \in Places, Moves(t, next),
           \/ mMutex = Free /\ mMutex' = t /\ next \in Inside
           \/ mMutex = t /\ mMutex' = Free /\ next \notin Inside
           \/ mMutex' = mMutex /\ (next \in Inside <=> mMutex = t)
    PROVE  Holder'
  <1>1. Free \notin Threads
    BY ThingQueueAssumption
  <1>2. \A u \in Threads \ {t} : pc'[u] \in Inside <=> pc[u] \in Inside
    BY DEF Moves, Inside
  <1>3. QED BY <1>1, <1>2 DEF Holder, Moves

LEMMA InCallKept ==
    ASSUME InCall, NEW t \in Threads, NEW next \in Places, Moves(t, next), UNCHANGED script,
           \/ UNCHANGED at /\ at[t] =< Len(script[t])
           \/ next = "ready" /\ \A u \in Threads \ {t} : at'[u] = at[u]
    PROVE  InCall'
  BY DEF InCall, Moves

LEMMA FrontKept ==
    ASSUME Holder, FrontKnown, NEW t \in Threads, NEW next \in Places, Moves(t, next),
           mIsLoop' => mIsLoop,
           mQueue' = mQueue \/ mMutex = t,
           next = "front" => mQueue' # <<>> \/ ~mIsLoop',
           next = "undefined" => ~mIsLoop'
    PROVE  FrontKnown'
  <1>1. \A u \in Threads \ {t} : pc'[u] \in {"front", "undefined"} => pc[u] = pc'[u]
    BY DEF Moves
  <1>2. mMutex = t => \A u \in Threads \ {t} : pc[u] # "front"
    BY DEF Holder, Inside
  <1>3. QED BY <1>1, <1>2 DEF FrontKnown, Moves

\* A step of a thread: where it goes, and that the parts are kept.
StepKeeps(t, next) == next \in Places /\ Moves(t, next) /\ Holder' /\ InCall' /\ FrontKnown'

LEMMA StepTypes ==
    ASSUME NEW t \in Threads, NEW next, StepKeeps(t, next), ScriptOK', QueueOK', MutexOK'
    PROVE  IInv'
  <1>1. PlaceOK'
    BY DEF StepKeeps, Moves, PlaceOK
  <1>2. TypeOK'
    <2>1. (ScriptOK /\ PlaceOK /\ QueueOK /\ MutexOK /\ Holder)' => TypeOK'
      BY DEF TypeOK, ScriptOK, PlaceOK, QueueOK, MutexOK, Holder, Places, Inside
    <2>2. QED BY <1>1, <2>1 DEF StepKeeps
  <1>3. QED BY <1>2 DEF StepKeeps, IInv

\* Steps that leave the queue, or the scripts, alone.
LEMMA Frame ==
    /\ ScriptOK /\ UNCHANGED <<script, at>> => ScriptOK'
    /\ QueueOK /\ UNCHANGED <<mQueue, taken>> => QueueOK'
    /\ MutexOK /\ UNCHANGED <<mMutex, mIsLoop>> => MutexOK'
  BY DEF ScriptOK, QueueOK, MutexOK

\* The end of a call: the thread is at its next operation.
LEMMA NextCall ==
    ASSUME ScriptOK, InCall, NEW t \in Threads, pc[t] # "ready",
           UNCHANGED script, at' = [at EXCEPT ![t] = @ + 1]
    PROVE  ScriptOK' /\ \A u \in Threads \ {t} : at'[u] = at[u]
  <1>1. at[t] =< Len(script[t])
    BY DEF InCall
  <1>2. at[t] + 1 \in 1..MaxCalls + 1
    BY <1>1, ScriptLength
  <1>3. QED BY <1>2 DEF ScriptOK

\* A thread that stays in its call.
LEMMA StaysInCall ==
    ASSUME IInv, NEW t \in Threads, NEW next \in Places, Moves(t, next), UNCHANGED <<script, at>>,
           at[t] =< Len(script[t]),
           \/ mMutex = Free /\ mMutex' = t /\ next \in Inside
           \/ mMutex = t /\ mMutex' = Free /\ next \notin Inside
           \/ mMutex' = mMutex /\ (next \in Inside <=> mMutex = t),
           mIsLoop' => mIsLoop,
           mQueue' = mQueue \/ mMutex = t,
           next = "front" => mQueue' # <<>> \/ ~mIsLoop',
           next = "undefined" => ~mIsLoop',
           QueueOK', MutexOK'
    PROVE  IInv'
  <1>1. ScriptOK /\ Holder /\ InCall /\ FrontKnown
    BY TypeParts DEF IInv
  <1>2. Holder'
    BY <1>1, HolderKept
  <1>3. InCall'
    BY <1>1, InCallKept
  <1>4. FrontKnown'
    BY <1>1, FrontKept
  <1>5. ScriptOK'
    BY <1>1, Frame
  <1>6. QED BY <1>2, <1>3, <1>4, <1>5, StepTypes DEF StepKeeps

\* A thread inside an operation holds the mutex.
LEMMA Owner ==
    ASSUME IInv, NEW t \in Threads
    PROVE  /\ ScriptOK /\ PlaceOK /\ QueueOK /\ MutexOK /\ InCall /\ FrontKnown
           /\ pc[t] \in Inside => mMutex = t
           /\ mMutex = t => pc[t] \in Inside
           /\ pc[t] # "ready" => at[t] =< Len(script[t])
           /\ t # Free
  <1>1. ScriptOK /\ PlaceOK /\ QueueOK /\ MutexOK /\ Holder /\ InCall /\ FrontKnown
    BY TypeParts DEF IInv
  <1>2. QED BY <1>1, ThingQueueAssumption DEF Holder, InCall

LEMMA LockInv ==
    ASSUME IInv, NEW t \in Threads, Lock(t)
    PROVE  IInv'
  <1>1. "locked" \in Places /\ "locked" \in Inside
    BY DEF Places, Inside
  <1>2. Moves(t, "locked")
    BY <1>1, Owner, MovesSelf DEF Lock
  <1>3. QueueOK' /\ MutexOK'
    BY Owner, Frame DEF Lock, MutexOK
  <1>4. QED BY <1>1, <1>2, <1>3, StaysInCall DEF Lock

LEMMA UnlockInv ==
    ASSUME IInv, NEW t \in Threads, Unlock(t)
    PROVE  IInv'
  <1>1. ScriptOK /\ PlaceOK /\ QueueOK /\ MutexOK /\ Holder /\ InCall /\ FrontKnown
    BY TypeParts DEF IInv
  <1>2. "ready" \in Places /\ "ready" \notin Inside
    BY DEF Places, Inside
  <1>3. Moves(t, "ready")
    BY <1>1, <1>2, MovesSelf DEF Unlock
  <1>4. Holder'
    <2>1. mMutex = t
      BY <1>1 DEF Holder, Inside, Unlock
    <2>2. QED BY <1>1, <1>2, <1>3, <2>1, HolderKept DEF Unlock
  <1>5. ScriptOK' /\ \A u \in Threads \ {t} : at'[u] = at[u]
    BY <1>1, NextCall DEF Unlock
  <1>6. InCall'
    BY <1>1, <1>2, <1>3, <1>5, InCallKept DEF Unlock
  <1>7. FrontKnown'
    BY <1>1, <1>2, <1>3, FrontKept DEF Unlock
  <1>8. QueueOK' /\ MutexOK'
    BY <1>1, Frame DEF Unlock, MutexOK
  <1>9. QED BY <1>2, <1>3, <1>4, <1>5, <1>6, <1>7, <1>8, StepTypes DEF StepKeeps

LEMMA EnqueueInv ==
    ASSUME IInv, NEW t \in Threads, Enqueue(t)
    PROVE  IInv'
  <1>1. "done" \in Places /\ "done" \in Inside /\ "locked" \in Inside
    BY DEF Places, Inside
  <1>2. Moves(t, "done") /\ mMutex = t
    BY <1>1, Owner, MovesNotify DEF Enqueue
  <1>3. <<t, at[t]>> \in Things
    <2>1. at[t] =< Len(script[t])
      BY Owner DEF Enqueue
    <2>2. at[t] \in 1..MaxCalls
      BY <2>1, Owner, ScriptLength
    <2>3. QED BY <2>2 DEF Things
  <1>4. QueueOK' /\ MutexOK'
    <2>1. mQueue' \in Seq(Things)
      BY <1>3, Owner, AppendProperties DEF Enqueue, QueueOK
    <2>2. QED BY <2>1, Owner, Frame DEF Enqueue, QueueOK
  <1>5. QED BY <1>1, <1>2, <1>4, Owner, StaysInCall DEF Enqueue

LEMMA IsQueueInv ==
    ASSUME IInv, NEW t \in Threads, IsQueue(t)
    PROVE  IInv'
  <1>1. "done" \in Places /\ "done" \in Inside /\ "locked" \in Inside
    BY DEF Places, Inside
  <1>2. Moves(t, "done") /\ mMutex = t
    BY <1>1, Owner, MovesNotify DEF IsQueue
  <1>3. QueueOK' /\ MutexOK'
    BY Owner, Frame DEF IsQueue
  <1>4. QED BY <1>1, <1>2, <1>3, Owner, StaysInCall DEF IsQueue

LEMMA ClearInv ==
    ASSUME IInv, NEW t \in Threads, Clear(t)
    PROVE  IInv'
  <1>1. "done" \in Places /\ "done" \in Inside /\ "locked" \in Inside
    BY DEF Places, Inside
  <1>2. Moves(t, "done") /\ mMutex = t
    BY <1>1, Owner, MovesSelf DEF Clear
  <1>3. QueueOK' /\ MutexOK'
    BY Owner, Frame, EmptySeq DEF Clear, QueueOK
  <1>4. QED BY <1>1, <1>2, <1>3, Owner, StaysInCall DEF Clear

LEMMA TestInv ==
    ASSUME IInv, NEW t \in Threads, Test(t)
    PROVE  IInv'
  <1> DEFINE next == IF mIsLoop /\ mQueue = <<>> THEN "sleepy" ELSE "front"
  <1>1. /\ next \in Places /\ next \in Inside /\ "locked" \in Inside
        /\ next # "undefined"
    BY DEF Places, Inside
  <1>2. Moves(t, next) /\ mMutex = t
    BY <1>1, Owner, MovesSelf DEF Test
  <1>3. QueueOK' /\ MutexOK'
    BY Owner, Frame DEF Test
  <1>4. next = "front" => mQueue' # <<>> \/ ~mIsLoop'
    BY DEF Test
  <1> HIDE DEF next
  <1>5. at[t] =< Len(script[t])
    BY Owner DEF Test
  <1>6. QED BY <1>1, <1>2, <1>3, <1>4, <1>5, StaysInCall DEF Test

LEMMA WaitInv ==
    ASSUME IInv, NEW t \in Threads, Wait(t)
    PROVE  IInv'
  <1>1. "waiting" \in Places /\ "waiting" \notin Inside /\ "sleepy" \in Inside
    BY DEF Places, Inside
  <1>2. Moves(t, "waiting") /\ mMutex = t
    BY <1>1, Owner, MovesSelf DEF Wait
  <1>3. QueueOK' /\ MutexOK'
    BY Owner, Frame DEF Wait, MutexOK
  <1>4. QED BY <1>1, <1>2, <1>3, Owner, StaysInCall DEF Wait

LEMMA SpuriousInv ==
    ASSUME IInv, NEW t \in Threads, Spurious(t)
    PROVE  IInv'
  <1>1. "woken" \in Places /\ "woken" \notin Inside /\ "waiting" \notin Inside
    BY DEF Places, Inside
  <1>2. Moves(t, "woken") /\ mMutex # t
    BY <1>1, Owner, MovesSelf DEF Spurious
  <1>3. QueueOK' /\ MutexOK'
    BY Owner, Frame DEF Spurious
  <1>4. QED BY <1>1, <1>2, <1>3, Owner, StaysInCall DEF Spurious

LEMMA RelockInv ==
    ASSUME IInv, NEW t \in Threads, Relock(t)
    PROVE  IInv'
  <1>1. "locked" \in Places /\ "locked" \in Inside
    BY DEF Places, Inside
  <1>2. Moves(t, "locked")
    BY <1>1, Owner, MovesSelf DEF Relock
  <1>3. QueueOK' /\ MutexOK'
    BY Owner, Frame DEF Relock, MutexOK
  <1>4. QED BY <1>1, <1>2, <1>3, Owner, StaysInCall DEF Relock

LEMMA FrontInv ==
    ASSUME IInv, NEW t \in Threads, Front(t)
    PROVE  IInv'
  <1>1. "done" \in Places /\ "done" \in Inside /\ "front" \in Inside
    BY DEF Places, Inside
  <1>2. Moves(t, "done") /\ mMutex = t
    BY <1>1, Owner, MovesSelf DEF Front
  <1>3. QueueOK'
    <2>1. Head(mQueue) \in Things /\ Tail(mQueue) \in Seq(Things)
      BY Owner, HeadTailProperties DEF Front, QueueOK
    <2>2. taken[t] \in Seq(Things)
      BY Owner DEF QueueOK
    <2>3. Append(taken[t], Head(mQueue)) \in Seq(Things)
      BY <2>1, <2>2, AppendProperties
    <2>4. QED BY <2>1, <2>3, Owner DEF Front, QueueOK
  <1>4. MutexOK'
    BY Owner, Frame DEF Front
  <1>5. QED BY <1>1, <1>2, <1>3, <1>4, Owner, StaysInCall DEF Front

LEMMA FrontOfNothingInv ==
    ASSUME IInv, NEW t \in Threads, FrontOfNothing(t)
    PROVE  IInv'
  <1>1. "undefined" \in Places /\ "undefined" \in Inside /\ "front" \in Inside
    BY DEF Places, Inside
  <1>2. Moves(t, "undefined") /\ mMutex = t
    BY <1>1, Owner, MovesSelf DEF FrontOfNothing
  <1>3. QueueOK' /\ MutexOK'
    BY Owner, Frame DEF FrontOfNothing
  <1>4. ~mIsLoop'
    BY Owner DEF FrontOfNothing, FrontKnown
  <1>5. QED BY <1>1, <1>2, <1>3, <1>4, Owner, StaysInCall DEF FrontOfNothing

LEMMA DestoryInv ==
    ASSUME IInv, NEW t \in Threads, Destory(t)
    PROVE  IInv'
  <1>1. "notify" \in Places /\ "notify" \notin Inside /\ "ready" \notin Inside
    BY DEF Places, Inside
  <1>2. Moves(t, "notify") /\ mMutex # t
    BY <1>1, Owner, MovesSelf DEF Destory
  <1>3. QueueOK' /\ MutexOK'
    BY Owner, Frame DEF Destory, MutexOK
  <1>4. at[t] =< Len(script[t])
    BY DEF Destory, Calls
  <1>5. QED BY <1>1, <1>2, <1>3, <1>4, StaysInCall DEF Destory

LEMMA DestoryNotifyInv ==
    ASSUME IInv, NEW t \in Threads, DestoryNotify(t)
    PROVE  IInv'
  <1>1. ScriptOK /\ PlaceOK /\ QueueOK /\ MutexOK /\ Holder /\ InCall /\ FrontKnown
    BY TypeParts DEF IInv
  <1>2. "ready" \in Places /\ "ready" \notin Inside /\ "notify" \notin Inside
    BY DEF Places, Inside
  <1>3. Moves(t, "ready") /\ mMutex # t
    BY <1>1, <1>2, Owner, MovesNotify DEF DestoryNotify
  <1>4. Holder'
    BY <1>1, <1>2, <1>3, HolderKept DEF DestoryNotify
  <1>5. ScriptOK' /\ \A u \in Threads \ {t} : at'[u] = at[u]
    BY <1>1, NextCall DEF DestoryNotify
  <1>6. InCall'
    BY <1>1, <1>2, <1>3, <1>5, InCallKept DEF DestoryNotify
  <1>7. FrontKnown'
    BY <1>1, <1>2, <1>3, FrontKept DEF DestoryNotify
  <1>8. QueueOK' /\ MutexOK'
    BY <1>1, Frame DEF DestoryNotify
  <1>9. QED BY <1>2, <1>3, <1>4, <1>5, <1>6, <1>7, <1>8, StepTypes DEF StepKeeps

LEMMA StepInv == IInv /\ [Next]_vars => IInv'
  <1> SUFFICES ASSUME IInv, [Next]_vars PROVE IInv'
    OBVIOUS
  <1>1. CASE UNCHANGED vars
    BY <1>1 DEF vars, IInv, TypeOK, InCall, FrontKnown
  <1>2. CASE Next
    <2>1. PICK t \in Threads : Step(t) \/ Spurious(t)
      BY <1>2 DEF Next
    <2>2. CASE Lock(t) \/ Unlock(t) \/ Wait(t) \/ Relock(t) \/ Spurious(t)
      BY <2>2, LockInv, UnlockInv, WaitInv, RelockInv, SpuriousInv
    <2>3. CASE Enqueue(t) \/ IsQueue(t) \/ Clear(t) \/ Test(t) \/ Front(t) \/ FrontOfNothing(t)
      BY <2>3, EnqueueInv, IsQueueInv, ClearInv, TestInv, FrontInv, FrontOfNothingInv
    <2>4. CASE Destory(t) \/ DestoryNotify(t)
      BY <2>4, DestoryInv, DestoryNotifyInv
    <2>5. QED BY <2>1, <2>2, <2>3, <2>4 DEF Step
  <1>3. QED BY <1>1, <1>2

\* Every variable of the queue keeps its type, and exactly the threads inside
\* an operation hold the mutex: Enqueue, Dequeue, IsQueue and Clear never
\* touch the queue at the same time.
THEOREM QueueTypes == Spec => []TypeOK
  <1>1. Spec => []IInv
    BY InitInv, StepInv, PTL DEF Spec
  <1>2. IInv => TypeOK
    BY DEF IInv
  <1>3. QED BY <1>1, <1>2, PTL

\* However many threads wait and however they are woken, front() of an empty
\* queue is not taken before Destory is called.
THEOREM FrontIsSafe == Spec => []FrontIsFilled
  <1>1. Spec => []IInv
    BY InitInv, StepInv, PTL DEF Spec
  <1>2. IInv => FrontIsFilled
    BY DEF IInv, FrontKnown, FrontIsFilled, Defined
  <1>3. QED BY <1>1, <1>2, PTL


-----------------------------------------------------------------------------
\* The threads that wait, or are about to, are in Dequeue; one that is about
\* to has found nothing.
Dequeuing == {"sleepy", "waiting", "woken", "front"}
WaitersDequeue ==
    \A t \in Threads : /\ pc[t] \in Dequeuing => Calls(t, "Dequeue")
                       /\ pc[t] = "sleepy" => mQueue = <<>>

WInv == IInv /\ WaitersDequeue /\ NobodySleepsOverThings

LEMMA OnTheWayFinite ==
    /\ IsFiniteSet(OnTheWay) /\ Cardinality(OnTheWay) \in Nat
    /\ \A W \in SUBSET Threads : IsFiniteSet(W) /\ Cardinality(W) \in Nat
  <1>1. \A W \in SUBSET Threads : IsFiniteSet(W)
    BY FS_Subset, ThingQueueAssumption
  <1>2. \A W \in SUBSET Threads : Cardinality(W) \in Nat
    BY <1>1, FS_CardinalityType
  <1>3. OnTheWay \in SUBSET Threads
    BY DEF OnTheWay
  <1>4. QED BY <1>1, <1>2, <1>3

LEMMA WaitersDequeueKept ==
    ASSUME IInv, WaitersDequeue, NEW t \in Threads, Step(t) \/ Spurious(t)
    PROVE  WaitersDequeue'
  <1>1. PlaceOK /\ \A u \in Threads : (pc[u] \in Inside <=> mMutex = u) /\ u # Free
    BY Owner, ThingQueueAssumption, TypeParts DEF IInv, Holder
  <1>2. CASE Enqueue(t) \/ IsQueue(t)
    <2>1. Moves(t, "done") /\ mMutex = t
      BY <1>1, <1>2, MovesNotify DEF Enqueue, IsQueue, Inside, Places
    <2>2. \A u \in Threads : Calls(u, "Dequeue") => Calls(u, "Dequeue")'
      BY <1>2 DEF Calls, Enqueue, IsQueue
    <2>3. QED BY <1>1, <2>1, <2>2 DEF WaitersDequeue, Moves, Inside, Dequeuing
  <1>3. CASE DestoryNotify(t)
    <2>1. Moves(t, "ready")
      BY <1>1, <1>3, MovesNotify DEF DestoryNotify, Places
    <2>2. \A u \in Threads \ {t} : Calls(u, "Dequeue") => Calls(u, "Dequeue")'
      BY <1>3, Owner DEF Calls, DestoryNotify, ScriptOK
    <2>3. QED BY <1>1, <1>3, <2>1, <2>2 DEF WaitersDequeue, Moves, Inside, Dequeuing, DestoryNotify
  <1>4. CASE Unlock(t)
    <2>1. \A u \in Threads \ {t} : Calls(u, "Dequeue") => Calls(u, "Dequeue")'
      BY <1>4, Owner DEF Calls, Unlock, ScriptOK
    <2>2. \A u \in Threads \ {t} : pc'[u] = pc[u]
      BY <1>1, <1>4 DEF Unlock, PlaceOK
    <2>3. pc'[t] = "ready" /\ mQueue' = mQueue
      BY <1>1, <1>4 DEF Unlock, PlaceOK
    <2>4. QED BY <2>1, <2>2, <2>3 DEF WaitersDequeue, Dequeuing
  <1>5. CASE Lock(t) \/ Test(t) \/ Wait(t) \/ Relock(t) \/ Spurious(t)
             \/ Destory(t) \/ FrontOfNothing(t) \/ Clear(t) \/ Front(t)
    <2>1. \A u \in Threads : Calls(u, "Dequeue")' <=> Calls(u, "Dequeue")
      BY <1>5 DEF Calls, Lock, Test, Wait, Relock, Spurious, Destory, FrontOfNothing, Clear, Front
    <2>2. \A u \in Threads \ {t} : pc'[u] = pc[u]
      BY <1>1, <1>5 DEF PlaceOK, Lock, Test, Wait, Relock, Spurious, Destory, FrontOfNothing, Clear, Front
    <2>3. pc'[t] \in Dequeuing => Calls(t, "Dequeue")
      BY <1>1, <1>5 DEF WaitersDequeue, Dequeuing, PlaceOK, Lock, Test, Wait, Relock, Spurious,
                        Destory, FrontOfNothing, Clear, Front
    <2>4. pc'[t] = "sleepy" => mQueue' = <<>>
      BY <1>1, <1>5 DEF PlaceOK, Lock, Test, Wait, Relock, Spurious, Destory, FrontOfNothing, Clear, Front
    <2>5. mQueue' = mQueue \/ mQueue' = <<>> \/ mMutex = t
      BY <1>1, <1>5 DEF Lock, Test, Wait, Relock, Spurious, Destory, FrontOfNothing, Clear, Front, Inside
    <2>6. QED BY <1>1, <2>1, <2>2, <2>3, <2>4, <2>5 DEF WaitersDequeue, Inside, Dequeuing
  <1>6. QED BY <1>2, <1>3, <1>4, <1>5 DEF Step

\* One more on the way.
LEMMA WokenCounts ==
    ASSUME PlaceOK, WaitersDequeue, NEW t \in Threads, NEW next \in {"done", "ready"},
           t \notin OnTheWay, pc[t] # "waiting", NotifyOne(t, next), UNCHANGED script,
           \A u \in Threads \ {t} : at'[u] = at[u]
    PROVE  \/ Waiters' = {}
           \/ Waiters # {} /\ Cardinality(OnTheWay') = Cardinality(OnTheWay) + 1
  <1>1. CASE Waiters = {}
    <2>1. pc' = [pc EXCEPT ![t] = next]
      BY <1>1 DEF NotifyOne
    <2>2. Waiters' = {}
      BY <1>1, <2>1 DEF Waiters, PlaceOK
    <2>3. QED BY <2>2
  <1>2. CASE Waiters # {}
    <2>1. PICK w \in Waiters : pc' = [pc EXCEPT ![t] = next, ![w] = "woken"]
      BY <1>2 DEF NotifyOne
    <2>2. w \in Threads /\ w # t /\ pc[w] = "waiting" /\ Calls(w, "Dequeue")
      BY DEF Waiters, WaitersDequeue, Dequeuing
    <2>3. \A u \in Threads \ {t} : Calls(u, "Dequeue")' <=> Calls(u, "Dequeue")
      BY DEF Calls
    <2>4. OnTheWay' = OnTheWay \cup {w} /\ w \notin OnTheWay
      BY <2>1, <2>2, <2>3 DEF OnTheWay, PlaceOK
    <2>5. QED BY <1>2, <2>4, FS_AddElement, OnTheWayFinite
  <1>3. QED BY <1>1, <1>2

LEMMA EnqueueWakes ==
    ASSUME WInv, NEW t \in Threads, Enqueue(t)
    PROVE  NobodySleepsOverThings'
  <1>1. PlaceOK /\ QueueOK /\ WaitersDequeue /\ pc[t] = "locked" /\ "done" \in Places
    BY Owner DEF WInv, Enqueue, Places
  <1>2. t \notin OnTheWay
    BY DEF OnTheWay, Enqueue, Calls
  <1>3. \/ Waiters' = {}
        \/ Waiters # {} /\ Cardinality(OnTheWay') = Cardinality(OnTheWay) + 1
    BY <1>1, <1>2, WokenCounts DEF Enqueue
  <1>4. <<t, at[t]>> \in Things
    <2>1. at[t] =< Len(script[t])
      BY Owner DEF Enqueue, WInv
    <2>2. QED BY <2>1, Owner, ScriptLength DEF Things, WInv
  <1>5. Len(mQueue') = Len(mQueue) + 1 /\ Len(mQueue) \in Nat
    BY <1>1, <1>4, AppendProperties, LenProperties DEF Enqueue, QueueOK
  <1>6. QED BY <1>3, <1>5, OnTheWayFinite DEF WInv, NobodySleepsOverThings

LEMMA OthersWake ==
    ASSUME WInv, NEW t \in Threads, IsQueue(t) \/ DestoryNotify(t)
    PROVE  NobodySleepsOverThings'
  <1>1. PlaceOK /\ QueueOK /\ ScriptOK /\ WaitersDequeue
    BY Owner DEF WInv
  <1>2. t \notin OnTheWay /\ pc[t] # "waiting"
    BY DEF OnTheWay, IsQueue, DestoryNotify, Calls
  <1>3. \A u \in Threads \ {t} : at'[u] = at[u]
    BY <1>1 DEF IsQueue, DestoryNotify, ScriptOK
  <1>4. UNCHANGED <<script, mQueue>> /\ \E next \in {"done", "ready"} : NotifyOne(t, next)
    BY DEF IsQueue, DestoryNotify
  <1>5. \/ Waiters' = {}
        \/ Waiters # {} /\ Cardinality(OnTheWay') = Cardinality(OnTheWay) + 1
    BY <1>1, <1>2, <1>3, <1>4, WokenCounts
  <1>6. Len(mQueue) \in Nat
    BY <1>1, LenProperties DEF QueueOK
  <1>7. QED BY <1>4, <1>5, <1>6, OnTheWayFinite DEF WInv, NobodySleepsOverThings

LEMMA FrontCounts ==
    ASSUME WInv, NEW t \in Threads, Front(t)
    PROVE  NobodySleepsOverThings'
  <1>1. PlaceOK /\ QueueOK /\ Calls(t, "Dequeue") /\ pc[t] = "front"
    BY Owner DEF WInv, Front, WaitersDequeue, Dequeuing
  <1>2. pc' = [pc EXCEPT ![t] = "done"] /\ UNCHANGED <<script, at>> /\ mQueue' = Tail(mQueue)
    BY DEF Front
  <1>3. \A u \in Threads : Calls(u, "Dequeue")' <=> Calls(u, "Dequeue")
    BY <1>2 DEF Calls
  <1>4. t \in OnTheWay /\ OnTheWay' = OnTheWay \ {t} /\ Waiters' = Waiters
    BY <1>1, <1>2, <1>3 DEF OnTheWay, Waiters, PlaceOK
  <1>5. Cardinality(OnTheWay') = Cardinality(OnTheWay) - 1
    BY <1>4, FS_RemoveElement, OnTheWayFinite
  <1>6. Len(mQueue') = Len(mQueue) - 1 /\ Len(mQueue) \in Nat
    BY <1>1, <1>2, HeadTailProperties, LenProperties DEF QueueOK, Front
  <1>7. QED BY <1>4, <1>5, <1>6, OnTheWayFinite DEF WInv, NobodySleepsOverThings

\* Nothing in the queue, nothing to sleep over.
LEMMA NothingThere ==
    ASSUME mQueue' = <<>>, OnTheWay' \in SUBSET Threads
    PROVE  NobodySleepsOverThings'
  <1>1. Len(mQueue') = 0
    BY LenProperties, EmptySeq
  <1>2. Cardinality(OnTheWay') \in Nat
    BY OnTheWayFinite
  <1>3. QED BY <1>1, <1>2 DEF NobodySleepsOverThings

LEMMA EmptyKeeps ==
    ASSUME WInv, NEW t \in Threads,
           \/ Clear(t) \/ Wait(t) \/ FrontOfNothing(t)
           \/ Test(t) /\ mIsLoop /\ mQueue = <<>>
    PROVE  NobodySleepsOverThings'
  <1>1. mQueue' = <<>>
    BY DEF WInv, WaitersDequeue, Clear, Wait, FrontOfNothing, Test
  <1>2. OnTheWay' \in SUBSET Threads
    BY DEF OnTheWay
  <1>3. QED BY <1>1, <1>2, NothingThere

\* The other steps take nobody from the way.
LEMMA OthersKeep ==
    ASSUME WInv, NEW t \in Threads,
           \/ Lock(t) \/ Unlock(t) \/ Spurious(t) \/ Relock(t) \/ Destory(t)
           \/ Test(t) /\ ~(mIsLoop /\ mQueue = <<>>)
    PROVE  NobodySleepsOverThings'
  <1>1. PlaceOK /\ QueueOK /\ ScriptOK /\ WaitersDequeue
    BY Owner DEF WInv
  <1>2. \E next \in Places \ {"waiting"} : pc' = [pc EXCEPT ![t] = next]
    BY DEF Lock, Unlock, Spurious, Relock, Destory, Test, Places
  <1>3. Waiters' \subseteq Waiters
    BY <1>1, <1>2 DEF Waiters, PlaceOK
  <1>4. \A u \in Threads \ {t} : Calls(u, "Dequeue") => Calls(u, "Dequeue")'
    BY <1>1 DEF Calls, Lock, Unlock, Spurious, Relock, Destory, Test, ScriptOK
  <1>5. t \in OnTheWay => t \in OnTheWay'
    BY <1>1 DEF OnTheWay, Calls, Lock, Unlock, Spurious, Relock, Destory, Test, PlaceOK
  <1>6. OnTheWay \subseteq OnTheWay' /\ OnTheWay' \in SUBSET Threads
    BY <1>1, <1>2, <1>4, <1>5 DEF OnTheWay, PlaceOK
  <1>7. Cardinality(OnTheWay) =< Cardinality(OnTheWay')
    BY <1>6, OnTheWayFinite, FS_Subset
  <1>8. mQueue' = mQueue /\ Len(mQueue) \in Nat
    BY <1>1, LenProperties DEF QueueOK, Lock, Unlock, Spurious, Relock, Destory, Test
  <1>9. Cardinality(OnTheWay') \in Nat
    BY <1>6, OnTheWayFinite
  <1>10. QED BY <1>3, <1>7, <1>8, <1>9, OnTheWayFinite DEF WInv, NobodySleepsOverThings

LEMMA WakeInit == Init => WInv
  <1> SUFFICES ASSUME Init PROVE WInv
    OBVIOUS
  <1>1. IInv
    BY InitInv
  <1>2. WaitersDequeue /\ Waiters = {}
    BY DEF Init, WaitersDequeue, Waiters, Dequeuing
  <1>3. QED BY <1>1, <1>2 DEF WInv, NobodySleepsOverThings

LEMMA WakeStep == WInv /\ [Next]_vars => WInv'
  <1> SUFFICES ASSUME WInv, [Next]_vars PROVE WInv'
    OBVIOUS
  <1>1. IInv'
    BY StepInv DEF WInv
  <1>2. CASE UNCHANGED vars
    BY <1>1, <1>2 DEF vars, WInv, WaitersDequeue, NobodySleepsOverThings, Waiters, OnTheWay, Calls
  <1>3. CASE Next
    <2>1. PICK t \in Threads : Step(t) \/ Spurious(t)
      BY <1>3 DEF Next
    <2>2. WaitersDequeue'
      BY <2>1, WaitersDequeueKept DEF WInv
    <2>3. NobodySleepsOverThings'
      BY <2>1, EnqueueWakes, OthersWake, FrontCounts, EmptyKeeps, OthersKeep DEF Step
    <2>4. QED BY <1>1, <2>2, <2>3 DEF WInv
  <1>4. QED BY <1>2, <1>3

\* For any number of threads, no wake-up is lost: while a thread waits there
\* are as many threads on their way to the front as there are things.
THEOREM NobodySleeps == Spec => []NobodySleepsOverThings
  <1>1. Spec => []WInv
    BY WakeInit, WakeStep, PTL DEF Spec
  <1>2. WInv => NobodySleepsOverThings
    BY DEF WInv
  <1>3. QED BY <1>1, <1>2, PTL

-----------------------------------------------------------------------------
LEMMA FifoInit == Init => Fifo!Init
  <1>1. Init => Defined /\ Emptying = {}
    BY DEF Init, Defined, Emptying
  <1>2. QED BY <1>1 DEF Init, Fifo!Init

\* A step neither brings another thread into Clear nor out of it, and makes
\* no other thread's front fail.
LEMMA OthersStay ==
    ASSUME WInv, NEW t \in Threads, Step(t) \/ Spurious(t)
    PROVE  \A u \in Threads \ {t} : /\ u \in Emptying' <=> u \in Emptying
                                    /\ pc'[u] = "undefined" => pc[u] = "undefined"
  <1>1. PlaceOK /\ ScriptOK
    BY Owner DEF WInv
  <1>2. UNCHANGED script /\ \A u \in Threads \ {t} : at'[u] = at[u]
    BY <1>1 DEF ScriptOK, Step, Spurious, Lock, Unlock, Enqueue, IsQueue, Clear, Test, Wait, Relock,
                Front, FrontOfNothing, Destory, DestoryNotify
  <1>3. \A u \in Threads \ {t} : pc'[u] = pc[u] \/ (pc[u] = "waiting" /\ pc'[u] = "woken")
    <2>1. CASE Enqueue(t) \/ IsQueue(t) \/ DestoryNotify(t)
      <3>1. \E next \in {"done", "ready"} : NotifyOne(t, next)
        BY <2>1 DEF Enqueue, IsQueue, DestoryNotify
      <3>2. pc[t] # "waiting" /\ {"done", "ready"} \subseteq Places
        BY <2>1 DEF Enqueue, IsQueue, DestoryNotify, Places
      <3>3. QED BY <1>1, <3>1, <3>2, MovesNotify DEF Moves
    <2>2. CASE ~(Enqueue(t) \/ IsQueue(t) \/ DestoryNotify(t))
      <3>1. \E next \in Places : pc' = [pc EXCEPT ![t] = next]
        BY <2>2 DEF Step, Spurious, Lock, Unlock, Clear, Test, Wait, Relock, Front, FrontOfNothing,
                    Destory, Places
      <3>2. QED BY <1>1, <3>1, MovesSelf DEF Moves
    <2>3. QED BY <2>1, <2>2
  <1>4. QED BY <1>2, <1>3 DEF Emptying, Calls

\* Where the thread itself does not come into Clear, leave it or fail, nor
\* does the abstract queue change there.
LEMMA SameThere ==
    ASSUME WInv, Defined, NEW t \in Threads, Step(t) \/ Spurious(t),
           ~Lock(t), ~Clear(t), ~FrontOfNothing(t)
    PROVE  UNCHANGED <<Emptying, Defined>>
  <1>1. PlaceOK /\ ScriptOK
    BY Owner DEF WInv
  <1>2. t \notin Emptying
    BY DEF Emptying, Calls, Step, Spurious, Unlock, Enqueue, IsQueue, Test, Wait, Relock, Front,
           Destory, DestoryNotify
  <1>3. pc'[t] # "undefined" /\ t \notin Emptying'
    <2>1. CASE Enqueue(t) \/ IsQueue(t) \/ DestoryNotify(t)
      <3>1. \E next \in {"done", "ready"} : NotifyOne(t, next)
        BY <2>1 DEF Enqueue, IsQueue, DestoryNotify
      <3>2. pc[t] # "waiting" /\ {"done", "ready"} \subseteq Places
        BY <2>1 DEF Enqueue, IsQueue, DestoryNotify, Places
      <3>3. pc'[t] \in {"done", "ready"}
        BY <1>1, <3>1, <3>2, MovesNotify DEF Moves
      <3>4. QED BY <3>3 DEF Emptying
    <2>2. CASE Relock(t)
      <3>1. Calls(t, "Dequeue")
        BY <2>2 DEF WInv, WaitersDequeue, Dequeuing, Relock
      <3>2. ~Calls(t, "Clear")'
        BY <2>2, <3>1 DEF Calls, Relock
      <3>3. QED BY <1>1, <2>2, <3>2 DEF Emptying, Relock, PlaceOK
    <2>3. CASE Unlock(t) \/ Test(t) \/ Wait(t) \/ Front(t) \/ Destory(t) \/ Spurious(t)
      BY <1>1, <2>3 DEF Emptying, PlaceOK, Unlock, Test, Wait, Front, Destory, Spurious
    <2>4. QED BY <2>1, <2>2, <2>3 DEF Step
  <1>4. Emptying' = Emptying
    BY <1>2, <1>3, OthersStay DEF Emptying
  <1>5. Defined'
    BY <1>3, OthersStay DEF Defined
  <1>6. QED BY <1>4, <1>5

LEMMA LockMaps ==
    ASSUME WInv, Defined, NEW t \in Threads, Lock(t)
    PROVE  UNCHANGED Fifo!vars \/ Fifo!Next
  <1>1. PlaceOK /\ Step(t)
    BY Owner DEF WInv, Step
  <1>2. Defined' /\ pc'[t] = "locked" /\ t \notin Emptying
    BY <1>1, OthersStay DEF Lock, PlaceOK, Defined, Emptying
  <1>3. CASE t \in Emptying'
    <2>1. Emptying' = Emptying \cup {t}
      BY <1>1, <1>3, OthersStay DEF Emptying
    <2>2. Fifo!AskEmpty(t)
      BY <1>2, <2>1 DEF Fifo!AskEmpty, Lock
    <2>3. QED BY <2>2 DEF Fifo!Next
  <1>4. CASE t \notin Emptying'
    <2>1. Emptying' = Emptying
      BY <1>1, <1>2, <1>4, OthersStay DEF Emptying
    <2>2. QED BY <1>2, <2>1 DEF Fifo!vars, Lock
  <1>5. QED BY <1>3, <1>4

LEMMA ClearMaps ==
    ASSUME WInv, Defined, NEW t \in Threads, Clear(t)
    PROVE  Fifo!Next
  <1>1. PlaceOK /\ Step(t)
    BY Owner DEF WInv, Step
  <1>2. Defined' /\ pc'[t] = "done" /\ t \in Emptying
    BY <1>1, OthersStay DEF Clear, PlaceOK, Defined, Emptying
  <1>3. Emptying' = Emptying \ {t}
    BY <1>1, <1>2, OthersStay DEF Emptying
  <1>4. Fifo!Empty(t)
    BY <1>2, <1>3 DEF Fifo!Empty, Clear
  <1>5. QED BY <1>4 DEF Fifo!Next

LEMMA FailMaps ==
    ASSUME WInv, Defined, NEW t \in Threads, FrontOfNothing(t)
    PROVE  Fifo!Next
  <1>1. PlaceOK /\ Step(t) /\ FrontKnown
    BY Owner DEF WInv, Step
  <1>2. ~Defined' /\ t \notin Emptying /\ t \notin Emptying'
    BY <1>1 DEF FrontOfNothing, PlaceOK, Defined, Emptying
  <1>3. Emptying' = Emptying
    BY <1>1, <1>2, OthersStay DEF Emptying
  <1>4. ~mIsLoop
    BY <1>1 DEF FrontKnown, FrontOfNothing
  <1>5. Fifo!Fail
    BY <1>2, <1>3, <1>4 DEF Fifo!Fail, FrontOfNothing
  <1>6. QED BY <1>5 DEF Fifo!Next

LEMMA FifoStep == WInv /\ [Next]_vars => [Fifo!Next]_(Fifo!vars)
  <1> SUFFICES ASSUME WInv, [Next]_vars PROVE [Fifo!Next]_(Fifo!vars)
    OBVIOUS
  <1>1. CASE UNCHANGED vars
    BY <1>1 DEF vars, Fifo!vars, Emptying, Defined, Calls
  <1>2. CASE Next
    <2>1. PICK t \in Threads : Step(t) \/ Spurious(t)
      BY <1>2 DEF Next
    <2>2. Defined
      BY <1>2 DEF Next
    <2>3. CASE Lock(t) \/ Clear(t) \/ FrontOfNothing(t)
      BY <2>2, <2>3, LockMaps, ClearMaps, FailMaps
    <2>4. CASE ~(Lock(t) \/ Clear(t) \/ FrontOfNothing(t))
      <3>1. UNCHANGED <<Emptying, Defined>>
        BY <2>1, <2>2, <2>4, SameThere
      <3>2. CASE Enqueue(t)
        <4>1. at[t] =< Len(script[t])
          BY <3>2, Owner DEF Enqueue, WInv
        <4>2. <<t, at[t]>> \in Things
          BY <4>1, Owner, ScriptLength DEF Things, WInv
        <4>3. Fifo!Put
          BY <3>1, <3>2, <4>2 DEF Fifo!Put, Enqueue
        <4>4. QED BY <2>2, <4>3 DEF Fifo!Next
      <3>3. CASE Front(t)
        <4>1. Fifo!Take
          BY <3>1, <3>3 DEF Fifo!Take, Front
        <4>2. QED BY <2>2, <4>1 DEF Fifo!Next
      <3>4. CASE Destory(t)
        <4>1. Fifo!Close
          BY <3>1, <3>4 DEF Fifo!Close, Destory
        <4>2. QED BY <2>2, <4>1 DEF Fifo!Next
      <3>5. CASE Unlock(t) \/ IsQueue(t) \/ Test(t) \/ Wait(t) \/ Relock(t) \/ DestoryNotify(t) \/ Spurious(t)
        BY <3>1, <3>5 DEF Fifo!vars, Unlock, IsQueue, Test, Wait, Relock, DestoryNotify, Spurious
      <3>6. QED BY <2>1, <2>4, <3>2, <3>3, <3>4, <3>5 DEF Step
    <2>5. QED BY <2>3, <2>4
  <1>3. QED BY <1>1, <1>2

\* The queue is a FIFO queue for any number of threads: each thing is taken
\* once, the oldest first, none is lost but to a thread inside Clear, and
\* front() fails only once Destory was called.
THEOREM QueueImplementsFifo == Spec => ImplementsFifo
  <1>1. Spec => []WInv
    BY WakeInit, WakeStep, PTL DEF Spec
  <1>2. QED BY <1>1, FifoInit, FifoStep, PTL DEF Spec, ImplementsFifo, Fifo!Spec

=============================================================================
