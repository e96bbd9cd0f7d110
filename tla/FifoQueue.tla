------------------------------ MODULE FifoQueue ------------------------------
(* What a ThingQueue promises the threads that share it: each thing put in   *)
(* is taken by one thread, the oldest first, unless a thread asked to empty  *)
(* the queue; and no thread is handed the front of an empty queue before     *)
(* the queue has been closed.                                                *)
EXTENDS Sequences

CONSTANTS Threads, Things

VARIABLES contents,
          taken,     \* what each thread took
          emptying,  \* the threads that asked to empty the queue
          open,
          failed     \* a thread was handed the front of an empty queue

vars == <<contents, taken, emptying, open, failed>>

Init ==
    /\ contents = <<>> /\ taken = [t \in Threads |-> <<>>]
    /\ emptying = {} /\ open = TRUE /\ failed = FALSE

Put == /\ \E v \in Things : contents' = Append(contents, v)
       /\ UNCHANGED <<taken, emptying, open, failed>>

Take == /\ contents # <<>>
        /\ \E t \in Threads : taken' = [taken EXCEPT ![t] = Append(@, Head(contents))]
        /\ contents' = Tail(contents)
        /\ UNCHANGED <<emptying, open, failed>>

AskEmpty(t) == /\ emptying' = emptying \cup {t}
               /\ UNCHANGED <<contents, taken, open, failed>>

Empty(t) == /\ t \in emptying
            /\ contents' = <<>> /\ emptying' = emptying \ {t}
            /\ UNCHANGED <<taken, open, failed>>

Close == /\ open' = FALSE
         /\ UNCHANGED <<contents, taken, emptying, failed>>

Fail == /\ ~open /\ contents = <<>>
        /\ failed' = TRUE
        /\ UNCHANGED <<contents, taken, emptying, open>>

Next == /\ ~failed
        /\ Put \/ Take \/ (\E t \in Threads : AskEmpty(t) \/ Empty(t)) \/ Close \/ Fail

Spec == Init /\ [][Next]_vars

=============================================================================
