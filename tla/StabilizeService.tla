--------------------------- MODULE StabilizeService ---------------------------
(***************************************************************************)
(* What the stabilization pipeline promises, whatever its threads and      *)
(* queues: requests are accepted in an order; each is refused or finishes  *)
(* once; one finishes only when every earlier one is refused or finished;  *)
(* exactly the successful ones are handed over, in that order.             *)
(***************************************************************************)
EXTENDS Integers, Sequences

CONSTANT Requests

VARIABLES
    order,    \* requests in the order they were accepted
    status,   \* what became of each
    outbox,   \* successful requests not yet handed over
    sent,     \* successful requests handed over
    up        \* the service runs

vars == <<order, status, outbox, sent, up>>

Init ==
    /\ order = <<>> /\ outbox = <<>> /\ sent = <<>>
    /\ status = [m \in Requests |-> "new"]
    /\ up = TRUE

Accept(m) ==
    /\ status[m] = "new"
    /\ status' = [status EXCEPT ![m] = "received"]
    /\ order' = Append(order, m)
    /\ UNCHANGED <<outbox, sent, up>>

Refuse(m) ==
    /\ status[m] = "received"
    /\ status' = [status EXCEPT ![m] = "refused"]
    /\ UNCHANGED <<order, outbox, sent, up>>

FirstUnsettled(m) ==
    \E i \in 1..Len(order) :
        /\ order[i] = m
        /\ \A j \in 1..(i - 1) : status[order[j]] # "received"

Finish(m) ==
    /\ status[m] = "received"
    /\ FirstUnsettled(m)
    /\ \/ status' = [status EXCEPT ![m] = "failed"] /\ UNCHANGED outbox
       \/ status' = [status EXCEPT ![m] = "done"] /\ outbox' = Append(outbox, m)
    /\ UNCHANGED <<order, sent, up>>

HandOver ==
    /\ outbox # <<>>
    /\ sent' = Append(sent, Head(outbox))
    /\ outbox' = Tail(outbox)
    /\ UNCHANGED <<order, status, up>>

Fail == up' = FALSE /\ UNCHANGED <<order, status, outbox, sent>>

Next ==
    /\ up
    /\ \/ \E m \in Requests : Accept(m) \/ Refuse(m) \/ Finish(m)
       \/ HandOver
       \/ Fail

Spec == Init /\ [][Next]_vars
===============================================================================
