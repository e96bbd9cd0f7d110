------------------------------ MODULE VideoInfo ------------------------------
(* ExpUtil::ImportVideoInfo (dove/ExpUtil.cpp): how the swipe periods of a   *)
(* client's message are read, sorted, limited and checked before they are    *)
(* handed to Dove.  A request is a record: complete and file say whether     *)
(* every field and the video are there, limit is swipe_limit of the ini      *)
(* file, 0 where it has none.                                                *)
EXTENDS Integers, Sequences, Functions

CONSTANT DefaultTarget   \* 1920/2, 1080/2

ERR_NONE == "ERR_NONE"

\* mutant: the periods stay in the message's order
InMessageOrder(periods) == {periods}

\* std::sort by number: periods of one number may come in any order.
InOrder(periods) ==
    {[k \in DOMAIN periods |-> periods[f[k]]] :
        f \in {g \in Bijection(DOMAIN periods, DOMAIN periods) :
                  \A j, k \in DOMAIN periods : j < k => periods[g[j]].no =< periods[g[k]].no}}

\* No more periods than the limit; a negative one leaves none.
Limited(periods, limit) ==
    IF limit = 0 \/ Len(periods) < limit THEN periods ELSE SubSeq(periods, 1, limit)

NoTarget(target) == target = <<-1, -1>>
Rejected(target) == target[1] < -1 \/ target[2] < -1

Verdict(request, periods) ==
    CASE ~request.complete -> "STABIL_MESSAGE_PARSING_ERR"
      [] request.complete /\ (~request.file \/ periods = <<>>) -> "STABIL_PERIOD_NOT_INSERTED"
      [] request.complete /\ request.file /\ periods # <<>> ->
            IF \E k \in DOMAIN periods : Rejected(periods[k].target)
            THEN "STABIL_TARGET_PT_NOT_INSERTED" ELSE ERR_NONE

\* The middle of the picture stands in for no target.
WithTargets(periods) ==
    [k \in DOMAIN periods |->
        IF NoTarget(periods[k].target) THEN [periods[k] EXCEPT !.target = DefaultTarget]
                                       ELSE periods[k]]

\* The lists Dove may be given for a request: none, if it is refused.
Imported(request) ==
    {WithTargets(periods) :
        periods \in {p \in {Limited(q, request.limit) : q \in InOrder(request.periods)} :
                        Verdict(request, p) = ERR_NONE}}

=============================================================================
