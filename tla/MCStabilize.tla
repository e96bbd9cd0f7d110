----------------------------- MODULE MCStabilize -----------------------------
(* Small videos for RequestedVideo: a picture of 16 x 9, half pixels.        *)
EXTENDS RequestedVideo

Asks(no, s, e) == [no |-> no, start |-> s, end |-> e, target |-> <<7, 3>>, zoom |-> 100]
At(p, target) == [p EXCEPT !.target = target]
Zoom(p) == [p EXCEPT !.zoom = 140]

Lists ==
    {<<Asks(1, 0, 2)>>, <<Zoom(Asks(1, 1, 4))>>,
     <<Zoom(Asks(2, 4, 6)), Asks(1, 1, 3)>>,        \* separated, numbered backwards
     <<Asks(1, 0, 2), Asks(2, 2, 4)>>,              \* touching
     <<Asks(1, 1, 3), Asks(2, 2, 5)>>,              \* overlapping
     <<Asks(1, 3, 5), Asks(2, 0, 2)>>,              \* numbered against the time
     <<Asks(3, 0, 2), Asks(3, 3, 4)>>}              \* of one number, one too short

\* Numbers below zero, which nothing rejects.
NegativeLists ==
    {<<Asks(1, -1, 3)>>, <<Asks(1, -3, 3)>>, <<Asks(1, 1, -2)>>, <<Asks(1, -5, -2)>>,
     <<Asks(1, 0, 2), Asks(2, -2, -5)>>}

\* Targets: none, half of one, beyond the picture, refused.
Targets == {<<-1, -1>>, <<-1, 2>>, <<20, 7>>, <<-2, 5>>}

Asking(event, limit, list) ==
    [complete |-> TRUE, file |-> TRUE, event |-> event, limit |-> limit, periods |-> list]

MCVideoRequests ==
    {Asking(event, 0, list) : event \in {"FIGURE", "HOCKEY"}, list \in Lists}
    \cup {Asking("HOCKEY", 0, list) : list \in NegativeLists}
    \cup {Asking("FIGURE", 0, <<Asks(1, -1, 3)>>)}
    \cup {Asking("HOCKEY", limit, <<Asks(2, 4, 6), Asks(1, 1, 3)>>) : limit \in {-1, 1, 3}}
    \cup {Asking("HOCKEY", 0, <<At(Asks(1, 0, 2), t)>>) : t \in Targets}
    \cup {[Asking("HOCKEY", 0, <<Asks(1, 0, 3)>>) EXCEPT !.complete = FALSE],
          [Asking("HOCKEY", 0, <<Asks(1, 0, 3)>>) EXCEPT !.file = FALSE]}

MCSwipeLists ==
    {ConvertToParam(periods) : periods \in UNION {Imported(r) : r \in MCVideoRequests}}
MCDefaultTarget == <<8, 4>>
MCBoxes == {<<-1, 0>>, <<0, 0>>, <<2, 1>>, <<6, 2>>}
MCCurves == {<<7, -3>>, <<-30, -5>>}

=============================================================================
