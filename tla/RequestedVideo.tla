---------------------------- MODULE RequestedVideo ----------------------------
(* A request and what Process makes of it: the swipe periods Process works   *)
(* on are those ImportVideoInfo accepted, and whether targets are given      *)
(* follows from the event.  The properties relate the message of the client  *)
(* to what is recorded of the pictures.                                      *)
EXTENDS Stabilize, VideoInfo, FiniteSets

CONSTANT VideoRequests

\* The target that stands in for none is the middle of the picture; the
\* tracker's picture is smaller than the one it is given (track_scale is 3).
ASSUME RequestedVideoAssumption ==
    /\ \A r \in VideoRequests :
          /\ r.periods \in Seq([no : Int, start : Int, end : Int, target : Int \X Int, zoom : Int])
          /\ r.limit \in Int
    /\ DefaultTarget \in (0..Width - 1) \X (0..Height - 1)
    /\ TrackScale > 1

VARIABLE request

\* mutant: rounded down, not towards zero
TrackerPointBelow(target) == <<target[1] \div TrackScale, target[2] \div TrackScale>>

\* TrackerInitFx: cx / p->track_scale, before round() sees it.
TrackerPoint(target) == <<Quotient(target[1], TrackScale), Quotient(target[2], TrackScale)>>

\* Dove::ConvertToParam; a period is numbered by its place.
ConvertToParam(periods) ==
    [k \in DOMAIN periods |-> [start |-> periods[k].start, end |-> periods[k].end,
                               target |-> TrackerPoint(periods[k].target),
                               zoom |-> periods[k].zoom]]

RoiInput(event) == event # "FIGURE"

RInit ==
    /\ Init
    /\ request \in VideoRequests
    /\ si \in {ConvertToParam(periods) : periods \in Imported(request)}
    /\ roi_input = RoiInput(request.event)

RNext == Next /\ UNCHANGED request

RSpec == RInit /\ [][RNext]_<<vars, request>>

\* The fairness of Stabilize.
RFairSpec == RSpec /\ WF_vars(Next)

-----------------------------------------------------------------------------
Asked == {request.periods[k] : k \in DOMAIN request.periods}
Rank(p) == Cardinality({q \in Asked : q.no =< p.no})
Kept(p) == request.limit = 0 \/ Rank(p) =< request.limit

\* Different numbers, and periods one after the other in their order.
Orderly ==
    /\ Cardinality(Asked) = Len(request.periods)
    /\ \A p, q \in Asked : p # q => p.no # q.no
    /\ \A p \in Asked : 0 =< p.start /\ p.start < p.end /\ p.end < length
    /\ \A p, q \in Asked : p.no < q.no => p.end < q.start

\* In whatever order an orderly request lists its periods, and however many
\* of them the limit leaves: when smoothing begins, the pictures inside each
\* kept period, and no others, carry the record of that period, by its rank.
RequestFollowed ==
    pc = "trajectory" /\ Orderly =>
        /\ \A p \in Asked : Kept(p) =>
              \A f \in p.start + 1..p.end - 1 : RecordOf(f, Rank(p))
        /\ \A f \in DOMAIN all : all[f].onswipe =>
              \E p \in Asked : Kept(p) /\ f - 1 \in p.start + 1..p.end

\* A tracker that is given its target begins on the picture, unless the
\* request names a point beyond the right or lower edge, which nothing
\* rejects: in particular where it names none, or a -1 in one coordinate.
BeyondEdge(p) == p.target[1] >= Width \/ p.target[2] >= Height
JustStarted == pc = "pass1" /\ roi_input /\ frame_index = t_frame_start + 1 /\ tck.period = swipe_index
StartsOnPicture ==
    JustStarted /\ ~(\E p \in Asked : p.start = t_frame_start /\ BeyondEdge(p)) =>
        /\ obj[1] * TrackScale \in 0..Width - 1
        /\ obj[2] * TrackScale \in 0..Height - 1

=============================================================================
