------------------------------ MODULE Stabilize ------------------------------
(* Dove::Process (dove/Stabilization.cpp), the work one task does: a first   *)
(* pass over the video follows the object through every swipe period and     *)
(* records what each picture moved, MakeNewTrajectory smooths the movement   *)
(* of each period, and a second pass over the same video writes the          *)
(* corrected pictures.  Pictures are their numbers; the trackers, the spline *)
(* and the decoder are external and may answer anything of their kind.       *)
EXTENDS Margin, Sequences

CONSTANTS SwipeLists,     \* the lists of swipe periods a request may bring
          Lengths,        \* how many pictures the video may have
          Boxes,          \* where a tracker may see the object
          Curves,         \* what the spline may give for one picture
          Parts,          \* a smoothed value is a multiple of 1/Parts pixel
          TrackScale,     \* p->track_scale: the tracker sees a smaller picture
          DropThreshold,  \* p->drop_threshold
          NCOEFFS,        \* points the spline needs; with fewer GSL aborts
          RoiWidth,       \* p->roi_w_default
          WinTrans,       \* the build that reads through FrTrans
          Waits           \* p->read_wait / 100: the waits of the first pass

ASSUME StabilizeAssumption ==
    /\ \A list \in SwipeLists : list \in Seq([start : Int, end : Int, target : Boxes, zoom : Int])
    /\ \A list \in SwipeLists : Len(list) > 0
    /\ Lengths \subseteq Nat
    /\ Boxes \subseteq Int \X Int /\ Curves \subseteq Int \X Int
    /\ {Parts, TrackScale, DropThreshold, NCOEFFS, RoiWidth, Waits} \subseteq Nat
    /\ Parts > 0 /\ Waits > 0 /\ WinTrans \in BOOLEAN

VARIABLES
    si,           \* the swipe periods, sorted by ImportVideoInfo
    roi_input,    \* the event is not FIGURE: targets are given, CSRT follows
    length,       \* pictures in the video
    pc,
    frame_index,
    swipe_index,
    index, i, x,  \* the period and its picture MakeNewTrajectory is at, the sum of movements
    last_frame_index,
    all,          \* what is recorded of picture i is all[i + 1]
    obj,          \* where the object is
    pre_obj,      \* where it was in the picture before
    tck,          \* the tracker: period it was started for, its background, its box
    roi_w,        \* p->roi_w of Dove
    retry_cnt,
    reach,        \* minx, maxx, miny, maxy
    mg,
    ref,          \* refc: the picture written next
    out,          \* what was written
    result

given == <<si, roi_input, length>>
tracking == <<obj, pre_obj, tck, roi_w, retry_cnt>>
smoothing == <<index, i, x>>
second == <<last_frame_index, mg, ref, out>>
vars == <<given, pc, frame_index, swipe_index, all, tracking, smoothing, reach, second, result>>

None == -1
Running == "none"
Complete == "STABIL_COMPLETE"
Errors == {"STABIL_CANT_DECODE_FILE", "STABIL_CANT_GRAP_TRACKINGPT", "STABIL_CANT_MAKE_PROPER_VIDEO"}
Origin == <<0, 0>>

\* FRAME_INFO, one operator for each of its constructors
Plain == [onswipe |-> FALSE, remove |-> FALSE, swipe_order |-> 0, d |-> Origin, new |-> Origin]
Removed(s) == [Plain EXCEPT !.remove = TRUE, !.swipe_order = s]
Moved(s, d) == [Plain EXCEPT !.onswipe = TRUE, !.swipe_order = s, !.d = d]

t_frame_start == si[swipe_index + 1].start
t_frame_end == si[swipe_index + 1].end
Reach(lx, hx, ly, hy) == [minx |-> lx, maxx |-> hx, miny |-> ly, maxy |-> hy]

Init ==
    /\ si \in SwipeLists /\ roi_input \in BOOLEAN /\ length \in Lengths
    /\ pc = "pass1" /\ frame_index = 0 /\ swipe_index = 0 /\ all = <<>>
    /\ obj = Origin /\ pre_obj = Origin
    /\ tck = [period |-> None, start_frame |-> None, w |-> RoiWidth]
    /\ roi_w = RoiWidth /\ retry_cnt = 0
    /\ reach = Reach(Parts * Width, 0, Parts * Height, 0)
    /\ mg = [x |-> 0, y |-> 0, width |-> 0, height |-> 0]
    /\ index = 0 /\ i = 0 /\ x = Origin /\ last_frame_index = 0
    /\ ref = None /\ out = <<>> /\ result = Running

Return(code) == pc' = "returned" /\ result' = code

-----------------------------------------------------------------------------
\* mutant: the wait without its limit
WaitOn ==
    /\ pc = "pass1" /\ WinTrans /\ retry_cnt =< Waits
    /\ retry_cnt' = retry_cnt + 1
    /\ UNCHANGED <<given, pc, frame_index, swipe_index, all, obj, pre_obj, tck, roi_w, smoothing, reach, second, result>>

\* The first pass.

\* FrTrans::ReadFrame has no picture yet.  The waits are counted over the
\* whole video.
Wait ==
    /\ pc = "pass1" /\ WinTrans
    /\ retry_cnt' = retry_cnt + 1
    /\ IF Waits =< retry_cnt' THEN Return("STABIL_CANT_DECODE_FILE") ELSE UNCHANGED <<pc, result>>
    /\ UNCHANGED <<given, frame_index, swipe_index, all, obj, pre_obj, tck, roi_w, smoothing, reach, second>>

Grabbed == pc = "pass1" /\ frame_index < length

\* The first picture is the trackers' first background.
Seen == IF frame_index = 0 THEN [tck EXCEPT !.start_frame = 0] ELSE tck

\* Outside the period; the first picture also where the period begins before
\* it, at a negative number.
Outside == \/ frame_index < t_frame_start \/ frame_index > t_frame_end
           \/ frame_index = 0 /\ t_frame_start # 0

\* mutant: the first picture is recorded, and then again by the second test
SkipTwice ==
    /\ Grabbed /\ Outside
    /\ all' = IF frame_index = 0 THEN <<Plain, Plain>> ELSE Append(all, Plain)
    /\ frame_index' = frame_index + 1
    /\ tck' = Seen
    /\ UNCHANGED <<given, pc, swipe_index, obj, pre_obj, roi_w, retry_cnt, smoothing, reach, second, result>>

\* Between the periods nothing is followed.
SkipPicture ==
    /\ Grabbed /\ Outside
    /\ all' = Append(all, Plain)
    /\ frame_index' = frame_index + 1
    /\ tck' = Seen
    /\ UNCHANGED <<given, pc, swipe_index, obj, pre_obj, roi_w, retry_cnt, smoothing, reach, second, result>>

\* A period begins: the tracker is started at the target, or where the picture
\* differs most from the background, if it differs.
StartsAt == IF roi_input THEN {si[swipe_index + 1].target} ELSE Boxes
Zoomed(zoom) == IF zoom = 100 THEN RoiWidth ELSE RoiWidth + Quotient(zoom - 100, 4)
AtStart == Grabbed /\ frame_index = t_frame_start /\ frame_index =< t_frame_end

StartPeriod ==
    /\ AtStart
    /\ obj' \in StartsAt /\ pre_obj' = obj'
    /\ tck' = [Seen EXCEPT !.period = swipe_index]
    /\ roi_w' = IF roi_input THEN Zoomed(si[swipe_index + 1].zoom) ELSE roi_w
    /\ all' = Append(all, Plain)
    /\ frame_index' = frame_index + 1
    /\ UNCHANGED <<given, pc, swipe_index, retry_cnt, smoothing, reach, second, result>>

NothingToTrack ==
    /\ AtStart /\ ~roi_input
    /\ tck' = Seen
    /\ Return("STABIL_CANT_GRAP_TRACKINGPT")
    /\ UNCHANGED <<given, frame_index, swipe_index, all, obj, pre_obj, roi_w, retry_cnt, smoothing, reach, second>>

\* Within a period: what the object moved since the picture before.  The grey
\* tracker's update is commented out, its object stays where it was found.
SeenAt == IF roi_input THEN Boxes ELSE {obj}
Moves(b) == <<(pre_obj[1] - b[1]) * TrackScale, (pre_obj[2] - b[2]) * TrackScale>>
TooFar(d) == Abs(d[1]) > DropThreshold \/ Abs(d[2]) > DropThreshold

InPeriod == Grabbed /\ t_frame_start < frame_index /\ ~Outside

FrameInfo(d) == IF TooFar(d) THEN Removed(swipe_index) ELSE Moved(swipe_index, d)

NextPicture ==
    /\ frame_index < t_frame_end
    /\ frame_index' = frame_index + 1 /\ pre_obj' = obj'
    /\ UNCHANGED <<pc, swipe_index, tck>>

\* mutant: the background stays
NextPeriodOnly ==
    /\ frame_index = t_frame_end /\ swipe_index + 1 < Len(si)
    /\ swipe_index' = swipe_index + 1
    /\ frame_index' = frame_index + 1 /\ pre_obj' = obj'
    /\ UNCHANGED <<pc, tck>>

\* The last picture of a period is the background of the next.
NextPeriod ==
    /\ frame_index = t_frame_end /\ swipe_index + 1 < Len(si)
    /\ swipe_index' = swipe_index + 1
    /\ tck' = [tck EXCEPT !.start_frame = frame_index]
    /\ frame_index' = frame_index + 1 /\ pre_obj' = obj'
    /\ UNCHANGED pc

Final ==
    /\ frame_index = t_frame_end /\ swipe_index + 1 = Len(si)
    /\ pc' = "trajectory" /\ swipe_index' = swipe_index + 1
    /\ UNCHANGED <<frame_index, pre_obj, tck>>

\* mutant: a picture to be removed is not recorded at all
TrackWithoutRemoved ==
    /\ InPeriod
    /\ obj' \in SeenAt
    /\ all' = IF TooFar(Moves(obj')) THEN all ELSE Append(all, FrameInfo(Moves(obj')))
    /\ NextPicture \/ NextPeriod \/ Final
    /\ UNCHANGED <<given, roi_w, retry_cnt, smoothing, reach, second, result>>

TrackPicture ==
    /\ InPeriod
    /\ obj' \in SeenAt
    /\ all' = Append(all, FrameInfo(Moves(obj')))
    /\ NextPicture \/ NextPeriod \/ Final
    /\ UNCHANGED <<given, roi_w, retry_cnt, smoothing, reach, second, result>>

\* A tracker that no period has started: what it does is up to OpenCV.
UpdateUnstarted ==
    /\ InPeriod /\ tck.period = None
    /\ pc' = "undefined"
    /\ UNCHANGED <<given, frame_index, swipe_index, all, tracking, smoothing, reach, second, result>>

NoMorePictures ==
    /\ pc = "pass1" /\ frame_index = length
    /\ pc' = "trajectory"
    /\ UNCHANGED <<given, frame_index, swipe_index, all, tracking, smoothing, reach, second, result>>

-----------------------------------------------------------------------------
\* MakeNewTrajectory, one picture of one period a step.

\* The loop compares as size_t, where a negative number is behind every picture.
Before(m, n) == IF (m < 0) = (n < 0) THEN m < n ELSE n < 0
RunsAway(s) == /\ Before(si[s + 1].start + 1, si[s + 1].end)
               /\ si[s + 1].start + 1 < 0 \/ si[s + 1].end < 0
Interior(s) == {f \in 0..si[s + 1].end : /\ -1 =< si[s + 1].start
                                         /\ si[s + 1].start < f /\ f < si[s + 1].end}
Recorded(f) == f < Len(all)
AtPeriod == pc = "trajectory" /\ index < Len(si)
EnoughPoints == /\ -1 =< si[index + 1].start /\ 0 =< si[index + 1].end
                /\ si[index + 1].end - si[index + 1].start - 1 >= NCOEFFS

Picture == si[index + 1].start + 1 + i
Stretched(new) == Reach(Smaller(reach.minx, new[1]), Larger(reach.maxx, new[1]),
                        Smaller(reach.miny, new[2]), Larger(reach.maxy, new[2]))

\* What the picture moves afterwards: what it moved, and from where it is on
\* the trajectory to where the spline puts it.  x is the trajectory up to the
\* picture before.
SmoothPicture ==
    /\ AtPeriod /\ EnoughPoints
    /\ Picture < si[index + 1].end /\ Recorded(Picture)
    /\ \E c \in Curves :
          LET new == <<c[1] - Parts * x[1], c[2] - Parts * x[2]>>
          IN  /\ all' = [all EXCEPT ![Picture + 1].new = new]
              /\ reach' = Stretched(new)
    /\ x' = <<x[1] + all[Picture + 1].d[1], x[2] + all[Picture + 1].d[2]>>
    /\ i' = i + 1
    /\ UNCHANGED <<given, pc, frame_index, swipe_index, tracking, index, second, result>>

NextTrajectory ==
    /\ AtPeriod /\ EnoughPoints
    /\ Picture >= si[index + 1].end
    /\ index' = index + 1 /\ i' = 0 /\ x' = Origin
    /\ UNCHANGED <<given, pc, frame_index, swipe_index, all, tracking, reach, second, result>>

\* Fewer points than the spline has coefficients: GSL's error handler aborts.
SplineAborts ==
    /\ AtPeriod /\ ~EnoughPoints /\ ~RunsAway(index)
    /\ pc' = "aborted"
    /\ UNCHANGED <<given, frame_index, swipe_index, all, tracking, smoothing, reach, second, result>>

\* A period that ends behind the last recorded picture or at a negative number:
\* all[i] is read and written outside the vector, and nothing is known of what
\* follows.
Overrun ==
    /\ AtPeriod
    /\ RunsAway(index) \/ \E f \in Interior(index) : ~Recorded(f)
    /\ pc' = "undefined"
    /\ UNCHANGED <<given, frame_index, swipe_index, all, tracking, smoothing, reach, second, result>>

\* mutant: only the movement to one side counts
MarginLeft == Abs(reach.minx) \div Parts

\* int mx = max(abs(minx), maxx) cuts off the fraction.
MarginX == Larger(Abs(reach.minx), reach.maxx) \div Parts
MarginY == Larger(Abs(reach.miny), reach.maxy) \div Parts

MakeMargin ==
    /\ pc = "trajectory" /\ index = Len(si)
    /\ mg' = CalculcateMargin(MarginX, MarginY)
    /\ IF Accepted(mg') THEN pc' = "pass2" /\ UNCHANGED result
                        ELSE Return("STABIL_CANT_MAKE_PROPER_VIDEO")
    /\ last_frame_index' = frame_index /\ frame_index' = 0 /\ swipe_index' = 0
    /\ UNCHANGED <<given, all, tracking, smoothing, reach, ref, out>>

-----------------------------------------------------------------------------
\* The second pass.  A wait for FrTrans changes nothing there, and is not
\* counted: it is the stuttering step.

Again == pc = "pass2" /\ frame_index < length

FirstPicture ==
    /\ Again /\ frame_index = 0
    /\ ref' = 0
    /\ frame_index' = 1
    /\ UNCHANGED <<given, pc, swipe_index, all, tracking, smoothing, reach, last_frame_index, mg, out, result>>

\* all[frame_index] is read before frame_index is compared: what is read
\* behind the end of the vector does not count.
OnSwipe(f) == f < last_frame_index /\ all[f + 1].onswipe
Dropped(f) == OnSwipe(f) /\ all[f + 1].remove
Warp(f) == IF OnSwipe(f) THEN <<-all[f + 1].new[1], -all[f + 1].new[2]>> ELSE Origin

\* mutant: the picture read is written, not the one before
WriteThis ==
    /\ Again /\ frame_index > 0
    /\ out' = Append(out, [pic |-> frame_index, at |-> frame_index, warp |-> Warp(frame_index)])
    /\ ref' = frame_index
    /\ frame_index' = frame_index + 1
    /\ UNCHANGED <<given, pc, swipe_index, all, tracking, smoothing, reach, last_frame_index, mg, result>>

\* mutant: SetRefC is left out for pictures of a period
WriteKeepingRef ==
    /\ Again /\ frame_index > 0
    /\ out' = Append(out, [pic |-> ref, at |-> frame_index, warp |-> Warp(frame_index)])
    /\ ref' = IF OnSwipe(frame_index) THEN ref ELSE frame_index
    /\ frame_index' = frame_index + 1
    /\ UNCHANGED <<given, pc, swipe_index, all, tracking, smoothing, reach, last_frame_index, mg, result>>

\* The picture before this one is moved, cut and written.
WritePicture ==
    /\ Again /\ frame_index > 0
    /\ IF Dropped(frame_index)
       THEN UNCHANGED <<ref, out>>
       ELSE /\ out' = Append(out, [pic |-> ref, at |-> frame_index, warp |-> Warp(frame_index)])
            /\ ref' = frame_index
    /\ frame_index' = frame_index + 1
    /\ UNCHANGED <<given, pc, swipe_index, all, tracking, smoothing, reach, last_frame_index, mg, result>>

\* ... unless the memory behind the vector cannot be read at all.
ReadsBehindEnd ==
    /\ Again /\ ~Recorded(frame_index)
    /\ pc' = "undefined"
    /\ UNCHANGED <<given, frame_index, swipe_index, all, tracking, smoothing, reach, second, result>>

\* mutant: the second pass ends where the first one did
FinishAtLast ==
    /\ pc = "pass2" /\ frame_index = last_frame_index
    /\ Return(Complete)
    /\ UNCHANGED <<given, frame_index, swipe_index, all, tracking, smoothing, reach, second>>

Finish ==
    /\ pc = "pass2" /\ frame_index = length
    /\ Return(Complete)
    /\ UNCHANGED <<given, frame_index, swipe_index, all, tracking, smoothing, reach, second>>

-----------------------------------------------------------------------------
FirstPass == \/ Wait \/ SkipPicture \/ StartPeriod \/ NothingToTrack
             \/ TrackPicture \/ UpdateUnstarted \/ NoMorePictures

MakeNewTrajectory == SmoothPicture \/ NextTrajectory \/ SplineAborts \/ Overrun \/ MakeMargin

SecondPass == FirstPicture \/ WritePicture \/ ReadsBehindEnd \/ Finish

Next == FirstPass \/ MakeNewTrajectory \/ SecondPass

Spec == Init /\ [][Next]_vars

\* One thread runs Process to its end; in the second pass FrTrans must come
\* up with the next picture some time.
FairSpec == Spec /\ WF_vars(Next)

-----------------------------------------------------------------------------
\* Properties.

\* Each period begins at a picture, and ends after it began and before the next
\* one begins.
Separated ==
    /\ \A k \in 1..Len(si) : 0 =< si[k].start /\ si[k].start < si[k].end
    /\ \A j, k \in 1..Len(si) : j < k => si[j].end < si[k].start
Within == \A k \in 1..Len(si) : 0 =< si[k].start /\ si[k].end \in 0..length - 1

Points == Int \X Int
FrameInfos == [onswipe : BOOLEAN, remove : BOOLEAN, swipe_order : Nat, d : Points, new : Points]

LoopOK ==
    /\ si \in SwipeLists /\ roi_input \in BOOLEAN /\ length \in Lengths
    /\ pc \in {"pass1", "trajectory", "pass2", "returned", "aborted", "undefined"}
    /\ frame_index \in 0..length
    /\ swipe_index \in 0..Len(si) /\ (pc = "pass1" => swipe_index < Len(si))
    /\ result \in Errors \cup {Complete, Running}
RecordOK == all \in Seq(FrameInfos)
TrackOK ==
    /\ obj \in Points /\ pre_obj \in Points
    /\ tck \in [period : Nat \cup {None}, start_frame : Nat \cup {None}, w : {RoiWidth}]
    /\ roi_w \in Int
    /\ retry_cnt \in 0..Waits /\ (pc = "pass1" => retry_cnt < Waits)
SmoothOK ==
    /\ index \in 0..Len(si) /\ i \in Nat /\ x \in Points
    /\ reach \in [minx : Int, maxx : Int, miny : Int, maxy : Int]
WriteOK ==
    /\ last_frame_index \in 0..length
    /\ mg \in [x : Int, y : Int, width : Int, height : Int]
    /\ ref \in Nat \cup {None}
    /\ out \in Seq([pic : Nat, at : Nat, warp : Points])

\* Every variable keeps its type; in particular swipe_index is a period's
\* while pictures are grabbed, and the waits of the first pass stay below
\* their limit until Process gives up.
TypeOK == LoopOK /\ RecordOK /\ TrackOK /\ SmoothOK /\ WriteOK

\* The second pass looks up what the first one recorded by the number of the
\* picture: the first pass records every picture it grabs exactly once,
\* whichever way through the loop it takes.
OneRecordPerPicture ==
    /\ pc = "pass1" => Len(all) = frame_index
    /\ pc = "trajectory" => Len(all) \in {frame_index, frame_index + 1}
    /\ pc = "pass2" => Len(all) \in {last_frame_index, last_frame_index + 1}

\* Periods inside the video, in any order, overlapping or not, never make
\* MakeNewTrajectory use a picture that was not recorded.
TrajectoryInRange ==
    pc = "trajectory" /\ Within =>
        \A k \in 1..Len(si) : ~RunsAway(k - 1) /\ \A f \in Interior(k - 1) : Recorded(f)

\* Where periods are separated, what is recorded for a period was seen by the
\* tracker that was started at its beginning, against the background taken at
\* the end of the period before.
Following == pc = "pass1" /\ t_frame_start < frame_index /\ frame_index =< t_frame_end
OwnTracker ==
    Following /\ Separated =>
        /\ tck.period = swipe_index
        /\ tck.start_frame = IF swipe_index = 0 THEN 0 ELSE si[swipe_index].end

\* ... and when smoothing begins, every picture of every period carries the
\* record of that period.
RecordOf(f, k) == /\ all[f + 1].onswipe # all[f + 1].remove
                  /\ all[f + 1].swipe_order = k - 1
PeriodsRecorded ==
    pc = "trajectory" /\ Separated /\ Within =>
        \A k \in 1..Len(si) : \A f \in Interior(k - 1) : RecordOf(f, k)

\* A finished video shows every picture of the input but the last, except
\* those recorded for removal.
NothingLost ==
    result = Complete =>
        \A p \in 0..length - 2 : \/ \E j \in DOMAIN out : out[j].pic = p
                                 \/ Recorded(p) /\ all[p + 1].remove

\* A correction is the one from this picture to the next, both inside one
\* period; outside the periods pictures are written as they are.
PrevToCur ==
    \A j \in DOMAIN out :
        out[j].warp # Origin =>
            /\ \A f \in out[j].pic + 1..out[j].at - 1 : all[f + 1].remove
            /\ out[j].pic < out[j].at
            /\ \E k \in 1..Len(si) : out[j].at \in Interior(k - 1)

\* No corrected picture shows a border: the part cut out lies inside the
\* moved picture, to the pixel, as long as no correction is larger than half
\* the picture.  (With more, the corners change places, see StabilizeProofs.)
Modest == 2 * MarginX =< Width /\ 2 * MarginY =< Height
NoBorder ==
    Modest => \A j \in DOMAIN out :
        Covers(mg, Abs(out[j].warp[1]) \div Parts, Abs(out[j].warp[2]) \div Parts)

\* Process keeps the promise of StabilizedVideo.
Video == INSTANCE StabilizedVideo
            WITH Pictures <- UNION {0..n : n \in Lengths}, NoResult <- Running,
                 shown <- [j \in DOMAIN out |-> out[j].pic]
ImplementsVideo == Video!Spec

\* Process ends, however often FrTrans has no picture in the first pass.
Ended == pc \in {"returned", "aborted", "undefined"}
Ends == <>Ended

\* "frame drop apply" (Stabilization.cpp:499): a picture recorded for removal
\* is not written.
RemovedNotShown == \A j \in DOMAIN out : ~all[out[j].pic + 1].remove

\* "zooming. roi" (Stabilization.cpp:340): the box that is followed has the
\* size the period's zoom asks for.
BoxFollowsZoom ==
    Following /\ Separated /\ roi_input => tck.w = Zoomed(si[swipe_index + 1].zoom)

=============================================================================
