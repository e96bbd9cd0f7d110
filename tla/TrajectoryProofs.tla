--------------------------- MODULE TrajectoryProofs ---------------------------
(* What MakeNewTrajectory of Dove::Process finds when the first pass is      *)
(* over: a record for every picture it uses, and where the swipe periods are *)
(* separated, the record of the right period, made by the right tracker.     *)
(* Then what that makes of a request, whatever the order of its periods and  *)
(* its limit: the periods Process works on are the request's in the order of *)
(* their numbers, the first of them up to the limit; so the rank of a kept   *)
(* period is its place, and what is said of the places is said of the        *)
(* request.                                                                  *)
EXTENDS StabilizeProofs, RequestedVideo, FiniteSetTheorems

\* Periods the first pass has left behind lie behind the picture it grabs.
Passed == pc = "pass1" => \A k \in 1..swipe_index : si[k].end < frame_index

\* The first pass either came to the end of the video or to that of the last
\* period, and then the ends of all periods are recorded.
EndsRecorded == pc = "trajectory" => \/ Len(all) = length
                                     \/ \A k \in 1..Len(si) : si[k].end < Len(all)

\* Separated periods are never run past.
InTime == pc = "pass1" /\ Separated => frame_index =< t_frame_end

\* The background is as old as the period before.
Background ==
    pc = "pass1" /\ Separated /\ frame_index > 0 =>
        tck.start_frame = IF swipe_index = 0 THEN 0 ELSE si[swipe_index].end

OwnPeriod == Following /\ Separated => tck.period = swipe_index

\* PeriodsRecorded, as far as the first pass has come.
RecordedSoFar ==
    pc = "pass1" /\ Separated =>
        \A k \in 1..Len(si) : \A f \in Interior(k - 1) : f < frame_index => RecordOf(f, k)

Passing == Passed /\ EndsRecorded /\ InTime /\ Background /\ OwnPeriod
           /\ RecordedSoFar /\ PeriodsRecorded

-----------------------------------------------------------------------------
\* The kinds of steps, as far as these matter.
LEMMA Steps ==
    ASSUME [Next]_vars
    PROVE  \/ Records \/ SmoothPicture \/ NoMorePictures
           \/ pc' = pc /\ UNCHANGED <<si, length, frame_index, swipe_index, all, tck>>
           \/ pc' \notin {"pass1", "trajectory"}
  <1> USE DEF Return, given, vars
  <1>1. CASE Wait \/ NothingToTrack \/ UpdateUnstarted
    BY <1>1 DEF Wait, NothingToTrack, UpdateUnstarted
  <1>2. CASE NextTrajectory \/ SplineAborts \/ Overrun \/ MakeMargin
    BY <1>2 DEF NextTrajectory, SplineAborts, Overrun, MakeMargin, tracking
  <1>3. CASE SecondPass
    BY <1>3 DEF SecondPass, FirstPicture, WritePicture, ReadsBehindEnd, Finish, Again
  <1>4. CASE UNCHANGED vars
    BY <1>4 DEF tracking
  <1>5. QED BY <1>1, <1>2, <1>3, <1>4 DEF Next, FirstPass, MakeNewTrajectory, Records

\* The steps that record a picture.
LEMMA RecordSteps ==
    ASSUME TypeOK, Records
    PROVE  /\ UNCHANGED <<si, length>> /\ pc = "pass1" /\ frame_index < length
           /\ \/ /\ SkipPicture /\ pc' = pc /\ frame_index' = frame_index + 1
                 /\ swipe_index' = swipe_index /\ tck' = Seen
              \/ /\ StartPeriod /\ pc' = pc /\ frame_index' = frame_index + 1
                 /\ swipe_index' = swipe_index
                 /\ tck' = [Seen EXCEPT !.period = swipe_index]
              \/ /\ TrackPicture /\ NextPicture /\ pc' = pc
              \/ /\ TrackPicture /\ NextPeriod /\ pc' = pc
              \/ /\ TrackPicture /\ Final /\ pc' = "trajectory"
  <1> USE DEF given
  <1>1. CASE SkipPicture
    BY <1>1 DEF SkipPicture, Grabbed, InPeriod, Outside
  <1>2. CASE StartPeriod
    BY <1>2 DEF StartPeriod, AtStart, Grabbed, InPeriod, Outside
  <1>3. CASE TrackPicture
    <2>1. UNCHANGED <<si, length>> /\ pc = "pass1" /\ frame_index < length
      BY <1>3 DEF TrackPicture, Grabbed, InPeriod, Outside
    <2>2. NextPicture \/ NextPeriod \/ Final
      BY <1>3 DEF TrackPicture
    <2>3. (NextPicture \/ NextPeriod => pc' = pc) /\ (Final => pc' = "trajectory")
      BY DEF NextPicture, NextPeriod, Final
    <2>4. QED BY <1>3, <2>1, <2>2, <2>3
  <1>4. QED BY <1>1, <1>2, <1>3 DEF Records

\* The numbers the first pass counts with.
LEMMA LoopTypes ==
    ASSUME TypeOK
    PROVE  /\ frame_index \in Nat /\ length \in Nat /\ Len(si) \in Nat \ {0}
           /\ swipe_index \in 0..Len(si) /\ Len(all) \in Nat
           /\ pc = "pass1" => swipe_index + 1 \in 1..Len(si)
           /\ \A k \in 1..Len(si) : si[k].start \in Int /\ si[k].end \in Int
  <1>1. /\ frame_index \in Nat /\ length \in Nat /\ Len(si) \in Nat \ {0}
        /\ swipe_index \in 0..Len(si) /\ Len(all) \in Nat
    BY Constants, LenProperties DEF TypeOK, LoopOK, RecordOK
  <1>2. pc = "pass1" => swipe_index + 1 \in 1..Len(si)
    BY <1>1 DEF TypeOK, LoopOK
  <1>3. \A k \in 1..Len(si) : si[k].start \in Int /\ si[k].end \in Int
    BY PeriodTypes DEF TypeOK, LoopOK
  <1>4. QED BY <1>1, <1>2, <1>3

\* A picture that is followed lies in the period, and is not the first.
LEMMA InThePeriod ==
    ASSUME TypeOK, TrackPicture
    PROVE  /\ pc = "pass1" /\ swipe_index + 1 \in 1..Len(si)
           /\ si[swipe_index + 1].start < frame_index
           /\ frame_index =< si[swipe_index + 1].end
           /\ frame_index \in Nat \ {0}
  <1>1. pc = "pass1" /\ t_frame_start < frame_index /\ ~Outside
    BY DEF TrackPicture, InPeriod, Grabbed
  <1>2. swipe_index + 1 \in 1..Len(si) /\ frame_index \in Nat
    BY <1>1, LoopTypes
  <1>3. si[swipe_index + 1].start \in Int /\ si[swipe_index + 1].end \in Int
    BY <1>2, LoopTypes
  <1>4. QED BY <1>1, <1>2, <1>3 DEF Outside, t_frame_start, t_frame_end

\* A picture between separated periods comes before the next.
LEMMA BeforeThePeriod ==
    ASSUME TypeOK, Separated, SkipPicture, frame_index =< t_frame_end
    PROVE  frame_index < si[swipe_index + 1].start
  <1>1. pc = "pass1" /\ Outside
    BY DEF SkipPicture, Grabbed
  <1>2. swipe_index + 1 \in 1..Len(si) /\ frame_index \in Nat
    BY <1>1, LoopTypes
  <1>3. si[swipe_index + 1].start \in Int /\ si[swipe_index + 1].end \in Int
    BY <1>2, LoopTypes
  <1>4. 0 =< si[swipe_index + 1].start
    BY <1>2 DEF Separated
  <1>5. QED BY <1>1, <1>2, <1>3, <1>4 DEF Outside, t_frame_start, t_frame_end

-----------------------------------------------------------------------------
LEMMA KeepsPassed == TypeOK /\ Passed /\ [Next]_vars => Passed'
  <1> SUFFICES ASSUME TypeOK, Passed, [Next]_vars PROVE Passed'
    OBVIOUS
  <1> USE DEF Passed
  <1>1. CASE Records
    <2>1. CASE frame_index' = frame_index + 1 /\ swipe_index' = swipe_index /\ UNCHANGED si
      BY <1>1, <2>1, RecordSteps, LoopTypes
    <2>2. CASE TrackPicture /\ NextPeriod
      <3>1. frame_index = si[swipe_index + 1].end /\ frame_index' = frame_index + 1
            /\ swipe_index' = swipe_index + 1
        BY <2>2 DEF NextPeriod, t_frame_end
      <3>2. \A k \in 1..swipe_index + 1 : si[k].end < frame_index + 1
        <4>1. \A k \in 1..swipe_index : si[k].end < frame_index
          BY <1>1, RecordSteps
        <4>2. QED BY <3>1, <4>1, LoopTypes
      <3>3. QED BY <1>1, <3>1, <3>2, RecordSteps
    <2>3. CASE TrackPicture /\ NextPicture
      BY <1>1, <2>1, <2>3, RecordSteps DEF NextPicture
    <2>4. QED BY <1>1, <2>1, <2>2, <2>3, RecordSteps
  <1>2. CASE pc' = pc /\ UNCHANGED <<si, length, frame_index, swipe_index, all, tck>>
    BY <1>2
  <1>3. CASE SmoothPicture \/ NoMorePictures
    BY <1>3 DEF SmoothPicture, AtPeriod, NoMorePictures
  <1>4. QED BY <1>1, <1>2, <1>3, Steps

LEMMA KeepsEndsRecorded ==
    TypeOK /\ OneRecordPerPicture /\ Passed /\ EndsRecorded /\ [Next]_vars => EndsRecorded'
  <1> SUFFICES ASSUME TypeOK, OneRecordPerPicture, Passed, EndsRecorded, [Next]_vars
               PROVE  EndsRecorded'
    OBVIOUS
  <1> USE DEF EndsRecorded
  <1>1. CASE Records
    <2>1. CASE TrackPicture /\ Final
      <3>1. frame_index = si[swipe_index + 1].end /\ swipe_index + 1 = Len(si)
        BY <2>1 DEF Final, t_frame_end
      <3>2. Len(all') = frame_index + 1
        BY <1>1, Recording, RecordSteps DEF OneRecordPerPicture
      <3>3. \A k \in 1..swipe_index : si[k].end < frame_index
        BY <1>1, RecordSteps DEF Passed
      <3>4. \A k \in 1..Len(si) : si[k].end < frame_index + 1
        BY <3>1, <3>3, LoopTypes
      <3>5. QED BY <1>1, <3>2, <3>4, RecordSteps
    <2>2. QED BY <1>1, <2>1, RecordSteps
  <1>2. CASE SmoothPicture
    BY <1>2, Smoothing DEF SmoothPicture, AtPeriod, given
  <1>3. CASE NoMorePictures
    BY <1>3 DEF NoMorePictures, given, OneRecordPerPicture
  <1>4. CASE pc' = pc /\ UNCHANGED <<si, length, frame_index, swipe_index, all, tck>>
    BY <1>4
  <1>5. QED BY <1>1, <1>2, <1>3, <1>4, Steps

LEMMA KeepsInTime == TypeOK /\ InTime /\ [Next]_vars => InTime'
  <1> SUFFICES ASSUME TypeOK, InTime, [Next]_vars PROVE InTime'
    OBVIOUS
  <1> USE DEF InTime, t_frame_start, t_frame_end
  <1>1. CASE Records
    <2>0. SUFFICES ASSUME pc' = "pass1", Separated PROVE frame_index' =< t_frame_end'
      BY <1>1, RecordSteps DEF Separated
    <2>1. /\ frame_index =< t_frame_end /\ swipe_index + 1 \in 1..Len(si)
          /\ t_frame_start \in Int /\ t_frame_end \in Int /\ frame_index \in Nat
          /\ t_frame_start < t_frame_end /\ si' = si
      BY <1>1, <2>0, RecordSteps, LoopTypes DEF Separated
    <2>2. CASE SkipPicture
      <3>1. frame_index < si[swipe_index + 1].start
        BY <2>0, <2>1, <2>2, BeforeThePeriod
      <3>2. frame_index' = frame_index + 1 /\ swipe_index' = swipe_index
        BY <2>2 DEF SkipPicture
      <3>3. QED BY <2>1, <3>1, <3>2
    <2>3. CASE StartPeriod
      BY <1>1, <2>1, <2>3 DEF StartPeriod, AtStart
    <2>4. CASE TrackPicture /\ NextPicture
      BY <2>1, <2>4 DEF NextPicture
    <2>5. CASE TrackPicture /\ NextPeriod
      <3>1. /\ frame_index = si[swipe_index + 1].end /\ frame_index' = frame_index + 1
            /\ swipe_index' = swipe_index + 1 /\ swipe_index + 2 \in 1..Len(si)
        BY <2>1, <2>5, LoopTypes DEF NextPeriod
      <3>2. /\ si[swipe_index + 1].end < si[swipe_index + 2].start
            /\ si[swipe_index + 2].start < si[swipe_index + 2].end
        BY <2>0, <2>1, <3>1, LoopTypes DEF Separated
      <3>3. si[swipe_index + 2].start \in Int /\ si[swipe_index + 2].end \in Int
        BY <3>1, LoopTypes
      <3>4. t_frame_end' = si[swipe_index + 2].end
        BY <2>1, <3>1, LoopTypes
      <3>5. QED BY <2>1, <3>1, <3>2, <3>3, <3>4
    <2>6. QED BY <1>1, <2>0, <2>2, <2>3, <2>4, <2>5, RecordSteps
  <1>2. CASE pc' = pc /\ UNCHANGED <<si, length, frame_index, swipe_index, all, tck>>
    BY <1>2 DEF Separated
  <1>3. CASE SmoothPicture \/ NoMorePictures
    BY <1>3 DEF SmoothPicture, AtPeriod, NoMorePictures
  <1>4. QED BY <1>1, <1>2, <1>3, Steps

LEMMA KeepsBackground ==
    TypeOK /\ Passed /\ Background /\ [Next]_vars => Background'
  <1> SUFFICES ASSUME TypeOK, Passed, Background, [Next]_vars PROVE Background'
    OBVIOUS
  <1> USE DEF Background
  <1>1. CASE Records
    <2>0. SUFFICES ASSUME pc' = "pass1", Separated
                   PROVE  tck'.start_frame = IF swipe_index' = 0 THEN 0 ELSE si'[swipe_index'].end
      BY <1>1, RecordSteps DEF Separated
    <2>1. frame_index = 0 => swipe_index = 0
      <3>1. swipe_index # 0 => 1 \in 1..swipe_index /\ 1 \in 1..Len(si)
        BY LoopTypes
      <3>2. swipe_index # 0 => si[1].end < frame_index
        BY <1>1, <3>1, RecordSteps DEF Passed
      <3>3. 1 \in 1..Len(si) /\ si[1].start \in Int /\ si[1].end \in Int
        BY LoopTypes
      <3>4. 0 =< si[1].start /\ si[1].start < si[1].end
        BY <2>0, <3>3 DEF Separated
      <3>5. QED BY <3>2, <3>3, <3>4
    <2>2. Seen.start_frame = IF swipe_index = 0 THEN 0 ELSE si[swipe_index].end
      <3>1. CASE frame_index = 0
        BY <2>1, <3>1 DEF Seen, TypeOK, TrackOK
      <3>2. CASE frame_index # 0
        BY <1>1, <2>0, <3>2, RecordSteps, LoopTypes DEF Seen
      <3>3. QED BY <3>1, <3>2
    <2>3. Seen \in [period : Nat \cup {None}, start_frame : Nat \cup {None}, w : {RoiWidth}]
      BY DEF Seen, TypeOK, TrackOK
    <2>4. CASE tck' = Seen /\ swipe_index' = swipe_index
      BY <1>1, <2>2, <2>4, RecordSteps
    <2>5. CASE tck' = [Seen EXCEPT !.period = swipe_index] /\ swipe_index' = swipe_index
      BY <1>1, <2>2, <2>3, <2>5, RecordSteps
    <2>6. CASE TrackPicture /\ NextPicture
      <3>1. frame_index > 0
        BY <2>6, InThePeriod
      <3>2. tck' = tck /\ swipe_index' = swipe_index
        BY <2>6 DEF NextPicture
      <3>3. QED BY <1>1, <2>0, <3>1, <3>2, RecordSteps
    <2>7. CASE TrackPicture /\ NextPeriod
      <3>1. tck'.start_frame = frame_index
        BY <2>7 DEF NextPeriod, TypeOK, TrackOK
      <3>2. frame_index = si[swipe_index + 1].end /\ swipe_index' = swipe_index + 1
        BY <2>7 DEF NextPeriod, t_frame_end
      <3>3. swipe_index + 1 # 0 /\ si' = si
        BY <1>1, RecordSteps, LoopTypes
      <3>4. QED BY <3>1, <3>2, <3>3
    <2>8. QED BY <1>1, <2>0, <2>4, <2>5, <2>6, <2>7, RecordSteps
  <1>2. CASE pc' = pc /\ UNCHANGED <<si, length, frame_index, swipe_index, all, tck>>
    BY <1>2 DEF Separated
  <1>3. CASE SmoothPicture \/ NoMorePictures
    BY <1>3 DEF SmoothPicture, AtPeriod, NoMorePictures
  <1>4. QED BY <1>1, <1>2, <1>3, Steps

LEMMA KeepsOwnPeriod == TypeOK /\ InTime /\ OwnPeriod /\ [Next]_vars => OwnPeriod'
  <1> SUFFICES ASSUME TypeOK, InTime, OwnPeriod, [Next]_vars PROVE OwnPeriod'
    OBVIOUS
  <1> USE DEF OwnPeriod, Following, t_frame_start, t_frame_end
  <1>1. CASE Records
    <2>0. SUFFICES ASSUME Following', Separated PROVE tck'.period = swipe_index'
      BY <1>1, RecordSteps DEF Separated
    <2>1. /\ frame_index =< t_frame_end /\ swipe_index + 1 \in 1..Len(si)
          /\ t_frame_start \in Int /\ t_frame_end \in Int /\ frame_index \in Nat
          /\ si' = si
      BY <1>1, <2>0, RecordSteps, LoopTypes DEF InTime
    <2>2. CASE SkipPicture
      <3>1. frame_index < si[swipe_index + 1].start
        BY <2>0, <2>1, <2>2, BeforeThePeriod
      <3>2. frame_index' = frame_index + 1 /\ swipe_index' = swipe_index
        BY <2>2 DEF SkipPicture
      <3>3. QED BY <2>0, <2>1, <3>1, <3>2
    <2>3. CASE tck' = [Seen EXCEPT !.period = swipe_index] /\ swipe_index' = swipe_index
      <3>1. Seen \in [period : Nat \cup {None}, start_frame : Nat \cup {None}, w : {RoiWidth}]
        BY DEF Seen, TypeOK, TrackOK
      <3>2. QED BY <2>3, <3>1
    <2>4. CASE TrackPicture /\ NextPicture
      <3>1. Following
        BY <2>4, InThePeriod
      <3>2. QED BY <2>0, <2>4, <3>1 DEF NextPicture
    <2>5. CASE TrackPicture /\ NextPeriod
      <3>1. /\ frame_index = si[swipe_index + 1].end /\ frame_index' = frame_index + 1
            /\ swipe_index' = swipe_index + 1 /\ swipe_index + 2 \in 1..Len(si)
        BY <2>1, <2>5, LoopTypes DEF NextPeriod
      <3>2. si[swipe_index + 1].end < si[swipe_index + 2].start
        BY <2>0, <2>1, <3>1, LoopTypes DEF Separated
      <3>3. si[swipe_index + 2].start \in Int
        BY <3>1, LoopTypes
      <3>4. t_frame_start' = si[swipe_index + 2].start
        BY <2>1, <3>1, LoopTypes
      <3>5. QED BY <2>0, <2>1, <3>1, <3>2, <3>3, <3>4
    <2>6. QED BY <1>1, <2>0, <2>2, <2>3, <2>4, <2>5, RecordSteps
  <1>2. CASE pc' = pc /\ UNCHANGED <<si, length, frame_index, swipe_index, all, tck>>
    BY <1>2 DEF Separated
  <1>3. CASE SmoothPicture \/ NoMorePictures
    BY <1>3 DEF SmoothPicture, AtPeriod, NoMorePictures
  <1>4. QED BY <1>1, <1>2, <1>3, Steps

-----------------------------------------------------------------------------
\* A picture inside a period.
LEMMA InteriorType ==
    ASSUME TypeOK, NEW k \in 1..Len(si), NEW f \in Interior(k - 1)
    PROVE  /\ k \in Nat /\ f \in Nat
           /\ si[k].start \in Int /\ si[k].end \in Int
           /\ si[k].start < f /\ f < si[k].end
  <1>1. k \in Nat /\ k - 1 + 1 = k
    OBVIOUS
  <1>2. si[k].start \in Int /\ si[k].end \in Int
    BY LoopTypes
  <1>3. QED BY <1>1, <1>2 DEF Interior

\* Only one period is under way: a picture inside a period is grabbed while
\* that period is the current one, and is followed then.
LEMMA InsideCurrent ==
    ASSUME TypeOK, Passed, InTime, Separated, pc = "pass1",
           NEW k \in 1..Len(si), frame_index \in Interior(k - 1)
    PROVE  /\ k = swipe_index + 1
           /\ t_frame_start < frame_index /\ frame_index < t_frame_end
  <1>1. /\ k \in Nat /\ si[k].start \in Int /\ si[k].end \in Int /\ frame_index \in Nat
        /\ si[k].start < frame_index /\ frame_index < si[k].end
    BY InteriorType
  <1>2. swipe_index \in Nat /\ swipe_index + 1 \in 1..Len(si)
    BY LoopTypes
  <1>3. k \notin 1..swipe_index
    BY <1>1 DEF Passed
  <1>4. ~(swipe_index + 1 < k)
    <2>1. SUFFICES ASSUME swipe_index + 1 < k PROVE FALSE
      OBVIOUS
    <2>2. si[swipe_index + 1].end < si[k].start
      BY <1>2, <2>1 DEF Separated
    <2>3. frame_index =< si[swipe_index + 1].end /\ si[swipe_index + 1].end \in Int
      BY <1>2, LoopTypes DEF InTime, t_frame_end
    <2>4. QED BY <1>1, <2>2, <2>3
  <1>5. k = swipe_index + 1
    BY <1>1, <1>2, <1>3, <1>4
  <1>6. QED BY <1>1, <1>5 DEF t_frame_start, t_frame_end

\* What is recorded of a picture that is followed.
LEMMA RecordFollowed ==
    ASSUME TypeOK, TrackPicture, OneRecordPerPicture
    PROVE  /\ all'[frame_index + 1].onswipe # all'[frame_index + 1].remove
           /\ all'[frame_index + 1].swipe_order = swipe_index
  <1> DEFINE r == FrameInfo(Moves(obj'))
  <1>1. all' = Append(all, r)
    BY DEF TrackPicture
  <1>2. r.onswipe # r.remove /\ r.swipe_order = swipe_index
    BY DEF FrameInfo, Removed, Moved, Plain
  <1> HIDE DEF r
  <1>3. Len(all) = frame_index
    BY DEF TrackPicture, Grabbed, InPeriod, Outside, OneRecordPerPicture
  <1>4. all'[Len(all) + 1] = r
    <2>1. PICK q \in FrameInfos : all' = Append(all, q) /\ all'[Len(all) + 1] = q
      BY Recording DEF Records
    <2>2. r \in FrameInfos
      <3>1. obj' \in Points
        BY Constants DEF TrackPicture, SeenAt, TypeOK, TrackOK
      <3>2. Moves(obj') \in Points
        BY <3>1, PointTypes DEF Moves, TypeOK, TrackOK
      <3>3. swipe_index \in Nat
        BY DEF TypeOK, LoopOK
      <3>4. QED BY <3>2, <3>3, RecordTypes DEF FrameInfo, r
    <2>3. QED BY <1>1, <2>2, AppendProperties DEF TypeOK, RecordOK
  <1>5. QED BY <1>2, <1>3, <1>4

\* After a step that records a picture, each picture inside a separated period
\* that was grabbed carries its record.
LEMMA RecordingPeriods ==
    ASSUME TypeOK, OneRecordPerPicture, Passed, InTime, Separated, RecordedSoFar, Records,
           NEW k \in 1..Len(si), NEW f \in Interior(k - 1), f =< frame_index
    PROVE  RecordOf(f, k)'
  <1>0. k \in Nat /\ f \in Nat /\ frame_index \in Nat /\ Len(all) \in Nat /\ swipe_index \in Nat
    BY InteriorType, LoopTypes
  <1>1. pc = "pass1" /\ Len(all) = frame_index
    BY RecordSteps DEF OneRecordPerPicture
  <1>2. CASE f < frame_index
    <2>1. f + 1 \in 1..Len(all)
      BY <1>0, <1>1, <1>2
    <2>2. all'[f + 1] = all[f + 1]
      BY <2>1, Recording
    <2>3. RecordOf(f, k)
      BY <1>1, <1>2 DEF RecordedSoFar
    <2>4. QED BY <2>2, <2>3 DEF RecordOf
  <1>3. CASE f = frame_index
    <2>1. k = swipe_index + 1 /\ t_frame_start < frame_index /\ frame_index < t_frame_end
      BY <1>1, <1>3, InsideCurrent
    <2>2. t_frame_start \in Int /\ t_frame_end \in Int
      BY <1>1, LoopTypes DEF t_frame_start, t_frame_end
    <2>3. ~SkipPicture
      <3>1. SkipPicture => frame_index < si[swipe_index + 1].start
        BY <1>0, <2>1, <2>2, BeforeThePeriod
      <3>2. QED BY <1>0, <2>1, <2>2, <3>1 DEF t_frame_start
    <2>4. TrackPicture
      BY <1>0, <2>1, <2>2, <2>3 DEF Records, StartPeriod, AtStart
    <2>5. QED BY <1>0, <1>3, <2>1, <2>4, RecordFollowed DEF RecordOf
  <1>4. QED BY <1>0, <1>2, <1>3

LEMMA KeepsRecordedSoFar ==
    /\ TypeOK /\ OneRecordPerPicture /\ Passed /\ InTime /\ RecordedSoFar /\ [Next]_vars
    => RecordedSoFar'
  <1> SUFFICES ASSUME TypeOK, OneRecordPerPicture, Passed, InTime, RecordedSoFar, [Next]_vars
               PROVE  RecordedSoFar'
    OBVIOUS
  <1>1. CASE Records
    <2>0. SUFFICES ASSUME pc' = "pass1", Separated, NEW k \in 1..Len(si),
                          NEW f \in Interior(k - 1), f < frame_index'
                   PROVE  RecordOf(f, k)'
      BY <1>1, RecordSteps DEF RecordedSoFar, Separated, Interior
    <2>1. frame_index' = frame_index + 1
      BY <1>1, <2>0, RecordSteps DEF NextPicture, NextPeriod
    <2>2. f =< frame_index
      <3>1. f \in Nat
        BY InteriorType
      <3>2. QED BY <2>0, <2>1, <3>1, LoopTypes
    <2>3. QED BY <1>1, <2>0, <2>2, RecordingPeriods
  <1>2. CASE pc' = pc /\ UNCHANGED <<si, length, frame_index, swipe_index, all, tck>>
    BY <1>2 DEF RecordedSoFar, Separated, Interior, RecordOf
  <1>3. CASE SmoothPicture \/ NoMorePictures
    BY <1>3 DEF SmoothPicture, AtPeriod, NoMorePictures, RecordedSoFar
  <1>4. CASE pc' \notin {"pass1", "trajectory"}
    BY <1>4 DEF RecordedSoFar
  <1>5. QED BY <1>1, <1>2, <1>3, <1>4, Steps

LEMMA KeepsPeriodsRecorded ==
    /\ TypeOK /\ OneRecordPerPicture /\ Passed /\ EndsRecorded /\ InTime /\ RecordedSoFar
    /\ PeriodsRecorded /\ [Next]_vars
    => PeriodsRecorded'
  <1> SUFFICES ASSUME TypeOK, OneRecordPerPicture, Passed, EndsRecorded, InTime, RecordedSoFar,
                      PeriodsRecorded, [Next]_vars
               PROVE  PeriodsRecorded'
    OBVIOUS
  <1>1. CASE Records
    <2>0. SUFFICES ASSUME pc' = "trajectory", Separated, NEW k \in 1..Len(si),
                          NEW f \in Interior(k - 1)
                   PROVE  RecordOf(f, k)'
      BY <1>1, RecordSteps DEF PeriodsRecorded, Separated, Within, Interior
    <2>1. Final
      BY <1>1, <2>0, RecordSteps
    <2>2. frame_index = si[swipe_index + 1].end /\ swipe_index + 1 = Len(si)
      BY <2>1 DEF Final, t_frame_end
    <2>3. si[k].end =< frame_index
      <3>1. \A m \in 1..swipe_index : si[m].end < frame_index
        BY <1>1, RecordSteps DEF Passed
      <3>2. QED BY <2>2, <3>1, LoopTypes
    <2>4. f =< frame_index
      <3>1. f \in Nat /\ si[k].end \in Int /\ f < si[k].end
        BY InteriorType
      <3>2. QED BY <2>3, <3>1, LoopTypes
    <2>5. QED BY <1>1, <2>0, <2>4, RecordingPeriods
  <1>2. CASE SmoothPicture
    <2>0. SUFFICES ASSUME Separated, Within, NEW k \in 1..Len(si), NEW f \in Interior(k - 1)
                   PROVE  RecordOf(f, k)'
      BY <1>2 DEF SmoothPicture, given, PeriodsRecorded, Separated, Within, Interior
    <2>1. pc = "trajectory"
      BY <1>2 DEF SmoothPicture, AtPeriod
    <2>2. RecordOf(f, k)
      BY <2>0, <2>1 DEF PeriodsRecorded
    <2>3. f + 1 \in 1..Len(all)
      <3>1. \/ Len(all) = length
            \/ \A m \in 1..Len(si) : si[m].end < Len(all)
        BY <2>1 DEF EndsRecorded
      <3>2. si[k].end =< Len(all)
        BY <2>0, <3>1, LoopTypes DEF Within
      <3>3. f \in Nat /\ si[k].end \in Int /\ f < si[k].end
        BY InteriorType
      <3>4. QED BY <3>2, <3>3, LoopTypes
    <2>4. PICK new \in Points : \A j \in 1..Len(all) :
              all'[j] = IF j = Picture + 1 THEN [all[j] EXCEPT !.new = new] ELSE all[j]
      BY <1>2, Smoothing
    <2>5. all[f + 1] \in FrameInfos
      BY <2>3, ElementOfSeq DEF TypeOK, RecordOK
    <2>6. /\ all'[f + 1].onswipe = all[f + 1].onswipe
          /\ all'[f + 1].remove = all[f + 1].remove
          /\ all'[f + 1].swipe_order = all[f + 1].swipe_order
      BY <2>3, <2>4, <2>5 DEF FrameInfos
    <2>7. QED BY <2>2, <2>6 DEF RecordOf
  <1>3. CASE NoMorePictures
    <2>0. SUFFICES ASSUME Separated, Within PROVE FALSE
      BY <1>3 DEF NoMorePictures, given, PeriodsRecorded, Separated, Within
    <2>1. pc = "pass1" /\ frame_index = length
      BY <1>3 DEF NoMorePictures
    <2>2. QED BY <2>0, <2>1, LoopTypes DEF InTime, Within, t_frame_end
  <1>4. CASE pc' = pc /\ UNCHANGED <<si, length, frame_index, swipe_index, all, tck>>
    BY <1>4 DEF PeriodsRecorded, Separated, Within, Interior, RecordOf
  <1>5. CASE pc' \notin {"pass1", "trajectory"}
    BY <1>5 DEF PeriodsRecorded
  <1>6. QED BY <1>1, <1>2, <1>3, <1>4, <1>5, Steps

-----------------------------------------------------------------------------
LEMMA InitPassing == Init => Passing
  <1> SUFFICES ASSUME Init PROVE Passing
    OBVIOUS
  <1>0. TypeOK
    BY InitTypes
  <1>1. pc = "pass1" /\ frame_index = 0 /\ swipe_index = 0
    BY DEF Init
  <1>2. Passed /\ EndsRecorded /\ PeriodsRecorded /\ Background
    BY <1>1 DEF Passed, EndsRecorded, PeriodsRecorded, Background
  <1>3. InTime /\ OwnPeriod
    <2>1. si[1].start \in Int /\ si[1].end \in Int /\ 1 \in 1..Len(si)
      BY <1>0, LoopTypes
    <2>2. Separated => 0 =< si[1].start /\ si[1].start < si[1].end
      BY <2>1 DEF Separated
    <2>3. QED BY <1>1, <2>1, <2>2 DEF InTime, OwnPeriod, Following, t_frame_start, t_frame_end
  <1>4. RecordedSoFar
    <2>1. ASSUME NEW k \in 1..Len(si), NEW f \in Interior(k - 1)
          PROVE  ~(f < frame_index)
      <3>1. f \in Nat
        BY <1>0, InteriorType
      <3>2. QED BY <1>1, <3>1
    <2>2. QED BY <2>1 DEF RecordedSoFar
  <1>5. QED BY <1>2, <1>3, <1>4 DEF Passing

LEMMA KeepsPassing == Core /\ Passing /\ [Next]_vars => Passing'
  BY KeepsPassed, KeepsEndsRecorded, KeepsInTime, KeepsBackground, KeepsOwnPeriod,
     KeepsRecordedSoFar, KeepsPeriodsRecorded
  DEF Core, Passing

LEMMA PassingHolds == Spec => [](Core /\ Passing)
  <1>1. Init => Core /\ Passing
    BY InitCore, InitPassing
  <1>2. (Core /\ Passing) /\ [Next]_vars => (Core /\ Passing)'
    BY KeepsCore, KeepsPassing
  <1>3. QED BY <1>1, <1>2, PTL DEF Spec

\* MakeNewTrajectory uses no picture that was not recorded, for any periods
\* inside the video, in any order.
THEOREM TrajectoryRecorded == Spec => []TrajectoryInRange
  <1>1. Core /\ Passing => TrajectoryInRange
    <2>1. SUFFICES ASSUME Core, Passing, pc = "trajectory", Within, NEW k \in 1..Len(si)
                   PROVE  ~RunsAway(k - 1) /\ \A f \in Interior(k - 1) : Recorded(f)
      BY DEF TrajectoryInRange
    <2>2. TypeOK
      BY <2>1 DEF Core
    <2>3. \/ Len(all) = length
          \/ \A m \in 1..Len(si) : si[m].end < Len(all)
      BY <2>1 DEF Passing, EndsRecorded
    <2>4. si[k].end =< Len(all)
      BY <2>1, <2>2, <2>3, LoopTypes DEF Within
    <2>5. ASSUME NEW f \in Interior(k - 1) PROVE Recorded(f)
      <3>1. f \in Nat /\ si[k].end \in Int /\ f < si[k].end
        BY <2>1, <2>2, InteriorType
      <3>2. QED BY <2>2, <2>4, <3>1, LoopTypes DEF Recorded
    <2>6. ~RunsAway(k - 1)
      <3>1. k - 1 + 1 = k /\ si[k].start \in Int /\ si[k].end \in Int /\ length \in Nat
        BY <2>2, LoopTypes
      <3>2. 0 =< si[k].start /\ 0 =< si[k].end
        BY <2>1, <3>1 DEF Within
      <3>3. QED BY <3>1, <3>2 DEF RunsAway
    <2>7. QED BY <2>5, <2>6
  <1>2. QED BY <1>1, PassingHolds, PTL

\* Where the periods are separated, each is followed by the tracker started at
\* its own beginning, against the background of the period before.
THEOREM EachPeriodOwnTracker == Spec => []OwnTracker
  <1>1. Core /\ Passing => OwnTracker
    <2>1. SUFFICES ASSUME Core, Passing, Following, Separated
                   PROVE  /\ tck.period = swipe_index
                          /\ tck.start_frame = IF swipe_index = 0 THEN 0 ELSE si[swipe_index].end
      BY DEF OwnTracker
    <2>2. TypeOK
      BY <2>1 DEF Core
    <2>3. pc = "pass1" /\ frame_index > 0
      <3>1. pc = "pass1" /\ si[swipe_index + 1].start < frame_index
        BY <2>1 DEF Following, t_frame_start
      <3>2. /\ swipe_index + 1 \in 1..Len(si) /\ frame_index \in Nat
            /\ si[swipe_index + 1].start \in Int
        BY <2>2, <3>1, LoopTypes
      <3>3. 0 =< si[swipe_index + 1].start
        BY <2>1, <3>2 DEF Separated
      <3>4. QED BY <3>1, <3>2, <3>3
    <2>4. QED BY <2>1, <2>3 DEF Passing, OwnPeriod, Background
  <1>2. QED BY <1>1, PassingHolds, PTL

\* ... and every picture inside it carries its record when smoothing begins.
THEOREM EachPeriodRecorded == Spec => []PeriodsRecorded
  <1>1. Core /\ Passing => PeriodsRecorded
    BY DEF Passing
  <1>2. QED BY <1>1, PassingHolds, PTL

-----------------------------------------------------------------------------
\* The request and the periods made of it stay.
AsImported ==
    /\ request \in VideoRequests
    /\ \E periods \in Imported(request) : si = ConvertToParam(periods)

\* A picture that carries a movement lies in a period, its end included.
OnlyInside ==
    \A f \in 1..Len(all) : all[f].onswipe =>
        \E k \in 1..Len(si) : f - 1 \in si[k].start + 1..si[k].end

\* The tracker was started for this period, for one before or for none; right
\* after the start the object is where the target is.
StartedAt ==
    pc = "pass1" =>
        /\ tck.period < swipe_index + 1
        /\ tck.period = swipe_index =>
              /\ t_frame_start < frame_index
              /\ frame_index = t_frame_start + 1 /\ roi_input => obj = si[swipe_index + 1].target

Requesting == AsImported /\ OnlyInside /\ StartedAt

-----------------------------------------------------------------------------
\* What a step leaves alone.
LEMMA GivenStays == ASSUME [Next]_vars PROVE UNCHANGED given
  <1>1. CASE FirstPass
    BY <1>1 DEF FirstPass, Wait, SkipPicture, StartPeriod, NothingToTrack, TrackPicture,
                NoMorePictures, UpdateUnstarted
  <1>2. CASE MakeNewTrajectory
    BY <1>2 DEF MakeNewTrajectory, SmoothPicture, NextTrajectory, SplineAborts, Overrun, MakeMargin
  <1>3. CASE SecondPass
    BY <1>3 DEF SecondPass, FirstPicture, WritePicture, ReadsBehindEnd, Finish
  <1>4. QED BY <1>1, <1>2, <1>3 DEF Next, vars

LEMMA KeepsOnlyInside ==
    ASSUME TypeOK, OneRecordPerPicture, OnlyInside, [Next]_vars
    PROVE  OnlyInside'
  <1>0. Len(all) \in Nat /\ UNCHANGED <<si, length>>
    BY LenProperties, GivenStays DEF TypeOK, RecordOK, given
  <1>1. CASE Records
    <2>1. PICK r \in FrameInfos :
              /\ all' = Append(all, r)
              /\ Len(all') = Len(all) + 1
              /\ all'[Len(all) + 1] = r
              /\ \A j \in 1..Len(all) : all'[j] = all[j]
      BY <1>1, Recording
    <2>2. pc = "pass1" /\ Len(all) = frame_index
      BY <1>1, RecordSteps DEF OneRecordPerPicture
    <2>3. r.onswipe => \E k \in 1..Len(si) : frame_index \in si[k].start + 1..si[k].end
      <3>1. CASE SkipPicture \/ StartPeriod
        <4>1. Plain \in FrameInfos /\ ~Plain.onswipe
          BY RecordTypes, OriginType DEF Plain
        <4>2. all' = Append(all, Plain)
          BY <3>1 DEF SkipPicture, StartPeriod
        <4>3. all'[Len(all) + 1] = Plain
          BY <4>1, <4>2, AppendProperties DEF TypeOK, RecordOK
        <4>4. QED BY <2>1, <4>1, <4>3
      <3>2. CASE TrackPicture
        <4>1. t_frame_start < frame_index /\ frame_index =< t_frame_end
          BY <3>2, InThePeriod DEF t_frame_start, t_frame_end
        <4>2. swipe_index + 1 \in 1..Len(si) /\ frame_index \in Nat
          BY <2>2, LoopTypes
        <4>3. si[swipe_index + 1].start \in Int /\ si[swipe_index + 1].end \in Int
          BY <4>2, LoopTypes
        <4>4. frame_index \in si[swipe_index + 1].start + 1..si[swipe_index + 1].end
          BY <4>1, <4>2, <4>3 DEF t_frame_start, t_frame_end
        <4>5. QED BY <4>2, <4>4
      <3>3. QED BY <1>1, <3>1, <3>2 DEF Records
    <2>4. SUFFICES ASSUME NEW f \in 1..Len(all'), all'[f].onswipe
                   PROVE  \E k \in 1..Len(si) : f - 1 \in si[k].start + 1..si[k].end
      BY <1>0 DEF OnlyInside
    <2>5. CASE f \in 1..Len(all)
      BY <2>1, <2>4, <2>5 DEF OnlyInside
    <2>6. CASE f = Len(all) + 1
      <3>1. f - 1 = frame_index
        BY <1>0, <2>2, <2>6
      <3>2. QED BY <2>1, <2>3, <2>4, <2>6, <3>1
    <2>7. QED BY <1>0, <2>1, <2>4, <2>5, <2>6
  <1>2. CASE SmoothPicture
    <2>1. PICK new \in Points : \A j \in 1..Len(all) :
              all'[j] = IF j = Picture + 1 THEN [all[j] EXCEPT !.new = new] ELSE all[j]
      BY <1>2, Smoothing
    <2>2. Len(all') = Len(all)
      BY <1>2, Smoothing
    <2>3. \A j \in 1..Len(all) : all[j] \in FrameInfos
      BY ElementOfSeq DEF TypeOK, RecordOK
    <2>4. \A j \in 1..Len(all) : all'[j].onswipe = all[j].onswipe
      BY <2>1, <2>3 DEF FrameInfos
    <2>5. QED BY <1>0, <2>2, <2>4 DEF OnlyInside
  <1>3. CASE UNCHANGED all
    BY <1>0, <1>3 DEF OnlyInside
  <1>4. QED BY <1>1, <1>2, <1>3, NotRecording DEF vars

\* The tracker's start, step by step of the first pass.
LEMMA KeepsStartedAt ==
    ASSUME TypeOK, StartedAt, [Next]_vars
    PROVE  StartedAt'
  <1>0. /\ UNCHANGED <<si, roi_input>> /\ swipe_index \in Nat /\ frame_index \in Nat
        /\ pc = "pass1" => t_frame_start \in Int
    <2>1. UNCHANGED <<si, roi_input>> /\ swipe_index \in Nat /\ frame_index \in Nat
      BY GivenStays, LoopTypes DEF given
    <2>2. pc = "pass1" => t_frame_start \in Int
      BY LoopTypes DEF t_frame_start
    <2>3. QED BY <2>1, <2>2
  <1>t. tck \in [period : Nat \cup {None}, start_frame : Nat \cup {None}, w : {RoiWidth}]
    BY DEF TypeOK, TrackOK
  <1>p. tck.period \in Int /\ Seen.period = tck.period
    BY <1>t DEF Seen, None
  <1>1. CASE SkipPicture
    <2>1. /\ pc = "pass1" /\ pc' = pc /\ swipe_index' = swipe_index /\ obj' = obj
          /\ frame_index' = frame_index + 1 /\ tck' = Seen
      BY <1>1 DEF SkipPicture, Grabbed, InPeriod, Outside
    <2>2. t_frame_start' = t_frame_start
      BY <1>0, <2>1 DEF t_frame_start
    <2>3. QED BY <1>0, <1>p, <2>1, <2>2 DEF StartedAt
  <1>2. CASE StartPeriod
    <2>1. /\ pc = "pass1" /\ pc' = pc /\ swipe_index' = swipe_index /\ obj' \in StartsAt
          /\ frame_index' = frame_index + 1 /\ tck' = [Seen EXCEPT !.period = swipe_index]
          /\ frame_index = t_frame_start
      BY <1>2 DEF StartPeriod, AtStart, Grabbed, InPeriod, Outside
    <2>2. t_frame_start' = t_frame_start /\ (roi_input => obj' = si[swipe_index + 1].target)
      BY <1>0, <2>1 DEF t_frame_start, StartsAt
    <2>3. Seen \in [period : Nat \cup {None}, start_frame : Nat \cup {None}, w : {RoiWidth}]
      BY <1>t DEF Seen
    <2>4. tck'.period = swipe_index
      BY <2>1, <2>3
    <2>5. QED BY <1>0, <2>1, <2>2, <2>4 DEF StartedAt
  <1>3. CASE TrackPicture
    <2>1. pc = "pass1" /\ t_frame_start < frame_index
      BY <1>3 DEF TrackPicture, Grabbed, InPeriod, Outside
    <2>2. CASE NextPicture
      <3>1. /\ pc' = pc /\ swipe_index' = swipe_index /\ tck' = tck
            /\ frame_index' = frame_index + 1
        BY <2>2 DEF NextPicture
      <3>2. t_frame_start' = t_frame_start
        BY <1>0, <3>1 DEF t_frame_start
      <3>3. frame_index' # t_frame_start' + 1 /\ t_frame_start' < frame_index'
        BY <1>0, <2>1, <3>1, <3>2
      <3>4. QED BY <2>1, <3>1, <3>3 DEF StartedAt
    <2>3. CASE NextPeriod
      <3>1. swipe_index' = swipe_index + 1 /\ tck'.period = tck.period
        BY <2>3, <1>t DEF NextPeriod
      <3>2. tck.period < swipe_index + 1
        BY <2>1 DEF StartedAt
      <3>3. tck'.period < swipe_index' + 1 /\ tck'.period # swipe_index'
        BY <1>0, <1>p, <3>1, <3>2
      <3>4. QED BY <3>3 DEF StartedAt
    <2>4. CASE Final
      BY <2>4 DEF Final, StartedAt
    <2>5. QED BY <1>3, <2>2, <2>3, <2>4 DEF TrackPicture
  <1>4. CASE pc' = "pass1" /\ ~Records
    <2>1. UNCHANGED <<pc, frame_index, swipe_index, tck, obj>>
      <3>1. CASE Wait \/ NothingToTrack \/ NoMorePictures \/ UpdateUnstarted
        BY <1>4, <3>1 DEF Wait, NothingToTrack, NoMorePictures, UpdateUnstarted, Return
      <3>2. CASE MakeNewTrajectory
        BY <1>4, <3>2 DEF MakeNewTrajectory, SmoothPicture, NextTrajectory, SplineAborts, Overrun,
              MakeMargin, Return, AtPeriod
      <3>3. CASE SecondPass
        BY <1>4, <3>3 DEF SecondPass, FirstPicture, WritePicture, ReadsBehindEnd, Finish, Return,
              Again
      <3>4. CASE UNCHANGED vars
        BY <3>4 DEF vars, tracking
      <3>5. QED BY <1>4, <3>1, <3>2, <3>3, <3>4 DEF Next, FirstPass, Records
    <2>2. QED BY <1>0, <2>1 DEF StartedAt, t_frame_start
  <1>5. QED BY <1>1, <1>2, <1>3, <1>4 DEF Records, StartedAt

-----------------------------------------------------------------------------
\* The periods of a request.
AskedOf(r) == {r.periods[k] : k \in DOMAIN r.periods}
Periods == [no : Int, start : Int, end : Int, target : Int \X Int, zoom : Int]

\* How many of n periods a limit leaves; a negative one leaves none.
Left(r) == IF r.limit = 0 \/ Len(r.periods) < r.limit THEN Len(r.periods) ELSE r.limit

LEMMA RequestTypes ==
    ASSUME NEW r \in VideoRequests
    PROVE  /\ r.periods \in Seq(Periods) /\ r.limit \in Int
           /\ Len(r.periods) \in Nat /\ DOMAIN r.periods = 1..Len(r.periods)
           /\ \A k \in 1..Len(r.periods) : r.periods[k] \in Periods
  <1>1. r.periods \in Seq(Periods) /\ r.limit \in Int
    BY RequestedVideoAssumption DEF Periods
  <1>2. QED BY <1>1, LenProperties

\* What is handed to Dove: the first of the sorted periods, none of them
\* rejected, and the middle of the picture where a target is missing.
LEMMA ImportedPeriods ==
    ASSUME NEW r \in VideoRequests, NEW ps \in Imported(r)
    PROVE  \E q \in InOrder(r.periods) :
              /\ Left(r) \in 1..Len(r.periods) /\ DOMAIN ps = 1..Left(r)
              /\ \A k \in 1..Left(r) :
                    /\ ps[k].start = q[k].start /\ ps[k].end = q[k].end
                    /\ ~Rejected(q[k].target)
                    /\ ps[k].target = IF NoTarget(q[k].target) THEN DefaultTarget ELSE q[k].target
  <1> DEFINE n == Len(r.periods)
             L == Left(r)
  <1>0. n \in Nat /\ DOMAIN r.periods = 1..n /\ r.limit \in Int /\ L \in Int /\ L =< n
    BY RequestTypes DEF Left
  <1>1. PICK q \in InOrder(r.periods) : /\ ps = WithTargets(Limited(q, r.limit))
                                        /\ Verdict(r, Limited(q, r.limit)) = ERR_NONE
    BY DEF Imported
  <1>2. q \in Seq(Periods) /\ Len(q) = n /\ DOMAIN q = 1..n /\ \A k \in 1..n : q[k] \in Periods
    <2>1. PICK f \in Bijection(DOMAIN r.periods, DOMAIN r.periods) :
              q = [k \in DOMAIN r.periods |-> r.periods[f[k]]]
      BY DEF InOrder
    <2>2. f \in [1..n -> 1..n]
      BY <1>0, <2>1 DEF Bijection, Injection
    <2>3. \A k \in 1..n : r.periods[f[k]] \in Periods
      BY <2>2, RequestTypes
    <2>4. q = [k \in 1..n |-> r.periods[f[k]]]
      BY <1>0, <2>1
    <2>5. q \in [1..n -> Periods]
      BY <2>3, <2>4
    <2>6. q \in Seq(Periods) /\ DOMAIN q = 1..n /\ Len(q) = n
      BY <1>0, <2>5
    <2>7. QED BY <2>5, <2>6
  <1> DEFINE p == Limited(q, r.limit)
  <1>3. p # <<>> /\ \A k \in DOMAIN p : ~Rejected(p[k].target)
    BY <1>1 DEF Verdict, ERR_NONE
  <1>4. L \in 1..n /\ DOMAIN p = 1..L /\ \A k \in 1..L : p[k] = q[k]
    <2>1. CASE r.limit = 0 \/ n < r.limit
      <3>1. p = q /\ L = n
        BY <1>0, <1>2, <2>1 DEF Limited, Left
      <3>2. n # 0
        BY <1>2, <1>3, <3>1, EmptySeq
      <3>3. QED BY <1>0, <1>2, <3>1, <3>2
    <2>2. CASE ~(r.limit = 0 \/ n < r.limit)
      <3>1. p = SubSeq(q, 1, L) /\ L = r.limit
        BY <1>0, <1>2, <2>2 DEF Limited, Left
      <3>2. L >= 1
        <4>1. SUFFICES ASSUME L < 1 PROVE FALSE
          BY <1>0
        <4>2. SubSeq(q, 1, L) = <<>>
          BY <1>0, <1>2, <4>1, SubSeqEmpty
        <4>3. QED BY <1>3, <3>1, <4>2
      <3>3. \A j \in 1..L : q[j] \in Periods
        BY <1>0, <1>2
      <3>4. /\ SubSeq(q, 1, L) \in Seq(Periods) /\ Len(SubSeq(q, 1, L)) = L
            /\ \A k \in 1..L : SubSeq(q, 1, L)[k] = q[1 + k - 1]
        BY <1>0, <3>2, <3>3, SubSeqProperties
      <3>5. QED BY <1>0, <3>1, <3>2, <3>4, LenProperties
    <2>3. QED BY <2>1, <2>2
  <1> HIDE DEF p, L, n
  <1>5. ps = WithTargets(p)
    BY <1>1 DEF p
  <1>6. DOMAIN ps = 1..L /\ \A k \in 1..L :
            ps[k] = IF NoTarget(q[k].target) THEN [q[k] EXCEPT !.target = DefaultTarget] ELSE q[k]
    BY <1>4, <1>5 DEF WithTargets
  <1>7. \A k \in 1..L : q[k] \in Periods
    BY <1>0, <1>2, <1>4
  <1>8. ASSUME NEW k \in 1..L
        PROVE  /\ ps[k].start = q[k].start /\ ps[k].end = q[k].end
               /\ ps[k].target = IF NoTarget(q[k].target) THEN DefaultTarget ELSE q[k].target
    <2>1. CASE NoTarget(q[k].target)
      <3>1. ps[k] = [q[k] EXCEPT !.target = DefaultTarget]
        BY <1>6, <2>1
      <3>2. QED BY <1>7, <2>1, <3>1 DEF Periods
    <2>2. CASE ~NoTarget(q[k].target)
      BY <1>6, <2>2
    <2>3. QED BY <2>1, <2>2
  <1>9. \A k \in 1..L : ~Rejected(q[k].target)
    BY <1>3, <1>4
  <1>10. QED BY <1>4, <1>6, <1>8, <1>9 DEF L, n

-----------------------------------------------------------------------------
\* The sorted periods of an orderly request: each of them once, by rising
\* number, so that the place of one is its rank.
LEMMA SortedPeriods ==
    ASSUME request \in VideoRequests, Orderly, NEW q \in InOrder(request.periods)
    PROVE  LET n == Len(request.periods)
           IN  /\ \A k \in 1..n : q[k] \in Asked /\ q[k] \in Periods
               /\ \A p \in Asked : \E k \in 1..n : q[k] = p
               /\ \A j, k \in 1..n : j < k => q[j].no < q[k].no
  <1> DEFINE ps == request.periods
             n == Len(ps)
  <1>0. n \in Nat /\ DOMAIN ps = 1..n /\ \A k \in 1..n : ps[k] \in Periods
    BY RequestTypes
  <1>1. PICK g \in Bijection(1..n, 1..n) :
            /\ q = [k \in 1..n |-> ps[g[k]]]
            /\ \A j, k \in 1..n : j < k => ps[g[j]].no =< ps[g[k]].no
    BY <1>0 DEF InOrder
  <1>2. /\ g \in [1..n -> 1..n] /\ \A k \in 1..n : \E j \in 1..n : g[j] = k
        /\ \A j, k \in 1..n : g[j] = g[k] => j = k
    BY <1>1 DEF Bijection, Injection, Surjection, IsInjective
  <1>3. Asked = {ps[k] : k \in 1..n}
    BY <1>0 DEF Asked
  <1>a. Cardinality(Asked) = n /\ \A p, p2 \in Asked : p # p2 => p.no # p2.no
    BY DEF Orderly
  <1> HIDE DEF n, ps
  <1>4. \A j, k \in 1..n : ps[j] = ps[k] => j = k
    <2> DEFINE f == [k \in 1..n |-> ps[k]]
    <2>1. f \in Surjection(1..n, Asked)
      <3>1. f \in [1..n -> Asked]
        BY <1>3
      <3>2. \A p \in Asked : \E k \in 1..n : f[k] = p
        BY <1>3
      <3>3. QED BY <3>1, <3>2 DEF Surjection
    <2>2. IsFiniteSet(1..n) /\ Cardinality(1..n) = n
      <3>1. /\ IsFiniteSet(1..n)
            /\ Cardinality(1..n) = IF 1 > n THEN 0 ELSE n - 1 + 1
        BY <1>0, FS_Interval
      <3>2. QED BY <1>0, <3>1
    <2> HIDE DEF f
    <2>3. f \in Injection(1..n, Asked)
      BY <1>a, <2>1, <2>2, FS_Surjection
    <2>4. \A j, k \in 1..n : f[j] = f[k] => j = k
      BY <2>3 DEF Injection, IsInjective
    <2>5. QED BY <2>4 DEF f
  <1>5. \A k \in 1..n : q[k] = ps[g[k]] /\ g[k] \in 1..n
    BY <1>1, <1>2
  <1>6. \A k \in 1..n : q[k] \in Asked /\ q[k] \in Periods
    BY <1>0, <1>3, <1>5
  <1>7. ASSUME NEW p \in Asked PROVE \E k \in 1..n : q[k] = p
    <2>1. PICK m \in 1..n : p = ps[m]
      BY <1>3
    <2>2. PICK k \in 1..n : g[k] = m
      BY <1>2
    <2>3. QED BY <1>5, <2>1, <2>2
  <1>8. ASSUME NEW j \in 1..n, NEW k \in 1..n, j < k PROVE q[j].no < q[k].no
    <2>1. q[j] # q[k]
      <3>1. SUFFICES ASSUME q[j] = q[k] PROVE FALSE
        OBVIOUS
      <3>2. g[j] = g[k]
        BY <1>4, <1>5, <3>1
      <3>3. j = k
        BY <1>2, <3>2
      <3>4. QED BY <1>0, <1>8, <3>3
    <2>2. q[j].no # q[k].no
      BY <1>6, <1>a, <2>1
    <2>3. q[j].no =< q[k].no
      BY <1>1, <1>5, <1>8
    <2>4. q[j].no \in Int /\ q[k].no \in Int
      BY <1>6 DEF Periods
    <2>5. QED BY <2>2, <2>3, <2>4
  <1>9. QED BY <1>6, <1>7, <1>8 DEF n, ps

LEMMA RankIsPlace ==
    ASSUME request \in VideoRequests, Orderly, NEW q \in InOrder(request.periods),
           NEW k \in 1..Len(request.periods)
    PROVE  Rank(q[k]) = k
  <1> DEFINE n == Len(request.periods)
             T == {p \in Asked : p.no =< q[k].no}
  <1>0. n \in Nat
    BY RequestTypes
  <1>1. /\ \A j \in 1..n : q[j] \in Asked /\ q[j].no \in Int
        /\ \A p \in Asked : \E j \in 1..n : q[j] = p
        /\ \A j, m \in 1..n : j < m => q[j].no < q[m].no
    BY SortedPeriods DEF Periods
  <1> DEFINE f == [j \in 1..k |-> q[j]]
  <1> HIDE DEF n
  <1>k. k \in 1..n
    BY DEF n
  <1>2. \A j \in 1..k : j \in 1..n
    BY <1>0, <1>k
  <1>3. f \in [1..k -> T]
    <2>1. ASSUME NEW j \in 1..k PROVE q[j] \in T
      <3>1. j = k \/ j < k
        BY <1>0, <1>k
      <3>2. q[j].no =< q[k].no
        BY <1>1, <1>2, <1>k, <3>1
      <3>3. QED BY <1>1, <1>2, <3>2
    <2>2. QED BY <2>1
  <1>4. \A p \in T : \E j \in 1..k : f[j] = p
    <2>1. SUFFICES ASSUME NEW p \in T PROVE \E j \in 1..k : q[j] = p
      OBVIOUS
    <2>2. PICK j \in 1..n : q[j] = p
      BY <1>1
    <2>3. ~(k < j)
      <3>1. SUFFICES ASSUME k < j PROVE FALSE
        OBVIOUS
      <3>2. q[k].no < q[j].no /\ q[j].no =< q[k].no
        BY <1>1, <1>k, <2>2, <3>1
      <3>3. QED BY <1>1, <1>k, <3>2
    <2>4. j \in 1..k
      BY <1>0, <1>k, <2>3
    <2>5. QED BY <2>2, <2>4
  <1>5. \A j, m \in 1..k : f[j] = f[m] => j = m
    <2>1. SUFFICES ASSUME NEW j \in 1..k, NEW m \in 1..k, q[j] = q[m] PROVE j = m
      OBVIOUS
    <2>2. ~(q[j].no < q[m].no) /\ ~(q[m].no < q[j].no)
      BY <1>1, <1>2, <2>1
    <2>3. ~(j < m) /\ ~(m < j)
      BY <1>1, <1>2, <2>2
    <2>4. QED BY <2>3
  <1>6. f \in Bijection(1..k, T)
    BY <1>3, <1>4, <1>5 DEF Bijection, Injection, Surjection, IsInjective
  <1>7. ExistsBijection(1..k, T)
    BY <1>6 DEF ExistsBijection
  <1>8. k \in Nat
    BY <1>0, <1>k
  <1> HIDE DEF f, T
  <1>9. Cardinality(T) = k
    BY <1>7, <1>8, FS_CountingElements
  <1>10. QED BY <1>9 DEF Rank, T

-----------------------------------------------------------------------------
\* The periods Process works on.
LEMMA SwipePeriods ==
    ASSUME TypeOK, AsImported
    PROVE  \E q \in InOrder(request.periods) :
              /\ Left(request) \in 1..Len(request.periods) /\ Len(si) = Left(request)
              /\ \A k \in 1..Len(si) :
                    /\ si[k].start = q[k].start /\ si[k].end = q[k].end
                    /\ ~Rejected(q[k].target)
                    /\ si[k].target = TrackerPoint(IF NoTarget(q[k].target) THEN DefaultTarget
                                                                            ELSE q[k].target)
  <1>1. PICK ps \in Imported(request) : si = ConvertToParam(ps)
    BY DEF AsImported
  <1>2. PICK q \in InOrder(request.periods) :
            /\ Left(request) \in 1..Len(request.periods) /\ DOMAIN ps = 1..Left(request)
            /\ \A k \in 1..Left(request) :
                  /\ ps[k].start = q[k].start /\ ps[k].end = q[k].end
                  /\ ~Rejected(q[k].target)
                  /\ ps[k].target = IF NoTarget(q[k].target) THEN DefaultTarget ELSE q[k].target
    BY <1>1, ImportedPeriods DEF AsImported
  <1>3. /\ DOMAIN si = 1..Left(request)
        /\ \A k \in 1..Left(request) : /\ si[k].start = ps[k].start /\ si[k].end = ps[k].end
                                       /\ si[k].target = TrackerPoint(ps[k].target)
    BY <1>1, <1>2 DEF ConvertToParam
  <1>4. Len(si) = Left(request)
    <2>1. Len(si) \in Nat /\ DOMAIN si = 1..Len(si)
      BY Constants, LenProperties DEF TypeOK, LoopOK
    <2>2. Left(request) \in Nat
      BY <1>2, RequestTypes DEF AsImported
    <2>3. 1..Len(si) = 1..Left(request)
      BY <1>3, <2>1
    <2>4. QED BY <2>1, <2>2, <2>3
  <1>5. QED BY <1>2, <1>3, <1>4

\* ... are separated and inside the video if the request is orderly, and are
\* its kept periods by their rank.
LEMMA KeptPeriods ==
    ASSUME TypeOK, AsImported, Orderly
    PROVE  /\ Separated /\ Within
           /\ \A p \in Asked : Kept(p) => /\ Rank(p) \in 1..Len(si)
                                          /\ si[Rank(p)].start = p.start
                                          /\ si[Rank(p)].end = p.end
           /\ \A k \in 1..Len(si) : \E p \in Asked :
                 Kept(p) /\ si[k].start = p.start /\ si[k].end = p.end
  <1> DEFINE n == Len(request.periods)
  <1>1. PICK q \in InOrder(request.periods) :
            /\ Left(request) \in 1..n /\ Len(si) = Left(request)
            /\ \A k \in 1..Len(si) : si[k].start = q[k].start /\ si[k].end = q[k].end
    BY SwipePeriods
  <1>r. request \in VideoRequests
    BY DEF AsImported
  <1>2. n \in Nat /\ Len(si) \in 1..n /\ request.limit \in Int
    BY <1>1, <1>r, RequestTypes
  <1>3. /\ \A k \in 1..n : q[k] \in Asked /\ q[k] \in Periods
        /\ \A p \in Asked : \E k \in 1..n : q[k] = p
        /\ \A j, k \in 1..n : j < k => q[j].no < q[k].no
    BY <1>r, SortedPeriods
  <1>4. \A k \in 1..n : Rank(q[k]) = k
    BY <1>r, RankIsPlace
  <1>5. \A k \in 1..Len(si) : k \in 1..n
    BY <1>2
  <1>6. /\ \A p \in Asked : 0 =< p.start /\ p.start < p.end /\ p.end < length
        /\ \A p, p2 \in Asked : p.no < p2.no => p.end < p2.start
    BY DEF Orderly
  <1>7. Separated
    BY <1>1, <1>3, <1>5, <1>6 DEF Separated
  <1>8. Within
    <2>1. SUFFICES ASSUME NEW k \in 1..Len(si)
                   PROVE  0 =< si[k].start /\ si[k].end \in 0..length - 1
      BY DEF Within
    <2>2. si[k].start \in Int /\ si[k].end \in Int /\ length \in Nat
      BY LoopTypes
    <2>3. 0 =< si[k].start /\ si[k].start < si[k].end /\ si[k].end < length
      BY <1>1, <1>3, <1>5, <1>6
    <2>4. QED BY <2>2, <2>3
  <1>9. \A k \in 1..n : k \in 1..Len(si) <=> Kept(q[k])
    <2>1. SUFFICES ASSUME NEW k \in 1..n PROVE k \in 1..Len(si) <=> Kept(q[k])
      OBVIOUS
    <2>2. Kept(q[k]) <=> request.limit = 0 \/ k =< request.limit
      BY <1>4 DEF Kept
    <2>3. Len(si) = IF request.limit = 0 \/ n < request.limit THEN n ELSE request.limit
      BY <1>1 DEF Left
    <2>4. QED BY <1>2, <2>2, <2>3
  <1>10. ASSUME NEW p \in Asked, Kept(p)
         PROVE  /\ Rank(p) \in 1..Len(si)
                /\ si[Rank(p)].start = p.start /\ si[Rank(p)].end = p.end
    <2>1. PICK k \in 1..n : q[k] = p
      BY <1>3
    <2>2. k \in 1..Len(si) /\ Rank(p) = k
      BY <1>4, <1>9, <1>10, <2>1
    <2>3. QED BY <1>1, <2>1, <2>2
  <1>11. ASSUME NEW k \in 1..Len(si)
         PROVE  \E p \in Asked : Kept(p) /\ si[k].start = p.start /\ si[k].end = p.end
    <2>1. k \in 1..n /\ q[k] \in Asked /\ Kept(q[k])
      BY <1>3, <1>5, <1>9
    <2>2. QED BY <1>1, <2>1
  <1>12. QED BY <1>7, <1>8, <1>10, <1>11

\* Where a tracker starts that is given a target inside the picture.
LEMMA ScaledTarget ==
    ASSUME NEW v \in Int, NEW w \in Nat \ {0}, -1 =< v, v < w
    PROVE  Quotient(v, TrackScale) * TrackScale \in 0..w - 1
  <1>0. TrackScale \in Nat \ {0} /\ TrackScale > 1
    BY RequestedVideoAssumption, Constants
  <1>1. CASE v < 0
    <2>1. v = -1 /\ -v = 1
      BY <1>1
    <2>2. 1 \div TrackScale = 0
      <3>1. 1 < (0 + 1) * TrackScale
        BY <1>0
      <3>2. 1 \div TrackScale =< 0
        BY <1>0, <3>1, QuotientAtMost
      <3>3. 1 \div TrackScale \in Nat
        BY <1>0, DivisionBounds
      <3>4. QED BY <3>2, <3>3
    <2>3. Quotient(v, TrackScale) = 0
      BY <2>1, <2>2 DEF Quotient
    <2>4. 0 * TrackScale = 0 /\ 0 \in 0..w - 1
      BY <1>0
    <2>5. QED BY <2>3, <2>4
  <1>2. CASE ~(v < 0)
    <2>1. v \in Nat
      BY <1>2
    <2>2. PICK k \in Nat : k = v \div TrackScale /\ k * TrackScale =< v
      BY <1>0, <2>1, DivisionBounds
    <2>3. k * TrackScale \in Nat
      BY <1>0
    <2>4. Quotient(v, TrackScale) = k
      BY <1>2, <2>2 DEF Quotient
    <2>5. QED BY <2>1, <2>2, <2>3, <2>4
  <1>3. QED BY <1>1, <1>2

-----------------------------------------------------------------------------
LEMMA InitRequesting == RInit => Init /\ Requesting
  <1> SUFFICES ASSUME RInit PROVE Requesting
    BY DEF RInit
  <1>1. AsImported
    BY DEF RInit, AsImported
  <1>2. Init /\ TypeOK
    BY InitTypes DEF RInit
  <1>3. OnlyInside
    <2>1. all = <<>> /\ Len(<<>>) = 0 /\ 1..0 = {}
      BY <1>2, EmptySeq DEF Init
    <2>2. QED BY <2>1 DEF OnlyInside
  <1>4. StartedAt
    <2>1. tck.period = -1 /\ swipe_index = 0
      BY <1>2 DEF Init, None
    <2>2. tck.period < swipe_index + 1 /\ tck.period # swipe_index
      BY <2>1
    <2>3. QED BY <2>2 DEF StartedAt
  <1>5. QED BY <1>1, <1>3, <1>4 DEF Requesting

LEMMA KeepsRequesting ==
    Core /\ Requesting /\ [RNext]_<<vars, request>> => Requesting' /\ [Next]_vars
  <1> SUFFICES ASSUME Core, Requesting, [RNext]_<<vars, request>>
               PROVE  Requesting' /\ [Next]_vars
    OBVIOUS
  <1>1. [Next]_vars /\ request' = request
    BY DEF RNext
  <1>2. si' = si
    BY <1>1, GivenStays DEF given
  <1>3. AsImported'
    BY <1>1, <1>2 DEF Requesting, AsImported
  <1>4. OnlyInside' /\ StartedAt'
    BY <1>1, KeepsOnlyInside, KeepsStartedAt DEF Requesting, Core
  <1>5. QED BY <1>1, <1>3, <1>4 DEF Requesting

LEMMA RequestingHolds == RSpec => [](Core /\ Passing /\ Requesting)
  <1>1. RInit => Core /\ Passing /\ Requesting
    BY InitRequesting, InitCore, InitPassing
  <1>2. (Core /\ Passing /\ Requesting) /\ [RNext]_<<vars, request>>
        => (Core /\ Passing /\ Requesting)'
    BY KeepsRequesting, KeepsCore, KeepsPassing
  <1>3. QED BY <1>1, <1>2, PTL DEF RSpec

\* For any orderly request, in whatever order it lists its periods, and for
\* any limit: when smoothing begins, the pictures inside each period the limit
\* leaves carry the record of that period, by its rank, and no picture
\* outside carries a movement.
THEOREM FollowsRequest == RSpec => []RequestFollowed
  <1>1. Core /\ Passing /\ Requesting => RequestFollowed
    <2>1. SUFFICES ASSUME Core, Passing, Requesting, pc = "trajectory", Orderly
                   PROVE  /\ \A p \in Asked : Kept(p) =>
                                \A f \in p.start + 1..p.end - 1 : RecordOf(f, Rank(p))
                          /\ \A f \in DOMAIN all : all[f].onswipe =>
                                \E p \in Asked : Kept(p) /\ f - 1 \in p.start + 1..p.end
      BY DEF RequestFollowed
    <2>2. TypeOK /\ AsImported /\ OnlyInside /\ PeriodsRecorded
      BY <2>1 DEF Core, Passing, Requesting
    <2>3. /\ Separated /\ Within
          /\ \A p \in Asked : Kept(p) => /\ Rank(p) \in 1..Len(si)
                                         /\ si[Rank(p)].start = p.start
                                         /\ si[Rank(p)].end = p.end
          /\ \A k \in 1..Len(si) : \E p \in Asked :
                Kept(p) /\ si[k].start = p.start /\ si[k].end = p.end
      BY <2>1, <2>2, KeptPeriods
    <2>4. ASSUME NEW p \in Asked, Kept(p), NEW f \in p.start + 1..p.end - 1
          PROVE  RecordOf(f, Rank(p))
      <3>1. PICK k \in 1..Len(si) : k = Rank(p) /\ si[k].start = p.start /\ si[k].end = p.end
        BY <2>3, <2>4
      <3>2. p.start \in Nat /\ p.end \in Nat
        <4>1. p.start \in Int /\ p.end \in Int
          BY <2>2, <3>1, LoopTypes
        <4>2. 0 =< p.start /\ p.start < p.end
          BY <2>1, <2>4 DEF Orderly
        <4>3. QED BY <4>1, <4>2
      <3>3. f \in 0..si[k].end /\ si[k].start < f /\ f < si[k].end /\ k - 1 + 1 = k
        BY <3>1, <3>2
      <3>4. f \in Interior(k - 1)
        BY <3>1, <3>2, <3>3 DEF Interior
      <3>5. RecordOf(f, k)
        BY <2>1, <2>2, <2>3, <3>4 DEF PeriodsRecorded
      <3>6. QED BY <3>1, <3>5
    <2>5. ASSUME NEW f \in DOMAIN all, all[f].onswipe
          PROVE  \E p \in Asked : Kept(p) /\ f - 1 \in p.start + 1..p.end
      <3>1. f \in 1..Len(all)
        BY <2>2, LenProperties DEF TypeOK, RecordOK
      <3>2. PICK k \in 1..Len(si) : f - 1 \in si[k].start + 1..si[k].end
        BY <2>2, <2>5, <3>1 DEF OnlyInside
      <3>3. QED BY <2>3, <3>2
    <2>6. QED BY <2>4, <2>5
  <1>2. QED BY <1>1, RequestingHolds, PTL

\* A tracker that is given its target begins on the picture unless the request
\* names a point beyond the right or lower edge, whatever else it names.
THEOREM TrackerStartsOnPicture == RSpec => []StartsOnPicture
  <1>1. Core /\ Passing /\ Requesting => StartsOnPicture
    <2>1. SUFFICES ASSUME Core, Requesting, JustStarted,
                          \A p \in Asked : p.start = t_frame_start => ~BeyondEdge(p)
                   PROVE  /\ obj[1] * TrackScale \in 0..Width - 1
                          /\ obj[2] * TrackScale \in 0..Height - 1
      BY DEF StartsOnPicture
    <2>2. TypeOK /\ AsImported /\ StartedAt
      BY <2>1 DEF Core, Requesting
    <2>3. PICK k \in 1..Len(si) : k = swipe_index + 1 /\ t_frame_start = si[k].start
      BY <2>1, <2>2, LoopTypes DEF JustStarted, t_frame_start
    <2>4. obj = si[k].target
      BY <2>1, <2>2, <2>3 DEF StartedAt, JustStarted
    <2>5. PICK q \in InOrder(request.periods) :
              /\ Left(request) \in 1..Len(request.periods) /\ Len(si) = Left(request)
              /\ \A m \in 1..Len(si) :
                    /\ si[m].start = q[m].start /\ si[m].end = q[m].end
                    /\ ~Rejected(q[m].target)
                    /\ si[m].target = TrackerPoint(IF NoTarget(q[m].target) THEN DefaultTarget
                                                                            ELSE q[m].target)
      BY <2>2, SwipePeriods
    <2>6. q[k] \in Asked /\ q[k] \in Periods
      <3>1. /\ DOMAIN request.periods = 1..Len(request.periods)
            /\ \A m \in 1..Len(request.periods) : request.periods[m] \in Periods
            /\ Len(request.periods) \in Nat
        BY <2>2, RequestTypes DEF AsImported
      <3>2. PICK g \in Bijection(DOMAIN request.periods, DOMAIN request.periods) :
                q = [m \in DOMAIN request.periods |-> request.periods[g[m]]]
        BY DEF InOrder
      <3>3. k \in DOMAIN request.periods
        BY <2>5, <3>1
      <3>4. g[k] \in DOMAIN request.periods
        BY <3>2, <3>3 DEF Bijection, Injection
      <3>5. QED BY <3>1, <3>2, <3>3, <3>4 DEF Asked
    <2>7. PICK t \in Int \X Int : t = (IF NoTarget(q[k].target) THEN DefaultTarget ELSE q[k].target)
      <3>1. q[k].target \in Int \X Int
        BY <2>6 DEF Periods
      <3>2. DefaultTarget \in Int \X Int
        <4>1. DefaultTarget \in (0..Width - 1) \X (0..Height - 1)
          BY RequestedVideoAssumption
        <4>2. QED BY <4>1
      <3>3. QED BY <3>1, <3>2
    <2>8. -1 =< t[1] /\ t[1] < Width /\ -1 =< t[2] /\ t[2] < Height
      <3>1. Width \in Nat \ {0} /\ Height \in Nat \ {0}
        BY MarginAssumption
      <3>2. CASE NoTarget(q[k].target)
        <4>1. t \in (0..Width - 1) \X (0..Height - 1)
          BY <2>7, <3>2, RequestedVideoAssumption
        <4>2. QED BY <3>1, <4>1
      <3>3. CASE ~NoTarget(q[k].target)
        <4>1. t = q[k].target /\ ~Rejected(t)
          BY <2>5, <2>7, <3>3
        <4>2. ~BeyondEdge(q[k])
          BY <2>1, <2>3, <2>5, <2>6
        <4>3. QED BY <3>1, <4>1, <4>2 DEF BeyondEdge, Rejected
      <3>4. QED BY <3>2, <3>3
    <2>9. obj = <<Quotient(t[1], TrackScale), Quotient(t[2], TrackScale)>>
      BY <2>4, <2>5, <2>7 DEF TrackerPoint
    <2>10. /\ Quotient(t[1], TrackScale) * TrackScale \in 0..Width - 1
           /\ Quotient(t[2], TrackScale) * TrackScale \in 0..Height - 1
      BY <2>8, MarginAssumption, ScaledTarget
    <2>11. QED BY <2>9, <2>10
  <1>2. QED BY <1>1, RequestingHolds, PTL

=============================================================================
