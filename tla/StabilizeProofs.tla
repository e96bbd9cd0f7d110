--------------------------- MODULE StabilizeProofs ---------------------------
(* For any video, any list of swipe periods, any boxes the trackers see and  *)
(* any curves the spline returns: what the first pass of Dove::Process       *)
(* records, what the second pass writes, and what it does to a picture.      *)
(* The three parts: the arithmetic of CalculcateMargin, the two passes as a  *)
(* whole, and the correction of one picture.                                 *)
EXTENDS Stabilize, SequenceTheorems, TLAPS

-----------------------------------------------------------------------------
\* The rectangle Dove::CalculcateMargin cuts out lies inside every picture
\* that was moved by no more than the largest correction, for pictures of
\* any size and any corrections up to half of it.

\* What C's integer division of a natural number returns.
LEMMA DivisionBounds ==
    ASSUME NEW v \in Nat, NEW d \in Nat \ {0}
    PROVE  /\ v \div d \in Nat
           /\ (v \div d) * d =< v
           /\ v < (v \div d) * d + d
  OBVIOUS

LEMMA QuotientType ==
    ASSUME NEW v \in Int, NEW d \in Nat \ {0}
    PROVE  Quotient(v, d) \in Int
  <1>1. CASE v < 0
    <2>1. -v \in Nat
      BY <1>1
    <2>2. (-v) \div d \in Nat
      BY <2>1, DivisionBounds
    <2>3. QED BY <1>1, <2>2 DEF Quotient
  <1>2. CASE ~(v < 0)
    <2>1. v \in Nat
      BY <1>2
    <2>2. v \div d \in Nat
      BY <2>1, DivisionBounds
    <2>3. QED BY <1>2, <2>2 DEF Quotient
  <1>3. QED BY <1>1, <1>2

LEMMA TimesMonotone ==
    ASSUME NEW a \in Int, NEW b \in Int, NEW c \in Nat, a =< b
    PROVE  a * c =< b * c
  OBVIOUS

LEMMA TimesCancel ==
    ASSUME NEW a \in Int, NEW b \in Int, NEW c \in Nat \ {0}, a * c < b * c
    PROVE  a < b
  <1>1. SUFFICES ASSUME b =< a PROVE FALSE
    OBVIOUS
  <1>2. b * c =< a * c
    BY <1>1, TimesMonotone
  <1>3. a * c \in Int /\ b * c \in Int
    OBVIOUS
  <1>4. QED BY <1>2, <1>3

\* A quotient bounded from above and from below by what is multiplied.
LEMMA QuotientAtMost ==
    ASSUME NEW v \in Nat, NEW d \in Nat \ {0}, NEW k \in Int, v < (k + 1) * d
    PROVE  v \div d =< k
  <1>1. v \div d \in Nat /\ (v \div d) * d =< v
    BY DivisionBounds
  <1>2. (v \div d) * d < (k + 1) * d
    BY <1>1
  <1>3. v \div d < k + 1
    BY <1>1, <1>2, TimesCancel
  <1>4. QED BY <1>1, <1>3

LEMMA QuotientAtLeast ==
    ASSUME NEW v \in Nat, NEW d \in Nat \ {0}, NEW k \in Int, k * d =< v
    PROVE  k =< v \div d
  <1>1. v \div d \in Nat /\ v < (v \div d) * d + d
    BY DivisionBounds
  <1>2. (v \div d) * d + d = (v \div d + 1) * d
    BY <1>1
  <1>3. k * d < (v \div d + 1) * d
    BY <1>1, <1>2
  <1>4. k < v \div d + 1
    BY <1>1, <1>3, TimesCancel
  <1>5. QED BY <1>1, <1>4

\* What lies in the first half of one side is scaled into the first half of
\* the other, and so for the second half.
LEMMA FirstHalfScaled ==
    ASSUME NEW v \in Nat, NEW n \in Nat, NEW d \in Nat \ {0}, 2 * v =< d
    PROVE  2 * ((v * n) \div d) =< n
  <1> DEFINE q == (v * n) \div d
  <1>1. q \in Nat /\ q * d =< v * n
    <2>1. v * n \in Nat
      OBVIOUS
    <2>2. QED BY <2>1, DivisionBounds
  <1> HIDE DEF q
  <1>2. (2 * v) * n =< d * n
    BY TimesMonotone
  <1>3. (2 * q) * d =< n * d
    <2>1. (2 * q) * d = 2 * (q * d) /\ (2 * v) * n = 2 * (v * n) /\ d * n = n * d
      BY <1>1
    <2>2. q * d \in Int /\ v * n \in Int /\ n * d \in Int
      BY <1>1
    <2>3. QED BY <1>1, <1>2, <2>1, <2>2
  <1>4. ~(n < 2 * q)
    <2>1. SUFFICES ASSUME n + 1 =< 2 * q PROVE FALSE
      BY <1>1
    <2>2. (n + 1) * d =< (2 * q) * d
      BY <1>1, <2>1, TimesMonotone
    <2>3. (n + 1) * d = n * d + d /\ n * d \in Int
      OBVIOUS
    <2>4. QED BY <1>1, <1>3, <2>2, <2>3
  <1>5. QED BY <1>1, <1>4 DEF q

LEMMA SecondHalfScaled ==
    ASSUME NEW v \in Nat, NEW n \in Nat, NEW d \in Nat \ {0}, d =< 2 * v,
           NEW m \in Nat, 2 * m =< n
    PROVE  m =< (v * n) \div d
  <1>1. m * d =< v * n
    <2>1. (2 * m) * d =< n * d
      BY TimesMonotone
    <2>2. d * n =< (2 * v) * n
      BY TimesMonotone
    <2>3. (2 * m) * d = 2 * (m * d) /\ (2 * v) * n = 2 * (v * n) /\ d * n = n * d
      OBVIOUS
    <2>4. m * d \in Int /\ v * n \in Int /\ n * d \in Int
      OBVIOUS
    <2>5. QED BY <2>1, <2>2, <2>3, <2>4
  <1>2. v * n \in Nat
    OBVIOUS
  <1>3. QED BY <1>1, <1>2, QuotientAtLeast

\* Scaling one way and back: what is beyond the scaled value stays beyond it,
\* what is below it stays below.
LEMMA ScaledBeyond ==
    ASSUME NEW v \in Nat, NEW w \in Nat, NEW n \in Nat \ {0}, NEW d \in Nat \ {0},
           (w * n) \div d < v
    PROVE  w =< (v * d) \div n
  <1>1. (w * n) \div d \in Nat /\ w * n < ((w * n) \div d) * d + d
    <2>1. w * n \in Nat
      OBVIOUS
    <2>2. QED BY <2>1, DivisionBounds
  <1>2. ((w * n) \div d) * d + d =< v * d
    <2>1. ((w * n) \div d + 1) * d =< v * d
      BY <1>1, TimesMonotone
    <2>2. ((w * n) \div d + 1) * d = ((w * n) \div d) * d + d
      BY <1>1
    <2>3. QED BY <2>1, <2>2
  <1>3. w * n =< v * d /\ v * d \in Nat
    <2>1. w * n \in Int /\ v * d \in Nat /\ ((w * n) \div d) * d + d \in Int
      BY <1>1
    <2>2. QED BY <1>1, <1>2, <2>1
  <1>4. QED BY <1>3, QuotientAtLeast

LEMMA ScaledBelow ==
    ASSUME NEW v \in Nat, NEW w \in Nat, NEW n \in Nat \ {0}, NEW d \in Nat \ {0},
           v < (w * n) \div d
    PROVE  (v * d) \div n =< w
  <1>1. (w * n) \div d \in Nat /\ ((w * n) \div d) * d =< w * n
    <2>1. w * n \in Nat
      OBVIOUS
    <2>2. QED BY <2>1, DivisionBounds
  <1>2. v * d =< ((w * n) \div d) * d
    BY <1>1, TimesMonotone
  <1>3. v * d < (w + 1) * n /\ v * d \in Nat
    <2>1. (w + 1) * n = w * n + n /\ w * n \in Int /\ v * d \in Nat
      OBVIOUS
    <2>2. ((w * n) \div d) * d \in Int
      BY <1>1
    <2>3. QED BY <1>1, <1>2, <2>1, <2>2
  <1>4. QED BY <1>3, QuotientAtMost

-----------------------------------------------------------------------------
LEMMA Sizes ==
    /\ Width \in Nat \ {0} /\ Height \in Nat \ {0}
  BY MarginAssumption

LEMMA MarginType ==
    ASSUME NEW mx \in Int, NEW my \in Int
    PROVE  CalculcateMargin(mx, my) \in [x : Int, y : Int, width : Int, height : Int]
  <1>1. \A v \in Int : HeightFor(v) \in Int /\ WidthFor(v) \in Int
    <2>1. \A v \in Int : v * Height \in Int /\ v * Width \in Int
      BY Sizes
    <2>2. QED BY <2>1, Sizes, QuotientType DEF HeightFor, WidthFor
  <1>2. Width - mx \in Int /\ Height - my \in Int
    BY Sizes
  <1>3. /\ Near(mx, my)[1] \in Int /\ Near(mx, my)[2] \in Int
        /\ Far(mx, my)[1] \in Int /\ Far(mx, my)[2] \in Int
    BY <1>1, <1>2 DEF Near, Far
  <1>4. \A v, w \in Int : Smaller(v, w) \in Int /\ Abs(v - w) \in Int
    BY DEF Smaller, Abs
  <1>5. QED BY <1>3, <1>4 DEF CalculcateMargin

\* The near corner is moved inwards, but not past the middle.
LEMMA NearCorner ==
    ASSUME NEW mx \in Nat, NEW my \in Nat, 2 * mx =< Width, 2 * my =< Height
    PROVE  /\ Near(mx, my)[1] \in Nat /\ mx =< Near(mx, my)[1] /\ 2 * Near(mx, my)[1] =< Width
           /\ Near(mx, my)[2] \in Nat /\ my =< Near(mx, my)[2] /\ 2 * Near(mx, my)[2] =< Height
  <1> DEFINE w == (my * Width) \div Height
             h == (mx * Height) \div Width
  <1>1. mx * Height \in Nat /\ my * Width \in Nat
    BY Sizes
  <1>2. w \in Nat /\ h \in Nat
    BY <1>1, Sizes, DivisionBounds
  <1>3. WidthFor(my) = w /\ HeightFor(mx) = h
    BY <1>1 DEF WidthFor, HeightFor, Quotient
  <1>4. 2 * w =< Width /\ 2 * h =< Height
    BY Sizes, FirstHalfScaled
  <1>5. w < mx => my =< h
    BY Sizes, ScaledBeyond
  <1> HIDE DEF w, h
  <1>6. CASE mx > w
    BY <1>2, <1>3, <1>4, <1>5, <1>6 DEF Near
  <1>7. CASE ~(mx > w)
    BY <1>2, <1>3, <1>4, <1>7 DEF Near
  <1>8. QED BY <1>6, <1>7

\* The far corner is moved inwards, but not past a point of the near half.
LEMMA FarCorner ==
    ASSUME NEW mx \in Nat, NEW my \in Nat, 2 * mx =< Width, 2 * my =< Height,
           NEW nx \in Nat, NEW ny \in Nat, 2 * nx =< Width, 2 * ny =< Height
    PROVE  /\ Far(mx, my)[1] \in Nat /\ nx =< Far(mx, my)[1] /\ Far(mx, my)[1] =< Width - mx
           /\ Far(mx, my)[2] \in Nat /\ ny =< Far(mx, my)[2] /\ Far(mx, my)[2] =< Height - my
  <1> DEFINE a == Width - mx
             b == Height - my
             w == (b * Width) \div Height
             h == (a * Height) \div Width
  <1>1. a \in Nat /\ b \in Nat /\ Width =< 2 * a /\ Height =< 2 * b
    BY Sizes
  <1> HIDE DEF a, b
  <1>2. a * Height \in Nat /\ b * Width \in Nat
    BY <1>1, Sizes
  <1>3. w \in Nat /\ h \in Nat
    BY <1>2, Sizes, DivisionBounds
  <1>4. WidthFor(b) = w /\ HeightFor(a) = h
    BY <1>2 DEF WidthFor, HeightFor, Quotient
  <1>5. nx =< w /\ ny =< h
    BY <1>1, Sizes, SecondHalfScaled
  <1>6. a < w => h =< b
    BY <1>1, Sizes, ScaledBelow
  <1> HIDE DEF w, h
  <1>7. Far(mx, my) = IF a < w THEN <<a, h>> ELSE <<w, b>>
    BY <1>4 DEF Far, a, b
  <1>8. nx =< a /\ ny =< b
    BY <1>1, Sizes
  <1>9. CASE a < w
    BY <1>1, <1>3, <1>5, <1>6, <1>7, <1>8, <1>9 DEF a, b
  <1>10. CASE ~(a < w)
    BY <1>1, <1>3, <1>5, <1>7, <1>8, <1>10 DEF a, b
  <1>11. QED BY <1>9, <1>10

\* The rectangle CalculcateMargin returns lies inside every picture moved by
\* at most mx and my, whatever the size of the picture, if they are at most
\* half of it: then the corners keep their places and no border is shown.
THEOREM CropInside ==
    ASSUME NEW mx \in Nat, NEW my \in Nat, 2 * mx =< Width, 2 * my =< Height
    PROVE  Covers(CalculcateMargin(mx, my), mx, my)
  <1> DEFINE near == Near(mx, my)
             far == Far(mx, my)
  <1>1. /\ near[1] \in Nat /\ mx =< near[1] /\ 2 * near[1] =< Width
        /\ near[2] \in Nat /\ my =< near[2] /\ 2 * near[2] =< Height
    BY NearCorner
  <1>2. /\ far[1] \in Nat /\ near[1] =< far[1] /\ far[1] =< Width - mx
        /\ far[2] \in Nat /\ near[2] =< far[2] /\ far[2] =< Height - my
    BY <1>1, FarCorner
  <1> HIDE DEF near, far
  <1>3. CalculcateMargin(mx, my) =
          [x |-> near[1], y |-> near[2], width |-> far[1] - near[1], height |-> far[2] - near[2]]
    <2>1. /\ Smaller(near[1], far[1]) = near[1] /\ Smaller(near[2], far[2]) = near[2]
          /\ Abs(far[1] - near[1]) = far[1] - near[1] /\ Abs(far[2] - near[2]) = far[2] - near[2]
      BY <1>1, <1>2 DEF Smaller, Abs
    <2>2. QED BY <2>1 DEF CalculcateMargin, near, far
  <1>4. QED BY <1>1, <1>2, <1>3, Sizes DEF Covers

-----------------------------------------------------------------------------
\* The two passes.

\* The constants, one fact each.
LEMMA Constants ==
    /\ \A list \in SwipeLists : /\ list \in Seq([start : Int, end : Int, target : Boxes, zoom : Int])
                                /\ Len(list) \in Nat \ {0}
    /\ \A n \in Lengths : n \in Nat
    /\ \A b \in Boxes : b \in Points
    /\ \A c \in Curves : c \in Points
    /\ Parts \in Nat \ {0} /\ TrackScale \in Nat /\ DropThreshold \in Nat
    /\ RoiWidth \in Nat /\ Waits \in Nat \ {0} /\ NCOEFFS \in Nat
  <1>1. \A list \in SwipeLists : Len(list) \in Nat \ {0}
    BY StabilizeAssumption, LenProperties
  <1>2. \A b \in Boxes : b \in Points
    BY StabilizeAssumption DEF Points
  <1>3. \A c \in Curves : c \in Points
    BY StabilizeAssumption DEF Points
  <1>4. /\ Parts \in Nat \ {0} /\ TrackScale \in Nat /\ DropThreshold \in Nat
        /\ RoiWidth \in Nat /\ Waits \in Nat \ {0} /\ NCOEFFS \in Nat
    BY StabilizeAssumption
  <1>5. QED BY <1>1, <1>2, <1>3, <1>4, StabilizeAssumption

LEMMA PeriodTypes ==
    ASSUME si \in SwipeLists, NEW k \in 1..Len(si)
    PROVE  /\ si[k].start \in Int /\ si[k].end \in Int
           /\ si[k].target \in Boxes /\ si[k].zoom \in Int
  <1>1. si \in Seq([start : Int, end : Int, target : Boxes, zoom : Int])
    BY Constants
  <1>2. si[k] \in [start : Int, end : Int, target : Boxes, zoom : Int]
    BY <1>1, ElementOfSeq
  <1>3. QED BY <1>2

LEMMA PointTypes ==
    ASSUME NEW v \in Points, NEW w \in Points
    PROVE  /\ v[1] \in Int /\ v[2] \in Int
           /\ <<v[1] + w[1], v[2] + w[2]>> \in Points
           /\ <<v[1] - Parts * w[1], v[2] - Parts * w[2]>> \in Points
           /\ <<(v[1] - w[1]) * TrackScale, (v[2] - w[2]) * TrackScale>> \in Points
           /\ <<-v[1], -v[2]>> \in Points
  <1>1. v[1] \in Int /\ v[2] \in Int /\ w[1] \in Int /\ w[2] \in Int
    BY DEF Points
  <1>2. \A p \in Int : Parts * p \in Int /\ p * TrackScale \in Int
    BY Constants
  <1>3. \A p, q \in Int : <<p, q>> \in Points
    BY DEF Points
  <1>4. QED BY <1>1, <1>2, <1>3

LEMMA OriginType == Origin \in Points
  BY DEF Points, Origin

LEMMA RecordTypes ==
    ASSUME NEW s \in Nat, NEW d \in Points
    PROVE  /\ Plain \in FrameInfos /\ Removed(s) \in FrameInfos /\ Moved(s, d) \in FrameInfos
  BY OriginType DEF Plain, Removed, Moved, FrameInfos

\* Each group of types is kept by a step that leaves its variables alone.
LEMMA Frame ==
    /\ LoopOK /\ UNCHANGED <<given, pc, frame_index, swipe_index, result>> => LoopOK'
    /\ RecordOK /\ UNCHANGED all => RecordOK'
    /\ TrackOK /\ UNCHANGED <<tracking, pc>> => TrackOK'
    /\ SmoothOK /\ UNCHANGED <<si, smoothing, reach>> => SmoothOK'
    /\ WriteOK /\ UNCHANGED <<length, second>> => WriteOK'
  <1>1. LoopOK /\ UNCHANGED <<given, pc, frame_index, swipe_index, result>> => LoopOK'
    BY DEF LoopOK, given
  <1>2. RecordOK /\ UNCHANGED all => RecordOK'
    BY DEF RecordOK
  <1>3. TrackOK /\ UNCHANGED <<tracking, pc>> => TrackOK'
    BY DEF TrackOK, tracking
  <1>4. SmoothOK /\ UNCHANGED <<si, smoothing, reach>> => SmoothOK'
    BY DEF SmoothOK, smoothing
  <1>5. WriteOK /\ UNCHANGED <<length, second>> => WriteOK'
    BY DEF WriteOK, second
  <1>6. QED BY <1>1, <1>2, <1>3, <1>4, <1>5

-----------------------------------------------------------------------------
LEMMA InitTypes == Init => TypeOK
  <1> SUFFICES ASSUME Init PROVE TypeOK
    OBVIOUS
  <1>1. LoopOK
    BY Constants DEF Init, LoopOK
  <1>2. RecordOK
    BY EmptySeq DEF Init, RecordOK
  <1>3. TrackOK
    BY Constants, OriginType DEF Init, TrackOK, None
  <1>4. SmoothOK
    BY Constants, MarginAssumption, OriginType DEF Init, SmoothOK, Reach
  <1>5. WriteOK
    BY Constants, EmptySeq DEF Init, WriteOK
  <1>6. QED BY <1>1, <1>2, <1>3, <1>4, <1>5 DEF TypeOK

LEMMA FirstPassTypes == TypeOK /\ FirstPass => TypeOK'
  <1> SUFFICES ASSUME TypeOK, FirstPass PROVE TypeOK'
    OBVIOUS
  <1> USE DEF TypeOK, Return, given, second, smoothing, tracking
  <1>0. length \in Nat /\ Len(si) \in Nat \ {0} /\ frame_index \in Nat
    BY Constants DEF LoopOK
  <1>1. CASE Wait
    <2>1. LoopOK'
      BY <1>1, Constants DEF Wait, LoopOK, Errors
    <2>2. TrackOK'
      BY <1>1, Constants DEF Wait, TrackOK
    <2>3. QED BY <1>1, <2>1, <2>2, Frame DEF Wait
  <1>2. CASE SkipPicture
    <2>1. LoopOK'
      BY <1>0, <1>2 DEF SkipPicture, Grabbed, InPeriod, Outside, LoopOK
    <2>2. RecordOK'
      BY <1>2, RecordTypes, OriginType, AppendProperties DEF SkipPicture, RecordOK
    <2>3. TrackOK'
      BY <1>2 DEF SkipPicture, Seen, TrackOK
    <2>4. QED BY <1>2, <2>1, <2>2, <2>3, Frame DEF SkipPicture
  <1>3. CASE StartPeriod
    <2>1. LoopOK'
      BY <1>0, <1>3 DEF StartPeriod, AtStart, Grabbed, InPeriod, Outside, LoopOK
    <2>2. RecordOK'
      BY <1>3, RecordTypes, OriginType, AppendProperties DEF StartPeriod, RecordOK
    <2>3. si[swipe_index + 1].target \in Points /\ si[swipe_index + 1].zoom \in Int
      <3>1. si \in SwipeLists /\ swipe_index + 1 \in 1..Len(si)
        BY <1>0, <1>3 DEF StartPeriod, AtStart, Grabbed, InPeriod, Outside, LoopOK
      <3>2. QED BY <3>1, PeriodTypes, Constants
    <2>4. obj' \in Points /\ pre_obj' \in Points
      BY <1>3, <2>3, Constants DEF StartPeriod, StartsAt
    <2>5. roi_w' \in Int
      <3>1. \A zoom \in Int : Zoomed(zoom) \in Int
        <4>1. \A zoom \in Int : zoom - 100 \in Int
          OBVIOUS
        <4>2. QED BY <4>1, QuotientType, Constants DEF Zoomed
      <3>2. QED BY <1>3, <2>3, <3>1 DEF StartPeriod, TrackOK
    <2>6. tck' \in [period : Nat \cup {None}, start_frame : Nat \cup {None}, w : {RoiWidth}]
      BY <1>3, <1>0 DEF StartPeriod, Seen, TrackOK, LoopOK
    <2>7. TrackOK'
      BY <1>3, <2>4, <2>5, <2>6 DEF StartPeriod, TrackOK
    <2>8. QED BY <1>3, <2>1, <2>2, <2>7, Frame DEF StartPeriod
  <1>4. CASE NothingToTrack
    <2>1. LoopOK'
      BY <1>4 DEF NothingToTrack, LoopOK, Errors
    <2>2. TrackOK'
      BY <1>4 DEF NothingToTrack, Seen, TrackOK
    <2>3. QED BY <1>4, <2>1, <2>2, Frame DEF NothingToTrack
  <1>5. CASE TrackPicture
    <2>1. LoopOK'
      <3>1. frame_index + 1 \in 0..length /\ swipe_index \in 0..Len(si) /\ swipe_index < Len(si)
        BY <1>0, <1>5 DEF TrackPicture, Grabbed, InPeriod, Outside, LoopOK
      <3>2. CASE NextPicture
        BY <1>0, <1>5, <3>1, <3>2 DEF TrackPicture, NextPicture, LoopOK
      <3>3. CASE NextPeriod
        BY <1>0, <1>5, <3>1, <3>3 DEF TrackPicture, NextPeriod, LoopOK
      <3>4. CASE Final
        BY <1>0, <1>5, <3>1, <3>4 DEF TrackPicture, Final, LoopOK
      <3>5. QED BY <1>5, <3>2, <3>3, <3>4 DEF TrackPicture
    <2>2. obj' \in Points /\ pre_obj' \in Points
      <3>1. obj' \in Points
        BY <1>5, Constants DEF TrackPicture, SeenAt, TrackOK
      <3>2. QED BY <1>5, <3>1 DEF TrackPicture, NextPicture, NextPeriod, Final, TrackOK
    <2>3. RecordOK'
      <3>1. Moves(obj') \in Points
        BY <2>2, PointTypes DEF Moves, TrackOK
      <3>2. FrameInfo(Moves(obj')) \in FrameInfos
        BY <3>1, RecordTypes DEF FrameInfo, LoopOK
      <3>3. QED BY <1>5, <3>2, AppendProperties DEF TrackPicture, RecordOK
    <2>4. TrackOK'
      <3>1. tck' \in [period : Nat \cup {None}, start_frame : Nat \cup {None}, w : {RoiWidth}]
        BY <1>0, <1>5 DEF TrackPicture, NextPicture, NextPeriod, Final, TrackOK
      <3>2. pc = "pass1"
        BY <1>5 DEF TrackPicture, Grabbed, InPeriod, Outside
      <3>3. QED BY <1>5, <2>2, <3>1, <3>2 DEF TrackPicture, TrackOK
    <2>5. QED BY <1>5, <2>1, <2>3, <2>4, Frame DEF TrackPicture
  <1>6. CASE NoMorePictures
    <2>1. LoopOK' /\ TrackOK'
      BY <1>6 DEF NoMorePictures, LoopOK, TrackOK
    <2>2. QED BY <1>6, <2>1, Frame DEF NoMorePictures
  <1>7. CASE UpdateUnstarted
    <2>1. LoopOK' /\ TrackOK'
      BY <1>7 DEF UpdateUnstarted, InPeriod, Grabbed, LoopOK, TrackOK, tracking
    <2>2. QED BY <1>7, <2>1, Frame DEF UpdateUnstarted
  <1>8. QED BY <1>1, <1>2, <1>3, <1>4, <1>5, <1>6, <1>7 DEF FirstPass

\* Smoothing changes nothing but the correction of one recorded picture
\* inside the period.
LEMMA Smoothing ==
    ASSUME TypeOK, SmoothPicture
    PROVE  /\ Picture \in Interior(index) /\ index + 1 \in 1..Len(si)
           /\ Picture + 1 \in 1..Len(all)
           /\ all' \in Seq(FrameInfos) /\ Len(all') = Len(all)
           /\ \E new \in Points :
                /\ reach' = Stretched(new)
                /\ \A j \in 1..Len(all) :
                      all'[j] = IF j = Picture + 1 THEN [all[j] EXCEPT !.new = new] ELSE all[j]
  <1> USE DEF TypeOK
  <1>1. PICK c \in Curves :
           LET new == <<c[1] - Parts * x[1], c[2] - Parts * x[2]>>
           IN  all' = [all EXCEPT ![Picture + 1].new = new] /\ reach' = Stretched(new)
    BY DEF SmoothPicture
  <1> DEFINE new == <<c[1] - Parts * x[1], c[2] - Parts * x[2]>>
  <1>2. new \in Points
    BY Constants, PointTypes DEF SmoothOK
  <1>3. all' = [all EXCEPT ![Picture + 1].new = new] /\ reach' = Stretched(new)
    BY <1>1
  <1> HIDE DEF new
  <1>4. index + 1 \in 1..Len(si)
    <2>1. Len(si) \in Nat
      BY Constants DEF LoopOK
    <2>2. QED BY <2>1 DEF SmoothPicture, AtPeriod, SmoothOK
  <1>5. /\ si[index + 1].start \in Int /\ si[index + 1].end \in Int /\ -1 =< si[index + 1].start
        /\ Picture \in Nat /\ si[index + 1].start < Picture /\ Picture < si[index + 1].end
    <2>1. si[index + 1].start \in Int /\ si[index + 1].end \in Int
      BY <1>4, PeriodTypes DEF LoopOK
    <2>2. Picture < si[index + 1].end
      BY DEF SmoothPicture
    <2>3. i \in Nat
      BY DEF SmoothOK
    <2>4. -1 =< si[index + 1].start
      BY DEF SmoothPicture, EnoughPoints
    <2>5. Picture \in Nat /\ si[index + 1].start < Picture
      BY <2>1, <2>3, <2>4 DEF Picture
    <2>6. QED BY <2>1, <2>2, <2>4, <2>5
  <1>6. Picture \in Interior(index)
    BY <1>5 DEF Interior
  <1>7. Picture + 1 \in 1..Len(all)
    <2>1. Len(all) \in Nat
      BY LenProperties DEF RecordOK
    <2>2. Picture < Len(all)
      BY DEF SmoothPicture, Recorded
    <2>3. QED BY <1>5, <2>1, <2>2
  <1> DEFINE record == [all[Picture + 1] EXCEPT !.new = new]
  <1>8. all[Picture + 1] \in FrameInfos
    BY <1>7, ElementOfSeq DEF RecordOK
  <1>9. record \in FrameInfos
    BY <1>2, <1>8 DEF FrameInfos
  <1>10. all' = [all EXCEPT ![Picture + 1] = record]
    BY <1>3
  <1> HIDE DEF record
  <1>11. /\ all' \in Seq(FrameInfos) /\ Len(all') = Len(all)
         /\ \A j \in 1..Len(all) : all'[j] = IF j = Picture + 1 THEN record ELSE all[j]
    BY <1>7, <1>9, <1>10, ExceptSeq DEF RecordOK
  <1>12. QED BY <1>2, <1>3, <1>4, <1>6, <1>7, <1>11 DEF record

LEMMA SmoothingTypes == TypeOK /\ MakeNewTrajectory => TypeOK'
  <1> SUFFICES ASSUME TypeOK, MakeNewTrajectory PROVE TypeOK'
    OBVIOUS
  <1> USE DEF TypeOK, Return, given, second, smoothing
  <1>0. length \in Nat /\ Len(si) \in Nat \ {0} /\ frame_index \in Nat
    BY Constants DEF LoopOK
  <1>1. CASE SmoothPicture
    <2>1. /\ Picture + 1 \in 1..Len(all) /\ RecordOK'
          /\ \E new \in Points : reach' = Stretched(new)
      BY <1>1, Smoothing DEF RecordOK
    <2>2. all[Picture + 1] \in FrameInfos
      BY <2>1, ElementOfSeq DEF RecordOK
    <2>3. SmoothOK'
      <3>1. x' \in Points
        <4>1. all[Picture + 1].d \in Points
          BY <2>2 DEF FrameInfos
        <4>2. QED BY <1>1, <4>1, PointTypes DEF SmoothPicture, SmoothOK
      <3>2. reach' \in [minx : Int, maxx : Int, miny : Int, maxy : Int]
        <4>1. PICK new \in Points : reach' = Stretched(new)
          BY <2>1
        <4>2. /\ reach.minx \in Int /\ reach.maxx \in Int
              /\ reach.miny \in Int /\ reach.maxy \in Int
          BY DEF SmoothOK
        <4>3. \A v, w \in Int : Smaller(v, w) \in Int /\ Larger(v, w) \in Int
          BY DEF Smaller, Larger
        <4>4. new[1] \in Int /\ new[2] \in Int
          BY DEF Points
        <4>5. QED BY <4>1, <4>2, <4>3, <4>4 DEF Stretched, Reach
      <3>3. QED BY <1>1, <3>1, <3>2 DEF SmoothPicture, SmoothOK
    <2>4. QED BY <1>1, <2>1, <2>3, Frame DEF SmoothPicture
  <1>2. CASE NextTrajectory
    <2>1. SmoothOK'
      BY <1>0, <1>2, OriginType DEF NextTrajectory, AtPeriod, SmoothOK
    <2>2. QED BY <1>2, <2>1, Frame DEF NextTrajectory
  <1>3. CASE SplineAborts \/ Overrun
    <2>1. LoopOK' /\ TrackOK'
      BY <1>3 DEF SplineAborts, Overrun, AtPeriod, LoopOK, TrackOK, tracking
    <2>2. QED BY <1>3, <2>1, Frame DEF SplineAborts, Overrun
  <1>4. CASE MakeMargin
    <2>1. LoopOK' /\ TrackOK'
      BY <1>0, <1>4 DEF MakeMargin, LoopOK, TrackOK, tracking, Errors
    <2>2. MarginX \in Int /\ MarginY \in Int
      <3>1. \A v, w \in Int : Larger(Abs(v), w) \in Int
        BY DEF Larger, Abs
      <3>2. \A v \in Int : v \div Parts \in Int
        BY Constants
      <3>3. QED BY <3>1, <3>2 DEF MarginX, MarginY, SmoothOK
    <2>3. WriteOK'
      BY <1>0, <1>4, <2>2, MarginType DEF MakeMargin, WriteOK, LoopOK
    <2>4. QED BY <1>4, <2>1, <2>3, Frame DEF MakeMargin
  <1>5. QED BY <1>1, <1>2, <1>3, <1>4 DEF MakeNewTrajectory

\* Nothing is recorded both as a movement and for removal: no constructor of
\* FRAME_INFO makes such a record.
NeverBoth == \A j \in 1..Len(all) : ~(all[j].onswipe /\ all[j].remove)

\* What has been written when Process is at pc.
Written ==
    /\ result = Running <=> pc # "returned"
    /\ pc \in {"pass1", "trajectory"} \/ result \in Errors => out = <<>>
    /\ pc = "pass2" => \/ frame_index = 0 /\ out = <<>>
                       \/ /\ frame_index > 0 /\ ref = frame_index - 1
                          /\ Len(out) = frame_index - 1
    /\ result = Complete => Len(out) >= length - 1
    /\ \A j \in 1..Len(out) : out[j].pic = j - 1 /\ out[j].at = j

\* What is written has its type.
LEMMA EntryType ==
    ASSUME TypeOK, OneRecordPerPicture, Written, WritePicture
    PROVE  [pic |-> ref, at |-> frame_index, warp |-> Warp(frame_index)]
              \in [pic : Nat, at : Nat, warp : Points]
  <1>0. frame_index \in Nat /\ Len(all) \in Nat
    BY Constants, LenProperties DEF TypeOK, LoopOK, RecordOK
  <1>1. ref \in Nat
    BY <1>0 DEF WritePicture, Again, Written
  <1>2. Warp(frame_index) \in Points
    <2>1. CASE OnSwipe(frame_index)
      <3>1. frame_index + 1 \in 1..Len(all)
        <4>1. frame_index < last_frame_index
          BY <2>1 DEF OnSwipe
        <4>2. Len(all) \in {last_frame_index, last_frame_index + 1}
          BY DEF WritePicture, Again, OneRecordPerPicture
        <4>3. last_frame_index \in Nat
          BY Constants DEF TypeOK, LoopOK, WriteOK
        <4>4. QED BY <1>0, <4>1, <4>2, <4>3
      <3>2. all[frame_index + 1] \in FrameInfos
        BY <3>1, ElementOfSeq DEF TypeOK, RecordOK
      <3>3. all[frame_index + 1].new \in Points
        BY <3>2 DEF FrameInfos
      <3>4. QED BY <2>1, <3>3, PointTypes DEF Warp
    <2>2. QED BY <2>1, OriginType DEF Warp
  <1>3. QED BY <1>0, <1>1, <1>2

LEMMA SecondPassTypes == TypeOK /\ OneRecordPerPicture /\ Written /\ SecondPass => TypeOK'
  <1> SUFFICES ASSUME TypeOK, OneRecordPerPicture, Written, SecondPass PROVE TypeOK'
    OBVIOUS
  <1> USE DEF TypeOK, Return, given, second, smoothing
  <1>0. length \in Nat /\ frame_index \in Nat /\ Len(all) \in Nat
    BY Constants, LenProperties DEF LoopOK, RecordOK
  <1>1. CASE FirstPicture
    <2>1. LoopOK'
      BY <1>0, <1>1 DEF FirstPicture, Again, LoopOK
    <2>2. WriteOK'
      BY <1>1 DEF FirstPicture, WriteOK
    <2>3. QED BY <1>1, <2>1, <2>2, Frame DEF FirstPicture
  <1>2. CASE WritePicture
    <2>1. LoopOK'
      BY <1>0, <1>2 DEF WritePicture, Again, LoopOK
    <2>2. WriteOK'
      <3>1. CASE Dropped(frame_index)
        BY <1>2, <3>1 DEF WritePicture, WriteOK
      <3>2. CASE ~Dropped(frame_index)
        <4>3. [pic |-> ref, at |-> frame_index, warp |-> Warp(frame_index)]
                \in [pic : Nat, at : Nat, warp : Points]
          BY <1>2, EntryType
        <4>4. out' \in Seq([pic : Nat, at : Nat, warp : Points])
          <5>1. out' = Append(out, [pic |-> ref, at |-> frame_index, warp |-> Warp(frame_index)])
            BY <1>2, <3>2 DEF WritePicture
          <5>2. out \in Seq([pic : Nat, at : Nat, warp : Points])
            BY DEF WriteOK
          <5>3. QED BY <4>3, <5>1, <5>2, AppendProperties
        <4>5. QED BY <1>0, <1>2, <3>2, <4>4 DEF WritePicture, WriteOK
      <3>3. QED BY <3>1, <3>2
    <2>3. QED BY <1>2, <2>1, <2>2, Frame DEF WritePicture
  <1>3. CASE ReadsBehindEnd
    BY <1>3, Frame DEF ReadsBehindEnd, LoopOK, TrackOK, tracking, Again
  <1>4. CASE Finish
    <2>1. LoopOK' /\ TrackOK'
      BY <1>4 DEF Finish, LoopOK, TrackOK, tracking
    <2>2. QED BY <1>4, <2>1, Frame DEF Finish
  <1>5. QED BY <1>1, <1>2, <1>3, <1>4 DEF SecondPass

-----------------------------------------------------------------------------
\* The steps of the first pass that record a picture add it at the end.
Records == SkipPicture \/ StartPeriod \/ TrackPicture

LEMMA Recording ==
    ASSUME TypeOK, Records
    PROVE  \E r \in FrameInfos :
              /\ r.onswipe => ~r.remove
              /\ r.new = Origin
              /\ all' = Append(all, r)
              /\ Len(all') = Len(all) + 1
              /\ all'[Len(all) + 1] = r
              /\ \A j \in 1..Len(all) : all'[j] = all[j]
  <1>1. \E r \in FrameInfos :
            (r.onswipe => ~r.remove) /\ r.new = Origin /\ all' = Append(all, r)
    <2>1. Plain \in FrameInfos /\ ~Plain.onswipe /\ Plain.new = Origin
      BY RecordTypes, OriginType DEF Plain
    <2>2. CASE SkipPicture \/ StartPeriod
      BY <2>1, <2>2 DEF SkipPicture, StartPeriod
    <2>3. CASE TrackPicture
      <3>1. obj' \in Points
        BY <2>3, Constants DEF TrackPicture, SeenAt, TypeOK, TrackOK
      <3>2. Moves(obj') \in Points
        BY <3>1, PointTypes DEF Moves, TypeOK, TrackOK
      <3>3. swipe_index \in Nat
        BY DEF TypeOK, LoopOK
      <3>4. FrameInfo(Moves(obj')) \in FrameInfos
        BY <3>2, <3>3, RecordTypes DEF FrameInfo
      <3>5. /\ FrameInfo(Moves(obj')).onswipe => ~FrameInfo(Moves(obj')).remove
            /\ FrameInfo(Moves(obj')).new = Origin
        BY DEF FrameInfo, Removed, Moved, Plain
      <3>6. QED BY <2>3, <3>4, <3>5 DEF TrackPicture
    <2>4. QED BY <2>2, <2>3 DEF Records
  <1>2. PICK r \in FrameInfos :
            (r.onswipe => ~r.remove) /\ r.new = Origin /\ all' = Append(all, r)
    BY <1>1
  <1>3. all \in Seq(FrameInfos)
    BY DEF TypeOK, RecordOK
  <1>4. /\ Len(all') = Len(all) + 1 /\ all'[Len(all) + 1] = r
        /\ \A j \in 1..Len(all) : all'[j] = all[j]
    BY <1>2, <1>3, AppendProperties
  <1>5. QED BY <1>2, <1>4

\* The other steps leave what is recorded alone.
LEMMA NotRecording ==
    ASSUME Next
    PROVE  Records \/ SmoothPicture \/ UNCHANGED all
  BY DEF Next, FirstPass, MakeNewTrajectory, SecondPass, Records, Wait, NothingToTrack,
         NoMorePictures, UpdateUnstarted, NextTrajectory, SplineAborts, Overrun, MakeMargin, FirstPicture,
         WritePicture, ReadsBehindEnd, Finish

LEMMA KeepsNeverBoth == TypeOK /\ NeverBoth /\ [Next]_vars => NeverBoth'
  <1> SUFFICES ASSUME TypeOK, NeverBoth, [Next]_vars PROVE NeverBoth'
    OBVIOUS
  <1>0. Len(all) \in Nat
    BY LenProperties DEF TypeOK, RecordOK
  <1>1. CASE Records
    <2>1. PICK r \in FrameInfos :
              /\ r.onswipe => ~r.remove
              /\ Len(all') = Len(all) + 1
              /\ all'[Len(all) + 1] = r
              /\ \A j \in 1..Len(all) : all'[j] = all[j]
      BY <1>1, Recording
    <2>2. QED BY <1>0, <2>1 DEF NeverBoth
  <1>2. CASE SmoothPicture
    <2>1. /\ Len(all') = Len(all)
          /\ \E new \in Points : \A j \in 1..Len(all) :
                all'[j] = IF j = Picture + 1 THEN [all[j] EXCEPT !.new = new] ELSE all[j]
      BY <1>2, Smoothing
    <2>2. \A j \in 1..Len(all) : all[j] \in FrameInfos
      BY ElementOfSeq DEF TypeOK, RecordOK
    <2>3. \A j \in 1..Len(all) : all'[j].onswipe = all[j].onswipe /\ all'[j].remove = all[j].remove
      BY <2>1, <2>2 DEF FrameInfos
    <2>4. QED BY <2>1, <2>3 DEF NeverBoth
  <1>3. CASE UNCHANGED all
    BY <1>3 DEF NeverBoth
  <1>4. QED BY <1>1, <1>2, <1>3, NotRecording DEF vars

LEMMA KeepsOneRecord == TypeOK /\ OneRecordPerPicture /\ [Next]_vars => OneRecordPerPicture'
  <1> SUFFICES ASSUME TypeOK, OneRecordPerPicture, [Next]_vars PROVE OneRecordPerPicture'
    OBVIOUS
  <1> USE DEF OneRecordPerPicture, Return, second
  <1>0. Len(all) \in Nat /\ frame_index \in Nat
    BY LenProperties, Constants DEF TypeOK, RecordOK, LoopOK
  <1>1. CASE Records
    <2>1. Len(all') = Len(all) + 1
      BY <1>1, Recording
    <2>2. CASE SkipPicture \/ StartPeriod
      BY <1>0, <2>1, <2>2 DEF SkipPicture, StartPeriod, AtStart, Grabbed, InPeriod, Outside
    <2>3. CASE TrackPicture
      <3>1. pc = "pass1"
        BY <2>3 DEF TrackPicture, Grabbed, InPeriod, Outside
      <3>2. \/ pc' = pc /\ frame_index' = frame_index + 1
            \/ pc' = "trajectory" /\ frame_index' = frame_index
        BY <2>3 DEF TrackPicture, NextPicture, NextPeriod, Final
      <3>3. QED BY <1>0, <2>1, <3>1, <3>2
    <2>4. QED BY <1>1, <2>2, <2>3 DEF Records
  <1>2. CASE Wait \/ NothingToTrack \/ UpdateUnstarted
    BY <1>2 DEF Wait, NothingToTrack, UpdateUnstarted
  <1>3. CASE NoMorePictures
    BY <1>3 DEF NoMorePictures
  <1>4. CASE SmoothPicture
    <2>1. Len(all') = Len(all)
      BY <1>4, Smoothing
    <2>2. QED BY <1>4, <2>1 DEF SmoothPicture
  <1>5. CASE NextTrajectory \/ SplineAborts \/ Overrun
    BY <1>5 DEF NextTrajectory, SplineAborts, Overrun
  <1>6. CASE MakeMargin
    BY <1>6 DEF MakeMargin
  <1>7. CASE SecondPass
    <2>1. pc = "pass2" /\ UNCHANGED <<all, last_frame_index>>
      BY <1>7 DEF SecondPass, FirstPicture, WritePicture, ReadsBehindEnd, Finish, Again
    <2>2. pc' \in {"pass2", "undefined", "returned"}
      BY <1>7 DEF SecondPass, FirstPicture, WritePicture, ReadsBehindEnd, Finish, Again
    <2>3. QED BY <2>1, <2>2
  <1>8. CASE UNCHANGED vars
    BY <1>8 DEF vars
  <1>9. QED BY <1>1, <1>2, <1>3, <1>4, <1>5, <1>6, <1>7, <1>8
            DEF Next, FirstPass, MakeNewTrajectory, Records

\* A record cannot make the second pass drop its picture.
LEMMA NotDropped ==
    ASSUME TypeOK, OneRecordPerPicture, NeverBoth, pc = "pass2"
    PROVE  ~Dropped(frame_index)
  <1>1. SUFFICES ASSUME OnSwipe(frame_index) PROVE ~all[frame_index + 1].remove
    BY DEF Dropped
  <1>2. frame_index + 1 \in 1..Len(all)
    <2>1. frame_index < last_frame_index
      BY <1>1 DEF OnSwipe
    <2>2. Len(all) \in {last_frame_index, last_frame_index + 1}
      BY DEF OneRecordPerPicture
    <2>3. last_frame_index \in Nat /\ frame_index \in Nat
      BY Constants DEF TypeOK, LoopOK, WriteOK
    <2>4. QED BY <2>1, <2>2, <2>3
  <1>3. QED BY <1>1, <1>2 DEF OnSwipe, NeverBoth

LEMMA KeepsWritten ==
    TypeOK /\ OneRecordPerPicture /\ NeverBoth /\ Written /\ [Next]_vars => Written'
  <1> SUFFICES ASSUME TypeOK, OneRecordPerPicture, NeverBoth, Written, [Next]_vars PROVE Written'
    OBVIOUS
  <1> USE DEF Written, Return, second, given, Running, Complete, Errors
  <1>0. Len(all) \in Nat /\ frame_index \in Nat /\ Len(out) \in Nat /\ length \in Nat
    BY LenProperties, Constants DEF TypeOK, RecordOK, LoopOK, WriteOK
  <1>1. CASE FirstPass
    <2>1. pc = "pass1" /\ UNCHANGED <<out, length>>
      BY <1>1 DEF FirstPass, Wait, SkipPicture, StartPeriod, AtStart, NothingToTrack,
                  TrackPicture, NoMorePictures, UpdateUnstarted, Grabbed, InPeriod, Outside
    <2>2. \/ pc' \in {"pass1", "trajectory", "undefined"} /\ UNCHANGED result
          \/ pc' = "returned" /\ result' \in Errors
      <3>1. CASE Wait \/ NothingToTrack \/ NoMorePictures \/ UpdateUnstarted
        BY <2>1, <3>1 DEF Wait, NothingToTrack, NoMorePictures, UpdateUnstarted
      <3>2. CASE SkipPicture \/ StartPeriod
        BY <2>1, <3>2 DEF SkipPicture, StartPeriod
      <3>3. CASE TrackPicture
        BY <2>1, <3>3 DEF TrackPicture, NextPicture, NextPeriod, Final
      <3>4. QED BY <1>1, <3>1, <3>2, <3>3 DEF FirstPass
    <2>3. out = <<>> /\ Len(out) = 0
      BY <2>1
    <2>4. QED BY <2>1, <2>2, <2>3
  <1>2. CASE MakeNewTrajectory
    <2>1. pc = "trajectory" /\ UNCHANGED <<out, length>>
      BY <1>2 DEF MakeNewTrajectory, SmoothPicture, NextTrajectory, SplineAborts, Overrun,
                  MakeMargin, AtPeriod
    <2>2. \/ pc' \in {"trajectory", "aborted", "undefined"} /\ UNCHANGED result
          \/ pc' = "returned" /\ result' \in Errors
          \/ pc' = "pass2" /\ UNCHANGED result /\ frame_index' = 0
      BY <1>2 DEF MakeNewTrajectory, SmoothPicture, NextTrajectory, SplineAborts, Overrun,
                  MakeMargin, AtPeriod
    <2>3. out = <<>> /\ Len(out) = 0
      BY <2>1
    <2>4. QED BY <2>1, <2>2, <2>3
  <1>3. CASE FirstPicture
    <2>1. out = <<>> /\ Len(out) = 0
      BY <1>3 DEF FirstPicture, Again
    <2>2. QED BY <1>3, <2>1 DEF FirstPicture, Again
  <1>4. CASE WritePicture
    <2>1. pc = "pass2" /\ ref = frame_index - 1 /\ Len(out) = frame_index - 1 /\ frame_index > 0
      BY <1>0, <1>4 DEF WritePicture, Again
    <2>2. ~Dropped(frame_index)
      BY <2>1, NotDropped
    <2>3. out' = Append(out, [pic |-> ref, at |-> frame_index, warp |-> Warp(frame_index)])
          /\ ref' = frame_index
      BY <1>4, <2>2 DEF WritePicture
    <2> DEFINE entry == [pic |-> ref, at |-> frame_index, warp |-> Warp(frame_index)]
    <2>4. out \in Seq([pic : Nat, at : Nat, warp : Points])
          /\ entry \in [pic : Nat, at : Nat, warp : Points]
      BY <1>4, EntryType DEF TypeOK, WriteOK
    <2>5. entry.pic = frame_index - 1 /\ entry.at = frame_index
      BY <2>1
    <2> HIDE DEF entry
    <2>6. /\ Len(out') = frame_index /\ out'[frame_index] = entry
          /\ \A j \in 1..Len(out) : out'[j] = out[j]
      <3>1. out' = Append(out, entry)
        BY <2>3 DEF entry
      <3>2. Len(out) + 1 = frame_index
        BY <1>0, <2>1
      <3>3. QED BY <2>4, <3>1, <3>2, AppendProperties
    <2>7. \A j \in 1..Len(out') : out'[j].pic = j - 1 /\ out'[j].at = j
      <3>1. \A j \in 1..Len(out') : j \in 1..Len(out) \/ j = frame_index
        BY <1>0, <2>1, <2>6
      <3>2. QED BY <2>5, <2>6, <3>1
    <2>8. /\ pc' = "pass2" /\ frame_index' = frame_index + 1 /\ ref' = frame_index
          /\ UNCHANGED <<result, length>>
      BY <1>4, <2>1, <2>3 DEF WritePicture
    <2>9. result = Running /\ result' = Running
      BY <2>1, <2>8
    <2>10. QED BY <1>0, <2>1, <2>6, <2>7, <2>8, <2>9
  <1>5. CASE ReadsBehindEnd
    BY <1>5 DEF ReadsBehindEnd, Again
  <1>6. CASE Finish
    BY <1>0, <1>6 DEF Finish
  <1>7. CASE UNCHANGED vars
    BY <1>7 DEF vars
  <1>8. QED BY <1>1, <1>2, <1>3, <1>4, <1>5, <1>6, <1>7 DEF Next, SecondPass

-----------------------------------------------------------------------------
Core == TypeOK /\ OneRecordPerPicture /\ NeverBoth /\ Written

LEMMA InitCore == Init => Core
  <1> SUFFICES ASSUME Init PROVE Core
    OBVIOUS
  <1>1. TypeOK
    BY InitTypes
  <1>2. Len(all) = 0 /\ Len(out) = 0
    BY DEF Init
  <1>3. OneRecordPerPicture /\ NeverBoth
    BY <1>2 DEF Init, OneRecordPerPicture, NeverBoth
  <1>4. Written
    BY <1>2 DEF Init, Written, Running, Complete, Errors
  <1>5. QED BY <1>1, <1>3, <1>4 DEF Core

LEMMA KeepsCore == Core /\ [Next]_vars => Core'
  <1> SUFFICES ASSUME Core, [Next]_vars PROVE Core'
    OBVIOUS
  <1>1. TypeOK'
    <2>1. CASE UNCHANGED vars
      BY <2>1, Frame DEF Core, TypeOK, vars, given
    <2>2. QED BY <2>1, FirstPassTypes, SmoothingTypes, SecondPassTypes DEF Core, Next
  <1>2. QED BY <1>1, KeepsOneRecord, KeepsNeverBoth, KeepsWritten DEF Core

\* The invariant the others rest on: types, one record for every picture, no
\* record for removal that is also a movement, and what is written when.
THEOREM CoreHolds == Spec => []Core
  BY InitCore, KeepsCore, PTL DEF Spec

\* Every variable keeps its type for any video, periods, boxes and curves.
THEOREM ProcessTypes == Spec => []TypeOK
  <1>1. Core => TypeOK
    BY DEF Core
  <1>2. QED BY <1>1, CoreHolds, PTL

\* The first pass records each picture it grabs exactly once.
THEOREM EachPictureRecorded == Spec => []OneRecordPerPicture
  <1>1. Core => OneRecordPerPicture
    BY DEF Core
  <1>2. QED BY <1>1, CoreHolds, PTL

\* A finished video shows every picture of the input but the last.
THEOREM NothingIsLost == Spec => []NothingLost
  <1>1. Core => NothingLost
    <2>1. SUFFICES ASSUME Core, result = Complete, NEW p \in 0..length - 2
                   PROVE  \E j \in DOMAIN out : out[j].pic = p
      BY DEF NothingLost
    <2>2. /\ length \in Nat /\ Len(out) \in Nat /\ DOMAIN out = 1..Len(out)
          /\ Len(out) >= length - 1
          /\ \A j \in 1..Len(out) : out[j].pic = j - 1
      BY <2>1, Constants, LenProperties DEF Core, TypeOK, LoopOK, WriteOK, Written
    <2>3. p + 1 \in DOMAIN out /\ out[p + 1].pic = p
      BY <2>2
    <2>4. QED BY <2>3
  <1>2. QED BY <1>1, CoreHolds, PTL

\* The branch of the second pass that drops a picture is never taken.
THEOREM NothingIsDropped == Spec => [](pc = "pass2" => ~Dropped(frame_index))
  <1>1. Core => (pc = "pass2" => ~Dropped(frame_index))
    BY NotDropped DEF Core
  <1>2. QED BY <1>1, CoreHolds, PTL

-----------------------------------------------------------------------------
\* The refinement of StabilizedVideo.
LEMMA ShownInit == Init => Video!Init
  <1> SUFFICES ASSUME Init PROVE Video!Init
    OBVIOUS
  <1>1. out = <<>> /\ result = Running
    BY DEF Init
  <1>2. [j \in DOMAIN out |-> out[j].pic] = <<>>
    BY <1>1
  <1>3. QED BY <1>1, <1>2 DEF Video!Init

\* Until the second pass nothing is shown, and Process returns only with an
\* error.
LEMMA SilentUntilWriting ==
    ASSUME Core, FirstPass \/ MakeNewTrajectory
    PROVE  /\ UNCHANGED out /\ out = <<>> /\ result = Running
           /\ UNCHANGED result \/ result' \in Errors
  <1>1. pc \in {"pass1", "trajectory"} /\ UNCHANGED out
    BY DEF FirstPass, Wait, SkipPicture, StartPeriod, AtStart, NothingToTrack, TrackPicture,
           NoMorePictures, UpdateUnstarted, Grabbed, InPeriod, MakeNewTrajectory,
           SmoothPicture, NextTrajectory, SplineAborts, Overrun, MakeMargin, AtPeriod, second
  <1>2. UNCHANGED result \/ result' \in Errors
    <2>1. Return("STABIL_CANT_DECODE_FILE") => result' \in Errors
      BY DEF Return, Errors
    <2>2. Return("STABIL_CANT_GRAP_TRACKINGPT") => result' \in Errors
      BY DEF Return, Errors
    <2>3. Return("STABIL_CANT_MAKE_PROPER_VIDEO") => result' \in Errors
      BY DEF Return, Errors
    <2>4. QED BY <2>1, <2>2, <2>3
              DEF FirstPass, Wait, SkipPicture, StartPeriod, NothingToTrack, TrackPicture,
                  NoMorePictures, UpdateUnstarted, MakeNewTrajectory, SmoothPicture,
                  NextTrajectory, SplineAborts, Overrun, MakeMargin
  <1>3. QED BY <1>1, <1>2 DEF Core, Written

LEMMA ShownNext == Core /\ Core' /\ [Next]_vars => [Video!Next]_(Video!vars)
  <1> SUFFICES ASSUME Core, Core', [Next]_vars PROVE [Video!Next]_(Video!vars)
    OBVIOUS
  <1> USE DEF Return, second, Running, Complete, Errors
  <1>1. CASE UNCHANGED <<out, result>>
    BY <1>1 DEF Video!vars
  <1>2. CASE UNCHANGED out /\ result = Running /\ result' \in Errors /\ out = <<>>
    <2>1. [j \in DOMAIN out |-> out[j].pic] = <<>>
      BY <1>2
    <2>2. [j \in DOMAIN out' |-> out'[j].pic] = [j \in DOMAIN out |-> out[j].pic]
      BY <1>2
    <2>3. QED BY <1>2, <2>1, <2>2 DEF Video!Next, Video!Fail
  <1>3. CASE UNCHANGED out /\ result = Running /\ result' = Complete
    BY <1>3 DEF Video!Next, Video!Finish
  <1>4. CASE WritePicture
    <2> DEFINE entry == [pic |-> ref, at |-> frame_index, warp |-> Warp(frame_index)]
               before == [j \in DOMAIN out |-> out[j].pic]
               after == [j \in DOMAIN out' |-> out'[j].pic]
    <2>1. /\ pc = "pass2" /\ frame_index \in Nat /\ frame_index > 0 /\ frame_index < length
          /\ length \in Lengths /\ length \in Nat
      BY <1>4, Constants DEF WritePicture, Again, Core, TypeOK, LoopOK
    <2>2. /\ ref = frame_index - 1 /\ Len(out) = frame_index - 1 /\ result = Running
          /\ \A j \in 1..Len(out) : out[j].pic = j - 1
      BY <2>1 DEF Core, Written
    <2>3. out' = Append(out, entry) /\ UNCHANGED result
      <3>1. ~Dropped(frame_index)
        BY <2>1, NotDropped DEF Core
      <3>2. QED BY <1>4, <3>1 DEF WritePicture
    <2>4. out \in Seq([pic : Nat, at : Nat, warp : Points])
          /\ entry \in [pic : Nat, at : Nat, warp : Points]
      BY <1>4, EntryType DEF Core, TypeOK, WriteOK
    <2>5. entry.pic = frame_index - 1
      BY <2>2
    <2> HIDE DEF entry
    <2>6. /\ Len(out') = frame_index /\ out'[frame_index] = entry
          /\ \A j \in 1..Len(out) : out'[j] = out[j]
          /\ DOMAIN out = 1..frame_index - 1 /\ DOMAIN out' = 1..frame_index
      <3>1. Len(out) + 1 = frame_index /\ out' \in Seq([pic : Nat, at : Nat, warp : Points])
        BY <2>1, <2>2, <2>3, <2>4, AppendProperties
      <3>2. QED BY <2>1, <2>2, <2>3, <2>4, <3>1, AppendProperties, LenProperties
    <2>7. /\ before \in Seq(Nat) /\ Len(before) = frame_index - 1
          /\ after \in Seq(Nat) /\ Len(after) = frame_index
          /\ \A j \in 1..frame_index - 1 : before[j] = j - 1
          /\ \A j \in 1..frame_index : after[j] = j - 1
      <3>1. \A j \in 1..frame_index : out'[j].pic = j - 1
        <4>1. \A j \in 1..frame_index : j \in 1..Len(out) \/ j = frame_index
          BY <2>1, <2>2
        <4>2. QED BY <2>2, <2>5, <2>6, <4>1
      <3>2. \A j \in 1..frame_index - 1 : out[j].pic = j - 1
        BY <2>2
      <3>3. before = [j \in 1..frame_index - 1 |-> j - 1]
        BY <2>6, <3>2
      <3>4. after = [j \in 1..frame_index |-> j - 1]
        BY <2>6, <3>1
      <3>5. QED BY <2>1, <3>3, <3>4, IsASeq
    <2>8. after = Append(before, frame_index - 1)
      <3>1. /\ Append(before, frame_index - 1) \in Seq(Nat)
            /\ Len(Append(before, frame_index - 1)) = frame_index
            /\ \A j \in 1..frame_index - 1 : Append(before, frame_index - 1)[j] = j - 1
            /\ Append(before, frame_index - 1)[frame_index] = frame_index - 1
        BY <2>1, <2>7, AppendProperties
      <3>2. \A j \in 1..frame_index : j \in 1..frame_index - 1 \/ j = frame_index
        BY <2>1
      <3>3. \A j \in 1..frame_index : Append(before, frame_index - 1)[j] = after[j]
        BY <2>7, <3>1, <3>2
      <3> HIDE DEF before, after
      <3>4. QED BY <2>7, <3>1, <3>3, SeqEqual
    <2>9. \A j \in DOMAIN before : before[j] < frame_index - 1
      BY <2>1, <2>6, <2>7
    <2>10. frame_index - 1 \in UNION {0..n : n \in Lengths}
      BY <2>1
    <2>11. QED BY <2>2, <2>3, <2>8, <2>9, <2>10 DEF Video!Next, Video!Show
  <1>5. \/ UNCHANGED <<out, result>>
        \/ UNCHANGED out /\ result = Running /\ result' \in Errors /\ out = <<>>
        \/ UNCHANGED out /\ result = Running /\ result' = Complete
        \/ WritePicture
    <2>1. CASE FirstPass \/ MakeNewTrajectory
      BY <2>1, SilentUntilWriting
    <2>2. CASE SecondPass \/ UNCHANGED vars
      BY <2>2 DEF SecondPass, FirstPicture, ReadsBehindEnd, Finish, Core, Written, vars
    <2>3. QED BY <2>1, <2>2 DEF Next
  <1>6. QED BY <1>1, <1>2, <1>3, <1>4, <1>5

\* Process keeps what StabilizedVideo promises: pictures in order, none
\* twice, and nothing written when it returns an error.
THEOREM ProcessImplementsVideo == Spec => ImplementsVideo
  BY ShownInit, ShownNext, CoreHolds, PTL DEF Spec, ImplementsVideo, Video!Spec

-----------------------------------------------------------------------------
\* What the second pass does to a picture: it moves it by the correction of
\* one picture inside one period, and cuts out a part the moved picture
\* covers.

\* A correction lies within what MakeNewTrajectory noted as the extremes, ...
Reached ==
    \A j \in 1..Len(all) : all[j].new # Origin =>
        /\ reach.minx =< all[j].new[1] /\ all[j].new[1] =< reach.maxx
        /\ reach.miny =< all[j].new[2] /\ all[j].new[2] =< reach.maxy

\* ... and belongs to a picture inside a period.
Inside ==
    \A j \in 1..Len(all) : all[j].new # Origin =>
        \E k \in 1..Len(si) : j - 1 \in Interior(k - 1)

\* The margin is the one for these extremes as long as pictures are written.
MarginKept == pc = "pass2" \/ out # <<>> => mg = CalculcateMargin(MarginX, MarginY)

\* What was written was moved by the correction of the picture after it.
Warps ==
    \A j \in 1..Len(out) : out[j].warp # Origin =>
        /\ j + 1 \in 1..Len(all)
        /\ out[j].warp = <<-all[j + 1].new[1], -all[j + 1].new[2]>>

Correcting == Reached /\ Inside /\ MarginKept /\ Warps

-----------------------------------------------------------------------------
\* The kinds of steps, as far as these matter.
LEMMA CorrectingSteps ==
    ASSUME [Next]_vars
    PROVE  \/ Records /\ UNCHANGED <<si, reach, out, mg, pc>>
           \/ Records /\ UNCHANGED <<si, reach, out, mg>> /\ pc' = "trajectory"
           \/ SmoothPicture /\ UNCHANGED <<si, out, mg, pc>>
           \/ MakeMargin /\ UNCHANGED <<si, all, reach, out>>
           \/ WritePicture /\ UNCHANGED <<si, all, reach, mg, pc>>
           \/ UNCHANGED <<si, all, reach, out, mg>> /\ (pc' = "pass2" => pc = "pass2")
  <1> USE DEF Return, given, second, smoothing, vars
  <1>1. CASE SkipPicture \/ StartPeriod
    BY <1>1 DEF SkipPicture, StartPeriod, Records
  <1>2. CASE TrackPicture
    BY <1>2 DEF TrackPicture, NextPicture, NextPeriod, Final, Records
  <1>3. CASE Wait \/ NothingToTrack \/ NoMorePictures \/ UpdateUnstarted
    BY <1>3 DEF Wait, NothingToTrack, NoMorePictures, UpdateUnstarted
  <1>4. CASE SmoothPicture
    BY <1>4 DEF SmoothPicture
  <1>5. CASE NextTrajectory \/ SplineAborts \/ Overrun
    BY <1>5 DEF NextTrajectory, SplineAborts, Overrun
  <1>6. CASE MakeMargin
    BY <1>6 DEF MakeMargin
  <1>7. CASE WritePicture
    BY <1>7 DEF WritePicture
  <1>8. CASE FirstPicture \/ ReadsBehindEnd \/ Finish
    BY <1>8 DEF FirstPicture, ReadsBehindEnd, Finish
  <1>9. CASE UNCHANGED vars
    BY <1>9
  <1>10. QED BY <1>1, <1>2, <1>3, <1>4, <1>5, <1>6, <1>7, <1>8, <1>9
             DEF Next, FirstPass, MakeNewTrajectory, SecondPass

LEMMA BothSides ==
    ASSUME NEW v \in Int, NEW w \in Int
    PROVE  /\ Smaller(v, w) \in Int /\ Smaller(v, w) =< v /\ Smaller(v, w) =< w
           /\ Larger(v, w) \in Int /\ v =< Larger(v, w) /\ w =< Larger(v, w)
  BY DEF Smaller, Larger

LEMMA StillBetween ==
    ASSUME NEW lo \in Int, NEW hi \in Int, NEW v \in Int, lo =< v, v =< hi,
           NEW lower \in Int, NEW higher \in Int, lower =< lo, hi =< higher
    PROVE  lower =< v /\ v =< higher
  OBVIOUS

\* The extremes only grow.
LEMMA Stretching ==
    ASSUME TypeOK, NEW new \in Points, reach' = Stretched(new)
    PROVE  /\ reach'.minx =< new[1] /\ new[1] =< reach'.maxx
           /\ reach'.miny =< new[2] /\ new[2] =< reach'.maxy
           /\ reach'.minx =< reach.minx /\ reach.maxx =< reach'.maxx
           /\ reach'.miny =< reach.miny /\ reach.maxy =< reach'.maxy
           /\ reach'.minx \in Int /\ reach'.maxx \in Int
           /\ reach'.miny \in Int /\ reach'.maxy \in Int
  <1>1. /\ reach.minx \in Int /\ reach.maxx \in Int
        /\ reach.miny \in Int /\ reach.maxy \in Int
    BY DEF TypeOK, SmoothOK
  <1>2. new[1] \in Int /\ new[2] \in Int
    BY DEF Points
  <1>3. /\ reach'.minx = Smaller(reach.minx, new[1]) /\ reach'.maxx = Larger(reach.maxx, new[1])
        /\ reach'.miny = Smaller(reach.miny, new[2]) /\ reach'.maxy = Larger(reach.maxy, new[2])
    BY DEF Stretched, Reach
  <1>4. /\ reach'.minx \in Int /\ reach'.minx =< reach.minx /\ reach'.minx =< new[1]
        /\ reach'.miny \in Int /\ reach'.miny =< reach.miny /\ reach'.miny =< new[2]
    BY <1>1, <1>2, <1>3, BothSides
  <1>5. /\ reach'.maxx \in Int /\ reach.maxx =< reach'.maxx /\ new[1] =< reach'.maxx
        /\ reach'.maxy \in Int /\ reach.maxy =< reach'.maxy /\ new[2] =< reach'.maxy
    BY <1>1, <1>2, <1>3, BothSides
  <1>6. QED BY <1>4, <1>5

\* A picture's correction is a pair of numbers.
LEMMA CorrectionType ==
    ASSUME TypeOK, NEW j \in 1..Len(all)
    PROVE  all[j] \in FrameInfos /\ all[j].new \in Points /\ all[j].new[1] \in Int /\ all[j].new[2] \in Int
  <1>1. all[j] \in FrameInfos
    BY ElementOfSeq DEF TypeOK, RecordOK
  <1>2. all[j].new \in Points
    BY <1>1 DEF FrameInfos
  <1>3. QED BY <1>1, <1>2 DEF Points

LEMMA ReachTypes ==
    TypeOK => /\ reach.minx \in Int /\ reach.maxx \in Int
              /\ reach.miny \in Int /\ reach.maxy \in Int
  BY DEF TypeOK, SmoothOK

LEMMA KeepsReached == TypeOK /\ Reached /\ Inside /\ [Next]_vars => Reached' /\ Inside'
  <1> SUFFICES ASSUME TypeOK, Reached, Inside, [Next]_vars PROVE Reached' /\ Inside'
    OBVIOUS
  <1>0. Len(all) \in Nat
    BY LenProperties DEF TypeOK, RecordOK
  <1>1. CASE Records /\ UNCHANGED <<si, reach>>
    <2>1. PICK r \in FrameInfos :
              /\ r.new = Origin
              /\ Len(all') = Len(all) + 1
              /\ all'[Len(all) + 1] = r
              /\ \A j \in 1..Len(all) : all'[j] = all[j]
      BY <1>1, Recording
    <2>2. \A j \in 1..Len(all') : all'[j].new # Origin => j \in 1..Len(all) /\ all'[j] = all[j]
      BY <1>0, <2>1
    <2>3. Reached'
      BY <1>1, <2>2 DEF Reached
    <2>4. Inside'
      BY <1>1, <2>2 DEF Inside, Interior
    <2>5. QED BY <2>3, <2>4
  <1>2. CASE SmoothPicture /\ UNCHANGED si
    <2>1. PICK new \in Points :
              /\ reach' = Stretched(new)
              /\ \A j \in 1..Len(all) :
                    all'[j] = IF j = Picture + 1 THEN [all[j] EXCEPT !.new = new] ELSE all[j]
      BY <1>2, Smoothing
    <2>2. Len(all') = Len(all) /\ Picture \in Interior(index) /\ index + 1 \in 1..Len(si)
      BY <1>2, Smoothing
    <2>3. \A j \in 1..Len(all) : all'[j].new = IF j = Picture + 1 THEN new ELSE all[j].new
      <3>1. \A j \in 1..Len(all) : [all[j] EXCEPT !.new = new].new = new
        BY CorrectionType DEF FrameInfos
      <3>2. QED BY <2>1, <3>1
    <2>4. Reached'
      <3>1. SUFFICES ASSUME NEW j \in 1..Len(all), all'[j].new # Origin
                     PROVE  /\ reach'.minx =< all'[j].new[1] /\ all'[j].new[1] =< reach'.maxx
                            /\ reach'.miny =< all'[j].new[2] /\ all'[j].new[2] =< reach'.maxy
        BY <2>2 DEF Reached
      <3>2. CASE j = Picture + 1
        BY <2>1, <2>3, <3>2, Stretching
      <3>3. CASE j # Picture + 1
        <4>1. all'[j].new = all[j].new
          BY <2>3, <3>3
        <4>2. /\ reach.minx =< all[j].new[1] /\ all[j].new[1] =< reach.maxx
              /\ reach.miny =< all[j].new[2] /\ all[j].new[2] =< reach.maxy
          BY <3>1, <4>1 DEF Reached
        <4>3. /\ reach'.minx =< reach.minx /\ reach.maxx =< reach'.maxx
              /\ reach'.miny =< reach.miny /\ reach.maxy =< reach'.maxy
              /\ reach'.minx \in Int /\ reach'.maxx \in Int
              /\ reach'.miny \in Int /\ reach'.maxy \in Int
          BY <2>1, Stretching
        <4>4. all[j].new[1] \in Int /\ all[j].new[2] \in Int
          BY CorrectionType
        <4>5. reach'.minx =< all[j].new[1] /\ all[j].new[1] =< reach'.maxx
          BY <4>2, <4>3, <4>4, ReachTypes, StillBetween
        <4>6. reach'.miny =< all[j].new[2] /\ all[j].new[2] =< reach'.maxy
          BY <4>2, <4>3, <4>4, ReachTypes, StillBetween
        <4>7. QED BY <4>1, <4>5, <4>6
      <3>4. QED BY <3>2, <3>3
    <2>5. Inside'
      <3>1. SUFFICES ASSUME NEW j \in 1..Len(all), all'[j].new # Origin
                     PROVE  \E k \in 1..Len(si) : j - 1 \in Interior(k - 1)
        BY <1>2, <2>2 DEF Inside, Interior
      <3>2. CASE j = Picture + 1
        <4>1. Picture \in Nat /\ index \in Nat
          BY <2>2 DEF Interior, TypeOK, SmoothOK
        <4>2. j - 1 = Picture /\ (index + 1) - 1 = index
          BY <3>2, <4>1
        <4>3. QED BY <2>2, <4>2
      <3>3. CASE j # Picture + 1
        BY <2>3, <3>1, <3>3 DEF Inside
      <3>4. QED BY <3>2, <3>3
    <2>6. QED BY <2>4, <2>5
  <1>3. CASE UNCHANGED <<si, all, reach>>
    BY <1>3 DEF Reached, Inside, Interior
  <1>4. QED BY <1>1, <1>2, <1>3, CorrectingSteps

LEMMA KeepsMargin == Written /\ MarginKept /\ [Next]_vars => MarginKept'
  <1> SUFFICES ASSUME Written, MarginKept, [Next]_vars PROVE MarginKept'
    OBVIOUS
  <1> USE DEF MarginKept, MarginX, MarginY
  <1>1. CASE (Records \/ SmoothPicture) /\ UNCHANGED out /\ pc' # "pass2"
    <2>1. pc \in {"pass1", "trajectory"}
      BY <1>1 DEF Records, SkipPicture, StartPeriod, AtStart, TrackPicture, Grabbed, InPeriod, Outside,
                  SmoothPicture, AtPeriod
    <2>2. QED BY <1>1, <2>1 DEF Written
  <1>2. CASE MakeMargin
    BY <1>2 DEF MakeMargin
  <1>3. CASE WritePicture /\ UNCHANGED <<reach, mg, pc>>
    BY <1>3 DEF WritePicture, Again
  <1>4. CASE UNCHANGED <<reach, out, mg>> /\ (pc' = "pass2" => pc = "pass2")
    BY <1>4
  <1>5. QED
    <2>1. Records \/ SmoothPicture => pc # "pass2"
      BY DEF Records, SkipPicture, StartPeriod, AtStart, TrackPicture, Grabbed, InPeriod, Outside,
             SmoothPicture, AtPeriod
    <2>2. QED BY <1>1, <1>2, <1>3, <1>4, <2>1, CorrectingSteps

LEMMA KeepsWarps ==
    TypeOK /\ OneRecordPerPicture /\ NeverBoth /\ Written /\ Warps /\ [Next]_vars => Warps'
  <1> SUFFICES ASSUME TypeOK, OneRecordPerPicture, NeverBoth, Written, Warps, [Next]_vars
               PROVE  Warps'
    OBVIOUS
  <1>1. CASE (Records \/ SmoothPicture) /\ UNCHANGED out
    <2>1. pc \in {"pass1", "trajectory"}
      BY <1>1 DEF Records, SkipPicture, StartPeriod, AtStart, TrackPicture, Grabbed, InPeriod, Outside,
                  SmoothPicture, AtPeriod
    <2>2. out' = <<>> /\ Len(out') = 0
      BY <1>1, <2>1 DEF Written
    <2>3. QED BY <2>2 DEF Warps
  <1>2. CASE WritePicture
    <2>1. pc = "pass2" /\ frame_index > 0 /\ Len(out) = frame_index - 1
      BY <1>2 DEF WritePicture, Again, Written
    <2>2. ~Dropped(frame_index)
      BY <2>1, NotDropped
    <2> DEFINE entry == [pic |-> ref, at |-> frame_index, warp |-> Warp(frame_index)]
    <2>3. out' = Append(out, entry) /\ all' = all
      BY <1>2, <2>2 DEF WritePicture
    <2>4. entry \in [pic : Nat, at : Nat, warp : Points]
      BY <1>2, EntryType
    <2>5. entry.warp = Warp(frame_index)
      OBVIOUS
    <2> HIDE DEF entry
    <2>6. /\ Len(out') = Len(out) + 1 /\ out'[Len(out) + 1] = entry
          /\ \A j \in 1..Len(out) : out'[j] = out[j]
      BY <2>3, <2>4, AppendProperties DEF TypeOK, WriteOK
    <2>7. /\ frame_index \in Nat /\ last_frame_index \in Nat
          /\ Len(all) \in Nat /\ Len(out) \in Nat
      BY Constants, LenProperties DEF TypeOK, LoopOK, RecordOK, WriteOK
    <2>8. entry.warp # Origin =>
            /\ frame_index + 1 \in 1..Len(all)
            /\ entry.warp = <<-all[frame_index + 1].new[1], -all[frame_index + 1].new[2]>>
      <3>1. Len(all) \in {last_frame_index, last_frame_index + 1}
        BY <2>1 DEF OneRecordPerPicture
      <3>2. OnSwipe(frame_index) => frame_index < last_frame_index
        BY DEF OnSwipe
      <3>3. QED BY <2>5, <2>7, <3>1, <3>2 DEF Warp
    <2>9. SUFFICES ASSUME NEW j \in 1..Len(out'), out'[j].warp # Origin
                   PROVE  /\ j + 1 \in 1..Len(all)
                          /\ out'[j].warp = <<-all[j + 1].new[1], -all[j + 1].new[2]>>
      BY <2>3 DEF Warps
    <2>10. CASE j \in 1..Len(out)
      BY <2>6, <2>9, <2>10 DEF Warps
    <2>11. CASE j = frame_index
      <3>1. out'[j] = entry
        BY <2>1, <2>6, <2>7, <2>11
      <3>2. QED BY <2>8, <2>9, <2>11, <3>1
    <2>12. QED BY <2>1, <2>6, <2>7, <2>10, <2>11
  <1>3. CASE UNCHANGED <<all, out>>
    BY <1>3 DEF Warps
  <1>4. QED BY <1>1, <1>2, <1>3, CorrectingSteps

-----------------------------------------------------------------------------
LEMMA InitCorrecting == Init => Correcting
  <1> SUFFICES ASSUME Init PROVE Correcting
    OBVIOUS
  <1>1. Len(all) = 0 /\ Len(out) = 0 /\ out = <<>> /\ pc = "pass1"
    BY DEF Init
  <1>2. QED BY <1>1 DEF Correcting, Reached, Inside, MarginKept, Warps

LEMMA CorrectingHolds == Spec => [](Core /\ Correcting)
  <1>1. Init => Core /\ Correcting
    BY InitCore, InitCorrecting
  <1>2. (Core /\ Correcting) /\ [Next]_vars => (Core /\ Correcting)'
    <2>1. (Core /\ Correcting) /\ [Next]_vars => Correcting'
      BY KeepsReached, KeepsMargin, KeepsWarps DEF Core, Correcting
    <2>2. QED BY <2>1, KeepsCore
  <1>3. QED BY <1>1, <1>2, PTL DEF Spec

\* A picture is moved by the correction from it to the next one, both inside
\* one period, whatever the periods and the video.
THEOREM EachOwnCorrection == Spec => []PrevToCur
  <1>1. Core /\ Correcting => PrevToCur
    <2>1. SUFFICES ASSUME Core, Correcting, NEW j \in 1..Len(out), out[j].warp # Origin
                   PROVE  /\ \A f \in out[j].pic + 1..out[j].at - 1 : all[f + 1].remove
                          /\ out[j].pic < out[j].at
                          /\ \E k \in 1..Len(si) : out[j].at \in Interior(k - 1)
      <3>1. DOMAIN out = 1..Len(out)
        BY LenProperties DEF Core, TypeOK, WriteOK
      <3>2. QED BY <3>1 DEF PrevToCur
    <2>2. out[j].pic = j - 1 /\ out[j].at = j
      BY <2>1 DEF Core, Written
    <2>3. j \in Nat
      OBVIOUS
    <2>4. \A f \in out[j].pic + 1..out[j].at - 1 : FALSE
      BY <2>2, <2>3
    <2>5. /\ j + 1 \in 1..Len(all)
          /\ out[j].warp = <<-all[j + 1].new[1], -all[j + 1].new[2]>>
      BY <2>1 DEF Correcting, Warps
    <2>6. all[j + 1].new # Origin
      BY <2>1, <2>5 DEF Origin
    <2>7. \E k \in 1..Len(si) : (j + 1) - 1 \in Interior(k - 1)
      BY <2>1, <2>5, <2>6 DEF Correcting, Inside
    <2>8. (j + 1) - 1 = j
      BY <2>3
    <2>9. QED BY <2>2, <2>3, <2>4, <2>7, <2>8
  <1>2. QED BY <1>1, CorrectingHolds, PTL

\* A smaller number has no larger quotient.
LEMMA QuotientMonotone ==
    ASSUME NEW v \in Nat, NEW w \in Nat, v =< w, NEW d \in Nat \ {0}
    PROVE  v \div d \in Nat /\ v \div d =< w \div d
  <1>1. w \div d \in Nat /\ w < (w \div d) * d + d /\ v \div d \in Nat
    BY DivisionBounds
  <1> DEFINE q == w \div d
  <1>2. (q + 1) * d = q * d + d
    BY <1>1
  <1>3. v < (q + 1) * d
    <2>1. q * d \in Int
      BY <1>1
    <2>2. QED BY <1>1, <1>2, <2>1
  <1>4. q \in Int
    BY <1>1
  <1> HIDE DEF q
  <1>5. v \div d =< q
    BY <1>3, <1>4, QuotientAtMost
  <1>6. QED BY <1>1, <1>5 DEF q

\* The largest movement is taken to both sides.
LEMMA WithinExtremes ==
    ASSUME NEW lo \in Int, NEW hi \in Int, NEW v \in Int, lo =< v, v =< hi
    PROVE  Abs(-v) \in Nat /\ Abs(-v) =< Larger(Abs(lo), hi)
  BY DEF Larger, Abs

LEMMA ExtremeType ==
    ASSUME NEW lo \in Int, NEW hi \in Int
    PROVE  Larger(Abs(lo), hi) \in Nat
  BY DEF Larger, Abs

\* What covers the part cut out when moved far does so when moved less.
LEMMA CoversLess ==
    ASSUME NEW r, r.x \in Int, r.y \in Int, r.width \in Int, r.height \in Int,
           NEW mx \in Nat, NEW my \in Nat, Covers(r, mx, my),
           NEW a \in Nat, NEW b \in Nat, a =< mx, b =< my
    PROVE  Covers(r, a, b)
  <1>1. a =< r.x /\ r.x + r.width =< Width - a
    BY Sizes DEF Covers
  <1>2. b =< r.y /\ r.y + r.height =< Height - b
    BY Sizes DEF Covers
  <1>3. QED BY <1>1, <1>2 DEF Covers

\* No border is shown in a picture of any size: the part cut out lies inside
\* the moved picture as long as no correction is larger than half of it.
THEOREM NoBorderShown == Spec => []NoBorder
  <1>1. Core /\ Correcting => NoBorder
    <2>1. SUFFICES ASSUME Core, Correcting, Modest, NEW j \in 1..Len(out)
                   PROVE  Covers(mg, Abs(out[j].warp[1]) \div Parts, Abs(out[j].warp[2]) \div Parts)
      <3>1. DOMAIN out = 1..Len(out)
        BY LenProperties DEF Core, TypeOK, WriteOK
      <3>2. QED BY <3>1 DEF NoBorder
    <2>2. TypeOK
      BY <2>1 DEF Core
    <2> DEFINE w == out[j].warp
               mx == Larger(Abs(reach.minx), reach.maxx)
               my == Larger(Abs(reach.miny), reach.maxy)
    <2>3. mx \in Nat /\ my \in Nat
      BY <2>2, ReachTypes, ExtremeType
    <2>4. /\ Abs(w[1]) \in Nat /\ Abs(w[1]) =< mx
          /\ Abs(w[2]) \in Nat /\ Abs(w[2]) =< my
      <3>1. CASE w = Origin
        <4>1. w[1] = 0 /\ w[2] = 0
          BY <3>1 DEF Origin
        <4>2. Abs(0) = 0
          BY DEF Abs
        <4>3. Abs(w[1]) = 0 /\ Abs(w[2]) = 0
          BY <4>1, <4>2
        <4> HIDE DEF w, mx, my
        <4>4. QED BY <2>3, <4>3
      <3>2. CASE w # Origin
        <4> DEFINE v == all[j + 1].new
        <4>1. j + 1 \in 1..Len(all) /\ w = <<-v[1], -v[2]>>
          BY <2>1, <3>2 DEF Correcting, Warps
        <4>2. v # Origin
          BY <3>2, <4>1 DEF Origin
        <4>3. v[1] \in Int /\ v[2] \in Int
          BY <2>2, <4>1, CorrectionType
        <4>4. /\ reach.minx =< v[1] /\ v[1] =< reach.maxx
              /\ reach.miny =< v[2] /\ v[2] =< reach.maxy
          BY <2>1, <4>1, <4>2 DEF Correcting, Reached
        <4>5. w[1] = -v[1] /\ w[2] = -v[2]
          BY <4>1
        <4> HIDE DEF v, w
        <4>6. QED BY <2>2, <4>3, <4>4, <4>5, ReachTypes, WithinExtremes
      <3>3. QED BY <3>1, <3>2
    <2> HIDE DEF w
    <2>5. MarginX = mx \div Parts /\ MarginY = my \div Parts
      BY DEF MarginX, MarginY
    <2> HIDE DEF mx, my
    <2>6. Parts \in Nat \ {0}
      BY Constants
    <2>7. /\ MarginX \in Nat /\ Abs(w[1]) \div Parts \in Nat /\ Abs(w[1]) \div Parts =< MarginX
           /\ MarginY \in Nat /\ Abs(w[2]) \div Parts \in Nat /\ Abs(w[2]) \div Parts =< MarginY
      BY <2>3, <2>4, <2>5, <2>6, QuotientMonotone
    <2>8. mg = CalculcateMargin(MarginX, MarginY)
      <3>1. out # <<>>
        OBVIOUS
      <3>2. QED BY <2>1, <3>1 DEF Correcting, MarginKept
    <2>9. Covers(mg, MarginX, MarginY)
      BY <2>1, <2>7, <2>8, CropInside DEF Modest
    <2>10. mg.x \in Int /\ mg.y \in Int /\ mg.width \in Int /\ mg.height \in Int
      BY <2>2 DEF TypeOK, WriteOK
    <2>11. Covers(mg, Abs(w[1]) \div Parts, Abs(w[2]) \div Parts)
      BY <2>7, <2>9, <2>10, CoversLess
    <2>12. QED BY <2>11 DEF w
  <1>2. QED BY <1>1, CorrectingHolds, PTL

=============================================================================
