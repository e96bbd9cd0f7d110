---------------------------- MODULE FrTransProofs ----------------------------
(***************************************************************************)
(* Proofs about FrTrans for every video and every number of waits.         *)
(*                                                                         *)
(* That every picture is somewhere is inductive only with what follows the *)
(* places: a pass that has handed out nothing has nothing in the queue and *)
(* in the decoder, and only from its first picture on (in the second pass) *)
(* does _remain say how long the queue is.  That both passes number the    *)
(* pictures alike needs the stronger fact that, with nothing lost, picture *)
(* n is the n-th of the video.                                             *)
(***************************************************************************)
EXTENDS FrTrans, SequenceTheorems, TLAPS

Identity(s) == \A k \in DOMAIN s : s[k] = k

(* s are the pictures 1..n but those of l, in their order.                 *)
Whole(s, l, n) ==
    /\ Rising(s)
    /\ Pics(s) \cup l = 1..n
    /\ Pics(s) \cap l = {}
    /\ l = {} => Identity(s)

AtWork == pc \in {"open", "read", "open_writer", "write"}

(* What a pass has handed out, the queue, the decoder and _remain.         *)
PlacesInv ==
    AtWork =>
        /\ Whole(InHand, lost[pass], Upto(pos))
        /\ shown[pass] = <<>> => vDecFrame = <<>> /\ held = <<>>
        /\ pass = 1 \/ shown[pass] # <<>> => remain = Len(vDecFrame)
        /\ eof => pos = Len(file)
        /\ how[pass] = ""

(* What each place in Process says of the passes.                          *)
PassInv ==
    /\ pass = 1 => shown[2] = <<>> /\ lost[2] = {} /\ how[2] = ""
    /\ pc \in {"open", "close", "reopen"} => pass = 1
    /\ pc \in {"open_writer", "write", "finish"} => pass = 2
    /\ pc \in {"open", "open_writer"} =>
          vDecFrame = <<>> /\ shown[pass] = <<>> /\ lost[pass] = {}
    /\ pc = "reopen" => vDecFrame = <<>>
    /\ pc = "write" => shown[2] # <<>>
    /\ pc # "returned" => retry_cnt < Waits

EndInv ==
    \A p \in 1..2 : how[p] = "end" => Pics(shown[p]) = 1..Total \ lost[p]

NumberInv == \A p \in 1..2 : lost[p] = {} => Identity(shown[p])

(* The pictures in the file were handed out, all but the last before the   *)
(* one that is being written, and _writeNum counts them.                   *)
WriteInv ==
    /\ pass = 1 \/ pc = "open_writer" => written = <<>>
    /\ pc \in {"read", "write"} /\ pass = 2 => writeNum = Len(written)
    /\ \A j \in 1..Len(written) : written[j].pic \in Pics(shown[2])
    /\ pc = "write" =>
          \A j \in 1..Len(written) : written[j].pic < shown[2][Len(shown[2])]
    /\ \A j \in 1..Len(written) : written[j].cts = j - 1
    /\ \A j \in 1..Len(written) : \A k \in 1..(j - 1) : written[k].pic < written[j].pic

IInv == /\ OpenOK /\ ReadOK /\ WriteOK
        /\ PlacesInv /\ PassInv /\ EndInv /\ NumberInv /\ WriteInv /\ FrontIsThere

-----------------------------------------------------------------------------
(* Sequences of pictures.                                                  *)

LEMMA Joined ==
  ASSUME NEW s \in Seq(Nat), NEW t \in Seq(Nat)
  PROVE  /\ s \o t \in Seq(Nat) /\ DOMAIN (s \o t) = 1..(Len(s) + Len(t))
         /\ Len(s) \in Nat /\ DOMAIN s = 1..Len(s)
         /\ Len(t) \in Nat /\ DOMAIN t = 1..Len(t)
         /\ \A i \in 1..Len(s) : (s \o t)[i] = s[i] /\ s[i] \in Nat
         /\ \A i \in 1..Len(t) : (s \o t)[Len(s) + i] = t[i] /\ t[i] \in Nat
<1>1. /\ s \o t \in Seq(Nat) /\ Len(s \o t) = Len(s) + Len(t)
      /\ \A i \in 1..(Len(s) + Len(t)) :
            (s \o t)[i] = IF i <= Len(s) THEN s[i] ELSE t[i - Len(s)]
  BY ConcatProperties
<1>2. /\ Len(s) \in Nat /\ DOMAIN s = 1..Len(s) /\ \A i \in 1..Len(s) : s[i] \in Nat
      /\ Len(t) \in Nat /\ DOMAIN t = 1..Len(t) /\ \A i \in 1..Len(t) : t[i] \in Nat
  BY LenProperties
<1>3. DOMAIN (s \o t) = 1..(Len(s) + Len(t))
  BY <1>1, LenProperties
<1>4. QED
  BY <1>1, <1>2, <1>3

LEMMA JoinedAgain ==
  ASSUME NEW s \in Seq(Nat), NEW t \in Seq(Nat), NEW u \in Seq(Nat)
  PROVE  (s \o t) \o u = s \o (t \o u)
<1> DEFINE N == Nat
<1>1. s \in Seq(N) /\ t \in Seq(N) /\ u \in Seq(N)
  OBVIOUS
<1> HIDE DEF N
<1>2. QED
  BY <1>1, ConcatAssociative, SMTT(30)

LEMMA AppendedThenJoined ==
  ASSUME NEW s \in Seq(Nat), NEW x \in Nat, NEW v \in Seq(Nat)
  PROVE  Append(s, x) \o v = s \o (<<x>> \o v)
<1>1. Append(s, x) = s \o <<x>> /\ <<x>> \in Seq(Nat)
  BY AppendIsConcat
<1>2. (s \o <<x>>) \o v = s \o (<<x>> \o v)
  BY <1>1, JoinedAgain
<1>3. QED
  BY <1>1, <1>2

LEMMA Longer ==
  ASSUME NEW s \in Seq(Nat), NEW x \in Nat
  PROVE  /\ Append(s, x) \in Seq(Nat) /\ Append(s, x) # <<>>
         /\ Len(s) \in Nat /\ Len(Append(s, x)) = Len(s) + 1
         /\ Append(s, x)[Len(s) + 1] = x
         /\ \A i \in 1..Len(s) : Append(s, x)[i] = s[i]
  BY AppendProperties, LenProperties

LEMMA PicsJoined ==
  ASSUME NEW s \in Seq(Nat), NEW t \in Seq(Nat)
  PROVE  Pics(s \o t) = Pics(s) \cup Pics(t)
<1> DEFINE u == s \o t
<1>1. /\ DOMAIN u = 1..(Len(s) + Len(t))
      /\ Len(s) \in Nat /\ DOMAIN s = 1..Len(s)
      /\ Len(t) \in Nat /\ DOMAIN t = 1..Len(t)
      /\ \A i \in 1..Len(s) : u[i] = s[i]
      /\ \A i \in 1..Len(t) : u[Len(s) + i] = t[i]
  BY Joined
<1> HIDE DEF u
<1>2. \A i \in 1..Len(s) : i \in DOMAIN u
  BY <1>1
<1>3. \A i \in 1..Len(t) : Len(s) + i \in DOMAIN u
  BY <1>1
<1>4. \A i \in DOMAIN u : i \in 1..Len(s) \/ (i - Len(s) \in 1..Len(t) /\ Len(s) + (i - Len(s)) = i)
  BY <1>1
<1>5. Pics(s) \cup Pics(t) \subseteq Pics(u)
  BY <1>1, <1>2, <1>3 DEF Pics
<1>6. Pics(u) \subseteq Pics(s) \cup Pics(t)
  BY <1>1, <1>4 DEF Pics
<1>7. QED
  BY <1>5, <1>6 DEF u

(* A sequence that is longer by pictures that come later.                  *)
LEMMA WholeGrows ==
  ASSUME NEW s \in Seq(Nat), NEW l, NEW n \in Nat, NEW m \in Nat, n <= m,
         Whole(s, l, n), NEW t \in Seq(Nat), Len(t) = m - n,
         \A k \in 1..(m - n) : t[k] = n + k
  PROVE  Whole(s \o t, l, m)
<1> DEFINE u == s \o t
<1>1. /\ u \in Seq(Nat) /\ DOMAIN u = 1..(Len(s) + Len(t))
      /\ Len(s) \in Nat /\ DOMAIN s = 1..Len(s)
      /\ Len(t) \in Nat /\ DOMAIN t = 1..Len(t)
      /\ \A i \in 1..Len(s) : u[i] = s[i] /\ s[i] \in Nat
      /\ \A i \in 1..Len(t) : u[Len(s) + i] = t[i] /\ t[i] \in Nat
  BY Joined
<1>p. Pics(u) = Pics(s) \cup Pics(t)
  BY PicsJoined
<1> HIDE DEF u
<1>2. \A i \in 1..Len(s) : s[i] \in 1..n
  BY <1>1 DEF Whole, Pics
<1>3. \A i \in DOMAIN u :
         \/ i \in 1..Len(s) /\ u[i] = s[i] /\ u[i] <= n
         \/ i > Len(s) /\ i - Len(s) \in 1..(m - n) /\ u[i] = n + (i - Len(s))
  <2> SUFFICES ASSUME NEW i \in DOMAIN u
               PROVE  \/ i \in 1..Len(s) /\ u[i] = s[i] /\ u[i] <= n
                      \/ i > Len(s) /\ i - Len(s) \in 1..(m - n) /\ u[i] = n + (i - Len(s))
    OBVIOUS
  <2>1. CASE i \in 1..Len(s)
    BY <2>1, <1>1, <1>2
  <2>2. CASE i \notin 1..Len(s)
    <3>1. i > Len(s) /\ i - Len(s) \in 1..Len(t) /\ Len(s) + (i - Len(s)) = i
      BY <2>2, <1>1
    <3>2. u[i] = t[i - Len(s)]
      BY <3>1, <1>1
    <3>3. QED
      BY <3>1, <3>2
  <2>3. QED
    BY <2>1, <2>2
<1>4. Rising(u)
  <2> SUFFICES ASSUME NEW j \in DOMAIN u, NEW k \in DOMAIN u, j < k PROVE u[j] < u[k]
    BY DEF Rising
  <2>1. CASE k \in 1..Len(s)
    <3>1. j \in 1..Len(s)
      BY <2>1, <1>1
    <3>2. QED
      BY <2>1, <3>1, <1>1 DEF Whole, Rising
  <2>2. CASE k \notin 1..Len(s)
    <3>1. k > Len(s) /\ k - Len(s) \in 1..(m - n) /\ u[k] = n + (k - Len(s))
      BY <2>2, <1>3
    <3>2. CASE j \in 1..Len(s)
      BY <3>1, <3>2, <1>1, <1>2
    <3>3. CASE j \notin 1..Len(s)
      <4>1. u[j] = n + (j - Len(s))
        BY <3>3, <1>3
      <4>2. QED
        BY <3>1, <4>1, <1>1
    <3>4. QED
      BY <3>2, <3>3
  <2>3. QED
    BY <2>1, <2>2
<1>5. Pics(t) = (n + 1)..m
  <2>1. \A k \in (n + 1)..m : k - n \in 1..(m - n) /\ n + (k - n) = k
    OBVIOUS
  <2>2. \A k \in 1..(m - n) : n + k \in (n + 1)..m
    OBVIOUS
  <2>3. DOMAIN t = 1..(m - n) /\ \A k \in 1..(m - n) : t[k] = n + k
    BY <1>1
  <2>4. Pics(t) \subseteq (n + 1)..m
    BY <2>2, <2>3 DEF Pics
  <2>5. ASSUME NEW k \in (n + 1)..m PROVE k \in Pics(t)
    <3>1. k - n \in DOMAIN t /\ t[k - n] = k
      BY <2>1, <2>3
    <3>2. QED
      BY <3>1 DEF Pics
  <2>6. QED
    BY <2>4, <2>5
<1>6. Pics(u) \cup l = 1..m /\ Pics(u) \cap l = {}
  <2>1. 1..m = 1..n \cup (n + 1)..m /\ 1..n \cap (n + 1)..m = {}
    OBVIOUS
  <2>2. QED
    BY <1>5, <1>p, <2>1 DEF Whole
<1>7. ASSUME l = {} PROVE Identity(u)
  <2>1. Pics(s) = 1..n /\ \A k \in 1..Len(s) : s[k] = k
    BY <1>1, <1>7 DEF Whole, Identity
  <2>2. Pics(s) = 1..Len(s)
    BY <2>1, <1>1 DEF Pics
  <2>3. Len(s) = n
    <3>1. n > 0 => n \in 1..Len(s)
      BY <2>1, <2>2
    <3>2. Len(s) > 0 => Len(s) \in 1..n
      BY <1>1, <2>1, <2>2
    <3>3. Len(s) \in Nat
      BY <1>1
    <3> HIDE <1>7
    <3>4. QED
      BY <3>1, <3>2, <3>3
  <2>4. ASSUME NEW i \in DOMAIN u PROVE u[i] = i
    <3>1. CASE i \in 1..Len(s)
      BY <3>1, <1>1, <2>1
    <3>2. CASE i \notin 1..Len(s)
      <4>1. u[i] = n + (i - n) /\ i \in Int
        BY <3>2, <1>1, <1>3, <2>3
      <4>2. QED
        BY <4>1
    <3>3. QED
      BY <3>1, <3>2
  <2>5. QED
    BY <2>4 DEF Identity
<1>8. Whole(u, l, m)
  BY <1>4, <1>6, <1>7 DEF Whole
<1>9. QED
  BY <1>8 DEF u

(* The pictures of a packet are gone.                                      *)
LEMMA WholeLoses ==
  ASSUME NEW s, NEW l, NEW n \in Nat, NEW m \in Nat, n < m, Whole(s, l, n)
  PROVE  Whole(s, l \cup (n + 1)..m, m)
<1>1. 1..m = 1..n \cup (n + 1)..m /\ 1..n \cap (n + 1)..m = {} /\ m \in (n + 1)..m
  OBVIOUS
<1>2. Pics(s) \subseteq 1..n
  BY DEF Whole
<1>3. QED
  BY <1>1, <1>2 DEF Whole

(* The last ones are gone.                                                 *)
LEMMA WholePrefix ==
  ASSUME NEW s \in Seq(Nat), NEW t \in Seq(Nat), NEW l, NEW n, Whole(s \o t, l, n)
  PROVE  Whole(s, l \cup Pics(t), n)
<1> DEFINE u == s \o t
<1>1. /\ u \in Seq(Nat) /\ DOMAIN u = 1..(Len(s) + Len(t))
      /\ Len(s) \in Nat /\ DOMAIN s = 1..Len(s)
      /\ Len(t) \in Nat /\ DOMAIN t = 1..Len(t)
      /\ \A i \in 1..Len(s) : u[i] = s[i] /\ s[i] \in Nat
      /\ \A i \in 1..Len(t) : u[Len(s) + i] = t[i] /\ t[i] \in Nat
  BY Joined
<1>p. Pics(u) = Pics(s) \cup Pics(t)
  BY PicsJoined
<1>w. Whole(u, l, n)
  OBVIOUS
<1> HIDE DEF u
<1>2. DOMAIN s \subseteq DOMAIN u
  BY <1>1
<1>3. Rising(s)
  BY <1>1, <1>2, <1>w DEF Whole, Rising
<1>4. \A i \in DOMAIN s, j \in DOMAIN t : s[i] < t[j]
  <2> SUFFICES ASSUME NEW i \in DOMAIN s, NEW j \in DOMAIN t PROVE s[i] < t[j]
    OBVIOUS
  <2>1. i \in DOMAIN u /\ Len(s) + j \in DOMAIN u /\ i < Len(s) + j
    <3>1. i \in 1..Len(s) /\ j \in 1..Len(t) /\ Len(s) \in Nat /\ Len(t) \in Nat
      BY <1>1
    <3>2. i \in 1..(Len(s) + Len(t)) /\ Len(s) + j \in 1..(Len(s) + Len(t)) /\ i < Len(s) + j
      BY <3>1
    <3>3. DOMAIN u = 1..(Len(s) + Len(t))
      BY <1>1
    <3>4. QED
      BY <3>2, <3>3
  <2>2. u[i] < u[Len(s) + j]
    BY <2>1, <1>w DEF Whole, Rising
  <2>3. QED
    BY <2>2, <1>1
<1>5. Pics(s) \cap Pics(t) = {}
  <2> SUFFICES ASSUME NEW i \in DOMAIN s, NEW j \in DOMAIN t, s[i] = t[j] PROVE FALSE
    BY DEF Pics
  <2>1. s[i] < t[j] /\ s[i] \in Nat
    BY <1>1, <1>4
  <2>2. QED
    BY <2>1
<1>6. l = {} => Identity(s)
  BY <1>1, <1>2, <1>w DEF Whole, Identity
<1>7. QED
  BY <1>3, <1>5, <1>6, <1>p, <1>w DEF Whole

-----------------------------------------------------------------------------
(* Packets.                                                                *)

LEMMA PacketFacts ==
  ASSUME OpenOK, ReadOK
  PROVE  /\ Len(file) \in Nat
         /\ \A p \in 0..Len(file) : Upto(p) \in Nat
         /\ \A p \in 1..Len(file) : Upto(p - 1) < Upto(p)
<1>1. /\ file \in Seq(Nat)
      /\ \A p \in 1..Len(file) : file[p] > (IF p = 1 THEN 0 ELSE file[p - 1])
  BY FrTransAssumption DEF OpenOK
<1>2. Len(file) \in Nat /\ \A p \in 1..Len(file) : file[p] \in Nat
  BY <1>1, LenProperties
<1>3. \A p \in 0..Len(file) : Upto(p) \in Nat
  BY <1>2 DEF Upto
<1>4. \A p \in 1..Len(file) : Upto(p - 1) < Upto(p)
  BY <1>1, <1>2 DEF Upto
<1>5. QED
  BY <1>2, <1>3, <1>4

LEMMA CarriedFacts ==
  ASSUME OpenOK, ReadOK, pos < Len(file)
  PROVE  /\ Upto(pos) \in Nat /\ Upto(pos + 1) \in Nat /\ Upto(pos) < Upto(pos + 1)
         /\ Carried(pos + 1) \in Seq(Nat)
         /\ Len(Carried(pos + 1)) = Upto(pos + 1) - Upto(pos)
         /\ \A k \in 1..(Upto(pos + 1) - Upto(pos)) : Carried(pos + 1)[k] = Upto(pos) + k
         /\ Pics(Carried(pos + 1)) = (Upto(pos) + 1)..Upto(pos + 1)
<1> DEFINE a == Upto(pos)
           b == Upto(pos + 1)
           c == Carried(pos + 1)
<1>1. a \in Nat /\ b \in Nat /\ a < b
  <2>1. pos \in 0..Len(file) /\ pos + 1 \in 1..Len(file) /\ (pos + 1) - 1 = pos
    BY PacketFacts DEF ReadOK
  <2>2. QED
    BY <2>1, PacketFacts
<1>2. c = [k \in 1..(b - a) |-> a + k]
  <2>1. (pos + 1) - 1 = pos
    BY DEF ReadOK
  <2>2. QED
    BY <2>1 DEF Carried
<1> HIDE DEF a, b, c
<1>3. c \in Seq(Nat) /\ Len(c) = b - a /\ DOMAIN c = 1..(b - a)
  BY <1>1, <1>2
<1>4. \A k \in 1..(b - a) : c[k] = a + k
  BY <1>1, <1>2
<1>5. Pics(c) = (a + 1)..b
  <2>1. \A k \in (a + 1)..b : k - a \in 1..(b - a) /\ a + (k - a) = k
    BY <1>1
  <2>2. \A k \in 1..(b - a) : a + k \in (a + 1)..b
    BY <1>1
  <2>3. Pics(c) \subseteq (a + 1)..b
    BY <1>3, <1>4, <2>2 DEF Pics
  <2>4. ASSUME NEW k \in (a + 1)..b PROVE k \in Pics(c)
    <3>1. k - a \in DOMAIN c /\ c[k - a] = k
      BY <1>3, <1>4, <2>1
    <3>2. QED
      BY <3>1 DEF Pics
  <2>5. QED
    BY <2>3, <2>4
<1>6. QED
  BY <1>1, <1>3, <1>4, <1>5 DEF a, b, c

-----------------------------------------------------------------------------
(* How a step of ReadFrame may end.  has: the pictures in the decoder,     *)
(* those of the packet just read included.                                 *)

HandsOut(has) ==
    \E x \in Nat, v \in Seq(Nat), r \in Seq(Nat) :
        /\ shown' = [shown EXCEPT ![pass] = Append(shown[pass], x)]
        /\ vDecFrame' = v /\ held' = r /\ remain' = Len(v) /\ lost' = lost
        /\ Append(shown[pass], x) \o v \o r = shown[pass] \o vDecFrame \o has
        /\ Handed

Stops ==
    /\ vDecFrame' \in Seq(Nat) /\ held' \in Seq(Nat)
    /\ UNCHANGED <<remain, shown>>
    /\ \E gone \in SUBSET Nat : Lose(gone)
    /\ Break("memory")

MissesFront ==
    /\ held' \in Seq(Nat)
    /\ UNCHANGED <<vDecFrame, remain, shown, lost, how, retry_cnt>>
    /\ Goto("no_front")

(* The front of the queue, which holds q, with r still in the decoder.     *)
LEMMA HandOutEffect ==
  ASSUME ReadOK, pass \in 1..2, NEW q \in Seq(Nat), q # <<>>, NEW r \in Seq(Nat),
         NEW has \in Seq(Nat), vDecFrame \o has = q \o r,
         HandOut(q), held' = r, UNCHANGED lost
  PROVE  HandsOut(has)
<1> DEFINE s == shown[pass]
           x == Head(q)
           v == Tail(q)
<1>1. s \in Seq(Nat) /\ vDecFrame \in Seq(Nat)
  BY DEF ReadOK
<1>2. /\ shown' = [shown EXCEPT ![pass] = Append(s, x)]
      /\ vDecFrame' = v /\ remain' = Len(v) /\ Handed
  BY DEF HandOut
<1>3. x \in Nat /\ v \in Seq(Nat)
  BY HeadTailProperties
<1>4. q = <<x>> \o v
  <2>1. q = <<q[1]>> \o SubSeq(q, 2, Len(q))
    <3>1. Len(q) \in Nat \ {0} /\ SubSeq(q, 1, Len(q)) = q
      BY EmptySeq, SubSeqFull
    <3>2. 1 \in 1..Len(q) /\ Len(q) \in 1..Len(q)
      BY <3>1
    <3>3. SubSeq(q, 1, Len(q)) = <<q[1]>> \o SubSeq(q, 1 + 1, Len(q))
      BY <3>2, SubSeqRecursiveFirst
    <3>4. QED
      BY <3>1, <3>3
  <2>2. v = SubSeq(q, 2, Len(q)) /\ x = q[1]
    BY TailIsSubSeq
  <2>3. QED
    BY <2>1, <2>2
<1> HIDE DEF s, x, v
<1>6. Append(s, x) \o v = s \o q
  <2>1. Append(s, x) \o v = s \o (<<x>> \o v)
    BY <1>1, <1>3, AppendedThenJoined
  <2>2. QED
    BY <1>4, <2>1
<1>7. (s \o q) \o r = s \o (q \o r)
  BY <1>1, JoinedAgain
<1>8. (s \o vDecFrame) \o has = s \o (vDecFrame \o has)
  BY <1>1, JoinedAgain
<1>9. Append(s, x) \o v \o r = s \o vDecFrame \o has
  BY <1>6, <1>7, <1>8
<1>10. QED
  BY <1>2, <1>3, <1>9 DEF HandsOut, s

(* What the decoder does with the pictures it has.                         *)
LEMMA DecodeEffect ==
  ASSUME OpenOK, ReadOK, NEW has \in Seq(Nat), Decode(has)
  PROVE  HandsOut(has) \/ Stops \/ (MissesFront /\ slow)
<1>1. PICK n \in 0..Len(has) :
         /\ n > 0 \/ slow
         /\ held' = SubSeq(has, n + 1, Len(has))
         /\ Copy(SubSeq(has, 1, n))
  BY DEF Decode
<1>2. Len(has) \in Nat /\ \A i \in 1..Len(has) : has[i] \in Nat
  BY LenProperties
<1>3. PICK given \in Seq(Nat) : given = SubSeq(has, 1, n) /\ Len(given) = n
  <2>1. \A i \in 1..n : has[i] \in Nat
    BY <1>2
  <2>2. SubSeq(has, 1, n) \in Seq(Nat) /\ Len(SubSeq(has, 1, n)) = n
    BY <2>1, SubSeqProperties
  <2>3. QED
    BY <2>2
<1>4. PICK r \in Seq(Nat) : r = SubSeq(has, n + 1, Len(has))
  <2>1. \A i \in (n + 1)..Len(has) : has[i] \in Nat
    BY <1>2
  <2>2. SubSeq(has, n + 1, Len(has)) \in Seq(Nat)
    BY <1>2, <2>1, SubSeqProperties
  <2>3. QED
    BY <2>2
<1>5. has = given \o r
  <2>1. SubSeq(has, 1, Len(has)) = has
    BY SubSeqFull
  <2>2. 1 \in 1..(Len(has) + 1) /\ n \in (1 - 1)..Len(has) /\ Len(has) \in n..Len(has)
    BY <1>2
  <2>3. SubSeq(has, 1, n) \o SubSeq(has, n + 1, Len(has)) = SubSeq(has, 1, Len(has))
    BY <2>2, ConcatAdjacentSubSeq
  <2>4. QED
    BY <1>3, <1>4, <2>1, <2>3
<1>6. held' = r /\ Copy(given)
  BY <1>1, <1>3, <1>4
<1>7. PICK q \in Seq(Nat) : q = vDecFrame \o given
  BY ConcatProperties DEF ReadOK
<1>8. vDecFrame \o has = q \o r
  <2>1. vDecFrame \in Seq(Nat)
    BY DEF ReadOK
  <2>2. (vDecFrame \o given) \o r = vDecFrame \o (given \o r)
    BY <2>1, JoinedAgain
  <2>3. QED
    BY <1>5, <1>7, <2>2
<1>9. CASE HandOut(Queue(given)) /\ UNCHANGED lost
  <2>1. HandOut(q) /\ UNCHANGED lost
    BY <1>7, <1>9 DEF Queue
  <2>2. CASE q # <<>>
    BY <1>6, <1>8, <2>1, <2>2, HandOutEffect DEF OpenOK
  <2>3. CASE q = <<>>
    <3>1. MissesFront
      BY <1>6, <2>1, <2>3 DEF HandOut, MissesFront, Goto
    <3>2. /\ Len(q) = Len(vDecFrame) + Len(given) /\ Len(vDecFrame) \in Nat
      BY <1>7, ConcatProperties, LenProperties DEF ReadOK
    <3>3. n = 0
      BY <1>3, <2>3, <3>2, EmptySeq
    <3>4. QED
      BY <1>1, <3>1, <3>3
  <2>4. QED
    BY <2>2, <2>3
<1>10. CASE \E k \in 0..Len(given) - 1 :
               /\ vDecFrame' = Queue(SubSeq(given, 1, k))
               /\ Lose(Pics(SubSeq(given, k + 1, Len(given))))
               /\ Break("memory")
               /\ UNCHANGED <<remain, shown>>
  <2>1. PICK k \in 0..Len(given) - 1 :
               /\ vDecFrame' = Queue(SubSeq(given, 1, k))
               /\ Lose(Pics(SubSeq(given, k + 1, Len(given))))
               /\ Break("memory")
               /\ UNCHANGED <<remain, shown>>
    BY <1>10
  <2>2. Len(given) \in Nat /\ \A i \in 1..Len(given) : given[i] \in Nat
    BY LenProperties
  <2>3. SubSeq(given, 1, k) \in Seq(Nat)
    <3>1. \A i \in 1..k : given[i] \in Nat
      BY <2>2
    <3>2. QED
      BY <2>2, <3>1, SubSeqProperties
  <2>4. PICK t \in Seq(Nat) : t = SubSeq(given, k + 1, Len(given))
    <3>1. \A i \in (k + 1)..Len(given) : given[i] \in Nat
      BY <2>2
    <3>2. SubSeq(given, k + 1, Len(given)) \in Seq(Nat)
      BY <2>2, <3>1, SubSeqProperties
    <3>3. QED
      BY <3>2
  <2>5. Pics(t) \in SUBSET Nat
    BY LenProperties DEF Pics
  <2>6. vDecFrame' \in Seq(Nat)
    BY <2>1, <2>3, ConcatProperties DEF Queue, ReadOK
  <2>7. PICK gone \in SUBSET Nat : gone = Pics(t)
    BY <2>5
  <2>8. Lose(gone)
    BY <2>1, <2>4, <2>7 DEF Lose
  <2>9. QED
    BY <1>6, <2>1, <2>6, <2>8 DEF Stops
<1>11. QED
  BY <1>6, <1>9, <1>10 DEF Copy

-----------------------------------------------------------------------------
(* ReadFrame keeps the invariant, one way of ending after the other.       *)

TypesOK == OpenOK /\ ReadOK /\ WriteOK

ReadStep ==
    /\ Reading
    /\ pos' \in 0..Len(file) /\ eof' \in BOOLEAN
    /\ eof' => pos' = Len(file)
    /\ UNCHANGED <<file, slow, pass, writing, h, started>>

LEMMA InHandTypes ==
  ASSUME OpenOK, ReadOK
  PROVE  /\ shown[pass] \in Seq(Nat) /\ vDecFrame \in Seq(Nat) /\ held \in Seq(Nat)
         /\ shown[pass] \o vDecFrame \in Seq(Nat) /\ InHand \in Seq(Nat)
         /\ pass \in {1, 2}
<1>1. shown[pass] \in Seq(Nat) /\ vDecFrame \in Seq(Nat) /\ held \in Seq(Nat) /\ pass \in {1, 2}
  <2>1. pass \in 1..2
    BY DEF OpenOK
  <2>2. shown[pass] \in Seq(Nat) /\ vDecFrame \in Seq(Nat) /\ held \in Seq(Nat)
    BY <2>1 DEF ReadOK
  <2>3. QED
    BY <2>1, <2>2
<1>2. shown[pass] \o vDecFrame \in Seq(Nat)
  BY <1>1, ConcatProperties
<1>3. InHand \in Seq(Nat)
  BY <1>1, <1>2, ConcatProperties DEF InHand
<1>4. QED
  BY <1>1, <1>2, <1>3

(* A failed read: the pass tries again, or gives up waiting.               *)
LEMMA AgainKeeps ==
  ASSUME IInv, ReadStep, Again, UNCHANGED <<held, vDecFrame, remain, shown, how>>,
         lost' \in [1..2 -> SUBSET Nat],
         \A p \in 1..2 : p # pass => lost'[p] = lost[p],
         Whole(InHand, lost'[pass], Upto(pos'))
  PROVE  IInv'
<1> USE DEF IInv, ReadStep, Reading, writing
<1>0. /\ pass \in {1, 2} /\ Waits \in Nat /\ Waits > 0
      /\ retry_cnt \in Nat /\ retry_cnt < Waits
  <2>1. Waits \in Nat \ {0}
    BY FrTransAssumption
  <2>2. pass \in 1..2 /\ retry_cnt \in 0..Waits
    BY DEF OpenOK
  <2>3. retry_cnt < Waits
    BY DEF PassInv
  <2>4. QED
    BY <2>1, <2>2, <2>3
<1>1. /\ pc = "read" /\ pass \in {1, 2}
      /\ UNCHANGED <<file, slow, pass, encFrame, writeNum, written, h, started>>
      /\ pc' \in {"read", "returned"}
      /\ pc' = "read" => result' = result
      /\ pc' = "returned" => result' = "STABIL_CANT_DECODE_FILE"
      /\ retry_cnt < Waits
      /\ retry_cnt' \in 0..Waits /\ (pc' # "returned" => retry_cnt' < Waits)
  BY <1>0 DEF Again, Return
<1>2. OpenOK'
  BY <1>1 DEF OpenOK, Failures, Complete, Running
<1>3. ReadOK' /\ WriteOK'
  BY <1>1 DEF ReadOK, WriteOK
<1>4. PlacesInv'
  <2>1. Whole(InHand', lost'[pass], Upto(pos)')
    <3>1. InHand' = InHand /\ Upto(pos)' = Upto(pos')
      BY <1>1 DEF InHand, Upto
    <3>2. QED
      BY <3>1
  <2>2. Whole(InHand, lost[pass], Upto(pos))' = Whole(InHand', lost'[pass], Upto(pos)')
    BY <1>1 DEF Whole, Rising, Pics, Identity
  <2>3. /\ shown[pass] = <<>> => vDecFrame = <<>> /\ held = <<>>
        /\ pass = 1 \/ shown[pass] # <<>> => remain = Len(vDecFrame)
        /\ how[pass] = ""
    BY <1>1 DEF PlacesInv, AtWork
  <2>4. QED
    BY <1>1, <2>1, <2>2, <2>3 DEF PlacesInv
<1>5. PassInv'
  <2>1. pass = 1 => lost'[2] = lost[2]
    OBVIOUS
  <2>2. QED
    BY <1>1, <2>1 DEF PassInv
<1>6. EndInv'
  BY <1>1 DEF EndInv, Total, Upto, PlacesInv, AtWork
<1>7. NumberInv'
  <2>1. Identity(shown[pass]) \/ lost'[pass] # {}
    <3> SUFFICES ASSUME lost'[pass] = {} PROVE Identity(shown[pass])
      OBVIOUS
    <3> DEFINE s == shown[pass]
               sv == s \o vDecFrame
    <3>1. Identity(sv \o held)
      BY DEF Whole, InHand
    <3>2. s \in Seq(Nat) /\ vDecFrame \in Seq(Nat) /\ held \in Seq(Nat) /\ sv \in Seq(Nat)
      BY InHandTypes
    <3>3. /\ DOMAIN s \subseteq DOMAIN sv
          /\ \A i \in DOMAIN s : sv[i] = s[i]
      BY <3>2, Joined
    <3> HIDE DEF sv
    <3>4. /\ DOMAIN sv \subseteq DOMAIN (sv \o held)
          /\ \A i \in DOMAIN sv : (sv \o held)[i] = sv[i]
      BY <3>2, Joined
    <3>5. QED
      BY <3>1, <3>3, <3>4 DEF Identity
  <2>2. QED
    BY <1>1, <2>1 DEF NumberInv
<1>8. WriteInv' /\ FrontIsThere'
  BY <1>1 DEF WriteInv, FrontIsThere
<1>9. QED
  BY <1>2, <1>3, <1>4, <1>5, <1>6, <1>7, <1>8

(* A picture is handed out.                                                *)
LEMMA HandsOutKeeps ==
  ASSUME IInv, ReadStep, NEW has \in Seq(Nat), HandsOut(has),
         Whole(shown[pass] \o vDecFrame \o has, lost[pass], Upto(pos'))
  PROVE  IInv'
<1> USE DEF IInv, ReadStep, Reading, writing
<1>1. PICK x \in Nat, v \in Seq(Nat), r \in Seq(Nat) :
        /\ shown' = [shown EXCEPT ![pass] = Append(shown[pass], x)]
        /\ vDecFrame' = v /\ held' = r /\ remain' = Len(v) /\ lost' = lost
        /\ Append(shown[pass], x) \o v \o r = shown[pass] \o vDecFrame \o has
        /\ Handed
  BY DEF HandsOut
<1>t. pass \in {1, 2}
  BY InHandTypes
<1>2. PICK s \in Seq(Nat) : s = shown[pass]
  BY InHandTypes
<1>3. PICK sx \in Seq(Nat) : sx = Append(s, x)
  BY Longer
<1>4. /\ pc = "read" /\ pass \in {1, 2}
      /\ UNCHANGED <<file, slow, pass, encFrame, writeNum, written, h, started, how, retry_cnt, lost>>
      /\ shown' = [shown EXCEPT ![pass] = sx]
      /\ pass = 1 => /\ pc' \in {"read", "close", "returned"}
                     /\ result' \in {result, "STABIL_CANT_GRAP_TRACKINGPT"}
      /\ pass = 2 => /\ pc' = (IF s = <<>> THEN "read" ELSE "write")
                     /\ result' = result
  <2>1. /\ pc = "read"
        /\ UNCHANGED <<file, slow, pass, encFrame, writeNum, written, h, started, lost>>
        /\ shown' = [shown EXCEPT ![pass] = sx]
    BY <1>1, <1>2, <1>3
  <2>2. UNCHANGED <<how, retry_cnt>>
    BY <1>1 DEF Handed
  <2>3. pass = 1 => /\ pc' \in {"read", "close", "returned"}
                    /\ result' \in {result, "STABIL_CANT_GRAP_TRACKINGPT"}
    BY <1>1 DEF Handed, Goto, Return
  <2>4. pass = 2 => pc' = (IF s = <<>> THEN "read" ELSE "write") /\ result' = result
    BY <1>1, <1>2 DEF Handed, Goto
  <2>5. QED
    BY <1>t, <2>1, <2>2, <2>3, <2>4
<1>5. /\ Len(sx) = Len(s) + 1 /\ Len(s) \in Nat /\ sx # <<>>
      /\ sx[Len(sx)] = x /\ \A i \in 1..Len(s) : sx[i] = s[i]
  <2>1. /\ Append(s, x) # <<>> /\ Len(s) \in Nat
        /\ Len(Append(s, x)) = Len(s) + 1 /\ Append(s, x)[Len(s) + 1] = x
        /\ \A i \in 1..Len(s) : Append(s, x)[i] = s[i]
    BY Longer
  <2>2. QED
    BY <1>3, <2>1
<1>6. shown'[pass] = sx /\ \A p \in 1..2 : p # pass => shown'[p] = shown[p]
  BY <1>4, <1>t DEF ReadOK
<1>7. OpenOK'
  BY <1>4 DEF OpenOK, Failures
<1>8. ReadOK' /\ WriteOK'
  <2>1. shown' \in [1..2 -> Seq(Nat)]
    BY <1>4 DEF ReadOK
  <2>2. remain' \in Nat
    BY <1>1, LenProperties
  <2>3. QED
    BY <1>1, <1>4, <2>1, <2>2 DEF ReadOK, WriteOK
<1>9. Whole(sx \o v \o r, lost[pass], Upto(pos'))
  BY <1>1, <1>2, <1>3
<1>10. PlacesInv'
  <2>1. InHand' = sx \o v \o r /\ Upto(pos)' = Upto(pos')
    BY <1>1, <1>4, <1>6 DEF InHand, Upto
  <2>2. Whole(InHand', lost'[pass], Upto(pos)')
    BY <1>4, <1>9, <2>1
  <2>3. shown'[pass'] # <<>> /\ remain' = Len(vDecFrame')
    BY <1>1, <1>4, <1>5, <1>6
  <2>4. how[pass] = ""
    BY <1>4 DEF PlacesInv, AtWork
  <2>5. Whole(InHand, lost[pass], Upto(pos))' = Whole(InHand', lost'[pass'], Upto(pos)')
    BY DEF Whole, Rising, Pics, Identity
  <2>6. QED
    BY <1>4, <2>2, <2>3, <2>4, <2>5 DEF PlacesInv
<1>11. PassInv'
  <2>1. pass = 1 => shown'[2] = shown[2]
    BY <1>6
  <2>2. pass = 2 => shown'[2] # <<>>
    BY <1>5, <1>6
  <2>3. pass = 1 => pc' \in {"read", "close", "returned"}
    BY <1>4
  <2>4. pass = 2 => pc' \in {"read", "write"}
    BY <1>4
  <2>5. QED
    BY <1>4, <2>1, <2>2, <2>3, <2>4 DEF PassInv
<1>12. EndInv'
  BY <1>4, <1>6 DEF EndInv, Total, Upto, PlacesInv, AtWork
<1>13. Rising(sx) /\ (lost[pass] = {} => Identity(sx))
  <2>1. sx \o v \in Seq(Nat)
    BY ConcatProperties
  <2>2. Whole(sx \o v, lost[pass] \cup Pics(r), Upto(pos'))
    BY <1>9, <2>1, WholePrefix
  <2>3. Whole(sx, (lost[pass] \cup Pics(r)) \cup Pics(v), Upto(pos'))
    BY <2>2, WholePrefix
  <2>4. lost[pass] = {} => Identity(sx)
    <3> SUFFICES ASSUME lost[pass] = {} PROVE Identity(sx)
      OBVIOUS
    <3>1. Identity((sx \o v) \o r)
      BY <1>9 DEF Whole
    <3>2. /\ DOMAIN (sx \o v) \subseteq DOMAIN ((sx \o v) \o r)
          /\ \A i \in DOMAIN (sx \o v) : ((sx \o v) \o r)[i] = (sx \o v)[i]
      BY <2>1, Joined
    <3>3. /\ DOMAIN sx \subseteq DOMAIN (sx \o v)
          /\ \A i \in DOMAIN sx : (sx \o v)[i] = sx[i]
      BY Joined
    <3>4. QED
      BY <3>1, <3>2, <3>3 DEF Identity
  <2>5. QED
    BY <2>3, <2>4 DEF Whole
<1>14. NumberInv'
  BY <1>4, <1>6, <1>13 DEF NumberInv
<1>15. WriteInv'
  <2>1. CASE pass = 1
    <3>1. /\ written' = written /\ written = <<>> /\ pass' = 1
          /\ pc' # "write" /\ pc' # "open_writer"
      BY <2>1, <1>4 DEF WriteInv
    <3>2. QED
      BY <3>1, EmptySeq DEF WriteInv
  <2>2. CASE pass = 2
    <3>1. pc' \in {"read", "write"} /\ pass' = 2 /\ shown'[2] = sx /\ shown[2] = s
      BY <2>2, <1>2, <1>4, <1>6
    <3>2. /\ writeNum = Len(written)
          /\ \A j \in 1..Len(written) : written[j].pic \in Pics(s)
          /\ \A j \in 1..Len(written) : written[j].cts = j - 1
          /\ \A j \in 1..Len(written) : \A k \in 1..(j - 1) : written[k].pic < written[j].pic
      BY <2>2, <3>1, <1>4 DEF WriteInv
    <3>3. DOMAIN s = 1..Len(s) /\ DOMAIN sx = 1..Len(sx)
      BY LenProperties
    <3>4. ASSUME NEW i \in DOMAIN s
          PROVE  i \in DOMAIN sx /\ sx[i] = s[i] /\ s[i] < sx[Len(sx)]
      <4>1. i \in DOMAIN sx /\ Len(sx) \in DOMAIN sx /\ i < Len(sx) /\ sx[i] = s[i]
        BY <3>3, <1>5
      <4>2. sx[i] < sx[Len(sx)]
        BY <4>1, <1>13 DEF Rising
      <4>3. QED
        BY <4>1, <4>2
    <3>5. \A p \in Pics(s) : p \in Pics(sx) /\ p < sx[Len(sx)]
      BY <3>4 DEF Pics
    <3>6. QED
      BY <1>4, <3>1, <3>2, <3>5 DEF WriteInv
  <2>3. QED
    BY <1>4, <2>1, <2>2
<1>16. FrontIsThere'
  BY <1>4 DEF FrontIsThere
<1>17. QED
  BY <1>7, <1>8, <1>10, <1>11, <1>12, <1>14, <1>15, <1>16

(* The pass ends at the decoder or the memory: what was handed out stays.  *)
LEMMA StopsKeeps ==
  ASSUME IInv, ReadStep, Stops
  PROVE  IInv'
<1> USE DEF IInv, ReadStep, Reading, writing
<1>1. PICK gone \in SUBSET Nat : lost' = [lost EXCEPT ![pass] = lost[pass] \cup gone]
  BY DEF Stops, Lose
<1>2. /\ pc = "read" /\ pass \in {1, 2}
      /\ UNCHANGED <<file, slow, pass, encFrame, writeNum, written, h, started, retry_cnt,
                     result, remain, shown>>
      /\ vDecFrame' \in Seq(Nat) /\ held' \in Seq(Nat)
      /\ pc' = (IF pass = 1 THEN "close" ELSE "finish")
      /\ how' = [how EXCEPT ![pass] = "memory"]
  BY InHandTypes DEF Stops, Break, Goto
<1>3. OpenOK'
  BY <1>2 DEF OpenOK
<1>4. ReadOK' /\ WriteOK'
  <2>1. lost' \in [1..2 -> SUBSET Nat]
    BY <1>1, <1>2 DEF ReadOK
  <2>2. QED
    BY <1>2, <2>1 DEF ReadOK, WriteOK
<1>5. PlacesInv'
  BY <1>2 DEF PlacesInv, AtWork
<1>6. /\ how'[pass] = "memory" /\ lost[pass] \subseteq lost'[pass]
      /\ \A p \in 1..2 : p # pass => how'[p] = how[p] /\ lost'[p] = lost[p]
  BY <1>1, <1>2 DEF OpenOK, ReadOK
<1>7. PassInv'
  <2>1. pass = 1 => how'[2] = how[2] /\ lost'[2] = lost[2]
    BY <1>6
  <2>2. QED
    BY <1>2, <2>1 DEF PassInv
<1>8. EndInv'
  BY <1>2, <1>6 DEF EndInv, Total, Upto
<1>9. NumberInv'
  <2>1. \A p \in 1..2 : lost'[p] = {} => lost[p] = {}
    BY <1>2, <1>6
  <2>2. QED
    BY <1>2, <2>1 DEF NumberInv
<1>10. WriteInv' /\ FrontIsThere'
  BY <1>2 DEF WriteInv, FrontIsThere
<1>11. QED
  BY <1>3, <1>4, <1>5, <1>7, <1>8, <1>9, <1>10

(* The front of an empty queue.                                            *)
LEMMA MissesFrontKeeps ==
  ASSUME IInv, ReadStep, MissesFront,
         slow \/ (pass = 2 /\ shown[2] = <<>> /\ lost[2] = 1..Total)
  PROVE  IInv'
<1> USE DEF IInv, ReadStep, Reading, writing
<1>1. /\ pc = "read" /\ pass \in {1, 2}
      /\ UNCHANGED <<file, slow, pass, encFrame, writeNum, written, h, started, retry_cnt,
                     result, remain, shown, vDecFrame, lost, how>>
      /\ held' \in Seq(Nat)
      /\ pc' = "no_front"
  BY InHandTypes DEF MissesFront, Goto
<1>2. OpenOK' /\ ReadOK' /\ WriteOK'
  BY <1>1 DEF OpenOK, ReadOK, WriteOK
<1>3. PlacesInv' /\ PassInv'
  BY <1>1 DEF PlacesInv, AtWork, PassInv
<1>4. EndInv' /\ NumberInv' /\ WriteInv'
  BY <1>1 DEF EndInv, Total, Upto, NumberInv, WriteInv
<1>5. FrontIsThere'
  BY <1>1 DEF FrontIsThere, Total, Upto
<1>6. QED
  BY <1>2, <1>3, <1>4, <1>5

(* The pass reads to the end: the decoder has nothing more to give, or     *)
(* what it still had is gone.                                              *)
LEMMA EndsKeeps ==
  ASSUME IInv, ReadStep, eof', UNCHANGED pos, remain = 0,
         held' = <<>>, Lose(Pics(held)), Break("end"),
         UNCHANGED <<vDecFrame, remain, shown>>
  PROVE  IInv'
<1> USE DEF IInv, ReadStep, Reading, writing
<1>1. /\ pc = "read" /\ pass \in {1, 2}
      /\ UNCHANGED <<file, slow, pass, encFrame, writeNum, written, h, started, retry_cnt,
                     result, remain, shown, vDecFrame, pos>>
      /\ held' = <<>> /\ held' \in Seq(Nat) /\ pos = Len(file)
      /\ pc' = (IF pass = 1 THEN "close" ELSE "finish")
      /\ how' = [how EXCEPT ![pass] = "end"]
      /\ lost' = [lost EXCEPT ![pass] = lost[pass] \cup Pics(held)]
  BY InHandTypes DEF Break, Goto, Lose
<1>2. /\ vDecFrame = <<>>
      /\ Whole(InHand, lost[pass], Upto(pos))
  BY <1>1, EmptySeq, InHandTypes DEF PlacesInv, AtWork
<1>3. PICK s \in Seq(Nat), t \in Seq(Nat) : s = shown[pass] /\ t = held
  BY InHandTypes
<1>4. s \o vDecFrame = s
  BY <1>2, ConcatEmptySeq
<1>5. Whole(s \o t, lost[pass], Total)
  BY <1>1, <1>2, <1>3, <1>4 DEF InHand, Total
<1>6. Whole(s, lost[pass] \cup Pics(t), Total)
  BY <1>5, WholePrefix
<1>7. Pics(t) \in SUBSET Nat
  BY LenProperties DEF Pics
<1>8. OpenOK'
  BY <1>1 DEF OpenOK
<1>9. ReadOK' /\ WriteOK'
  <2>1. lost' \in [1..2 -> SUBSET Nat]
    BY <1>1, <1>3, <1>7 DEF ReadOK
  <2>2. QED
    BY <1>1, <2>1 DEF ReadOK, WriteOK
<1>10. PlacesInv'
  BY <1>1 DEF PlacesInv, AtWork
<1>11. /\ lost'[pass] = lost[pass] \cup Pics(t)
       /\ \A p \in 1..2 : p # pass => how'[p] = how[p] /\ lost'[p] = lost[p]
  BY <1>1, <1>3 DEF OpenOK, ReadOK
<1>12. PassInv'
  <2>1. pass = 1 => how'[2] = how[2] /\ lost'[2] = lost[2]
    BY <1>11
  <2>2. QED
    BY <1>1, <2>1 DEF PassInv
<1>13. EndInv'
  <2>1. Pics(shown[pass]) = 1..Total \ lost'[pass]
    BY <1>3, <1>6, <1>11 DEF Whole
  <2>2. Total' = Total
    BY <1>1 DEF Total, Upto
  <2>3. \A p \in 1..2 : Pics(shown[p])' = Pics(shown[p])
    BY <1>1 DEF Pics
  <2>4. QED
    BY <1>11, <2>1, <2>2, <2>3 DEF EndInv
<1>14. NumberInv'
  <2>1. \A p \in 1..2 : lost'[p] = {} => lost[p] = {}
    BY <1>11
  <2>2. QED
    BY <1>1, <2>1 DEF NumberInv
<1>15. WriteInv' /\ FrontIsThere'
  BY <1>1 DEF WriteInv, FrontIsThere
<1>16. QED
  BY <1>8, <1>9, <1>10, <1>12, <1>13, <1>14, <1>15

LEMMA ReadFrameKeeps ==
  ASSUME IInv, ReadFrame
  PROVE  IInv'
<1>i. OpenOK /\ ReadOK /\ WriteOK
  BY DEF IInv
<1>r. Reading
  BY DEF ReadFrame, ReadFails, BadPacket, ReadPacket, Drain, Flush, AtEnd
<1>w. /\ Whole(InHand, lost[pass], Upto(pos))
      /\ shown[pass] = <<>> => vDecFrame = <<>> /\ held = <<>>
      /\ pass = 1 \/ shown[pass] # <<>> => remain = Len(vDecFrame)
      /\ eof => pos = Len(file)
  <2>1. PlacesInv /\ AtWork
    BY <1>r DEF IInv, AtWork, Reading
  <2>2. QED
    BY <2>1 DEF PlacesInv
<1>t. /\ pass \in {1, 2} /\ pos \in 0..Len(file) /\ eof \in BOOLEAN /\ Len(file) \in Nat
      /\ lost[pass] \in SUBSET Nat
  <2>1. pass \in 1..2
    BY <1>i DEF OpenOK
  <2>2. lost[pass] \in SUBSET Nat
    BY <1>i, <2>1 DEF ReadOK
  <2>3. QED
    BY <1>i, <2>1, <2>2, PacketFacts DEF ReadOK
<1>s. /\ shown[pass] \in Seq(Nat) /\ vDecFrame \in Seq(Nat) /\ held \in Seq(Nat)
      /\ shown[pass] \o vDecFrame \in Seq(Nat) /\ InHand \in Seq(Nat)
  BY <1>i, InHandTypes
<1>d. ASSUME NEW has \in Seq(Nat), Decode(has), ReadStep,
             Whole(shown[pass] \o vDecFrame \o has, lost[pass], Upto(pos'))
      PROVE  IInv'
  <2>1. HandsOut(has) \/ Stops \/ (MissesFront /\ slow)
    BY <1>d, <1>i, DecodeEffect
  <2>2. CASE HandsOut(has)
    BY <1>d, <2>2, HandsOutKeeps
  <2>3. CASE Stops
    BY <1>d, <2>3, StopsKeeps
  <2>4. CASE MissesFront /\ slow
    BY <1>d, <2>4, MissesFrontKeeps
  <2>5. QED
    BY <2>1, <2>2, <2>3, <2>4
<1>1. CASE ReadFails
  <2>1. /\ Again /\ UNCHANGED <<pos, eof, held, vDecFrame, remain, shown, lost, how>>
        /\ UNCHANGED <<file, slow, pass, writing, h, started>>
    BY <1>1 DEF ReadFails, reading
  <2>2. ReadStep
    BY <1>r, <1>t, <1>w, <2>1 DEF ReadStep
  <2>3. lost' \in [1..2 -> SUBSET Nat] /\ Whole(InHand, lost'[pass], Upto(pos'))
    BY <1>i, <1>w, <2>1 DEF ReadOK
  <2>4. \A p \in 1..2 : p # pass => lost'[p] = lost[p]
    BY <2>1
  <2>5. QED
    BY <2>1, <2>2, <2>3, <2>4, AgainKeeps
<1>2. CASE BadPacket
  <2>1. /\ Again /\ UNCHANGED <<eof, held, vDecFrame, remain, shown, how>>
        /\ UNCHANGED <<file, slow, pass, writing, h, started>>
        /\ ~eof /\ pos < Len(file) /\ pos' = pos + 1
        /\ lost' = [lost EXCEPT ![pass] = lost[pass] \cup Pics(Carried(pos + 1))]
    BY <1>2 DEF BadPacket, Lose
  <2>2. ReadStep
    BY <1>r, <1>t, <2>1 DEF ReadStep
  <2>3. PICK a \in Nat, b \in Nat : a = Upto(pos) /\ b = Upto(pos + 1) /\ a < b
                                    /\ Pics(Carried(pos + 1)) = (a + 1)..b
    BY <1>i, <2>1, CarriedFacts
  <2>4. /\ lost' \in [1..2 -> SUBSET Nat] /\ lost'[pass] = lost[pass] \cup (a + 1)..b
        /\ \A p \in 1..2 : p # pass => lost'[p] = lost[p]
    <3>1. (a + 1)..b \in SUBSET Nat
      BY <2>3
    <3>2. lost \in [1..2 -> SUBSET Nat] /\ pass \in 1..2
      BY <1>i, <1>t DEF ReadOK
    <3>3. lost' = [lost EXCEPT ![pass] = lost[pass] \cup (a + 1)..b]
      BY <2>1, <2>3
    <3>4. lost[pass] \cup (a + 1)..b \in SUBSET Nat
      BY <1>t, <3>1
    <3>5. QED
      BY <3>2, <3>3, <3>4
  <2>5. PICK s \in Seq(Nat), l \in SUBSET Nat : s = InHand /\ l = lost[pass]
    BY <1>s, <1>t
  <2>6. Whole(s, l \cup (a + 1)..b, b)
    BY <1>w, <2>3, <2>5, WholeLoses
  <2>7. Whole(InHand, lost'[pass], Upto(pos'))
    BY <2>1, <2>3, <2>4, <2>5, <2>6
  <2>8. QED
    BY <2>1, <2>2, <2>4, <2>7, AgainKeeps
<1>3. CASE ReadPacket
  <2>1. /\ UNCHANGED eof /\ UNCHANGED <<file, slow, pass, writing, h, started>>
        /\ ~eof /\ pos < Len(file) /\ pos' = pos + 1
        /\ Decode(held \o Carried(pos + 1))
    BY <1>3 DEF ReadPacket
  <2>2. ReadStep
    BY <1>r, <1>t, <2>1 DEF ReadStep
  <2>3. PICK a \in Nat, b \in Nat, c \in Seq(Nat) :
          /\ a = Upto(pos) /\ b = Upto(pos + 1) /\ a < b /\ c = Carried(pos + 1)
          /\ Len(c) = b - a /\ \A k \in 1..(b - a) : c[k] = a + k
    BY <1>i, <2>1, CarriedFacts
  <2>4. PICK sv \in Seq(Nat), r \in Seq(Nat), l \in SUBSET Nat :
          sv = shown[pass] \o vDecFrame /\ r = held /\ l = lost[pass]
    BY <1>s, <1>t
  <2>5. PICK has \in Seq(Nat) : has = r \o c
    BY ConcatProperties
  <2>6. PICK s \in Seq(Nat) : s = sv \o r
    BY ConcatProperties
  <2>7. Whole(s, l, a)
    BY <1>w, <2>3, <2>4, <2>6 DEF InHand
  <2>8. Whole(s \o c, l, b)
    <3>1. a <= b
      BY <2>3
    <3>2. QED
      BY <2>3, <2>7, <3>1, WholeGrows
  <2>9. s \o c = sv \o has
    <3>1. (sv \o r) \o c = sv \o (r \o c)
      BY JoinedAgain
    <3>2. QED
      BY <2>5, <2>6, <3>1
  <2>10. Whole(shown[pass] \o vDecFrame \o has, lost[pass], Upto(pos'))
    BY <2>1, <2>3, <2>4, <2>8, <2>9
  <2>11. Decode(has)
    BY <2>1, <2>3, <2>4, <2>5
  <2>12. QED
    BY <1>d, <2>2, <2>10, <2>11
<1>4. CASE Drain
  <2>1. /\ eof' = TRUE /\ HandOut(vDecFrame) /\ remain # 0
        /\ UNCHANGED <<file, slow, pass, pos, held, lost, writing, h, started>>
    BY <1>4 DEF Drain
  <2>2. pos = Len(file)
    BY <1>4, <1>w DEF Drain, AtEnd
  <2>3. ReadStep
    BY <1>r, <1>t, <2>1, <2>2 DEF ReadStep
  <2>4. PICK q \in Seq(Nat), r \in Seq(Nat) : q = vDecFrame /\ r = held
    BY <1>s
  <2>5. CASE q # <<>>
    <3>1. HandOut(q) /\ held' = r /\ UNCHANGED lost /\ vDecFrame \o r = q \o r
      BY <2>1, <2>4
    <3>2. HandsOut(r)
      BY <1>i, <2>4, <2>5, <3>1, HandOutEffect DEF OpenOK
    <3>3. Whole(shown[pass] \o vDecFrame \o r, lost[pass], Upto(pos'))
      BY <1>w, <2>1, <2>4 DEF InHand
    <3>4. QED
      BY <2>3, <3>2, <3>3, HandsOutKeeps
  <2>6. CASE q = <<>>
    <3>1. pass = 2 /\ shown[2] = <<>> /\ held = <<>> /\ vDecFrame = <<>>
      BY <1>w, <1>t, <2>1, <2>4, <2>6, EmptySeq
    <3>2. InHand = <<>>
      BY <3>1, ConcatEmptySeq, EmptySeq DEF InHand
    <3>3. Whole(<<>>, lost[2], Total)
      BY <1>w, <2>2, <3>1, <3>2 DEF Total
    <3>4. Pics(<<>>) = {}
      BY EmptySeq DEF Pics
    <3>5. lost[2] = 1..Total
      BY <3>3, <3>4 DEF Whole
    <3>6. MissesFront
      BY <1>s, <2>1, <2>4, <2>6 DEF HandOut, MissesFront
    <3>7. QED
      BY <2>3, <3>1, <3>5, <3>6, MissesFrontKeeps
  <2>7. QED
    BY <2>5, <2>6
<1>5. CASE Flush
  <2>1. /\ eof' = TRUE /\ remain = 0
        /\ UNCHANGED <<file, slow, pass, pos, writing, h, started>>
    BY <1>5 DEF Flush
  <2>2. pos = Len(file)
    BY <1>5, <1>w DEF Flush, AtEnd
  <2>3. ReadStep
    BY <1>r, <1>t, <2>1, <2>2 DEF ReadStep
  <2>4. CASE Decode(held)
    <3>1. PICK has \in Seq(Nat) : has = held
      BY <1>s
    <3>2. Decode(has)
      BY <2>4, <3>1
    <3>3. Whole(shown[pass] \o vDecFrame \o has, lost[pass], Upto(pos'))
      BY <1>w, <2>1, <3>1 DEF InHand
    <3>4. QED
      BY <1>d, <2>3, <3>2, <3>3
  <2>5. CASE held' = <<>> /\ Lose(Pics(held)) /\ Break("end") /\ UNCHANGED <<vDecFrame, remain, shown>>
    BY <2>1, <2>3, <2>5, EndsKeeps
  <2>6. QED
    BY <1>5, <2>4, <2>5 DEF Flush
<1>6. QED
  BY <1>1, <1>2, <1>3, <1>4, <1>5 DEF ReadFrame

-----------------------------------------------------------------------------
(* The other actions.                                                      *)

LEMMA NothingYet == Whole(<<>>, {}, 0) /\ <<>> \o <<>> \o <<>> = <<>> /\ <<>> \in Seq(Nat)
<1>1. <<>> \in Seq(Nat) /\ DOMAIN <<>> = {} /\ <<>> \o <<>> = <<>>
  BY EmptySeq, ConcatEmptySeq
<1>2. Pics(<<>>) = {} /\ Rising(<<>>) /\ Identity(<<>>) /\ 1..0 = {}
  BY <1>1 DEF Pics, Rising, Identity
<1>3. QED
  BY <1>1, <1>2 DEF Whole

(* A pass that begins with a new reader.                                   *)
LEMMA BeginsWithNothing ==
  ASSUME shown'[pass'] = <<>>, vDecFrame' = <<>>, held' = <<>>, lost'[pass'] = {},
         pos' = 0
  PROVE  Whole(InHand, lost[pass], Upto(pos))'
<1>1. InHand' = <<>> /\ lost'[pass'] = {} /\ Upto(pos)' = 0
  BY NothingYet DEF InHand, Upto
<1>2. Whole(InHand, lost[pass], Upto(pos))' = Whole(InHand', lost'[pass'], Upto(pos)')
  BY DEF Whole, Rising, Pics, Identity
<1>3. QED
  BY <1>1, <1>2, NothingYet

LEMMA Pair ==
  ASSUME NEW S, NEW a \in S, NEW b \in S
  PROVE  <<a, b>> \in [1..2 -> S] /\ <<a, b>>[1] = a /\ <<a, b>>[2] = b
<1>1. <<a, b>> = [i \in 1..2 |-> IF i = 1 THEN a ELSE b]
  OBVIOUS
<1>2. 1 \in 1..2 /\ 2 \in 1..2
  OBVIOUS
<1>3. QED
  BY <1>1, <1>2

LEMMA InitIInv ==
  ASSUME Init
  PROVE  IInv
<1>0. Waits \in Nat \ {0} /\ \A f \in Files : f \in Seq(Nat)
  BY FrTransAssumption
<1>1. Waits \in Nat /\ Waits > 0 /\ 0 \in 0..Waits
  BY <1>0
<1>2. /\ file \in Files /\ slow \in BOOLEAN /\ pass = 1 /\ pc = "open" /\ result = Running
      /\ started = FALSE /\ retry_cnt = 0 /\ how = <<"", "">>
      /\ encFrame = FALSE /\ writeNum = 0 /\ written = <<>>
  BY DEF Init
<1>3. /\ pos = 0 /\ eof = FALSE /\ held = <<>> /\ vDecFrame = <<>> /\ remain = 0
      /\ shown = <<<<>>, <<>>>> /\ lost = <<{}, {}>>
  BY DEF Init
<1>4. h \in [reader : Handle, dec : Handle, conv : Handle, enc : Handle, writer : Handle]
  BY DEF Init, Handle
<1>5. how \in [1..2 -> {"", "end", "memory"}] /\ how[1] = "" /\ how[2] = ""
  <2>1. "" \in {"", "end", "memory"}
    OBVIOUS
  <2>2. QED
    BY <1>2, <2>1, Pair
<1>6. /\ shown \in [1..2 -> Seq(Nat)] /\ shown[1] = <<>> /\ shown[2] = <<>>
      /\ lost \in [1..2 -> SUBSET Nat] /\ lost[1] = {} /\ lost[2] = {}
  <2>1. <<>> \in Seq(Nat) /\ {} \in SUBSET Nat
    BY EmptySeq
  <2>2. QED
    BY <1>3, <2>1, Pair
<1>7. OpenOK
  <2>a. pass = 1 /\ retry_cnt = 0
    BY <1>2
  <2>b. started \in BOOLEAN
    BY <1>2
  <2>1. pass \in 1..2 /\ started \in BOOLEAN /\ retry_cnt \in 0..Waits
    <3>1. pass \in 1..2
      BY <2>a
    <3>2. QED
      BY <1>1, <2>a, <2>b, <3>1
  <2>2. result \in Failures \cup {Complete, Running}
    BY <1>2
  <2>3. pc \in {"open", "read", "close", "reopen", "open_writer", "write", "finish",
                 "returned", "no_front", "stray_handle"}
    BY <1>2
  <2>4. QED
    BY <1>2, <1>4, <1>5, <2>1, <2>2, <2>3 DEF OpenOK
<1>8. ReadOK /\ WriteOK
  <2>1. Len(file) \in Nat
    BY <1>0, <1>2, LenProperties
  <2>2. 0 \in 0..Len(file) /\ <<>> \in Seq([pic : Nat, cts : Nat])
    BY <2>1, EmptySeq
  <2>3. QED
    BY <1>2, <1>3, <1>6, <2>2, NothingYet DEF ReadOK, WriteOK
<1>9. PlacesInv
  <2>1. InHand = <<>> /\ lost[pass] = {} /\ Upto(pos) = 0
    BY <1>2, <1>3, <1>6, NothingYet DEF InHand, Upto
  <2>2. Whole(InHand, lost[pass], Upto(pos))
    BY <2>1, NothingYet
  <2>3. Len(vDecFrame) = 0
    BY <1>3, EmptySeq
  <2>4. QED
    BY <1>2, <1>3, <1>5, <2>2, <2>3 DEF PlacesInv
<1>10. PassInv /\ EndInv /\ FrontIsThere
  <2>1. PassInv
    BY <1>1, <1>2, <1>3, <1>5, <1>6 DEF PassInv
  <2>2. \A p \in 1..2 : how[p] # "end"
    <3>1. \A p \in 1..2 : p = 1 \/ p = 2
      OBVIOUS
    <3>2. how[1] # "end" /\ how[2] # "end"
      BY <1>5
    <3>3. QED
      BY <3>1, <3>2
  <2>3. QED
    BY <1>2, <2>1, <2>2 DEF EndInv, FrontIsThere
<1>11. NumberInv
  BY <1>6, EmptySeq DEF NumberInv, Identity
<1>12. WriteInv
  <2>a. written = <<>>
    BY <1>2
  <2>1. Len(written) = 0 /\ 1..0 = {}
    BY <2>a, EmptySeq
  <2>2. QED
    BY <1>2, <2>1 DEF WriteInv
<1>13. QED
  BY <1>7, <1>8, <1>9, <1>10, <1>11, <1>12 DEF IInv

LEMMA FirstOpenKeeps ==
  ASSUME IInv, FirstOpen
  PROVE  IInv'
<1> USE DEF IInv, writing
<1>1. PICK ok \in 0..4 :
        /\ OpenReader(ok)
        /\ IF ok = 4 THEN Goto("read") ELSE Return("EXECUTE_CLIENT_EXCEPTION")
  BY DEF FirstOpen
<1>2. /\ pc = "open" /\ pass = 1 /\ pass' = 1
      /\ UNCHANGED <<file, slow, encFrame, writeNum, written, retry_cnt, how, vDecFrame,
                     remain, shown, lost>>
      /\ eof' = FALSE /\ pos' = 0 /\ held' = <<>> /\ started' \in BOOLEAN
      /\ h' = [h EXCEPT !.reader = IF ok >= 1 THEN "open" ELSE @, !.dec = IF ok >= 3 THEN "open" ELSE @]
      /\ pc' \in {"read", "returned"}
      /\ result' \in {result, "EXECUTE_CLIENT_EXCEPTION"}
  BY <1>1 DEF FirstOpen, PassInv, OpenReader, Goto, Return
<1>3. vDecFrame = <<>> /\ shown[1] = <<>> /\ lost[1] = {} /\ remain = 0 /\ how[1] = ""
  BY <1>2, EmptySeq DEF PassInv, PlacesInv, AtWork
<1>4. OpenOK'
  <2>1. h' \in [reader : Handle, dec : Handle, conv : Handle, enc : Handle, writer : Handle]
    BY <1>2 DEF OpenOK, Handle
  <2>2. QED
    BY <1>2, <2>1 DEF OpenOK, Failures
<1>5. ReadOK' /\ WriteOK'
  <2>1. 0 \in 0..Len(file)
    BY PacketFacts
  <2>2. QED
    BY <1>2, <2>1, NothingYet DEF ReadOK, WriteOK
<1>6. PlacesInv'
  <2>1. Whole(InHand, lost[pass], Upto(pos))'
    <3>1. shown'[pass'] = <<>> /\ vDecFrame' = <<>> /\ lost'[pass'] = {}
      BY <1>2, <1>3
    <3>2. held' = <<>> /\ pos' = 0
      BY <1>2
    <3>3. QED
      BY <3>1, <3>2, BeginsWithNothing
  <2>2. eof' = FALSE /\ remain' = Len(vDecFrame') /\ how'[pass'] = ""
    BY <1>2, <1>3, EmptySeq
  <2>3. vDecFrame' = <<>> /\ held' = <<>>
    BY <1>2, <1>3
  <2>4. QED
    BY <2>1, <2>2, <2>3 DEF PlacesInv
<1>7. PassInv' /\ WriteInv' /\ FrontIsThere'
  <2>1. PassInv'
    BY <1>2, <1>3 DEF PassInv
  <2>2. written' = <<>> /\ Len(written') = 0 /\ 1..0 = {}
    BY <1>2, EmptySeq DEF WriteInv
  <2>3. QED
    BY <1>2, <2>1, <2>2 DEF WriteInv, FrontIsThere
<1>8. EndInv' /\ NumberInv'
  BY <1>2 DEF EndInv, NumberInv, Total, Upto
<1>9. QED
  BY <1>4, <1>5, <1>6, <1>7, <1>8

LEMMA FirstCloseKeeps ==
  ASSUME IInv, FirstClose
  PROVE  IInv'
<1> USE DEF IInv, writing
<1>1. /\ pc = "close" /\ pass = 1 /\ pass' = 1
      /\ UNCHANGED <<file, slow, encFrame, writeNum, written, started, retry_cnt, how, pos, eof,
                     held, remain, shown, lost>>
      /\ vDecFrame' = <<>>
      /\ h' = Closed({"dec", "conv", "reader"})
      /\ pc' \in {"reopen", "returned"}
      /\ result' \in {result, "STABIL_CANT_MAKE_PROPER_VIDEO"}
  BY DEF FirstClose, PassInv, CloseReader, Goto, Return
<1>2. OpenOK'
  <2>1. h' \in [reader : Handle, dec : Handle, conv : Handle, enc : Handle, writer : Handle]
    BY <1>1 DEF OpenOK, Handle, Closed, Indeterminate
  <2>2. QED
    BY <1>1, <2>1 DEF OpenOK, Failures
<1>3. ReadOK' /\ WriteOK'
  BY <1>1, NothingYet DEF ReadOK, WriteOK
<1>4. PlacesInv' /\ PassInv' /\ WriteInv' /\ FrontIsThere'
  BY <1>1 DEF PlacesInv, AtWork, PassInv, WriteInv, FrontIsThere
<1>5. EndInv' /\ NumberInv'
  BY <1>1 DEF EndInv, NumberInv, Total, Upto
<1>6. QED
  BY <1>2, <1>3, <1>4, <1>5

LEMMA SecondOpenKeeps ==
  ASSUME IInv, SecondOpen
  PROVE  IInv'
<1> USE DEF IInv, writing
<1>1. PICK ok \in 0..4 : OpenReader(ok)
  BY DEF SecondOpen
<1>2. /\ pc = "reopen" /\ pass = 1 /\ pass' = 2 /\ pc' = "open_writer" /\ result' = result
      /\ UNCHANGED <<file, slow, encFrame, writeNum, written, retry_cnt, how, vDecFrame,
                     remain, shown, lost>>
      /\ eof' = FALSE /\ pos' = 0 /\ held' = <<>> /\ started' \in BOOLEAN
      /\ h' = [h EXCEPT !.reader = IF ok >= 1 THEN "open" ELSE @, !.dec = IF ok >= 3 THEN "open" ELSE @]
  BY <1>1 DEF SecondOpen, PassInv, OpenReader, Goto
<1>3. /\ vDecFrame = <<>> /\ shown[2] = <<>> /\ lost[2] = {} /\ how[2] = ""
      /\ written = <<>> /\ retry_cnt < Waits
  BY <1>2 DEF PassInv, WriteInv
<1>4. OpenOK'
  <2>1. h' \in [reader : Handle, dec : Handle, conv : Handle, enc : Handle, writer : Handle]
    BY <1>2 DEF OpenOK, Handle
  <2>a. pass' = 2 /\ 2 \in 1..2
    BY <1>2
  <2>b. file' = file /\ slow' = slow /\ retry_cnt' = retry_cnt /\ how' = how
    BY <1>2
  <2>2. /\ file' \in Files /\ slow' \in BOOLEAN /\ pass' \in 1..2 /\ retry_cnt' \in 0..Waits
        /\ how' \in [1..2 -> {"", "end", "memory"}]
    BY <2>a, <2>b DEF OpenOK
  <2>3. result' \in Failures \cup {Complete, Running}
    BY <1>2 DEF OpenOK
  <2>4. QED
    BY <1>2, <2>1, <2>2, <2>3 DEF OpenOK
<1>5. ReadOK' /\ WriteOK'
  <2>1. 0 \in 0..Len(file)
    BY PacketFacts
  <2>2. QED
    BY <1>2, <2>1, NothingYet DEF ReadOK, WriteOK
<1>6. PlacesInv'
  <2>1. Whole(InHand, lost[pass], Upto(pos))'
    <3>1. shown'[pass'] = <<>> /\ vDecFrame' = <<>> /\ lost'[pass'] = {}
      BY <1>2, <1>3
    <3>2. held' = <<>> /\ pos' = 0
      BY <1>2
    <3>3. QED
      BY <3>1, <3>2, BeginsWithNothing
  <2>a. pass' = 2 /\ 2 # 1
    BY <1>2
  <2>2. eof' = FALSE /\ how'[pass'] = "" /\ pass' # 1 /\ shown'[pass'] = <<>>
    BY <1>2, <1>3, <2>a
  <2>3. vDecFrame' = <<>> /\ held' = <<>>
    BY <1>2, <1>3
  <2>4. QED
    BY <2>1, <2>2, <2>3 DEF PlacesInv
<1>7. PassInv' /\ WriteInv' /\ FrontIsThere'
  BY <1>2, <1>3, EmptySeq DEF PassInv, WriteInv, FrontIsThere
<1>8. EndInv' /\ NumberInv'
  BY <1>2 DEF EndInv, NumberInv, Total, Upto
<1>9. QED
  BY <1>4, <1>5, <1>6, <1>7, <1>8

LEMMA OpenWriterKeeps ==
  ASSUME IInv, OpenWriter
  PROVE  IInv'
<1> USE DEF IInv, reading
<1>1. /\ pc = "open_writer" /\ pass = 2 /\ pass' = 2 /\ pc' = "read" /\ result' = result
      /\ UNCHANGED <<file, slow, pos, eof, held, vDecFrame, remain, shown, lost, written,
                     retry_cnt, how>>
      /\ writeNum' = 0 /\ encFrame' = FALSE
  BY DEF OpenWriter, PassInv, Goto
<1>2. PICK ok \in 0..4 :
        /\ h' = [h EXCEPT !.enc = IF ok >= 1 THEN "open" ELSE @, !.writer = IF ok >= 2 THEN "open" ELSE @]
        /\ started' \in (CASE ok = 4 -> {TRUE} [] ok = 3 -> {started, FALSE} [] OTHER -> {started})
  BY DEF OpenWriter
<1>3. OpenOK'
  <2>1. h' \in [reader : Handle, dec : Handle, conv : Handle, enc : Handle, writer : Handle]
    BY <1>2 DEF OpenOK, Handle
  <2>2. started' \in BOOLEAN
    BY <1>2 DEF OpenOK
  <2>3. QED
    BY <1>1, <2>1, <2>2 DEF OpenOK
<1>4. ReadOK' /\ WriteOK'
  BY <1>1 DEF ReadOK, WriteOK
<1>5. PlacesInv'
  <2>1. InHand' = InHand /\ Upto(pos)' = Upto(pos)
    BY <1>1 DEF InHand, Upto
  <2>2. Whole(InHand, lost[pass], Upto(pos))' = Whole(InHand', lost'[pass'], Upto(pos)')
    BY DEF Whole, Rising, Pics, Identity
  <2>3. QED
    BY <1>1, <2>1, <2>2 DEF PlacesInv, AtWork
<1>6. PassInv' /\ FrontIsThere'
  BY <1>1 DEF PassInv, FrontIsThere
<1>7. WriteInv'
  BY <1>1, EmptySeq DEF WriteInv
<1>8. EndInv' /\ NumberInv'
  BY <1>1 DEF EndInv, NumberInv, Total, Upto
<1>9. QED
  BY <1>3, <1>4, <1>5, <1>6, <1>7, <1>8

(* The picture that is written is the last that was handed out, later than *)
(* all that were written.                                                  *)
LEMMA WriteFrameKeeps ==
  ASSUME IInv, WriteFrame
  PROVE  IInv'
<1> USE DEF IInv, reading
<1>1. /\ pc = "write" /\ pass = 2 /\ pass' = 2 /\ pc' = "read" /\ result' = result
      /\ UNCHANGED <<file, slow, pos, eof, held, vDecFrame, remain, shown, lost, h, started,
                     retry_cnt, how>>
      /\ encFrame' \in BOOLEAN
      /\ \/ /\ written' = Append(written, [pic |-> shown[2][Len(shown[2])], cts |-> writeNum])
            /\ writeNum' = writeNum + 1
         \/ UNCHANGED <<written, writeNum>>
  BY DEF WriteFrame, PassInv, Goto
<1>2. PICK s \in Seq(Nat) : s = shown[2] /\ s # <<>>
  BY <1>1 DEF ReadOK, PassInv
<1>3. PICK last \in Nat : last = s[Len(s)] /\ last \in Pics(s)
  <2>1. Len(s) \in 1..Len(s) /\ DOMAIN s = 1..Len(s) /\ \A i \in 1..Len(s) : s[i] \in Nat
    BY <1>2, EmptySeq, LenProperties
  <2>2. QED
    BY <2>1 DEF Pics
<1>w. /\ written \in Seq([pic : Nat, cts : Nat]) /\ writeNum \in Nat
      /\ Len(written) \in Nat /\ writeNum = Len(written)
      /\ \A j \in 1..Len(written) : written[j].pic \in Pics(s)
      /\ \A j \in 1..Len(written) : written[j].pic < last
      /\ \A j \in 1..Len(written) : written[j].cts = j - 1
      /\ \A j \in 1..Len(written) : \A k \in 1..(j - 1) : written[k].pic < written[j].pic
  BY <1>1, <1>2, <1>3, LenProperties DEF WriteOK, WriteInv
<1>4. /\ written' \in Seq([pic : Nat, cts : Nat]) /\ writeNum' \in Nat
      /\ writeNum' = Len(written')
      /\ \A j \in 1..Len(written') : written'[j].pic \in Pics(s)
      /\ \A j \in 1..Len(written') : written'[j].cts = j - 1
      /\ \A j \in 1..Len(written') : \A k \in 1..(j - 1) : written'[k].pic < written'[j].pic
  <2>1. CASE UNCHANGED <<written, writeNum>>
    BY <2>1, <1>w
  <2>2. CASE /\ written' = Append(written, [pic |-> last, cts |-> writeNum])
             /\ writeNum' = writeNum + 1
    <3>1. PICK e \in [pic : Nat, cts : Nat] : e = [pic |-> last, cts |-> writeNum]
      BY <1>w
    <3>2. e.pic = last /\ e.cts = writeNum
      BY <3>1
    <3>3. /\ written' \in Seq([pic : Nat, cts : Nat])
          /\ Len(written') = Len(written) + 1
          /\ written'[Len(written) + 1] = e
          /\ \A i \in 1..Len(written) : written'[i] = written[i]
      BY <2>2, <3>1, <1>w, AppendProperties
    <3>4. \A j \in 1..Len(written') : j \in 1..Len(written) \/ j = Len(written) + 1
      BY <3>3, <1>w
    <3>5. \A j \in 1..Len(written') : \A k \in 1..(j - 1) : k \in 1..Len(written)
      BY <3>3, <1>w
    <3>6. \A j \in 1..Len(written') : \A k \in 1..(j - 1) : written'[k].pic < written'[j].pic
      <4> SUFFICES ASSUME NEW j \in 1..Len(written'), NEW k \in 1..(j - 1)
                   PROVE  written'[k].pic < written'[j].pic
        OBVIOUS
      <4>1. k \in 1..Len(written) /\ written'[k] = written[k]
        BY <3>3, <3>5
      <4>2. CASE j \in 1..Len(written)
        BY <4>1, <4>2, <3>3, <1>w
      <4>3. CASE j = Len(written) + 1
        BY <4>1, <4>3, <3>2, <3>3, <1>w
      <4>4. QED
        BY <3>4, <4>2, <4>3
    <3>7. \A j \in 1..Len(written') : written'[j].pic \in Pics(s) /\ written'[j].cts = j - 1
      <4> SUFFICES ASSUME NEW j \in 1..Len(written')
                   PROVE  written'[j].pic \in Pics(s) /\ written'[j].cts = j - 1
        OBVIOUS
      <4>1. CASE j \in 1..Len(written)
        BY <4>1, <3>3, <1>w
      <4>2. CASE j = Len(written) + 1
        BY <4>2, <3>2, <3>3, <1>w, <1>3
      <4>3. QED
        BY <3>4, <4>1, <4>2
    <3>8. writeNum' \in Nat /\ writeNum' = Len(written')
      BY <2>2, <3>3, <1>w
    <3>9. QED
      BY <3>3, <3>6, <3>7, <3>8
  <2>3. QED
    BY <1>1, <1>2, <1>3, <2>1, <2>2
<1>5. OpenOK' /\ ReadOK' /\ WriteOK'
  BY <1>1, <1>4 DEF OpenOK, ReadOK, WriteOK
<1>6. PlacesInv'
  <2>1. InHand' = InHand /\ Upto(pos)' = Upto(pos)
    BY <1>1 DEF InHand, Upto
  <2>2. Whole(InHand, lost[pass], Upto(pos))' = Whole(InHand', lost'[pass'], Upto(pos)')
    BY DEF Whole, Rising, Pics, Identity
  <2>3. QED
    BY <1>1, <2>1, <2>2 DEF PlacesInv, AtWork
<1>7. PassInv' /\ FrontIsThere'
  BY <1>1 DEF PassInv, FrontIsThere
<1>8. WriteInv'
  <2>1. Pics(shown[2])' = Pics(s)
    BY <1>1, <1>2 DEF Pics
  <2>2. QED
    BY <1>1, <1>4, <2>1 DEF WriteInv
<1>9. EndInv' /\ NumberInv'
  BY <1>1 DEF EndInv, NumberInv, Total, Upto
<1>10. QED
  BY <1>5, <1>6, <1>7, <1>8, <1>9

(* The end of Process, and a step into the undefined.                      *)
LEMMA LeavesKeeps ==
  ASSUME IInv, Finish \/ StrayClose \/ StrayWrite
  PROVE  IInv'
<1> USE DEF IInv
<1>1. /\ UNCHANGED <<file, slow, pass, pos, eof, held, remain, shown, lost, writeNum, written,
                     started, retry_cnt, how>>
      /\ encFrame' \in {encFrame, FALSE} /\ vDecFrame' \in {vDecFrame, <<>>}
      /\ h' \in {h, Closed(DOMAIN h)}
      /\ pc' \in {"returned", "stray_handle"}
      /\ result' \in {result, Complete}
      /\ pc \in {"close", "finish", "write"}
  BY DEF Finish, StrayClose, StrayWrite, Goto, Return, reading, writing
<1>2. OpenOK'
  <2>1. h' \in [reader : Handle, dec : Handle, conv : Handle, enc : Handle, writer : Handle]
    BY <1>1 DEF OpenOK, Handle, Closed, Indeterminate
  <2>2. QED
    BY <1>1, <2>1 DEF OpenOK
<1>3. ReadOK' /\ WriteOK'
  BY <1>1, NothingYet DEF ReadOK, WriteOK
<1>4. PlacesInv' /\ PassInv' /\ FrontIsThere'
  BY <1>1 DEF PlacesInv, AtWork, PassInv, FrontIsThere
<1>5. EndInv' /\ NumberInv'
  BY <1>1 DEF EndInv, NumberInv, Total, Upto
<1>6. WriteInv'
  BY <1>1 DEF WriteInv
<1>7. QED
  BY <1>2, <1>3, <1>4, <1>5, <1>6

LEMMA StutterKeeps ==
  ASSUME IInv, UNCHANGED vars
  PROVE  IInv'
<1>1. UNCHANGED <<file, slow, pass, pc, pos, eof, held, vDecFrame, remain, shown, lost,
                  encFrame, writeNum, written, h, started, retry_cnt, how, result>>
  BY DEF vars, reading, writing
<1>2. OpenOK' /\ ReadOK' /\ WriteOK'
  BY <1>1 DEF IInv, OpenOK, ReadOK, WriteOK
<1>3. PlacesInv'
  <2>1. InHand' = InHand /\ Upto(pos)' = Upto(pos) /\ (AtWork <=> AtWork')
    BY <1>1 DEF InHand, Upto, AtWork
  <2>2. Whole(InHand, lost[pass], Upto(pos))' = Whole(InHand', lost'[pass'], Upto(pos)')
    BY DEF Whole, Rising, Pics, Identity
  <2>3. QED
    BY <1>1, <2>1, <2>2 DEF IInv, PlacesInv
<1>4. PassInv' /\ FrontIsThere' /\ WriteInv'
  BY <1>1 DEF IInv, PassInv, FrontIsThere, WriteInv, Total, Upto, Pics
<1>5. EndInv' /\ NumberInv'
  BY <1>1 DEF IInv, EndInv, NumberInv, Total, Upto
<1>6. QED
  BY <1>2, <1>3, <1>4, <1>5 DEF IInv

LEMMA IInvStep ==
  ASSUME IInv, [Next]_vars
  PROVE  IInv'
<1>1. CASE ReadFrame
  BY <1>1, ReadFrameKeeps
<1>2. CASE FirstOpen
  BY <1>2, FirstOpenKeeps
<1>3. CASE FirstClose
  BY <1>3, FirstCloseKeeps
<1>4. CASE SecondOpen
  BY <1>4, SecondOpenKeeps
<1>5. CASE OpenWriter
  BY <1>5, OpenWriterKeeps
<1>6. CASE WriteFrame
  BY <1>6, WriteFrameKeeps
<1>7. CASE Finish \/ StrayClose \/ StrayWrite
  BY <1>7, LeavesKeeps
<1>8. CASE UNCHANGED vars
  BY <1>8, StutterKeeps
<1>9. QED
  BY <1>1, <1>2, <1>3, <1>4, <1>5, <1>6, <1>7, <1>8 DEF Next

-----------------------------------------------------------------------------
(* For every video, every number of waits and every answer of the external *)
(* calls: the invariant holds in every state.                              *)
THEOREM Invariance == Spec => []IInv
<1>1. Init => IInv
  BY InitIInv
<1>2. IInv /\ [Next]_vars => IInv'
  BY IInvStep
<1>3. QED
  BY <1>1, <1>2, PTL DEF Spec

(* Every variable keeps its type, and the waits of the first pass stay     *)
(* below their limit while it reads: Process gives up with                 *)
(* STABIL_CANT_DECODE_FILE before it waits once more.                      *)
THEOREM TypesKept == Spec => []TypeOK
<1>1. IInv => TypeOK
  BY DEF IInv, PassInv, TypeOK, Reading
<1>2. QED
  BY <1>1, Invariance, PTL

(* While a pass reads, each picture of the packets it has read is handed   *)
(* out, in the queue, in the decoder or kept by an external call, in the   *)
(* order of the video; and a pass that read to the end has handed out all  *)
(* that were not kept: no path through ReadFrame forgets or repeats one.   *)
THEOREM NoPictureForgotten == Spec => []EveryPictureSomewhere
<1>1. IInv => EveryPictureSomewhere
  BY DEF IInv, PlacesInv, EndInv, AtWork, Whole, EveryPictureSomewhere, Reading
<1>2. QED
  BY <1>1, Invariance, PTL

(* With nothing kept by an external call, picture n of the second pass is  *)
(* picture n of the first: Process corrects each picture by what it found  *)
(* for that picture.                                                       *)
THEOREM NumberedAlike == Spec => []SameNumbers
<1>1. IInv => SameNumbers
  <2>1. 1 \in 1..2 /\ 2 \in 1..2
    OBVIOUS
  <2>2. QED
    BY <2>1 DEF IInv, NumberInv, Identity, SameNumbers
<1>2. QED
  BY <1>1, Invariance, PTL

(* ReadFrame takes the front of an empty queue in two cases only: a        *)
(* decoder that answered without a picture, or a second pass of which no   *)
(* picture could be decoded, with _remain left over from the first.        *)
THEOREM FrontOfQueue == Spec => []FrontIsThere
<1>1. IInv => FrontIsThere
  BY DEF IInv
<1>2. QED
  BY <1>1, Invariance, PTL

(* Whichever calls of WriteFrame fail, the pictures in the file are in the *)
(* order of the video and their times count them without a gap.            *)
THEOREM WrittenWithoutGap == Spec => []TimesWithoutGap
<1>1. IInv => TimesWithoutGap
  <2>1. ASSUME IInv PROVE DOMAIN written = 1..Len(written)
    BY <2>1, LenProperties DEF IInv, WriteOK
  <2>2. QED
    BY <2>1 DEF IInv, WriteInv, TimesWithoutGap
<1>2. QED
  BY <1>1, Invariance, PTL

=============================================================================
