---------------------------- MODULE FramingProofs ----------------------------
(***************************************************************************)
(* Proofs about Framing for any packets, however TCP cuts them.            *)
(*                                                                         *)
(* Where a packet begins is defined by recursion over the packets before   *)
(* it.  What that defines is proved from the least place at which it could *)
(* fail.                                                                   *)
(***************************************************************************)
EXTENDS Framing, FiniteSetTheorems, SequenceTheorems, TLAPS

-----------------------------------------------------------------------------
(* Induction: a set of naturals that is not empty has a least element.     *)

LEMMA LeastOf ==
    ASSUME NEW T \in SUBSET Nat, T # {}
    PROVE  \E x \in T : \A y \in T : x =< y
  <1> DEFINE Initials == {0..n : n \in T}
  <1>1. Initials \subseteq FiniteSubsetsOf(Nat) /\ Initials # {}
    <2>1. \A n \in T : 0..n \in SUBSET Nat /\ IsFiniteSet(0..n)
      BY FS_Interval
    <2>2. QED BY <2>1 DEF FiniteSubsetsOf
  <1>2. IsWellFoundedOn(StrictSubsetOrdering(Nat), FiniteSubsetsOf(Nat))
    BY FS_StrictSubsetOrderingWellFounded
  <1>3. \E X \in Initials : \A Y \in Initials : ~ (<<Y, X>> \in StrictSubsetOrdering(Nat))
    <2> HIDE DEF Initials
    <2>1. QED BY <1>1, <1>2, WFMin
  <1>4. PICK x \in T : \A y \in T : ~(<<0..y, 0..x>> \in StrictSubsetOrdering(Nat))
    BY <1>3
  <1>5. ASSUME NEW y \in T PROVE x =< y
    <2>1. SUFFICES ASSUME y < x PROVE FALSE
      OBVIOUS
    <2>2. 0..y \subseteq 0..x /\ x \in 0..x /\ x \notin 0..y
      BY <2>1
    <2>3. <<0..y, 0..x>> \in StrictSubsetOrdering(Nat)
      BY <2>2 DEF StrictSubsetOrdering
    <2>4. QED BY <2>3, <1>4
  <1>6. QED BY <1>5

(* A set that holds 0 and with each number the next holds all, up to n.    *)
LEMMA UpTo ==
    ASSUME NEW n \in Nat, NEW S, 0 \in S,
           \A i \in 0..n - 1 : i \in S => i + 1 \in S
    PROVE  \A i \in 0..n : i \in S
  <1> DEFINE T == {i \in 0..n : i \notin S}
  <1>1. SUFFICES ASSUME T # {} PROVE FALSE
    OBVIOUS
  <1>2. T \in SUBSET Nat
    OBVIOUS
  <1>3. \E x \in T : \A y \in T : x =< y
    <2> HIDE DEF T
    <2>1. QED BY <1>1, <1>2, LeastOf
  <1>4. PICK x \in T : \A y \in T : x =< y
    BY <1>3
  <1>5. x \in 1..n /\ x - 1 \in 0..n - 1 /\ x - 1 \notin T
    BY <1>4
  <1>6. x - 1 \in S
    BY <1>5
  <1>7. QED BY <1>5, <1>6, <1>4

-----------------------------------------------------------------------------
(* What StartOf defines.                                                   *)

(* f says where the packets begin, as far as the n-th's end.               *)
StartsTo(f, ps, n) ==
    /\ f \in [1..n + 1 -> Nat]
    /\ f[1] = 0
    /\ \A i \in 1..n : f[i + 1] = f[i] + SizeOf(ps[i])

LEMMA SizeType ==
    ASSUME NEW ps \in Seq(Packet), NEW i \in 1..Len(ps)
    PROVE  /\ ps[i].body \in Nat /\ ps[i].header \in Header
           /\ SizeOf(ps[i]) \in Nat /\ SizeOf(ps[i]) >= HeaderSize /\ SizeOf(ps[i]) > 0
  <1>1. ps[i] \in Packet
    OBVIOUS
  <1>2. ps[i].body \in Nat /\ ps[i].header \in Header
    BY <1>1 DEF Packet
  <1>3. QED BY <1>2, FramingAssumption DEF SizeOf

LEMMA StartsExist ==
    ASSUME NEW ps \in Seq(Packet)
    PROVE  \E f : StartsTo(f, ps, Len(ps))
  <1> DEFINE S == {n \in 0..Len(ps) : \E f : StartsTo(f, ps, n)}
  <1>1. 0 \in S
    <2>1. StartsTo([i \in 1..1 |-> 0], ps, 0)
      BY DEF StartsTo
    <2>2. QED BY <2>1
  <1>2. ASSUME NEW n \in 0..Len(ps) - 1, n \in S PROVE n + 1 \in S
    <2>1. PICK f : StartsTo(f, ps, n)
      BY <1>2
    <2>2. n + 1 \in 1..Len(ps)
      OBVIOUS
    <2>3. SizeOf(ps[n + 1]) \in Nat
      BY <2>2, SizeType
    <2> DEFINE g == [i \in 1..n + 2 |-> IF i = n + 2 THEN f[n + 1] + SizeOf(ps[n + 1]) ELSE f[i]]
    <2>4. g \in [1..n + 2 -> Nat] /\ g[1] = 0
      BY <2>1, <2>3 DEF StartsTo
    <2>5. ASSUME NEW i \in 1..n + 1 PROVE g[i + 1] = g[i] + SizeOf(ps[i])
      BY <2>1 DEF StartsTo
    <2>6. StartsTo(g, ps, n + 1)
      <3> HIDE DEF g
      <3>1. QED BY <2>4, <2>5 DEF StartsTo
    <2>7. QED BY <2>2, <2>6
  <1>3. \A n \in 0..Len(ps) : n \in S
    <2> HIDE DEF S
    <2>1. QED BY <1>1, <1>2, UpTo
  <1>4. QED BY <1>3

(* Each packet begins where the one before it ends.                        *)
LEMMA StartsOfPackets ==
    ASSUME NEW ps \in Seq(Packet)
    PROVE  StartsTo(StartOf(ps), ps, Len(ps))
  <1> DEFINE Def(f) == [i \in 1..(Len(ps) + 1) |->
                           IF i = 1 THEN 0 ELSE f[i - 1] + SizeOf(ps[i - 1])]
  <1>1. PICK f : StartsTo(f, ps, Len(ps))
    BY StartsExist
  <1>2. f = Def(f)
    <2>1. f = [i \in 1..(Len(ps) + 1) |-> f[i]]
      BY <1>1 DEF StartsTo
    <2>2. ASSUME NEW i \in 1..(Len(ps) + 1)
          PROVE  f[i] = IF i = 1 THEN 0 ELSE f[i - 1] + SizeOf(ps[i - 1])
      <3>1. CASE i = 1
        BY <3>1, <1>1 DEF StartsTo
      <3>2. CASE i # 1
        <4>1. i - 1 \in 1..Len(ps) /\ (i - 1) + 1 = i
          BY <3>2
        <4>2. QED BY <4>1, <3>2, <1>1 DEF StartsTo
      <3>3. QED BY <3>1, <3>2
    <2>3. QED BY <2>1, <2>2
  <1>3. StartOf(ps) = CHOOSE g : g = Def(g)
    BY DEF StartOf
  <1>4. StartOf(ps) = Def(StartOf(ps))
    <2> HIDE DEF Def
    <2>1. QED BY <1>2, <1>3
  <1> DEFINE g == StartOf(ps)
  <1>5. /\ g = [i \in 1..(Len(ps) + 1) |-> g[i]]
        /\ \A i \in 1..(Len(ps) + 1) : g[i] = IF i = 1 THEN 0 ELSE g[i - 1] + SizeOf(ps[i - 1])
    <2> HIDE DEF g
    <2>1. g = Def(g)
      BY <1>4 DEF g
    <2>2. ASSUME NEW h, h = Def(h)
          PROVE  /\ h = [i \in 1..(Len(ps) + 1) |-> h[i]]
                 /\ \A i \in 1..(Len(ps) + 1) :
                       h[i] = IF i = 1 THEN 0 ELSE h[i - 1] + SizeOf(ps[i - 1])
      BY <2>2
    <2>3. QED BY <2>1, <2>2
  <1> HIDE DEF g, Def
  <1>6. g[1] = 0
    <2>1. 1 \in 1..(Len(ps) + 1)
      OBVIOUS
    <2>2. QED BY <2>1, <1>5
  <1>7. ASSUME NEW i \in 1..Len(ps) PROVE g[i + 1] = g[i] + SizeOf(ps[i])
    <2>1. i + 1 \in 1..(Len(ps) + 1) /\ i + 1 # 1 /\ (i + 1) - 1 = i
      OBVIOUS
    <2>2. QED BY <1>5, <2>1
  <1> DEFINE S == {n \in 0..Len(ps) : g[n + 1] \in Nat}
  <1>8. \A n \in 0..Len(ps) : n \in S
    <2>1. 0 \in S
      BY <1>6
    <2>2. ASSUME NEW n \in 0..Len(ps) - 1, n \in S PROVE n + 1 \in S
      <3>1. n + 1 \in 1..Len(ps)
        OBVIOUS
      <3>2. SizeOf(ps[n + 1]) \in Nat
        BY <3>1, SizeType
      <3>3. QED BY <3>1, <3>2, <1>7, <2>2
    <2> HIDE DEF S
    <2>3. QED BY <2>1, <2>2, UpTo
  <1>9. g \in [1..Len(ps) + 1 -> Nat]
    <2>1. ASSUME NEW i \in 1..Len(ps) + 1 PROVE g[i] \in Nat
      <3>1. i - 1 \in 0..Len(ps) /\ (i - 1) + 1 = i
        OBVIOUS
      <3>2. QED BY <3>1, <1>8
    <2>2. QED BY <2>1, <1>5
  <1>10. StartsTo(g, ps, Len(ps))
    BY <1>6, <1>7, <1>9 DEF StartsTo
  <1>11. QED BY <1>10 DEF g

(* Packets lie behind each other: none begins before the one before it ends. *)
LEMMA StartsAscend ==
    ASSUME NEW ps \in Seq(Packet), NEW i \in 1..Len(ps), NEW j \in 1..Len(ps) + 1, i < j
    PROVE  /\ StartOf(ps)[i + 1] =< StartOf(ps)[j]
           /\ StartOf(ps)[i] < StartOf(ps)[j]
  <1> DEFINE s == StartOf(ps)
  <1>1. StartsTo(s, ps, Len(ps))
    BY StartsOfPackets
  <1> HIDE DEF s
  <1> DEFINE S == {d \in 0..Len(ps) - i : s[i + 1] =< s[i + 1 + d]}
  <1>2. \A d \in 0..Len(ps) - i : d \in S
    <2>1. 0 \in S
      BY <1>1 DEF StartsTo
    <2>2. ASSUME NEW d \in 0..(Len(ps) - i) - 1, d \in S PROVE d + 1 \in S
      <3>1. i + 1 + d \in 1..Len(ps) /\ i + 1 \in 1..Len(ps) + 1 /\ i + 1 + d \in 1..Len(ps) + 1
        OBVIOUS
      <3>2. SizeOf(ps[i + 1 + d]) \in Nat
        BY <3>1, SizeType
      <3>3. s[i + 1 + d + 1] = s[i + 1 + d] + SizeOf(ps[i + 1 + d])
        BY <3>1, <1>1 DEF StartsTo
      <3>4. s[i + 1 + d] \in Nat /\ s[i + 1] \in Nat
        BY <3>1, <1>1 DEF StartsTo
      <3>5. s[i + 1] =< s[i + 1 + d + 1]
        BY <3>2, <3>3, <3>4, <2>2
      <3>6. i + 1 + d + 1 = i + 1 + (d + 1)
        OBVIOUS
      <3>7. QED BY <3>5, <3>6
    <2>3. Len(ps) - i \in Nat
      OBVIOUS
    <2> HIDE DEF S
    <2>4. QED BY <2>1, <2>2, <2>3, UpTo
  <1>3. s[i + 1] =< s[j]
    <2>1. j - (i + 1) \in 0..Len(ps) - i /\ i + 1 + (j - (i + 1)) = j
      OBVIOUS
    <2>2. QED BY <2>1, <1>2
  <1>4. s[i] < s[i + 1]
    <2>1. s[i + 1] = s[i] + SizeOf(ps[i]) /\ s[i] \in Nat
      BY <1>1 DEF StartsTo
    <2>2. SizeOf(ps[i]) \in Nat /\ SizeOf(ps[i]) > 0
      BY SizeType
    <2>3. QED BY <2>1, <2>2
  <1>5. s[i] \in Nat /\ s[i + 1] \in Nat /\ s[j] \in Nat
    BY <1>1 DEF StartsTo
  <1>6. QED BY <1>3, <1>4, <1>5 DEF s

-----------------------------------------------------------------------------
(* The inductive invariant.                                                *)

(* The handler is in step with packet i: it reads its header, or the body  *)
(* its header announced.                                                   *)
InStepWith(i) ==
    /\ Start[i] = HeaderBegin
    /\ pc = "body" => /\ i =< Len(packets) /\ nPacketSize = packets[i].body
                      /\ KindOf(packets[i]) = "good"

(* A reset cut the header or the body of a packet; nothing comes after it. *)
CutOff == pc = "header" /\ client = "closed" /\ got = put /\ Begin = got /\ Due = {}

StepKept == pc # "left" /\ ~lost => CutOff \/ \E i \in 1..Len(packets) + 1 : InStepWith(i)

IInv == TypeOK /\ StepKept

-----------------------------------------------------------------------------
(* What the types say of the counters.                                     *)

LEMMA Streaming ==
    ASSUME TypeOK
    PROVE  /\ packets \in Seq(Packet)
           /\ Len(packets) \in Nat
           /\ Start \in [1..Len(packets) + 1 -> Nat]
           /\ Start[1] = 0
           /\ \A i \in 1..Len(packets) : Start[i + 1] = Start[i] + HeaderSize + packets[i].body
           /\ Length \in Nat /\ put \in Nat /\ put =< Length /\ got \in Nat /\ got =< put
  <1>1. packets \in Seq(Packet)
    BY FramingAssumption DEF TypeOK
  <1>2. Len(packets) \in Nat
    BY <1>1
  <1>3. StartsTo(Start, packets, Len(packets))
    BY <1>1, StartsOfPackets DEF Start
  <1>4. Start \in [1..Len(packets) + 1 -> Nat] /\ Start[1] = 0
    BY <1>3 DEF StartsTo
  <1>5. ASSUME NEW i \in 1..Len(packets)
        PROVE  Start[i + 1] = Start[i] + HeaderSize + packets[i].body
    <2>1. Start[i + 1] = Start[i] + SizeOf(packets[i]) /\ Start[i] \in Nat
      BY <1>3 DEF StartsTo
    <2>2. packets[i].body \in Nat
      BY <1>1, SizeType
    <2>3. QED BY <2>1, <2>2, FramingAssumption DEF SizeOf
  <1>6. Length \in Nat
    BY <1>2, <1>4 DEF Length
  <1>7. put \in 0..Length /\ got \in 0..put
    BY DEF TypeOK
  <1>8. put \in Nat /\ put =< Length
    BY <1>6, <1>7
  <1>9. got \in Nat /\ got =< put
    BY <1>7, <1>8
  <1>10. QED BY <1>1, <1>2, <1>4, <1>5, <1>6, <1>8, <1>9

LEMMA Counting ==
    ASSUME TypeOK, pc # "left"
    PROVE  /\ pc \in {"header", "body"}
           /\ HeaderSize \in Nat \ {0} /\ Chunk \in Nat \ {0} /\ MaxSize \in Nat \ {0}
           /\ Wanted \in Nat \ {0} /\ nPacketSize \in 0..MaxSize
           /\ pc = "body" => nPacketSize \in 1..MaxSize
           /\ nRemainSize \in 1..Wanted /\ nRecvSize \in 1..nRemainSize
           /\ nTotalRecvSize \in 0..Wanted - 1
           /\ Begin \in Int /\ HeaderBegin \in Int
  <1>1. /\ HeaderSize \in Nat \ {0} /\ Chunk \in Nat \ {0} /\ MaxSize \in Nat \ {0}
    BY FramingAssumption
  <1>2. got \in Nat
    BY Streaming
  <1>3. Wanted \in Nat
    BY <1>1 DEF TypeOK, Wanted
  <1>4. nRemainSize \in 1..Wanted /\ nRecvSize \in 1..nRemainSize
    BY DEF TypeOK
  <1>5. Wanted \in Nat \ {0} /\ nTotalRecvSize \in 0..Wanted - 1
    BY <1>3, <1>4 DEF nTotalRecvSize
  <1>6. pc \in {"header", "body"} /\ nPacketSize \in 0..MaxSize
    BY DEF TypeOK
  <1>7. pc = "body" => nPacketSize \in 1..MaxSize
    BY <1>1, <1>5, <1>6 DEF Wanted
  <1>8. Begin \in Int
    BY <1>2, <1>5 DEF Begin
  <1>9. HeaderBegin \in Int
    BY <1>1, <1>8 DEF HeaderBegin
  <1>10. QED BY <1>1, <1>3, <1>4, <1>5, <1>6, <1>7, <1>8, <1>9

(* A RECV that is complete has received what it was called for.            *)
LEMMA Complete ==
    ASSUME TypeOK, pc # "left", RecvAll
    PROVE  got' = got + nRemainSize /\ got' = Begin + Wanted /\ got' =< put /\ got' \in Nat
  <1>1. PICK n \in 1..nRecvSize : Received(n) /\ n >= nRemainSize
    BY DEF RecvAll
  <1>2. /\ Wanted \in Nat /\ nRemainSize \in Nat /\ nRecvSize \in Nat
        /\ 1 =< nRemainSize /\ nRecvSize =< nRemainSize
    <2>1. Wanted \in Nat /\ nRemainSize \in 1..Wanted /\ nRecvSize \in 1..nRemainSize
      BY Counting
    <2>2. QED BY <2>1
  <1>3. got \in Nat /\ put \in Nat /\ got =< put
    BY Streaming
  <1>4. n = nRemainSize
    BY <1>1, <1>2
  <1>5. n \in 1..LesserOf(nRecvSize, put - got) /\ got' = got + n
    BY <1>1 DEF Received
  <1>6. n =< put - got
    BY <1>2, <1>3, <1>4, <1>5 DEF LesserOf
  <1>7. got' = got + nRemainSize /\ got' =< put /\ got' \in Nat
    BY <1>2, <1>3, <1>4, <1>5, <1>6
  <1>8. got' = Begin + Wanted
    BY <1>2, <1>3, <1>7 DEF Begin, nTotalRecvSize
  <1>9. QED BY <1>7, <1>8

(* The next RECV has received nothing yet.                                 *)
LEMMA Called ==
    ASSUME NEW size \in Nat \ {0}, Recv(size), Wanted' = size, got' \in Nat
    PROVE  /\ nRemainSize' \in 1..Wanted' /\ nRecvSize' \in 1..nRemainSize'
           /\ nTotalRecvSize' = 0 /\ Begin' = got'
  <1>1. nRemainSize' = size /\ nRecvSize' = LesserOf(Chunk, size)
    BY DEF Recv
  <1>2. Chunk \in Nat \ {0}
    BY FramingAssumption
  <1>3. nRemainSize' \in 1..Wanted' /\ nRecvSize' \in 1..nRemainSize'
    BY <1>1, <1>2 DEF LesserOf
  <1>4. nTotalRecvSize' = 0
    BY <1>1 DEF nTotalRecvSize
  <1>5. Begin' = got'
    <2>1. Begin' = got' - nTotalRecvSize'
      BY DEF Begin
    <2>2. got' - nTotalRecvSize' = got' - 0
      BY <1>4
    <2>3. got' - 0 = got'
      <3>1. \A g \in Int : g - 0 = g
        OBVIOUS
      <3>2. got' \in Int
        OBVIOUS
      <3>3. QED BY <3>1, <3>2
    <2>4. QED BY <2>1, <2>2, <2>3
  <1>6. QED BY <1>3, <1>4, <1>5

(* The stream of a client stays.                                           *)
LEMMA SamePackets ==
    ASSUME [Next]_vars
    PROVE  packets' = packets /\ Start' = Start /\ Length' = Length
  <1>1. packets' = packets
    BY DEF Next, RECV, Write, Close, RecvPart, HeaderAccepted, HeaderRefused, HeaderRead,
           BodyReceived, EndOfStream, ResetAtStart, ResetInHeader, ResetInBody, Leave,
           vars, stream
  <1>2. QED BY <1>1 DEF Start, Length

(* At most one packet begins at a place.                                   *)
LEMMA OnePacket ==
    ASSUME TypeOK, NEW i \in 1..Len(packets) + 1, NEW j \in 1..Len(packets) + 1,
           Start[i] = Start[j]
    PROVE  i = j
  <1>1. packets \in Seq(Packet) /\ Len(packets) \in Nat /\ Start \in [1..Len(packets) + 1 -> Nat]
    BY Streaming
  <1>2. SUFFICES ASSUME NEW a \in 1..Len(packets) + 1, NEW b \in 1..Len(packets) + 1, a < b
                 PROVE  Start[a] < Start[b]
    BY <1>1
  <1>3. a \in 1..Len(packets)
    BY <1>1, <1>2
  <1>4. QED BY <1>1, <1>2, <1>3, StartsAscend DEF Start

(* A header that is complete, where the handler is in step, is the header  *)
(* the client wrote.                                                       *)
LEMMA HeaderInStep ==
    ASSUME TypeOK, pc = "header", NEW i \in 1..Len(packets) + 1, InStepWith(i),
           NEW h, HeaderRead(h)
    PROVE  /\ i \in 1..Len(packets) /\ PacketsAt(Begin) = {i}
           /\ h = packets[i].header
           /\ got' = Start[i] + HeaderSize
           /\ lost' = (lost \/ ~Fits(packets[i]))
  <1>1. RecvAll /\ h \in HeadersRead
        /\ lost' = (lost \/ \E k \in PacketsAt(Begin) : ~Fits(packets[k]))
    BY DEF HeaderRead
  <1>2. Begin = Start[i] /\ Wanted = HeaderSize
    BY DEF InStepWith, HeaderBegin, Wanted
  <1>3. got' = Start[i] + HeaderSize /\ got' =< Length
    <2>1. got' = Begin + Wanted /\ got' =< put /\ got' \in Nat
      BY <1>1, Complete
    <2>2. put \in Nat /\ Length \in Nat /\ put =< Length
      BY Streaming
    <2>3. QED BY <1>2, <2>1, <2>2
  <1>4. i \in 1..Len(packets)
    <2>1. Len(packets) \in Nat /\ Start[i] \in Nat
      BY Streaming
    <2>2. Length = Start[Len(packets) + 1]
      BY DEF Length
    <2>3. HeaderSize \in Nat \ {0}
      BY FramingAssumption
    <2>4. i # Len(packets) + 1
      BY <1>3, <2>1, <2>2, <2>3
    <2>5. QED BY <2>1, <2>4
  <1>5. PacketsAt(Begin) = {i}
    BY <1>2, <1>4, OnePacket DEF PacketsAt
  <1>6. HeadersRead = {packets[i].header}
    BY <1>5 DEF HeadersRead
  <1>7. QED BY <1>1, <1>3, <1>4, <1>5, <1>6

(* What bytes say is a header, wherever they are read.                     *)
LEMMA HeadersAreHeaders ==
    ASSUME TypeOK, NEW h \in HeadersRead
    PROVE  h \in Header
  <1>1. CASE PacketsAt(Begin) = {}
    BY <1>1, FramingAssumption DEF HeadersRead
  <1>2. CASE PacketsAt(Begin) # {}
    <2>1. PICK i \in 1..Len(packets) : h = packets[i].header
      BY <1>2 DEF HeadersRead, PacketsAt
    <2>2. packets \in Seq(Packet)
      BY Streaming
    <2>3. QED BY <2>1, <2>2, SizeType
  <1>3. QED BY <1>1, <1>2

(* No packet begins inside another.                                        *)
LEMMA NoneInside ==
    ASSUME TypeOK, NEW i \in 1..Len(packets), NEW p \in Int, Start[i] < p, p < Start[i + 1]
    PROVE  \A j \in 1..Len(packets) + 1 : Start[j] # p
  <1>1. packets \in Seq(Packet) /\ Len(packets) \in Nat /\ Start \in [1..Len(packets) + 1 -> Nat]
    BY Streaming
  <1>2. SUFFICES ASSUME NEW j \in 1..Len(packets) + 1, Start[j] = p PROVE FALSE
    OBVIOUS
  <1>3. Start[i] \in Nat /\ Start[i + 1] \in Nat /\ Start[j] \in Nat
    BY <1>1
  <1>4. CASE j = i
    BY <1>2, <1>3, <1>4
  <1>5. CASE j < i
    <2>1. j \in 1..Len(packets) /\ i \in 1..Len(packets) + 1
      BY <1>1, <1>5
    <2>2. Start[j] < Start[i]
      BY <1>1, <1>5, <2>1, StartsAscend DEF Start
    <2>3. QED BY <1>2, <1>3, <2>2
  <1>6. CASE i < j
    <2>1. Start[i + 1] =< Start[j]
      BY <1>1, <1>6, StartsAscend DEF Start
    <2>2. QED BY <1>2, <1>3, <2>1
  <1>7. QED BY <1>4, <1>5, <1>6, <1>1

-----------------------------------------------------------------------------
(* The invariant holds.                                                    *)

LEMMA Beginning == Init => IInv
  <1> SUFFICES ASSUME Init PROVE IInv
    OBVIOUS
  <1>1. packets \in Seq(Packet) /\ HeaderSize \in Nat \ {0} /\ Chunk \in Nat \ {0}
        /\ MaxSize \in Nat \ {0}
    BY FramingAssumption DEF Init
  <1>2. StartsTo(Start, packets, Len(packets)) /\ Len(packets) \in Nat
    BY <1>1, StartsOfPackets DEF Start
  <1>3. Start[1] = 0 /\ Length \in Nat
    BY <1>2 DEF StartsTo, Length
  <1>4. nRemainSize = HeaderSize /\ Wanted = HeaderSize /\ nTotalRecvSize = 0
    BY <1>1 DEF Init, Wanted, nTotalRecvSize
  <1>5. nRemainSize \in 1..Wanted /\ nRecvSize \in 1..nRemainSize
    BY <1>1, <1>4 DEF Init, LesserOf
  <1>6. TypeOK
    <2>1. put \in 0..Length /\ got \in 0..put /\ nPacketSize \in 0..MaxSize
      BY <1>1, <1>3 DEF Init
    <2>2. /\ packets \in Streams /\ client \in {"open", "closed", "reset"}
          /\ pc \in {"header", "body", "left"} /\ lost \in BOOLEAN
      BY DEF Init
    <2>3. handed \in Seq([from : Nat, size : 1..MaxSize, received : 1..MaxSize])
      BY DEF Init
    <2>4. QED BY <1>5, <2>1, <2>2, <2>3 DEF TypeOK
  <1>7. InStepWith(1) /\ 1 \in 1..Len(packets) + 1
    <2>1. HeaderBegin = 0
      BY <1>4 DEF Init, HeaderBegin, Begin
    <2>2. QED BY <1>2, <1>3, <2>1 DEF InStepWith, Init
  <1>8. QED BY <1>6, <1>7 DEF IInv, StepKept

(* What keeps its place keeps its step.                                    *)
LEMMA SameStep ==
    ASSUME UNCHANGED <<packets, pc, nPacketSize, lost>>, Begin' = Begin
    PROVE  /\ Start' = Start /\ Length' = Length /\ Wanted' = Wanted
           /\ HeaderBegin' = HeaderBegin /\ Due' = Due
           /\ StreamState' = StreamState
           /\ \A i : InStepWith(i)' <=> InStepWith(i)
  <1>1. Start' = Start /\ Length' = Length /\ Wanted' = Wanted
    BY DEF Start, Length, Wanted
  <1>2. HeaderBegin' = HeaderBegin
    BY DEF HeaderBegin
  <1>3. Due' = Due
    BY <1>1, <1>2 DEF Due
  <1>4. StreamState' = StreamState
    BY <1>3 DEF StreamState
  <1>5. \A i : InStepWith(i)' <=> InStepWith(i)
    BY <1>1, <1>2 DEF InStepWith
  <1>6. QED BY <1>1, <1>2, <1>3, <1>4, <1>5

(* What the client does is nothing to the handler.                         *)
LEMMA ClientKeeps ==
    ASSUME IInv, Write \/ Close \/ UNCHANGED vars
    PROVE  IInv'
  <1>1. UNCHANGED <<packets, pc, recv, nPacketSize, lost, handed>> /\ Begin' = Begin
    BY DEF Write, Close, vars, stream, recv, Begin, nTotalRecvSize, Wanted
  <1>2. put' \in 0..Length /\ client' \in {"open", "closed", "reset"} /\ got' \in 0..put'
    <2>1. put \in Nat /\ Length \in Nat /\ put =< Length /\ got \in Nat /\ got =< put
      BY Streaming DEF IInv
    <2>2. client \in {"open", "closed", "reset"}
      BY DEF IInv, TypeOK
    <2>3. put' \in Nat /\ put =< put' /\ put' =< Length
      BY <2>1 DEF Write, Close, vars, stream
    <2>4. client' \in {"open", "closed", "reset"}
      BY <2>2 DEF Write, Close, vars, stream
    <2>5. got' = got
      BY <1>1 DEF recv
    <2>6. QED BY <2>1, <2>3, <2>4, <2>5
  <1>3. Start' = Start /\ Length' = Length /\ Wanted' = Wanted /\ Due' = Due
        /\ \A i : InStepWith(i)' <=> InStepWith(i)
    BY <1>1, SameStep
  <1>4. TypeOK'
    BY <1>1, <1>2, <1>3 DEF IInv, TypeOK, recv
  <1>5. CutOff => CutOff'
    BY <1>1, <1>3 DEF CutOff, Write, Close, vars, stream, recv
  <1>6. StepKept'
    BY <1>1, <1>3, <1>5 DEF IInv, StepKept
  <1>7. QED BY <1>4, <1>6 DEF IInv

(* A part of a header or of a body.                                        *)
LEMMA PartReceived ==
    ASSUME TypeOK, RecvPart
    PROVE  /\ pc # "left" /\ UNCHANGED <<packets, put, client, pc, nPacketSize, lost, handed>>
           /\ Begin' = Begin /\ got' \in 0..put
           /\ nRemainSize' \in 1..Wanted /\ nRecvSize' \in 1..nRemainSize'
           /\ got < put
  <1>1. PICK n \in 1..nRecvSize :
            /\ n \in 1..LesserOf(nRecvSize, put - got) /\ got' = got + n /\ n < nRemainSize
            /\ nRemainSize' = nRemainSize - n
            /\ nRecvSize' = LesserOf(nRecvSize, nRemainSize - n)
    BY DEF RecvPart, Received, NextRecvSize
  <1>2. pc # "left" /\ UNCHANGED <<packets, put, client, pc, nPacketSize, lost, handed>>
    BY DEF RecvPart, stream
  <1>3. /\ Wanted \in Nat /\ nRemainSize \in Nat /\ nRecvSize \in Nat
        /\ nRemainSize =< Wanted /\ 1 =< nRecvSize /\ nRecvSize =< nRemainSize
    <2>1. Wanted \in Nat /\ nRemainSize \in 1..Wanted /\ nRecvSize \in 1..nRemainSize
      BY <1>2, Counting
    <2>2. QED BY <2>1
  <1>4. got \in Nat /\ put \in Nat /\ got =< put
    BY Streaming
  <1>5. n \in Nat /\ 1 =< n /\ n =< put - got
    BY <1>1, <1>3, <1>4 DEF LesserOf
  <1>6. got' \in 0..put /\ got < put
    BY <1>1, <1>4, <1>5
  <1>7. nRemainSize' \in 1..Wanted
    BY <1>1, <1>3, <1>5
  <1>8. nRecvSize' \in 1..nRemainSize'
    BY <1>1, <1>3, <1>5 DEF LesserOf
  <1>9. Begin' = Begin
    <2>1. Wanted' = Wanted
      BY <1>2 DEF Wanted
    <2>2. Begin' = got' - (Wanted - nRemainSize') /\ Begin = got - (Wanted - nRemainSize)
      BY <2>1 DEF Begin, nTotalRecvSize
    <2>3. got' = got + n /\ nRemainSize' = nRemainSize - n
      BY <1>1
    <2>4. QED BY <2>2, <2>3, <1>3, <1>4, <1>5
  <1>10. QED BY <1>2, <1>6, <1>7, <1>8, <1>9

LEMMA PartKeeps ==
    ASSUME IInv, RecvPart
    PROVE  IInv'
  <1>1. TypeOK
    BY DEF IInv
  <1>2. /\ pc # "left" /\ UNCHANGED <<packets, put, client, pc, nPacketSize, lost, handed>>
        /\ Begin' = Begin /\ got' \in 0..put
        /\ nRemainSize' \in 1..Wanted /\ nRecvSize' \in 1..nRemainSize'
        /\ got < put
    BY <1>1, PartReceived
  <1>3. Start' = Start /\ Length' = Length /\ Wanted' = Wanted
        /\ \A i : InStepWith(i)' <=> InStepWith(i)
    BY <1>2, SameStep
  <1>4. TypeOK'
    BY <1>1, <1>2, <1>3 DEF TypeOK
  <1>5. ~CutOff
    <2>1. got \in Nat /\ put \in Nat
      BY <1>1, Streaming
    <2>2. QED BY <1>2, <2>1 DEF CutOff
  <1>6. StepKept'
    BY <1>2, <1>3, <1>5 DEF IInv, StepKept
  <1>7. QED BY <1>4, <1>6 DEF IInv

(* A header or a body is complete only where more bytes have arrived.      *)
LEMMA NotCutOff ==
    ASSUME TypeOK, pc # "left", RecvAll
    PROVE  ~CutOff
  <1>1. got' = got + nRemainSize /\ got' =< put
    BY Complete
  <1>2. nRemainSize \in Nat /\ 1 =< nRemainSize
    <2>1. Wanted \in Nat /\ nRemainSize \in 1..Wanted
      BY Counting
    <2>2. QED BY <2>1
  <1>3. got \in Nat /\ put \in Nat
    BY Streaming
  <1>4. QED BY <1>1, <1>2, <1>3 DEF CutOff

(* An accepted header leads to its body, a refused one to the next header. *)
LEMMA AcceptedInStep ==
    ASSUME TypeOK, pc = "header", NEW i \in 1..Len(packets) + 1, InStepWith(i),
           NEW h \in HeadersRead, HeaderRead(h), Acceptable(h),
           pc' = "body", nPacketSize' = h.nSize, Recv(h.nSize), ~lost'
    PROVE  /\ HeaderBegin' = Start[i] /\ i \in 1..Len(packets) /\ packets[i].body = h.nSize
           /\ KindOf(packets[i]) = "good"
  <1>1. /\ i \in 1..Len(packets) /\ h = packets[i].header
        /\ got' = Start[i] + HeaderSize
        /\ lost' = (lost \/ ~Fits(packets[i]))
    BY HeaderInStep
  <1>2. packets[i].body = h.nSize /\ KindOf(packets[i]) = "good"
    BY <1>1 DEF Fits, KindOf
  <1>3. Start[i] \in Nat /\ HeaderSize \in Nat
    BY Streaming, FramingAssumption
  <1>4. h.nSize \in Nat \ {0} /\ Wanted' = h.nSize
    <2>1. h.nSize \in Int
      BY HeadersAreHeaders DEF Header
    <2>2. QED BY <2>1 DEF Acceptable, Wanted
  <1>5. Begin' = got'
    <2>1. got' \in Nat
      BY <1>1, <1>3
    <2>2. QED BY <1>4, <2>1, Called
  <1>6. HeaderBegin' = got' - HeaderSize
    BY <1>5 DEF HeaderBegin
  <1>7. QED BY <1>1, <1>2, <1>3, <1>6

LEMMA RefusedInStep ==
    ASSUME TypeOK, pc = "header", NEW i \in 1..Len(packets) + 1, InStepWith(i),
           NEW h \in HeadersRead, HeaderRead(h), ~Acceptable(h),
           pc' = "header", Recv(HeaderSize), ~lost'
    PROVE  /\ HeaderBegin' = Start[i + 1] /\ i \in 1..Len(packets) /\ Start[i + 1] =< put
           /\ KindOf(packets[i]) = "refused"
  <1>1. /\ i \in 1..Len(packets) /\ h = packets[i].header
        /\ got' = Start[i] + HeaderSize
        /\ lost' = (lost \/ ~Fits(packets[i]))
    BY HeaderInStep
  <1>2. packets[i].body = 0 /\ KindOf(packets[i]) = "refused"
    BY <1>1 DEF Fits, KindOf
  <1>3. Start[i] \in Nat /\ HeaderSize \in Nat \ {0}
    BY Streaming, FramingAssumption
  <1>4. Start[i + 1] = got'
    <2>1. Start[i + 1] = Start[i] + HeaderSize + packets[i].body
      BY <1>1, Streaming
    <2>2. QED BY <1>1, <1>2, <1>3, <2>1
  <1>5. got' =< put /\ got' \in Nat
    BY Complete DEF HeaderRead
  <1>6. Begin' = got'
    BY <1>3, <1>5, Called DEF Wanted
  <1>7. HeaderBegin' = got'
    BY <1>6 DEF HeaderBegin
  <1>8. QED BY <1>1, <1>2, <1>4, <1>5, <1>7

LEMMA HeaderAcceptedKeeps ==
    ASSUME IInv, HeaderAccepted
    PROVE  IInv'
  <1>1. TypeOK /\ pc = "header" /\ pc # "left" /\ RecvAll
    BY DEF IInv, HeaderAccepted, HeaderRead
  <1>2. PICK h \in HeadersRead :
            /\ HeaderRead(h) /\ Acceptable(h)
            /\ pc' = "body" /\ nPacketSize' = h.nSize
            /\ Recv(h.nSize)
    BY DEF HeaderAccepted
  <1>3. UNCHANGED <<packets, put, client, handed>> /\ lost' \in BOOLEAN
    BY <1>1, <1>2 DEF HeaderRead, stream, TypeOK
  <1>4. h.nSize \in 1..MaxSize /\ MaxSize \in Nat
    <2>1. h.nSize \in Int
      BY <1>1, HeadersAreHeaders DEF Header
    <2>2. QED BY <1>2, <2>1, FramingAssumption DEF Acceptable
  <1>5. got' \in 0..put /\ got' \in Nat
    <2>1. got' =< put /\ got' \in Nat
      BY <1>1, Complete
    <2>2. put \in Nat
      BY <1>1, Streaming
    <2>3. QED BY <2>1, <2>2
  <1>6. Wanted' = h.nSize /\ h.nSize \in Nat \ {0}
    BY <1>2, <1>4 DEF Wanted
  <1>7. nRemainSize' \in 1..Wanted' /\ nRecvSize' \in 1..nRemainSize' /\ Begin' = got'
    BY <1>2, <1>5, <1>6, Called
  <1>8. Start' = Start /\ Length' = Length
    BY <1>3 DEF Start, Length
  <1>9. TypeOK'
    BY <1>1, <1>2, <1>3, <1>4, <1>5, <1>7, <1>8 DEF TypeOK
  <1>10. ASSUME ~lost' PROVE \E i \in 1..Len(packets) + 1 : InStepWith(i)'
    <2>1. ~lost
      BY <1>2, <1>10 DEF HeaderRead
    <2>2. PICK i \in 1..Len(packets) + 1 : InStepWith(i)
      BY <1>1, <2>1, NotCutOff DEF IInv, StepKept
    <2>3. /\ HeaderBegin' = Start[i] /\ i \in 1..Len(packets) /\ packets[i].body = h.nSize
          /\ KindOf(packets[i]) = "good"
      BY <1>1, <1>2, <1>10, <2>2, AcceptedInStep
    <2>4. i =< Len(packets)
      BY <2>3
    <2>5. KindOf(packets[i])' = KindOf(packets[i])
      BY <1>3
    <2>6. QED BY <1>2, <1>3, <1>8, <2>3, <2>4, <2>5 DEF InStepWith
  <1>11. StepKept'
    BY <1>3, <1>10 DEF StepKept
  <1>12. QED BY <1>9, <1>11 DEF IInv

LEMMA HeaderRefusedKeeps ==
    ASSUME IInv, HeaderRefused
    PROVE  IInv'
  <1>1. TypeOK /\ pc = "header" /\ pc # "left" /\ RecvAll
    BY DEF IInv, HeaderRefused, HeaderRead
  <1>2. PICK h \in HeadersRead :
            /\ HeaderRead(h) /\ ~Acceptable(h)
            /\ Recv(HeaderSize)
            /\ UNCHANGED <<pc, nPacketSize>>
    BY DEF HeaderRefused
  <1>3. UNCHANGED <<packets, put, client, handed>> /\ lost' \in BOOLEAN
    BY <1>1, <1>2 DEF HeaderRead, stream, TypeOK
  <1>4. got' \in 0..put /\ got' \in Nat
    <2>1. got' =< put /\ got' \in Nat
      BY <1>1, Complete
    <2>2. put \in Nat
      BY <1>1, Streaming
    <2>3. QED BY <2>1, <2>2
  <1>5. Wanted' = HeaderSize /\ HeaderSize \in Nat \ {0} /\ pc' = "header"
    BY <1>1, <1>2, FramingAssumption DEF Wanted
  <1>6. nRemainSize' \in 1..Wanted' /\ nRecvSize' \in 1..nRemainSize' /\ Begin' = got'
    BY <1>2, <1>4, <1>5, Called
  <1>7. Start' = Start /\ Length' = Length
    BY <1>3 DEF Start, Length
  <1>8. TypeOK'
    BY <1>1, <1>2, <1>3, <1>4, <1>6, <1>7 DEF TypeOK
  <1>9. ASSUME ~lost' PROVE \E i \in 1..Len(packets) + 1 : InStepWith(i)'
    <2>1. ~lost
      BY <1>2, <1>9 DEF HeaderRead
    <2>2. PICK i \in 1..Len(packets) + 1 : InStepWith(i)
      BY <1>1, <2>1, NotCutOff DEF IInv, StepKept
    <2>3. HeaderBegin' = Start[i + 1] /\ i \in 1..Len(packets)
      BY <1>1, <1>2, <1>5, <1>9, <2>2, RefusedInStep
    <2>4. i + 1 \in 1..Len(packets) + 1
      BY <2>3
    <2>5. InStepWith(i + 1)'
      BY <1>5, <1>7, <2>3 DEF InStepWith
    <2>6. QED BY <2>4, <2>5
  <1>10. StepKept'
    BY <1>3, <1>9 DEF StepKept
  <1>11. QED BY <1>8, <1>10 DEF IInv

(* What Classfication is given, when nothing is lost: bytes that begin     *)
(* with a packet.                                                          *)
LEMMA HandedInStep ==
    ASSUME IInv, pc = "body", NEW n \in 1..nPacketSize, HandedOver(n)
    PROVE  handed' \in Seq([from : Nat, size : 1..MaxSize, received : 1..MaxSize])
  <1>1. TypeOK /\ handed \in Seq([from : Nat, size : 1..MaxSize, received : 1..MaxSize])
    BY DEF IInv, TypeOK
  <1>2. CASE lost
    BY <1>1, <1>2 DEF HandedOver
  <1>3. CASE ~lost
    <2>1. PICK i \in 1..Len(packets) + 1 : InStepWith(i)
      BY <1>3 DEF IInv, StepKept, CutOff
    <2>2. Begin - HeaderSize \in Nat
      BY <1>1, <2>1, Streaming DEF InStepWith, HeaderBegin
    <2>3. nPacketSize \in 1..MaxSize /\ MaxSize \in Nat
      BY <1>1, Counting
    <2>4. n \in 1..MaxSize
      BY <2>3
    <2>5. [from |-> Begin - HeaderSize, size |-> nPacketSize, received |-> n]
            \in [from : Nat, size : 1..MaxSize, received : 1..MaxSize]
      BY <2>2, <2>3, <2>4
    <2>6. QED BY <1>1, <1>3, <2>5 DEF HandedOver
  <1>4. QED BY <1>1, <1>2, <1>3 DEF TypeOK

(* A body that is complete, where the handler is in step, ends its packet. *)
LEMMA BodyInStep ==
    ASSUME TypeOK, pc = "body", RecvAll, NEW i \in 1..Len(packets) + 1, InStepWith(i)
    PROVE  /\ i \in 1..Len(packets) /\ got' = Start[i + 1]
           /\ Begin - HeaderSize = Start[i]
  <1>1. Start[i] = Begin - HeaderSize /\ i =< Len(packets) /\ nPacketSize = packets[i].body
    BY DEF InStepWith, HeaderBegin
  <1>2. i \in 1..Len(packets) /\ Start[i] \in Nat
    BY <1>1, Streaming
  <1>3. Start[i + 1] = Start[i] + HeaderSize + nPacketSize
    BY <1>1, <1>2, Streaming
  <1>4. got' = Begin + nPacketSize
    BY Complete DEF Wanted
  <1>5. Begin \in Int /\ HeaderSize \in Nat /\ nPacketSize \in Nat
    <2>1. Begin \in Int /\ HeaderSize \in Nat /\ nPacketSize \in 0..MaxSize
      BY Counting
    <2>2. QED BY <2>1
  <1>6. QED BY <1>1, <1>2, <1>3, <1>4, <1>5

LEMMA BodyReceivedKeeps ==
    ASSUME IInv, BodyReceived
    PROVE  IInv'
  <1>1. TypeOK /\ pc = "body" /\ pc # "left" /\ RecvAll /\ HandedOver(nPacketSize)
        /\ pc' = "header" /\ Recv(HeaderSize)
        /\ UNCHANGED <<packets, put, client, nPacketSize, lost>>
    BY DEF IInv, BodyReceived, stream
  <1>2. got' \in 0..put /\ got' \in Nat
    <2>1. got' =< put /\ got' \in Nat
      BY <1>1, Complete
    <2>2. put \in Nat
      BY <1>1, Streaming
    <2>3. QED BY <2>1, <2>2
  <1>3. Wanted' = HeaderSize /\ HeaderSize \in Nat \ {0}
    BY <1>1, FramingAssumption DEF Wanted
  <1>4. nRemainSize' \in 1..Wanted' /\ nRecvSize' \in 1..nRemainSize' /\ Begin' = got'
    BY <1>1, <1>2, <1>3, Called
  <1>5. Start' = Start /\ Length' = Length
    BY <1>1 DEF Start, Length
  <1>6. handed' \in Seq([from : Nat, size : 1..MaxSize, received : 1..MaxSize])
    <2>1. nPacketSize \in 1..MaxSize /\ MaxSize \in Nat
      BY <1>1, Counting
    <2>2. nPacketSize \in 1..nPacketSize
      BY <2>1
    <2>3. QED BY <1>1, <2>2, HandedInStep
  <1>7. TypeOK'
    BY <1>1, <1>2, <1>4, <1>5, <1>6 DEF TypeOK
  <1>8. ASSUME ~lost' PROVE \E i \in 1..Len(packets) + 1 : InStepWith(i)'
    <2>1. PICK i \in 1..Len(packets) + 1 : InStepWith(i)
      BY <1>1, <1>8, NotCutOff DEF IInv, StepKept
    <2>2. i \in 1..Len(packets) /\ got' = Start[i + 1]
      BY <1>1, <2>1, BodyInStep
    <2>3. HeaderBegin' = got'
      BY <1>1, <1>4 DEF HeaderBegin
    <2>4. i + 1 \in 1..Len(packets) + 1
      BY <2>2
    <2>5. InStepWith(i + 1)'
      BY <1>1, <1>5, <2>2, <2>3 DEF InStepWith
    <2>6. QED BY <2>4, <2>5
  <1>9. StepKept'
    BY <1>1, <1>8 DEF StepKept
  <1>10. QED BY <1>7, <1>9 DEF IInv

(* Where a packet is cut, no packet begins.                                *)
LEMMA NoneWhereCut ==
    ASSUME IInv, pc # "left", ~lost, got = put, client = "reset", nTotalRecvSize > 0
    PROVE  /\ \A j \in 1..Len(packets) + 1 : Start[j] # got
           /\ \E i \in 1..Len(packets) :
                 InStepWith(i) /\ Start[i] =< got /\ got < Start[i + 1]
  <1>1. TypeOK
    BY DEF IInv
  <1>2. PICK i \in 1..Len(packets) + 1 : InStepWith(i)
    BY DEF IInv, StepKept, CutOff
  <1>3. /\ Start[i] \in Nat /\ got \in Nat /\ got =< Length /\ Length = Start[Len(packets) + 1]
        /\ Len(packets) \in Nat
    BY <1>1, Streaming DEF Length
  <1>4. /\ HeaderSize \in Nat \ {0} /\ nTotalRecvSize \in 0..Wanted - 1 /\ Wanted \in Nat
        /\ pc \in {"header", "body"} /\ nPacketSize \in 0..MaxSize /\ MaxSize \in Nat
    BY <1>1, Counting
  <1>5. got = Begin + nTotalRecvSize
    BY <1>3, <1>4 DEF Begin
  <1>6. Start[i] < got
    <2>1. CASE pc = "header"
      BY <1>2, <1>3, <1>4, <1>5, <2>1 DEF InStepWith, HeaderBegin, Begin
    <2>2. CASE pc = "body"
      BY <1>2, <1>3, <1>4, <1>5, <2>2 DEF InStepWith, HeaderBegin, Begin
    <2>3. QED BY <1>4, <2>1, <2>2
  <1>7. i \in 1..Len(packets)
    BY <1>3, <1>6
  <1>8. got < Start[i + 1]
    <2>1. Start[i + 1] = Start[i] + HeaderSize + packets[i].body /\ packets[i].body \in Nat
      BY <1>1, <1>7, Streaming, SizeType
    <2>2. CASE pc = "header"
      <3>1. Start[i] = Begin /\ Wanted = HeaderSize
        BY <1>2, <2>2 DEF InStepWith, HeaderBegin, Wanted
      <3>2. QED BY <1>3, <1>4, <1>5, <2>1, <3>1
    <2>3. CASE pc = "body"
      <3>1. Start[i] = Begin - HeaderSize /\ Wanted = packets[i].body
        BY <1>2, <2>3 DEF InStepWith, HeaderBegin, Wanted
      <3>2. Begin \in Int
        BY <1>1, Counting
      <3>3. QED BY <1>3, <1>4, <1>5, <2>1, <3>1, <3>2, SMTT(30)
    <2>4. QED BY <1>4, <2>2, <2>3
  <1>9. QED BY <1>1, <1>2, <1>3, <1>6, <1>7, <1>8, NoneInside

LEMMA LeavingKeeps ==
    ASSUME IInv, EndOfStream \/ ResetAtStart
    PROVE  IInv'
  <1>1. pc' = "left" /\ UNCHANGED <<packets, put, got, nPacketSize, lost, handed>>
        /\ client' \in {client, "closed"}
    BY DEF EndOfStream, ResetAtStart, AtReset, Leave, recv
  <1>2. Start' = Start /\ Length' = Length
    BY <1>1 DEF Start, Length
  <1>3. TypeOK'
    BY <1>1, <1>2 DEF IInv, TypeOK
  <1>4. QED BY <1>1, <1>3 DEF IInv, StepKept

LEMMA ResetKeeps ==
    ASSUME IInv, ResetInHeader \/ ResetInBody
    PROVE  IInv'
  <1>1. /\ TypeOK /\ pc # "left" /\ nTotalRecvSize > 0
        /\ got = put /\ client = "reset" /\ client' = "closed"
        /\ pc' = "header" /\ Recv(HeaderSize)
        /\ UNCHANGED <<packets, put, got, nPacketSize, lost>>
    BY DEF IInv, ResetInHeader, ResetInBody, AtReset
  <1>2. got \in Nat /\ put \in Nat
    BY <1>1, Streaming
  <1>3. got' \in 0..put /\ got' \in Nat
    BY <1>1, <1>2
  <1>4. Wanted' = HeaderSize /\ HeaderSize \in Nat \ {0}
    BY <1>1, FramingAssumption DEF Wanted
  <1>5. nRemainSize' \in 1..Wanted' /\ nRecvSize' \in 1..nRemainSize' /\ Begin' = got'
    BY <1>1, <1>3, <1>4, Called
  <1>6. Start' = Start /\ Length' = Length
    BY <1>1 DEF Start, Length
  <1>7. handed' \in Seq([from : Nat, size : 1..MaxSize, received : 1..MaxSize])
    <2>1. CASE ResetInHeader
      BY <2>1 DEF ResetInHeader, IInv, TypeOK
    <2>2. CASE ResetInBody
      <3>1. pc = "body" /\ HandedOver(nTotalRecvSize)
        BY <2>2 DEF ResetInBody
      <3>2. nTotalRecvSize \in 1..nPacketSize
        <4>1. nTotalRecvSize \in 0..Wanted - 1 /\ nPacketSize \in 1..MaxSize /\ MaxSize \in Nat
          BY <1>1, <3>1, Counting
        <4>2. Wanted = nPacketSize
          BY <3>1 DEF Wanted
        <4>3. QED BY <1>1, <4>1, <4>2
      <3>3. QED BY <3>1, <3>2, HandedInStep
    <2>3. QED BY <2>1, <2>2
  <1>8. TypeOK'
    BY <1>1, <1>3, <1>5, <1>6, <1>7 DEF TypeOK
  <1>9. ASSUME ~lost PROVE CutOff'
    <2>1. \A j \in 1..Len(packets) + 1 : Start[j] # got
      BY <1>1, <1>9, NoneWhereCut
    <2>2. HeaderBegin' = got'
      BY <1>1, <1>5 DEF HeaderBegin
    <2>3. Due' = {}
      BY <1>1, <1>6, <2>1, <2>2 DEF Due
    <2>4. QED BY <1>1, <1>5, <2>3 DEF CutOff
  <1>10. StepKept'
    BY <1>1, <1>9 DEF StepKept
  <1>11. QED BY <1>8, <1>10 DEF IInv

LEMMA Keeping == IInv /\ [Next]_vars => IInv'
  <1> SUFFICES ASSUME IInv, [Next]_vars PROVE IInv'
    OBVIOUS
  <1>1. CASE Write \/ Close \/ UNCHANGED vars
    BY <1>1, ClientKeeps
  <1>2. CASE RecvPart
    BY <1>2, PartKeeps
  <1>3. CASE HeaderAccepted
    BY <1>3, HeaderAcceptedKeeps
  <1>4. CASE HeaderRefused
    BY <1>4, HeaderRefusedKeeps
  <1>5. CASE BodyReceived
    BY <1>5, BodyReceivedKeeps
  <1>6. CASE EndOfStream \/ ResetAtStart
    BY <1>6, LeavingKeeps
  <1>7. CASE ResetInHeader \/ ResetInBody
    BY <1>7, ResetKeeps
  <1>8. QED BY <1>1, <1>2, <1>3, <1>4, <1>5, <1>6, <1>7 DEF Next, RECV

THEOREM Invariance == Spec => []IInv
  <1>1. Init => IInv
    BY Beginning
  <1>2. IInv /\ [Next]_vars => IInv'
    BY Keeping
  <1>3. QED BY <1>1, <1>2, PTL DEF Spec

(* Whatever a client sends and wherever TCP cuts it, RECV never asks for   *)
(* more than is left of the header or the body it was called for, so it    *)
(* takes nothing of the next packet; and a size that is used is one that   *)
(* handle_clnt accepted.                                                   *)
THEOREM FramingTypes == Spec => []TypeOK
  <1>1. IInv => TypeOK
    BY DEF IInv
  <1>2. QED BY <1>1, Invariance, PTL

-----------------------------------------------------------------------------
(* The packets of the abstract connection.                                 *)

KindBar == [i \in 1..Len(packets) |-> KindOf(packets[i])]
SentBar == Cardinality({i \in 1..Len(packets) : Start[i + 1] <= put})
HandedBar == [k \in 1..Len(handed) |-> NumberOf(handed[k])]
NextBar == IF StreamState = "inStep" THEN CHOOSE i \in Due : TRUE ELSE 0
DueBar(k) == NextBar \in DOMAIN KindBar /\ KindBar[NextBar] = k

LEMMA SentCounted ==
    ASSUME TypeOK
    PROVE  /\ SentBar \in Nat
           /\ \A n \in 0..Len(packets) : Start[n + 1] =< put => n =< SentBar
           /\ \A n \in 0..Len(packets) :
                 Start[n + 1] =< put /\ (n < Len(packets) => put < Start[n + 2]) => SentBar = n
  <1> DEFINE In == {i \in 1..Len(packets) : Start[i + 1] <= put}
  <1>1. /\ packets \in Seq(Packet) /\ Len(packets) \in Nat
        /\ Start \in [1..Len(packets) + 1 -> Nat] /\ put \in Nat
    BY Streaming
  <1>2. IsFiniteSet(In) /\ Cardinality(In) \in Nat /\ SentBar = Cardinality(In)
    <2>1. IsFiniteSet(1..Len(packets))
      BY <1>1, FS_Interval
    <2>2. IsFiniteSet(In)
      BY <2>1, FS_Subset
    <2>3. QED BY <2>2, FS_CardinalityType DEF SentBar
  <1>3. ASSUME NEW n \in 0..Len(packets), Start[n + 1] =< put
        PROVE  1..n \subseteq In
    <2>1. ASSUME NEW i \in 1..n PROVE i \in In
      <3>1. i \in 1..Len(packets) /\ n + 1 \in 1..Len(packets) + 1 /\ i < n + 1
        BY <1>1
      <3>2. Start[i + 1] =< Start[n + 1]
        BY <1>1, <3>1, StartsAscend DEF Start
      <3>3. Start[i + 1] \in Nat /\ Start[n + 1] \in Nat
        BY <1>1, <3>1
      <3>4. QED BY <1>1, <1>3, <3>1, <3>2, <3>3
    <2>2. QED BY <2>1
  <1>4. ASSUME NEW n \in 0..Len(packets)
        PROVE  Cardinality(1..n) = n
    <2>1. n \in Nat
      BY <1>1
    <2>2. Cardinality(1..n) = IF 1 > n THEN 0 ELSE n - 1 + 1
      BY <2>1, FS_Interval
    <2>3. QED BY <2>1, <2>2
  <1>5. ASSUME NEW n \in 0..Len(packets), Start[n + 1] =< put
        PROVE  n =< SentBar
    <2> HIDE DEF In
    <2>1. Cardinality(1..n) =< Cardinality(In)
      BY <1>2, <1>3, <1>5, FS_Subset
    <2>2. QED BY <1>2, <1>4, <2>1
  <1>6. ASSUME NEW n \in 0..Len(packets), Start[n + 1] =< put,
               n < Len(packets) => put < Start[n + 2]
        PROVE  SentBar = n
    <2>1. ASSUME NEW i \in In PROVE i \in 1..n
      <3>1. i \in 1..Len(packets) /\ Start[i + 1] =< put
        OBVIOUS
      <3>2. SUFFICES ASSUME n < i PROVE FALSE
        BY <1>1, <3>1
      <3>3. n + 1 \in 1..Len(packets) /\ i + 1 \in 1..Len(packets) + 1 /\ n + 1 < i + 1
        BY <1>1, <3>1, <3>2
      <3>4. Start[(n + 1) + 1] =< Start[i + 1]
        BY <1>1, <3>3, StartsAscend DEF Start
      <3>5. (n + 1) + 1 = n + 2 /\ n < Len(packets)
        BY <1>1, <3>3
      <3>6. Start[n + 2] \in Nat /\ Start[i + 1] \in Nat
        BY <1>1, <3>3, <3>5
      <3>7. QED BY <1>1, <1>6, <3>1, <3>4, <3>5, <3>6
    <2>2. In = 1..n
      <3> HIDE DEF In
      <3>1. QED BY <2>1, <1>3, <1>6
    <2>3. QED BY <1>2, <1>4, <2>2
  <1>7. QED BY <1>2, <1>5, <1>6

LEMMA NextInStep ==
    ASSUME TypeOK, pc # "left", ~lost, NEW i \in 1..Len(packets) + 1, InStepWith(i)
    PROVE  StreamState = "inStep" /\ NextBar = i /\ Due = {i}
  <1>1. Start[i] = HeaderBegin
    BY DEF InStepWith
  <1>2. Due = {i}
    BY <1>1, OnePacket DEF Due
  <1>3. StreamState = "inStep"
    BY <1>2 DEF StreamState
  <1>4. NextBar = i
    BY <1>2, <1>3 DEF NextBar
  <1>5. QED BY <1>2, <1>3, <1>4

(* Nothing is given to Classfication.                                      *)
LEMMA NothingHanded ==
    ASSUME packets' = packets, handed' = handed
    PROVE  HandedBar' = HandedBar
  <1>1. Start' = Start
    BY DEF Start
  <1>2. \A h : NumberOf(h)' = NumberOf(h)
    BY <1>1 DEF NumberOf
  <1>3. QED BY <1>2 DEF HandedBar

LEMMA SameSent ==
    ASSUME packets' = packets, put' = put
    PROVE  SentBar' = SentBar /\ KindBar' = KindBar
  <1>1. Start' = Start
    BY DEF Start
  <1>2. KindBar' = KindBar
    BY DEF KindBar
  <1>3. QED BY <1>1, <1>2 DEF SentBar

LEMMA AppendIsFunction ==
    ASSUME NEW S, NEW s \in Seq(S), NEW e
    PROVE  Append(s, e) = [k \in 1..Len(s) + 1 |-> IF k = Len(s) + 1 THEN e ELSE s[k]]
  <1>1. s \in Seq(S \cup {e}) /\ e \in S \cup {e} /\ Len(s) \in Nat
    OBVIOUS
  <1>2. /\ Append(s, e) \in Seq(S \cup {e}) /\ Len(Append(s, e)) = Len(s) + 1
        /\ \A k \in 1..Len(s) : Append(s, e)[k] = s[k]
        /\ Append(s, e)[Len(s) + 1] = e
    BY <1>1, AppendProperties
  <1>3. PICK a : a = Append(s, e)
    OBVIOUS
  <1>4. /\ a \in Seq(S \cup {e}) /\ Len(a) = Len(s) + 1
        /\ \A k \in 1..Len(s) : a[k] = s[k]
        /\ a[Len(s) + 1] = e
    BY <1>2, <1>3
  <1>5. a = [k \in 1..Len(s) + 1 |-> a[k]]
    <2>1. a \in [1..Len(a) -> S \cup {e}]
      BY <1>4, LenProperties
    <2>2. QED BY <1>4, <2>1
  <1>6. ASSUME NEW k \in 1..Len(s) + 1
        PROVE  a[k] = IF k = Len(s) + 1 THEN e ELSE s[k]
    <2>1. CASE k = Len(s) + 1
      <3>1. a[Len(s) + 1] = e
        BY <1>4
      <3>2. QED BY <2>1, <3>1
    <2>2. CASE k # Len(s) + 1
      <3>1. k \in 1..Len(s)
        BY <1>1, <2>2
      <3>2. QED BY <1>4, <2>2, <3>1
    <2>3. QED BY <2>1, <2>2
  <1>7. a = [k \in 1..Len(s) + 1 |-> IF k = Len(s) + 1 THEN e ELSE s[k]]
    BY <1>5, <1>6
  <1>8. QED BY <1>3, <1>7

(* One more packet is given to Classfication.                              *)
LEMMA OneHanded ==
    ASSUME packets' = packets, NEW T, handed \in Seq(T), NEW h, handed' = Append(handed, h)
    PROVE  HandedBar' = Append(HandedBar, NumberOf(h))
  <1>1. Start' = Start
    BY DEF Start
  <1>2. \A g : NumberOf(g)' = NumberOf(g)
    BY <1>1 DEF NumberOf
  <1> DEFINE n == Len(handed)
  <1>3. n \in Nat /\ Len(handed') = n + 1
    <2>1. handed \in Seq(T \cup {h}) /\ h \in T \cup {h}
      OBVIOUS
    <2>2. QED BY <2>1, AppendProperties, LenProperties
  <1>4. /\ \A k \in 1..n : handed'[k] = handed[k]
        /\ handed'[n + 1] = h
    <2>1. handed \in Seq(T \cup {h}) /\ h \in T \cup {h}
      OBVIOUS
    <2>2. QED BY <2>1, AppendProperties
  <1>5. HandedBar' = [k \in 1..n + 1 |-> NumberOf(handed'[k])]
    BY <1>2, <1>3 DEF HandedBar
  <1>6. HandedBar = [k \in 1..n |-> NumberOf(handed[k])]
    BY DEF HandedBar
  <1> HIDE DEF n
  <1>7. HandedBar \in Seq({NumberOf(handed[k]) : k \in 1..n}) /\ Len(HandedBar) = n
    BY <1>3, <1>6
  <1>8. Append(HandedBar, NumberOf(h))
           = [k \in 1..n + 1 |-> IF k = n + 1 THEN NumberOf(h) ELSE HandedBar[k]]
    BY <1>7, AppendIsFunction
  <1>9. ASSUME NEW k \in 1..n + 1
        PROVE  NumberOf(handed'[k]) = IF k = n + 1 THEN NumberOf(h) ELSE HandedBar[k]
    <2>1. CASE k = n + 1
      BY <1>4, <2>1
    <2>2. CASE k # n + 1
      <3>1. k \in 1..n
        BY <1>3, <2>2
      <3>2. QED BY <1>4, <1>6, <3>1, <2>2
    <2>3. QED BY <2>1, <2>2
  <1>10. QED BY <1>5, <1>8, <1>9

(* The packet with which the handler is in step has no number but its own. *)
LEMMA NumberInStep ==
    ASSUME TypeOK, NEW i \in 1..Len(packets), NEW h,
           h.from = Start[i], h.size = packets[i].body
    PROVE  NumberOf(h) = IF h.received = h.size THEN i ELSE 0
  <1> DEFINE fits == {j \in 1..Len(packets) : /\ h.from = Start[j] /\ h.size = packets[j].body
                                              /\ h.received = h.size}
  <1>1. ASSUME NEW j \in fits PROVE j = i
    <2>1. j \in 1..Len(packets) /\ Start[j] = Start[i]
      OBVIOUS
    <2>2. j \in 1..Len(packets) + 1 /\ i \in 1..Len(packets) + 1
      BY <2>1, Streaming
    <2>3. QED BY <2>1, <2>2, OnePacket
  <1>2. NumberOf(h) = IF fits = {} THEN 0 ELSE CHOOSE j \in fits : TRUE
    BY DEF NumberOf
  <1>3. CASE h.received = h.size
    <2>1. i \in fits
      BY <1>3
    <2> HIDE DEF fits
    <2>2. fits = {i}
      BY <1>1, <2>1
    <2>3. QED BY <1>2, <1>3, <2>2
  <1>4. CASE h.received # h.size
    <2>1. fits = {}
      BY <1>4
    <2>2. QED BY <1>2, <1>4, <2>1
  <1>5. QED BY <1>3, <1>4

(* The states of the abstract connection, as far as the steps read them.   *)
LEMMA StateCases ==
    /\ pc = "left" => StreamState = "left"
    /\ pc # "left" /\ lost => StreamState = "lost"
    /\ pc # "left" /\ ~lost /\ Due = {} => StreamState = "cut"
    /\ StreamState # "inStep" => NextBar = 0
  BY DEF StreamState, NextBar

(* The steps of the abstract connection in these names.                    *)
Sending    == SentBar' \in Nat /\ SentBar' > SentBar
              /\ UNCHANGED <<KindBar, HandedBar, NextBar, StreamState>>
HandingOver == /\ StreamState = "inStep" /\ NextBar =< SentBar /\ DueBar("good")
               /\ HandedBar' = Append(HandedBar, NextBar) /\ NextBar' = NextBar + 1
               /\ UNCHANGED <<KindBar, SentBar, StreamState>>
Skipping   == /\ StreamState = "inStep" /\ NextBar =< SentBar /\ DueBar("refused")
              /\ NextBar' = NextBar + 1
              /\ UNCHANGED <<KindBar, SentBar, HandedBar, StreamState>>
LosingStep == /\ StreamState = "inStep" /\ StreamState' = "lost" /\ DueBar("misfit")
              /\ NextBar' = 0 /\ UNCHANGED <<KindBar, SentBar, HandedBar>>
Cutting    == /\ StreamState = "inStep" /\ StreamState' = "cut" /\ NextBar = SentBar + 1
              /\ HandedBar' = HandedBar \/ (DueBar("good") /\ HandedBar' = Append(HandedBar, 0))
              /\ NextBar' = 0 /\ UNCHANGED <<KindBar, SentBar>>
Leaving    == /\ StreamState \in {"inStep", "cut", "lost"} /\ StreamState' = "left"
              /\ StreamState = "inStep" => NextBar = SentBar + 1
              /\ NextBar' = 0 /\ UNCHANGED <<KindBar, SentBar, HandedBar>>
Stuttering == UNCHANGED <<KindBar, SentBar, HandedBar, NextBar, StreamState>>

LEMMA AbstractSteps ==
    ASSUME Sending \/ HandingOver \/ Skipping \/ LosingStep \/ Cutting \/ Leaving \/ Stuttering
    PROVE  [Connection!Next]_(Connection!vars)
  <1>1. CASE Sending
    BY <1>1 DEF Sending, Connection!Next, Connection!Send, KindBar, SentBar, HandedBar, NextBar
  <1>2. CASE HandingOver
    BY <1>2 DEF HandingOver, Connection!Next, Connection!HandOver, Connection!Due, DueBar, KindBar, SentBar, HandedBar, NextBar
  <1>3. CASE Skipping
    BY <1>3 DEF Skipping, Connection!Next, Connection!Skip, Connection!Due, DueBar, KindBar, SentBar, HandedBar, NextBar
  <1>4. CASE LosingStep
    BY <1>4 DEF LosingStep, Connection!Next, Connection!LoseStep, Connection!Due, DueBar, KindBar, SentBar, HandedBar, NextBar
  <1>5. CASE Cutting
    BY <1>5 DEF Cutting, Connection!Next, Connection!Cut, Connection!Due, DueBar, KindBar, SentBar, HandedBar, NextBar
  <1>6. CASE Leaving
    BY <1>6 DEF Leaving, Connection!Next, Connection!Leave, KindBar, SentBar, HandedBar, NextBar
  <1>7. CASE Stuttering
    BY <1>7 DEF Stuttering, Connection!vars, KindBar, SentBar, HandedBar, NextBar
  <1>8. QED BY <1>1, <1>2, <1>3, <1>4, <1>5, <1>6, <1>7

(* Each step of the handler is one of these.                               *)
LEMMA ClientMaps ==
    ASSUME TypeOK, Write \/ Close \/ UNCHANGED vars
    PROVE  Sending \/ Stuttering
  <1>1. UNCHANGED <<packets, pc, recv, nPacketSize, lost, handed>> /\ Begin' = Begin
    BY DEF Write, Close, vars, stream, recv, Begin, nTotalRecvSize, Wanted
  <1>2. Due' = Due /\ StreamState' = StreamState /\ HandedBar' = HandedBar /\ Start' = Start
    BY <1>1, SameStep, NothingHanded
  <1>3. NextBar' = NextBar /\ KindBar' = KindBar
    BY <1>1, <1>2 DEF NextBar, KindBar
  <1>4. CASE put' = put
    BY <1>1, <1>2, <1>3, <1>4, SameSent DEF Stuttering
  <1>5. CASE put' # put
    <2>1. put' \in (put + 1)..Length
      BY <1>5 DEF Write, Close, vars, stream
    <2>2. /\ packets \in Seq(Packet) /\ Len(packets) \in Nat
          /\ Start \in [1..Len(packets) + 1 -> Nat] /\ put \in Nat /\ Length \in Nat
      BY Streaming
    <2>3. put' \in Nat /\ put =< put'
      BY <2>1, <2>2
    <2> DEFINE Before == {i \in 1..Len(packets) : Start[i + 1] <= put}
               Now == {i \in 1..Len(packets) : Start[i + 1] <= put'}
    <2>4. SentBar = Cardinality(Before) /\ SentBar' = Cardinality(Now)
      BY <1>1, <1>2 DEF SentBar
    <2>5. Before \subseteq Now
      BY <2>2, <2>3
    <2>6. IsFiniteSet(Now)
      <3>1. IsFiniteSet(1..Len(packets))
        BY <2>2, FS_Interval
      <3>2. QED BY <3>1, FS_Subset
    <2> HIDE DEF Before, Now
    <2>7. SentBar \in Nat /\ SentBar' \in Nat /\ SentBar =< SentBar'
      BY <2>4, <2>5, <2>6, FS_Subset, FS_CardinalityType
    <2>8. CASE SentBar' = SentBar
      BY <1>2, <1>3, <2>8 DEF Stuttering
    <2>9. CASE SentBar' # SentBar
      BY <1>2, <1>3, <2>7, <2>9 DEF Sending
    <2>10. QED BY <2>8, <2>9
  <1>6. QED BY <1>4, <1>5

LEMMA PartMaps ==
    ASSUME TypeOK, RecvPart
    PROVE  Stuttering
  <1>1. UNCHANGED <<packets, put, pc, nPacketSize, lost, handed>> /\ Begin' = Begin
    BY PartReceived
  <1>2. Due' = Due /\ StreamState' = StreamState /\ HandedBar' = HandedBar /\ SentBar' = SentBar /\ KindBar' = KindBar
    BY <1>1, SameStep, NothingHanded, SameSent
  <1>3. NextBar' = NextBar
    BY <1>2 DEF NextBar
  <1>4. QED BY <1>2, <1>3 DEF Stuttering

(* Once the place of the packets is lost it stays so.                      *)
LEMMA LostMaps ==
    ASSUME pc # "left", lost, pc' # "left", lost',
           UNCHANGED <<packets, put, handed>>
    PROVE  Stuttering
  <1>1. HandedBar' = HandedBar /\ SentBar' = SentBar /\ KindBar' = KindBar
    BY NothingHanded, SameSent
  <1>2. StreamState = "lost" /\ StreamState' = "lost"
    BY DEF StreamState
  <1>3. NextBar = 0 /\ NextBar' = 0
    BY <1>2 DEF NextBar
  <1>4. QED BY <1>1, <1>2, <1>3 DEF Stuttering

(* Where the handler is after a step that keeps it in step.                *)
LEMMA NextAfter ==
    ASSUME TypeOK, packets' = packets, pc' # "left", ~lost',
           NEW i \in 1..Len(packets) + 1, HeaderBegin' = Start[i]
    PROVE  StreamState' = "inStep" /\ NextBar' = i
  <1>1. Due' = {i}
    <2>1. Due' = {k \in 1..Len(packets) + 1 : Start[k] = Start[i]}
      BY DEF Due, Start
    <2>2. QED BY <2>1, OnePacket
  <1>2. StreamState' = "inStep"
    BY <1>1 DEF StreamState
  <1>3. NextBar' = i
    BY <1>1, <1>2 DEF NextBar
  <1>4. QED BY <1>2, <1>3

LEMMA HeaderMaps ==
    ASSUME IInv, HeaderAccepted \/ HeaderRefused
    PROVE  Stuttering \/ Skipping \/ LosingStep
  <1>1. TypeOK /\ pc = "header" /\ pc # "left" /\ RecvAll
    BY DEF IInv, HeaderAccepted, HeaderRefused, HeaderRead
  <1>2. PICK h \in HeadersRead :
            /\ HeaderRead(h)
            /\ \/ Acceptable(h) /\ pc' = "body" /\ nPacketSize' = h.nSize /\ Recv(h.nSize)
               \/ ~Acceptable(h) /\ pc' = "header" /\ Recv(HeaderSize)
    BY <1>1 DEF HeaderAccepted, HeaderRefused
  <1>3. UNCHANGED <<packets, put, client, handed>> /\ (lost => lost') /\ pc' # "left"
    BY <1>2 DEF HeaderRead, stream
  <1>4. HandedBar' = HandedBar /\ SentBar' = SentBar /\ KindBar' = KindBar
    BY <1>3, NothingHanded, SameSent
  <1>5. CASE lost
    BY <1>1, <1>3, <1>5, LostMaps
  <1>6. CASE ~lost
    <2>1. PICK i \in 1..Len(packets) + 1 : InStepWith(i)
      BY <1>1, <1>6, NotCutOff DEF IInv, StepKept
    <2>2. StreamState = "inStep" /\ NextBar = i
      BY <1>1, <1>6, <2>1, NextInStep
    <2>3. CASE lost'
      <3>1. StreamState' = "lost"
        BY <1>3, <2>3 DEF StreamState
      <3>2. NextBar' = 0
        BY <3>1 DEF NextBar
      <3>3. i \in 1..Len(packets) /\ ~Fits(packets[i])
        BY <1>1, <1>2, <1>6, <2>1, <2>3, HeaderInStep
      <3>4. DueBar("misfit")
        BY <2>2, <3>3 DEF DueBar, KindBar, KindOf
      <3>5. QED BY <1>4, <2>2, <3>1, <3>2, <3>4 DEF LosingStep
    <2>4. CASE ~lost' /\ Acceptable(h)
      <3>1. HeaderBegin' = Start[i]
        BY <1>1, <1>2, <2>1, <2>4, AcceptedInStep
      <3>2. StreamState' = "inStep" /\ NextBar' = i
        BY <1>1, <1>3, <2>4, <3>1, NextAfter
      <3>3. QED BY <1>4, <2>2, <3>2 DEF Stuttering
    <2>5. CASE ~lost' /\ ~Acceptable(h)
      <3>1. /\ HeaderBegin' = Start[i + 1] /\ i \in 1..Len(packets) /\ Start[i + 1] =< put
            /\ KindOf(packets[i]) = "refused"
        BY <1>1, <1>2, <2>1, <2>5, RefusedInStep
      <3>2. i + 1 \in 1..Len(packets) + 1 /\ i \in 0..Len(packets)
        BY <3>1
      <3>3. StreamState' = "inStep" /\ NextBar' = i + 1
        BY <1>1, <1>3, <2>5, <3>1, <3>2, NextAfter
      <3>4. i =< SentBar
        BY <1>1, <3>1, <3>2, SentCounted
      <3>5. DueBar("refused")
        BY <2>2, <3>1 DEF DueBar, KindBar
      <3>6. QED BY <1>4, <2>2, <3>3, <3>4, <3>5 DEF Skipping
    <2>6. QED BY <2>3, <2>4, <2>5
  <1>7. QED BY <1>5, <1>6

LEMMA BodyMaps ==
    ASSUME IInv, BodyReceived
    PROVE  Stuttering \/ HandingOver
  <1>1. /\ TypeOK /\ pc = "body" /\ pc # "left" /\ RecvAll /\ HandedOver(nPacketSize)
        /\ pc' = "header" /\ Recv(HeaderSize)
        /\ UNCHANGED <<packets, put, client, nPacketSize, lost>>
    BY DEF IInv, BodyReceived, stream
  <1>2. SentBar' = SentBar /\ KindBar' = KindBar
    BY <1>1, SameSent
  <1>3. CASE lost
    <2>1. handed' = handed
      BY <1>1, <1>3 DEF HandedOver
    <2>2. QED BY <1>1, <1>3, <2>1, LostMaps
  <1>4. CASE ~lost
    <2>1. PICK i \in 1..Len(packets) + 1 : InStepWith(i)
      BY <1>1, <1>4, NotCutOff DEF IInv, StepKept
    <2>2. StreamState = "inStep" /\ NextBar = i
      BY <1>1, <1>4, <2>1, NextInStep
    <2>3. i \in 1..Len(packets) /\ got' = Start[i + 1] /\ Begin - HeaderSize = Start[i]
      BY <1>1, <2>1, BodyInStep
    <2>4. got' =< put /\ got' \in Nat
      BY <1>1, Complete
    <2>5. i + 1 \in 1..Len(packets) + 1 /\ i \in 0..Len(packets)
      BY <2>3
    <2>6. HeaderBegin' = Start[i + 1]
      <3>1. Begin' = got'
        BY <1>1, <2>4, FramingAssumption, Called DEF Wanted
      <3>2. QED BY <1>1, <2>3, <3>1 DEF HeaderBegin
    <2>7. StreamState' = "inStep" /\ NextBar' = i + 1
      BY <1>1, <1>4, <2>5, <2>6, NextAfter
    <2>8. i =< SentBar
      BY <1>1, <2>3, <2>4, <2>5, SentCounted
    <2>9. HandedBar' = Append(HandedBar, i)
      <3> DEFINE h == [from |-> Begin - HeaderSize, size |-> nPacketSize, received |-> nPacketSize]
      <3>1. handed' = Append(handed, h)
        BY <1>1, <1>4 DEF HandedOver
      <3>2. h.from = Start[i] /\ h.size = packets[i].body /\ h.received = h.size
        BY <1>1, <2>1, <2>3 DEF InStepWith
      <3>3. handed \in Seq([from : Nat, size : 1..MaxSize, received : 1..MaxSize])
        BY <1>1 DEF TypeOK
      <3> HIDE DEF h
      <3>4. NumberOf(h) = i
        BY <1>1, <2>3, <3>2, NumberInStep
      <3>5. HandedBar' = Append(HandedBar, NumberOf(h))
        BY <1>1, <3>1, <3>3, OneHanded
      <3>6. QED BY <3>4, <3>5
    <2>10. DueBar("good")
      BY <1>1, <2>1, <2>2, <2>3 DEF DueBar, KindBar, InStepWith
    <2>11. QED BY <1>2, <2>2, <2>7, <2>8, <2>9, <2>10 DEF HandingOver
  <1>5. QED BY <1>3, <1>4

(* Everything that was sent has been handed over, or skipped: the packet   *)
(* that is due is not complete.                                            *)
LEMMA AllTaken ==
    ASSUME TypeOK, pc # "left", got = put, NEW i \in 1..Len(packets) + 1, InStepWith(i)
    PROVE  i = SentBar + 1
  <1>1. /\ Len(packets) \in Nat /\ Start[i] \in Nat /\ got \in Nat
    BY Streaming
  <1>2. /\ HeaderSize \in Nat \ {0} /\ nTotalRecvSize \in 0..Wanted - 1 /\ Wanted \in Nat
        /\ pc \in {"header", "body"} /\ nPacketSize \in 0..MaxSize /\ MaxSize \in Nat
    BY Counting
  <1>3. got = Begin + nTotalRecvSize /\ Begin \in Int
    BY <1>1, <1>2 DEF Begin
  <1>4. Start[i] =< put
    <2>1. CASE pc = "header"
      BY <1>1, <1>2, <1>3, <2>1 DEF InStepWith, HeaderBegin
    <2>2. CASE pc = "body"
      BY <1>1, <1>2, <1>3, <2>2 DEF InStepWith, HeaderBegin
    <2>3. QED BY <1>2, <2>1, <2>2
  <1>5. ASSUME i \in 1..Len(packets) PROVE put < Start[i + 1]
    <2>1. /\ Start[i + 1] = Start[i] + HeaderSize + packets[i].body
          /\ packets[i].body \in Nat
      BY <1>5, Streaming, SizeType
    <2>2. CASE pc = "header"
      <3>1. Start[i] = Begin /\ Wanted = HeaderSize
        BY <2>2 DEF InStepWith, HeaderBegin, Wanted
      <3>2. QED BY <1>1, <1>2, <1>3, <2>1, <3>1
    <2>3. CASE pc = "body"
      <3>1. Start[i] = Begin - HeaderSize /\ Wanted = packets[i].body
        BY <2>3 DEF InStepWith, HeaderBegin, Wanted
      <3>2. Start[i + 1] = Begin + Wanted
        BY <1>1, <1>2, <1>3, <2>1, <3>1
      <3>3. QED BY <1>1, <1>2, <1>3, <3>2
    <2>4. QED BY <1>2, <2>2, <2>3
  <1>6. PICK n \in 0..Len(packets) : n = i - 1 /\ n + 1 = i /\ n + 2 = i + 1
    BY <1>1
  <1>7. SentBar = n
    <2>1. Start[n + 1] =< put
      BY <1>4, <1>6
    <2>2. n < Len(packets) => put < Start[n + 2]
      <3>1. SUFFICES ASSUME n < Len(packets) PROVE put < Start[n + 2]
        OBVIOUS
      <3>2. i \in 1..Len(packets)
        BY <1>1, <1>6, <3>1
      <3>3. QED BY <1>5, <1>6, <3>2
    <2>3. QED BY <2>1, <2>2, SentCounted
  <1>8. QED BY <1>6, <1>7

LEMMA LeavingMaps ==
    ASSUME IInv, EndOfStream \/ ResetAtStart
    PROVE  Leaving
  <1>1. /\ TypeOK /\ pc # "left" /\ got = put /\ pc' = "left"
        /\ UNCHANGED <<packets, put, lost, handed>>
    BY DEF IInv, EndOfStream, ResetAtStart, AtEnd, AtReset, Leave
  <1>2. HandedBar' = HandedBar /\ SentBar' = SentBar /\ KindBar' = KindBar
    BY <1>1, NothingHanded, SameSent
  <1>3. StreamState' = "left"
    BY <1>1 DEF StreamState
  <1>4. NextBar' = 0
    BY <1>3 DEF NextBar
  <1>5. StreamState \in {"inStep", "cut", "lost"}
    BY <1>1 DEF StreamState
  <1>6. ASSUME StreamState = "inStep" PROVE NextBar = SentBar + 1
    <2>1. ~lost /\ Due # {}
      BY <1>1, <1>6 DEF StreamState
    <2>2. PICK i \in 1..Len(packets) + 1 : InStepWith(i)
      BY <1>1, <2>1 DEF IInv, StepKept, CutOff
    <2>3. NextBar = i
      BY <1>1, <2>1, <2>2, NextInStep
    <2>4. i = SentBar + 1
      BY <1>1, <2>2, AllTaken
    <2>5. QED BY <2>3, <2>4
  <1>7. QED BY <1>2, <1>3, <1>4, <1>5, <1>6 DEF Leaving

LEMMA ResetMaps ==
    ASSUME IInv, ResetInHeader \/ ResetInBody
    PROVE  Stuttering \/ Cutting
  <1>1. /\ TypeOK /\ pc # "left" /\ nTotalRecvSize > 0
        /\ got = put /\ client = "reset"
        /\ pc' = "header" /\ Recv(HeaderSize)
        /\ UNCHANGED <<packets, put, got, lost>>
    BY DEF IInv, ResetInHeader, ResetInBody, AtReset
  <1>2. SentBar' = SentBar /\ KindBar' = KindBar
    BY <1>1, SameSent
  <1>3. CASE lost
    <2>1. handed' = handed
      BY <1>3 DEF ResetInHeader, ResetInBody, HandedOver
    <2>2. QED BY <1>1, <1>3, <2>1, LostMaps
  <1>4. CASE ~lost
    <2>1. PICK i \in 1..Len(packets) + 1 : InStepWith(i)
      BY <1>1, <1>4 DEF IInv, StepKept, CutOff
    <2>2. StreamState = "inStep" /\ NextBar = i /\ i = SentBar + 1
      BY <1>1, <1>4, <2>1, NextInStep, AllTaken
    <2>3. Due' = {}
      <3>1. got \in Nat
        BY <1>1, Streaming
      <3>2. Begin' = got
        BY <1>1, <3>1, FramingAssumption, Called DEF Wanted
      <3>3. HeaderBegin' = got
        BY <1>1, <3>2 DEF HeaderBegin
      <3>4. \A j \in 1..Len(packets) + 1 : Start[j] # got
        BY <1>1, <1>4, NoneWhereCut
      <3>5. QED BY <1>1, <3>3, <3>4 DEF Due, Start
    <2>4. StreamState' = "cut"
      BY <1>1, <1>4, <2>3 DEF StreamState
    <2>5. NextBar' = 0
      BY <2>4 DEF NextBar
    <2>6. HandedBar' = HandedBar \/ (DueBar("good") /\ HandedBar' = Append(HandedBar, 0))
      <3>1. CASE ResetInHeader
        BY <1>1, <3>1, NothingHanded DEF ResetInHeader
      <3>2. CASE ResetInBody
        <4> DEFINE h == [from |-> Begin - HeaderSize, size |-> nPacketSize,
                         received |-> nTotalRecvSize]
        <4>1. pc = "body" /\ handed' = Append(handed, h)
          BY <1>4, <3>2 DEF ResetInBody, HandedOver
        <4>2. i \in 1..Len(packets) /\ Start[i] = Begin - HeaderSize /\ nPacketSize = packets[i].body
          BY <2>1, <4>1 DEF InStepWith, HeaderBegin
        <4>3. nTotalRecvSize # nPacketSize
          <5>1. nTotalRecvSize \in 0..nPacketSize - 1
            BY <1>1, <4>1, Counting DEF Wanted
          <5>2. nPacketSize \in 0..MaxSize /\ MaxSize \in Nat
            BY <1>1, Counting
          <5>3. QED BY <5>1, <5>2
        <4>4. h.from = Start[i] /\ h.size = packets[i].body /\ h.received # h.size
          BY <4>2, <4>3
        <4>5. handed \in Seq([from : Nat, size : 1..MaxSize, received : 1..MaxSize])
          BY <1>1 DEF TypeOK
        <4> HIDE DEF h
        <4>6. NumberOf(h) = 0
          BY <1>1, <4>2, <4>4, NumberInStep
        <4>7. HandedBar' = Append(HandedBar, NumberOf(h))
          BY <1>1, <4>1, <4>5, OneHanded
        <4>8. DueBar("good")
          BY <2>1, <2>2, <4>1, <4>2 DEF DueBar, KindBar, InStepWith
        <4>9. QED BY <4>6, <4>7, <4>8
      <3>3. QED BY <3>1, <3>2
    <2>7. QED BY <1>2, <2>2, <2>4, <2>5, <2>6 DEF Cutting
  <1>5. QED BY <1>3, <1>4

LEMMA InitMaps == Init => Connection!Init
  <1> SUFFICES ASSUME Init PROVE Connection!Init
    OBVIOUS
  <1>1. IInv /\ TypeOK /\ pc = "header" /\ pc # "left" /\ ~lost /\ got = 0 /\ put = 0
        /\ client = "open" /\ handed = <<>>
    BY Beginning DEF IInv, Init
  <1>2. PICK i \in 1..Len(packets) + 1 : InStepWith(i)
    BY <1>1 DEF IInv, StepKept, CutOff
  <1>3. StreamState = "inStep" /\ NextBar = i /\ i = SentBar + 1
    BY <1>1, <1>2, NextInStep, AllTaken
  <1>4. SentBar = 0
    <2>1. 0 \in 0..Len(packets) /\ Start[0 + 1] =< put
          /\ (0 < Len(packets) => put < Start[0 + 2])
      <3>1. Len(packets) \in Nat /\ Start[1] = 0 /\ packets \in Seq(Packet)
        BY <1>1, Streaming
      <3>2. ASSUME 0 < Len(packets) PROVE put < Start[2]
        <4>1. 1 \in 1..Len(packets)
          BY <3>1, <3>2
        <4>2. Start[1 + 1] = Start[1] + HeaderSize + packets[1].body /\ packets[1].body \in Nat
          BY <1>1, <3>1, <4>1, Streaming, SizeType
        <4>3. QED BY <1>1, <3>1, <4>2, FramingAssumption
      <3>3. QED BY <1>1, <3>1, <3>2
    <2>2. QED BY <1>1, <2>1, SentCounted
  <1>5. HandedBar = <<>>
    BY <1>1 DEF HandedBar
  <1>6. KindBar \in Seq(Connection!Kinds)
    <2>1. Len(packets) \in Nat
      BY <1>1, Streaming
    <2>2. \A j \in 1..Len(packets) : KindOf(packets[j]) \in Connection!Kinds
      BY DEF KindOf, Connection!Kinds
    <2>3. KindBar \in [1..Len(packets) -> Connection!Kinds]
      BY <2>2 DEF KindBar
    <2>4. QED BY <2>1, <2>3, SeqDef
  <1>7. QED BY <1>3, <1>4, <1>5, <1>6 DEF Connection!Init, SentBar, NextBar, HandedBar, KindBar

(* For any packets and however TCP cuts them, what Classfication is given  *)
(* are the packets the client sent, whole, in order and all of them before *)
(* the handler leaves, until a reset or a header that does not fit.        *)
THEOREM FramingImplementsStream == Spec => ImplementsStream
  <1>1. Init => Connection!Init
    BY InitMaps
  <1>2. IInv /\ [Next]_vars => [Connection!Next]_(Connection!vars)
    <2> SUFFICES ASSUME IInv, [Next]_vars PROVE [Connection!Next]_(Connection!vars)
      OBVIOUS
    <2>1. TypeOK
      BY DEF IInv
    <2>2. CASE Write \/ Close \/ UNCHANGED vars
      BY <2>1, <2>2, ClientMaps, AbstractSteps
    <2>3. CASE RecvPart
      BY <2>1, <2>3, PartMaps, AbstractSteps
    <2>4. CASE HeaderAccepted \/ HeaderRefused
      BY <2>4, HeaderMaps, AbstractSteps
    <2>5. CASE BodyReceived
      BY <2>5, BodyMaps, AbstractSteps
    <2>6. CASE EndOfStream \/ ResetAtStart
      BY <2>6, LeavingMaps, AbstractSteps
    <2>7. CASE ResetInHeader \/ ResetInBody
      BY <2>7, ResetMaps, AbstractSteps
    <2>8. QED BY <2>2, <2>3, <2>4, <2>5, <2>6, <2>7 DEF Next, RECV
  <1>3. QED BY <1>1, <1>2, Invariance, PTL DEF Spec, ImplementsStream, Connection!Spec

=============================================================================
