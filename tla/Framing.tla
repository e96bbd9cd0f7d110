------------------------------- MODULE Framing -------------------------------
(***************************************************************************)
(* handle_clnt and RECV on the bytes of one connection.  What a client     *)
(* sends is its packets one after the other, a header of HeaderSize bytes  *)
(* and a body; TCP delivers any piece of it at a time.  A byte is its      *)
(* position in the stream, so a buffer is known by where it was read.  The *)
(* client may close or be reset after any byte; recv() hands out what has  *)
(* arrived, after that 0 for a client that closed, and for one that was    *)
(* reset -1 once and then 0.  DMServer takes packets as a whole, which is  *)
(* what ImplementsStream says.                                             *)
(***************************************************************************)
EXTENDS Integers, Sequences, FiniteSets

CONSTANTS
    Streams,      \* the sequences of packets a client may send
    HeaderSize,   \* sizeof(MTdProtocolHeader)
    Chunk,        \* RECV's nRecvSize
    MaxSize,      \* the largest body handle_clnt accepts
    Claims        \* the headers that bytes in the middle of a packet may show

(* A header names a size, and is of a known kind or not.  The body that    *)
(* follows has as many bytes as the client gave it.                        *)
Header == [nSize : Int, known : BOOLEAN]
Packet == [header : Header, body : Nat]

ASSUME FramingAssumption ==
    /\ HeaderSize \in Nat \ {0} /\ Chunk \in Nat \ {0} /\ MaxSize \in Nat \ {0}
    /\ Claims \subseteq Header
    /\ Streams \subseteq Seq(Packet)

VARIABLES
    packets,            \* what this client sends
    put, client,        \* bytes in the stream so far; whether more may come
    pc, got,            \* handle_clnt: where it is, and the bytes it received
    nPacketSize,        \* the size the last header named
    nRemainSize, nRecvSize,   \* RECV's counters
    lost,               \* history: a header was looked for in the wrong place
    handed              \* history: what Classfication was given until then

stream == <<packets, put, client>>
recv   == <<got, nRemainSize, nRecvSize>>
vars   == <<stream, pc, recv, nPacketSize, lost, handed>>

SizeOf(p) == HeaderSize + p.body

(* Start[i] is where packet i begins; the last one is the end.             *)
StartOf(ps) ==
    LET s[i \in 1..(Len(ps) + 1)] == IF i = 1 THEN 0 ELSE s[i - 1] + SizeOf(ps[i - 1])
    IN  s
Start == StartOf(packets)
Length == Start[Len(packets) + 1]

Wanted == IF pc = "header" THEN HeaderSize ELSE nPacketSize
nTotalRecvSize == Wanted - nRemainSize
Begin == got - nTotalRecvSize     \* where the bytes of this RECV begin

(* The values the variables take: RECV never asks for more than is left of *)
(* what it was called for, and the stream is read no further than written. *)
TypeOK ==
    /\ packets \in Streams
    /\ client \in {"open", "closed", "reset"} /\ pc \in {"header", "body", "left"}
    /\ put \in 0..Length /\ got \in 0..put
    /\ nPacketSize \in 0..MaxSize
    /\ pc # "left" => nRemainSize \in 1..Wanted /\ nRecvSize \in 1..nRemainSize
    /\ lost \in BOOLEAN
    /\ handed \in Seq([from : Nat, size : 1..MaxSize, received : 1..MaxSize])

LesserOf(a, b) == IF a < b THEN a ELSE b

(* RECV begins: at most Chunk bytes at a time.                             *)
Recv(size) == nRemainSize' = size /\ nRecvSize' = LesserOf(Chunk, size)

Init ==
    /\ packets \in Streams /\ put = 0 /\ client = "open"
    /\ pc = "header" /\ got = 0 /\ nPacketSize = 0
    /\ nRemainSize = HeaderSize /\ nRecvSize = LesserOf(Chunk, HeaderSize)
    /\ lost = FALSE /\ handed = <<>>

-----------------------------------------------------------------------------
(* The client: some more bytes, a close or a reset.                        *)

Write ==
    /\ client = "open"
    /\ put' \in (put + 1)..Length
    /\ UNCHANGED <<packets, client, pc, recv, nPacketSize, lost, handed>>

Close ==
    /\ client = "open" /\ client' \in {"closed", "reset"}
    /\ UNCHANGED <<packets, put, pc, recv, nPacketSize, lost, handed>>

-----------------------------------------------------------------------------
(* RECV's loop: n bytes at a time.                                         *)

Received(n) ==
    /\ n \in 1..LesserOf(nRecvSize, put - got)
    /\ got' = got + n

NextRecvSizeKept(remain) == nRecvSize   \* the end of the packet is not looked at
NextRecvSize(remain) == LesserOf(nRecvSize, remain)

RecvPart ==
    /\ pc # "left"
    /\ \E n \in 1..nRecvSize :
          /\ Received(n) /\ n < nRemainSize
          /\ nRemainSize' = nRemainSize - n
          /\ nRecvSize' = NextRecvSize(nRemainSize - n)
    /\ UNCHANGED <<stream, pc, nPacketSize, lost, handed>>

RecvSome == \E n \in 1..nRecvSize : Received(n)   \* a part is taken for all of it
RecvAll == \E n \in 1..nRecvSize : Received(n) /\ n >= nRemainSize

(* A header is what its bytes say: those of a packet's header say what the *)
(* client wrote there, others may say anything.                            *)
PacketsAt(position) == {i \in 1..Len(packets) : Start[i] = position}
HeadersRead ==
    IF PacketsAt(Begin) = {} THEN Claims
    ELSE {packets[i].header : i \in PacketsAt(Begin)}

Acceptable(h) == h.nSize >= 1 /\ h.nSize <= MaxSize /\ h.known

(* What handle_clnt reads after a header is the body, or there is none.    *)
Fits(p) == p.body = IF Acceptable(p.header) THEN p.header.nSize ELSE 0

HeaderRead(h) ==
    /\ pc = "header" /\ RecvAll
    /\ h \in HeadersRead
    /\ lost' = (lost \/ \E i \in PacketsAt(Begin) : ~Fits(packets[i]))
    /\ UNCHANGED <<stream, handed>>

HeaderAccepted ==
    \E h \in HeadersRead :
        /\ HeaderRead(h) /\ Acceptable(h)
        /\ pc' = "body" /\ nPacketSize' = h.nSize
        /\ Recv(h.nSize)

(* "Invaild Header Packet!!!": the body is not skipped.                    *)
HeaderRefused ==
    \E h \in HeadersRead :
        /\ HeaderRead(h) /\ ~Acceptable(h)
        /\ Recv(HeaderSize)
        /\ UNCHANGED <<pc, nPacketSize>>

(* The body is zeroed first, so what was not received is zeros.            *)
HandedOver(received) ==
    handed' = IF lost THEN handed
              ELSE Append(handed, [from |-> Begin - HeaderSize, size |-> nPacketSize,
                                   received |-> received])

BodyReceived ==
    /\ pc = "body" /\ pc' = "header"
    /\ RecvAll
    /\ HandedOver(nPacketSize)
    /\ Recv(HeaderSize)
    /\ UNCHANGED <<stream, nPacketSize, lost>>

-----------------------------------------------------------------------------
(* The ways RECV ends without all it was asked for.                        *)

(* Whatever ends RECV, a count of 0 ends the loop.                          *)
Leave ==
    /\ pc' = "left"
    /\ UNCHANGED <<packets, put, recv, nPacketSize, lost, handed>>

(* recv() is 0: RECV answers 0, whatever it had received.                  *)
AtEnd == pc # "left" /\ got = put /\ client = "closed"
EndOfStreamIgnored ==               \* the loop goes on
    AtEnd /\ UNCHANGED vars
EndOfStream == AtEnd /\ Leave /\ UNCHANGED client

(* recv() is -1: RECV answers with what it has, and 0 is taken for the end. *)
AtReset == pc # "left" /\ got = put /\ client = "reset" /\ client' = "closed"
ResetAtStart == AtReset /\ nTotalRecvSize = 0 /\ Leave

ResetInHeader ==
    /\ AtReset /\ pc = "header" /\ nTotalRecvSize > 0
    /\ Recv(HeaderSize)
    /\ UNCHANGED <<packets, put, got, pc, nPacketSize, lost, handed>>

ResetInBody ==
    /\ AtReset /\ pc = "body" /\ pc' = "header" /\ nTotalRecvSize > 0
    /\ HandedOver(nTotalRecvSize)
    /\ Recv(HeaderSize)
    /\ UNCHANGED <<packets, put, got, nPacketSize, lost>>

RECV ==
    \/ RecvPart \/ HeaderAccepted \/ HeaderRefused \/ BodyReceived
    \/ EndOfStream \/ ResetAtStart \/ ResetInHeader \/ ResetInBody

Next == Write \/ Close \/ RECV

Spec == Init /\ [][Next]_vars
FairSpec == Spec /\ WF_vars(RECV)

-----------------------------------------------------------------------------
(* Properties                                                              *)

NumberOf(h) ==
    LET fits == {i \in 1..Len(packets) :
                    /\ h.from = Start[i] /\ h.size = packets[i].body
                    /\ h.received = h.size}
    IN  IF fits = {} THEN 0 ELSE CHOOSE i \in fits : TRUE

HeaderBegin == IF pc = "body" THEN Begin - HeaderSize ELSE Begin
Due == {i \in 1..(Len(packets) + 1) : Start[i] = HeaderBegin}

StreamState ==
    IF pc = "left" THEN "left"
    ELSE IF lost THEN "lost"
    ELSE IF Due = {} THEN "cut" ELSE "inStep"

KindOf(p) ==
    IF ~Fits(p) THEN "misfit" ELSE IF Acceptable(p.header) THEN "good" ELSE "refused"

Connection == INSTANCE PacketStream WITH
    Incomplete <- 0,
    kind   <- [i \in 1..Len(packets) |-> KindOf(packets[i])],
    sent   <- Cardinality({i \in 1..Len(packets) : Start[i + 1] <= put}),
    handed <- [k \in 1..Len(handed) |-> NumberOf(handed[k])],
    next   <- IF StreamState = "inStep" THEN CHOOSE i \in Due : TRUE ELSE 0,
    state  <- StreamState

(* However TCP cuts the stream and whenever the client goes, Classfication *)
(* is given the packets that were sent, whole and in order, and all of     *)
(* them before the handler leaves, but for those whose header is refused   *)
(* and that have no body; a packet that a reset cut off comes last.  After *)
(* a header that does not fit its body nothing is promised.                *)
ImplementsStream == Connection!Spec

(* A handler whose client closed or was reset leaves, wherever in a packet *)
(* it is and whatever it has read before.                                  *)
HandlerLeaves == client # "open" ~> pc = "left"

=============================================================================
