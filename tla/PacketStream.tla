---------------------------- MODULE PacketStream ----------------------------
(* What a connection promises handle_clnt: the good packets of its client,   *)
(* each whole and in the order they were sent, all of them before the        *)
(* handler leaves.  Only a packet whose header is refused and that has no    *)
(* body is skipped.  A reset may leave a last packet that is incomplete, and *)
(* after a header that does not fit its packet nothing more is promised.     *)
EXTENDS Integers, Sequences

CONSTANT Incomplete       \* a packet handed over that the client did not send

VARIABLES kind,           \* what the client made of each packet
          sent,           \* packets that are in the stream, to the last byte
          handed,         \* the packets handed over, by their number
          next,           \* the packet whose header is due
          state

vars == <<kind, sent, handed, next, state>>

Kinds == {"good", "refused", "misfit"}
Due(k) == next \in DOMAIN kind /\ kind[next] = k

Init == kind \in Seq(Kinds) /\ sent = 0 /\ handed = <<>> /\ next = 1 /\ state = "inStep"

Send == /\ sent' \in Nat /\ sent' > sent
        /\ UNCHANGED <<kind, handed, next, state>>

HandOver == /\ state = "inStep" /\ next <= sent /\ Due("good")
            /\ handed' = Append(handed, next) /\ next' = next + 1
            /\ UNCHANGED <<kind, sent, state>>

(* A bad header without a body costs nothing.                                *)
Skip == /\ state = "inStep" /\ next <= sent /\ Due("refused")
        /\ next' = next + 1
        /\ UNCHANGED <<kind, sent, handed, state>>

LoseStep == /\ state = "inStep" /\ state' = "lost" /\ Due("misfit")
            /\ next' = 0 /\ UNCHANGED <<kind, sent, handed>>

(* After a reset: the next packet is not whole, and may be handed over if it *)
(* is a good one.                                                            *)
Cut == /\ state = "inStep" /\ state' = "cut" /\ next = sent + 1
       /\ handed' = handed \/ (Due("good") /\ handed' = Append(handed, Incomplete))
       /\ next' = 0 /\ UNCHANGED <<kind, sent>>

Leave == /\ state \in {"inStep", "cut", "lost"} /\ state' = "left"
         /\ state = "inStep" => next = sent + 1
         /\ next' = 0 /\ UNCHANGED <<kind, sent, handed>>

Next == Send \/ HandOver \/ Skip \/ LoseStep \/ Cut \/ Leave

Spec == Init /\ [][Next]_vars

=============================================================================
