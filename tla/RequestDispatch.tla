--------------------------- MODULE RequestDispatch ---------------------------
(***************************************************************************)
(* What DaemonMgr::RecJson does with the text of one packet.  A text is    *)
(* whether it parses and what its Section3 names.  Its other fields, all   *)
(* of them strings, decide only what the answer says: one that misses some *)
(* is answered with an error and queued like any other.                    *)
(***************************************************************************)
EXTENDS Integers, Sequences

Text == [json : BOOLEAN, section3 : {"Version", "Stabilize", "other", "missing"}]

(* document["Section3"] of a text without it is a failed assertion of      *)
(* rapidjson.                                                              *)
Aborts(text) == text.json /\ text.section3 = "missing"
Parsed(text) == text.json /\ text.section3 \in {"Version", "Stabilize"}
Queued(text) == text.json /\ text.section3 = "Stabilize"
=============================================================================
