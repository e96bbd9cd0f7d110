---------------------------- MODULE MCTaskPipeline ----------------------------
(* Instances of TaskPipeline for TLC.                                      *)
EXTENDS TaskPipeline

CONSTANTS plain, again, late, bad, mute, broken, garbled, w1, w2

(* plain, again: good requests; the job of plain may fail.  late: its      *)
(* input file may be missing.  bad: no "output".  mute: neither "output"   *)
(* nor "Action".  broken: a field of the wrong type.  garbled: no UTF-8.     *)
SafetyRequests == {plain, again, late, bad, mute}
SmallRequests  == {plain, late, mute, broken, garbled}

MCImport ==
    [m \in Requests |->
        CASE m = late   -> {"ok", "error"}
          [] m = bad    -> {"error"}
          [] m = mute   -> {"error"}
          [] m = broken -> {"throw"}
          [] OTHER      -> {"ok"}]
MCJob ==
    [m \in Requests |->
        CASE m = plain -> {"complete", "error"}
          [] m = late  -> {"complete", "throw"}
          [] OTHER     -> {"complete"}]
===============================================================================
