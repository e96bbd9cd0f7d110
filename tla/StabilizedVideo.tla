--------------------------- MODULE StabilizedVideo ---------------------------
(* What Dove::Process promises to whoever called it: the pictures it writes  *)
(* are pictures of the input in the input's order, none twice, and an error  *)
(* code means that nothing was written.                                      *)
EXTENDS Naturals, Sequences

CONSTANTS Pictures,   \* the numbers of the input's pictures
          Errors,     \* the negative codes Process may return
          Complete,   \* STABIL_COMPLETE
          NoResult    \* Process has not returned

VARIABLES shown,      \* the input pictures written so far, by number
          result

vars == <<shown, result>>

TypeOK == shown \in Seq(Pictures) /\ result \in Errors \cup {Complete, NoResult}

Init == shown = <<>> /\ result = NoResult

Show == /\ result = NoResult
        /\ \E p \in Pictures : /\ \A i \in DOMAIN shown : shown[i] < p
                          /\ shown' = Append(shown, p)
        /\ UNCHANGED result

Fail == /\ result = NoResult /\ shown = <<>>
        /\ result' \in Errors
        /\ UNCHANGED shown

Finish == result = NoResult /\ result' = Complete /\ UNCHANGED shown

Next == Show \/ Fail \/ Finish

Spec == Init /\ [][Next]_vars

=============================================================================
