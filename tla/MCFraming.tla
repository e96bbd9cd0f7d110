----------------------------- MODULE MCFraming -----------------------------
(* Connections for TLC: bodies of up to three bytes, headers that name none, *)
(* too many or of no known kind, and one that names fewer than there are.    *)
EXTENDS Framing

P(size, known, body) == [header |-> [nSize |-> size, known |-> known], body |-> body]

MCStreams ==
    {<<P(3, TRUE, 3), P(1, TRUE, 1), P(2, TRUE, 2)>>,
     <<P(0, TRUE, 0), P(2, TRUE, 2), P(-1, TRUE, 0)>>,
     <<P(2, TRUE, 2), P(4, TRUE, 4), P(1, TRUE, 1)>>,
     <<P(1, FALSE, 1), P(3, TRUE, 3)>>,
     <<P(1, TRUE, 2), P(2, TRUE, 2)>>}

MCClaims == {[nSize |-> n, known |-> k] : n \in {0, 1, 3, 4}, k \in BOOLEAN}
=============================================================================
