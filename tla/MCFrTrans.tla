------------------------------ MODULE MCFrTrans ------------------------------
(* Small videos for FrTrans: none, one or two pictures a packet.             *)
EXTENDS FrTrans

MCFiles == {<<>>, <<1>>, <<1, 3>>, <<2, 3>>, <<1, 2, 3>>}

=============================================================================
