--------------------------- MODULE MCTransaction ----------------------------
(* Strings of up to two bytes, digests and signatures with and without     *)
(* zero bytes.                                                             *)
EXTENDS Transaction

MCStrings == {<<>>, <<65>>, <<65, 66>>}
MCIssuer == <<49, 50>>
MCReceivers == MCStrings \union {[k \in 1 .. 5 |-> 67]}
MCTimes == [tv_sec : {0, 1700000000}, tv_usec : {1, 999999}]
MCDigests == {<<1, 2, 3>>, <<1, 0, 3>>, <<0, 2, 3>>, <<1, 2, 0>>}
MCSignatures == {<<4, 5, 6, 7>>, <<4, 0, 6, 7>>}
=============================================================================
