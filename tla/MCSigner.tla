------------------------------ MODULE MCSigner ------------------------------
(* Two signers sharing a PEM file, one variable of each other type. *)
EXTENDS Signer

MCLengths == {-1, 0, 1}
=============================================================================
