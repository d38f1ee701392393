------------------------------- MODULE MCNode -------------------------------
(* Two wallets: a contract that moves spice, one of a wallet with itself,   *)
(* and a transfer back.                                                    *)
EXTENDS Notary, TLC

CONSTANTS w1, w2

MCTrx == {[id |-> "contract", issuer |-> w1, receiver |-> w2, data |-> TRUE, spice |-> TRUE],
          [id |-> "note", issuer |-> w1, receiver |-> w1, data |-> TRUE, spice |-> FALSE],
          [id |-> "transfer", issuer |-> w2, receiver |-> w1, data |-> FALSE, spice |-> TRUE]}

Callers == Permutations(Caller)
=============================================================================
