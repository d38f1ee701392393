----------------------------- MODULE MCAddress ------------------------------
(* Addresses of seven bytes in limbs of two, for keys of the bytes at the  *)
(* boundaries of the two bases.  The digest is a small mixing function in  *)
(* which zero bytes occur.                                                 *)
EXTENDS Address, SequencesExt

MCSha(bytes) ==
    LET sum == FoldLeft(LAMBDA n, b : (3 * n + b + 1) % 251, 0, bytes)
    IN  [k \in 1 .. 4 |-> (sum * k + (sum \div (k + 1))) % 5]

MCKeys(len) == [1 .. len -> {0, 1, 57, 58, 128, 255}]

(* A wrong digit in front, in the middle or at the end, a character that   *)
(* is no digit, a superfluous leading '1', a missing last character.       *)
MCAlterations(s) ==
    {[s EXCEPT ![k] = c] : k \in {1, Len(s) \div 2, Len(s)}, c \in {49, 50, 51, 122, 48}}
        \union {<<One>> \o s, SubSeq(s, 1, Len(s) - 1)}
=============================================================================
