------------------------------- MODULE Spice -------------------------------
(***************************************************************************)
(* The arithmetic of spice (src/src/spice/spice.go): amounts in a currency *)
(* and a supplementary currency, of which MaxSupplementary make one unit of *)
(* currency, both kept in unsigned 64 bit words.                            *)
(***************************************************************************)
EXTENDS Integers

CONSTANTS
  MaxUint64,          \* math.MaxUint64
  MaxSupplementary    \* MaxAmountPerSupplementaryCurrency

ASSUME SpiceAssumption ==
  /\ MaxSupplementary \in Nat \ {0}
  /\ MaxUint64 \in Nat
  /\ 2 * MaxSupplementary <= MaxUint64

Uint64 == 0..MaxUint64

(* Amounts with nothing left to carry: what New makes of them when they     *)
(* have less than two units to carry, and what Supply and Transfer make of *)
(* such amounts.                                                           *)
Melange == [currency : Uint64, supplementary : 0..(MaxSupplementary - 1)]

(* An amount in the supplementary currency, and the first that is too large. *)
Value(m) == m.currency * MaxSupplementary + m.supplementary
Limit == (MaxUint64 + 1) * MaxSupplementary

-----------------------------------------------------------------------------

(* Unsigned 64 bit arithmetic. *)
Wrap(n) == n % (MaxUint64 + 1)

New(currency, supplementary) ==
  IF supplementary >= MaxSupplementary
  THEN [currency |-> Wrap(currency + 1), supplementary |-> supplementary - MaxSupplementary]
  ELSE [currency |-> currency, supplementary |-> supplementary]

Zero == New(0, 0)

(* The checks of Supply and Transfer before to gets amount: the currency   *)
(* would overflow, or it is at its limit and the supplementary currency    *)
(* has a unit to carry.  They miss that exactly MaxSupplementary is a unit *)
(* to carry as well.                                                       *)
Overflows(to, amount) ==
  \/ MaxUint64 - amount.currency < to.currency
  \/ /\ Wrap(MaxSupplementary - amount.supplementary) < to.supplementary
     /\ to.currency + amount.currency = MaxUint64

(* What to holds once it got amount. *)
Credited(to, amount) ==
  New(to.currency + amount.currency, Wrap(to.supplementary + amount.supplementary))

Supply(m, amount) ==
  IF Overflows(m, amount)
  THEN [err |-> "overflow", m |-> m]
  ELSE [err |-> "none", m |-> Credited(m, amount)]

\* Mutant of Lacks: the supplementary currency has to cover its part alone.
LacksUnit(from, amount) ==
  amount.currency > from.currency \/ amount.supplementary > from.supplementary

(* The checks of Transfer before from gives amount. *)
Lacks(from, amount) ==
  \/ amount.currency > from.currency
  \/ amount.supplementary > from.supplementary /\ from.currency - amount.currency = 0

\* Mutant of Debited: the borrowed unit of currency is not taken.
DebitedFreely(from, amount) ==
  [currency |-> from.currency - amount.currency,
   supplementary |->
     IF amount.supplementary > from.supplementary
     THEN Wrap(from.supplementary + MaxSupplementary - amount.supplementary)
     ELSE from.supplementary - amount.supplementary]

(* What from holds once it gave amount, one unit of currency borrowed when *)
(* the supplementary currency does not suffice.                            *)
Debited(from, amount) ==
  IF amount.supplementary > from.supplementary
  THEN [currency |-> from.currency - amount.currency - 1,
        supplementary |-> Wrap(from.supplementary + MaxSupplementary - amount.supplementary)]
  ELSE [currency |-> from.currency - amount.currency,
        supplementary |-> from.supplementary - amount.supplementary]

(* Transfer: the error, and what both sides hold afterwards.  The checks of *)
(* the currency come first, then the overflow of the supplementary          *)
(* currency, then what is missing of it; an error takes back what was done. *)
Transfer(amount, from, to) ==
  CASE amount.currency > from.currency -> [err |-> "insufficient", from |-> from, to |-> to]
    [] amount.currency <= from.currency /\ Overflows(to, amount) ->
         [err |-> "overflow", from |-> from, to |-> to]
    [] amount.currency <= from.currency /\ ~ Overflows(to, amount) /\ Lacks(from, amount) ->
         [err |-> "insufficient", from |-> from, to |-> to]
    [] OTHER ->
         [err |-> "none", from |-> Debited(from, amount), to |-> Credited(to, amount)]

=============================================================================
