---------------------------- MODULE FundsProofs ----------------------------
(***************************************************************************)
(* Proofs about the arithmetic of spice and the funds of a wallet, for any *)
(* width of the words and any number of supplementary units per unit of    *)
(* currency.                                                                *)
(***************************************************************************)
EXTENDS Funds, TLAPS

(* The provers to try on a leaf, with their time limits in seconds. *)
USE ZenonT(5), SMTT(20)

-----------------------------------------------------------------------------
(* Numbers *)

(* A currency that is larger is larger by MaxSupplementary at least. *)
LEMMA UnitsCount ==
  ASSUME NEW a \in Nat, NEW b \in Nat, a < b
  PROVE  a * MaxSupplementary + MaxSupplementary <= b * MaxSupplementary
<1>1. PICK k \in Nat : b = a + 1 + k
  <2>1. b - a - 1 \in Nat /\ b = a + 1 + (b - a - 1)
    OBVIOUS
  <2> QED
    BY <2>1
<1>2. MaxSupplementary \in Nat
  BY SpiceAssumption
<1>3. k * MaxSupplementary \in Nat
  BY <1>2
<1>4. b * MaxSupplementary = a * MaxSupplementary + MaxSupplementary + k * MaxSupplementary
  BY <1>1, <1>2
<1>5. a * MaxSupplementary \in Nat
  BY <1>2
<1> QED
  BY <1>2, <1>3, <1>4, <1>5

(* Equal currencies are worth the same, larger ones more. *)
LEMMA UnitsOrder ==
  ASSUME NEW a \in Nat, NEW b \in Nat, a <= b
  PROVE  /\ a * MaxSupplementary \in Nat /\ b * MaxSupplementary \in Nat
         /\ a * MaxSupplementary <= b * MaxSupplementary
<1>1. MaxSupplementary \in Nat /\ a * MaxSupplementary \in Nat /\ b * MaxSupplementary \in Nat
  BY SpiceAssumption
<1>2. CASE a = b
  BY <1>1, <1>2
<1>3. CASE a < b
  BY <1>1, <1>3, UnitsCount
<1> QED
  BY <1>1, <1>2, <1>3

(* What fits a word is not wrapped. *)
LEMMA WrapFits ==
  ASSUME NEW n \in 0..MaxUint64
  PROVE  Wrap(n) = n
BY SpiceAssumption DEF Wrap

(* One more than the largest word is zero. *)
LEMMA WrapOverflow ==
  Wrap(MaxUint64 + 1) = 0
BY SpiceAssumption DEF Wrap

(* The fields of an amount are numbers, and its value is one. *)
LEMMA MelangeFields ==
  ASSUME NEW m \in Melange
  PROVE  /\ m.currency \in Nat /\ m.currency <= MaxUint64
         /\ m.supplementary \in Nat /\ m.supplementary < MaxSupplementary
         /\ m.currency * MaxSupplementary \in Nat
         /\ Value(m) = m.currency * MaxSupplementary + m.supplementary
         /\ Value(m) \in Nat /\ Value(m) < Limit
<1>1. /\ m.currency \in Nat /\ m.currency <= MaxUint64
      /\ m.supplementary \in Nat /\ m.supplementary < MaxSupplementary
  BY SpiceAssumption DEF Melange, Uint64
<1>2. m.currency * MaxSupplementary \in Nat /\ MaxSupplementary \in Nat /\ MaxUint64 \in Nat
  BY <1>1, SpiceAssumption
<1>3. Value(m) = m.currency * MaxSupplementary + m.supplementary
  BY DEF Value
<1>4. m.currency * MaxSupplementary + MaxSupplementary <= (MaxUint64 + 1) * MaxSupplementary
  BY <1>1, <1>2, UnitsCount
<1>5. (MaxUint64 + 1) * MaxSupplementary \in Nat
  BY <1>2
<1> QED
  BY <1>1, <1>2, <1>3, <1>4, <1>5 DEF Limit

-----------------------------------------------------------------------------
(* The operations of spice *)

(* An amount of given units. *)
LEMMA MelangeValue ==
  ASSUME NEW c \in 0..MaxUint64, NEW s \in 0..(MaxSupplementary - 1)
  PROVE  /\ [currency |-> c, supplementary |-> s] \in Melange
         /\ Value([currency |-> c, supplementary |-> s]) = c * MaxSupplementary + s
BY DEF Melange, Uint64, Value

(* spice.New(0, 0) is worth nothing. *)
LEMMA ZeroIsNothing ==
  Zero = [currency |-> 0, supplementary |-> 0] /\ Zero \in Melange /\ Value(Zero) = 0
<1>1. MaxSupplementary \in Nat /\ MaxSupplementary > 0 /\ MaxUint64 \in Nat
  BY SpiceAssumption
<1>2. Zero = [currency |-> 0, supplementary |-> 0]
  BY <1>1 DEF Zero, New
<1>3. 0 \in 0..MaxUint64 /\ 0 \in 0..(MaxSupplementary - 1) /\ 0 * MaxSupplementary + 0 = 0
  BY <1>1
<1> QED
  BY <1>2, <1>3, MelangeValue

(* Supply never leaves an amount that has units to carry, at its limit too. *)
LEMMA SupplyShape ==
  ASSUME NEW m \in Melange, NEW a \in Melange
  PROVE  Supply(m, a).m \in Melange
<1> DEFINE c == m.currency + a.currency
           s == m.supplementary + a.supplementary
<1>1. /\ m.currency \in Nat /\ a.currency \in Nat /\ MaxUint64 \in Nat /\ MaxSupplementary \in Nat
      /\ s \in Nat /\ s < 2 * MaxSupplementary /\ s \in 0..MaxUint64
  BY MelangeFields, SpiceAssumption
<1>2. Wrap(s) = s
  BY <1>1, WrapFits
<1>3. CASE Overflows(m, a)
  BY <1>3 DEF Supply
<1>4. CASE ~ Overflows(m, a)
  <2>1. c \in 0..MaxUint64
    BY <1>1, <1>4 DEF Overflows
  <2>2. Supply(m, a).m = New(c, s)
    BY <1>2, <1>4 DEF Supply, Credited
  <2>3. Wrap(c + 1) \in 0..MaxUint64
    <3>1. CASE c < MaxUint64
      BY <2>1, <3>1, <1>1, WrapFits
    <3>2. CASE c = MaxUint64
      BY <2>1, <3>2, <1>1, WrapOverflow
    <3> QED
      BY <2>1, <1>1, <3>1, <3>2
  <2> HIDE DEF c, s
  <2>4. CASE s >= MaxSupplementary
    <3>1. s - MaxSupplementary \in 0..(MaxSupplementary - 1)
      BY <1>1, <2>4
    <3> QED
      BY <2>2, <2>3, <2>4, <3>1, MelangeValue DEF New
  <2>5. CASE s < MaxSupplementary
    <3>1. s \in 0..(MaxSupplementary - 1) /\ ~ (s >= MaxSupplementary)
      BY <1>1, <2>5
    <3> QED
      BY <2>1, <2>2, <3>1, MelangeValue DEF New
  <2> QED
    BY <1>1, <2>4, <2>5
<1> QED
  BY <1>3, <1>4

(* Below the limit Supply adds, and reports no error. *)
LEMMA SupplyExact ==
  ASSUME NEW m \in Melange, NEW a \in Melange, Value(m) + Value(a) < Limit
  PROVE  Supply(m, a).err = "none" /\ Value(Supply(m, a).m) = Value(m) + Value(a)
<1> DEFINE c == m.currency + a.currency
           s == m.supplementary + a.supplementary
           M == MaxSupplementary
<1>1. /\ m.currency \in Nat /\ a.currency \in Nat /\ MaxUint64 \in Nat /\ M \in Nat
      /\ m.supplementary \in Nat /\ a.supplementary \in Nat /\ a.supplementary < M
      /\ m.supplementary < M /\ s < 2 * M /\ s \in 0..MaxUint64
      /\ m.currency <= MaxUint64 /\ a.currency <= MaxUint64
  BY MelangeFields, SpiceAssumption
<1>2. Value(m) + Value(a) = c * M + s /\ c * M \in Nat /\ Limit = MaxUint64 * M + M
  BY <1>1 DEF Value, Limit
<1>3. c <= MaxUint64
  <2>1. SUFFICES ASSUME MaxUint64 < c PROVE FALSE
    BY <1>1
  <2>2. MaxUint64 * M + M <= c * M
    BY <1>1, <2>1, UnitsCount
  <2> QED
    BY <1>1, <1>2, <2>2
<1>4. s >= M => c < MaxUint64
  BY <1>1, <1>2, <1>3
<1>5. Wrap(M - a.supplementary) = M - a.supplementary /\ Wrap(s) = s
  BY <1>1, WrapFits, SpiceAssumption
<1>6. ~ Overflows(m, a)
  BY <1>1, <1>3, <1>4, <1>5 DEF Overflows
<1>7. Supply(m, a) = [err |-> "none", m |-> New(c, s)]
  BY <1>5, <1>6 DEF Supply, Credited
<1> HIDE DEF c, s
<1>8. Value(New(c, s)) = c * M + s
  <2>1. CASE s >= M
    <3>1. Wrap(c + 1) = c + 1 /\ c + 1 \in 0..MaxUint64 /\ s - M \in 0..(M - 1)
      BY <1>1, <1>4, <2>1, WrapFits DEF c
    <3>2. New(c, s) = [currency |-> c + 1, supplementary |-> s - M]
      BY <2>1, <3>1 DEF New
    <3>3. Value(New(c, s)) = (c + 1) * M + (s - M)
      BY <3>1, <3>2, MelangeValue
    <3> QED
      BY <1>1, <3>1, <3>3 DEF c
  <2>2. CASE s < M
    <3>1. c \in 0..MaxUint64 /\ s \in 0..(M - 1) /\ New(c, s) = [currency |-> c, supplementary |-> s]
      BY <1>1, <1>3, <2>2 DEF New, c
    <3> QED
      BY <3>1, MelangeValue
  <2> QED
    BY <1>1, <2>1, <2>2
<1> QED
  BY <1>2, <1>7, <1>8

(* Transfer to an empty Melange, as Drain is called, fails exactly when the *)
(* amount is worth more, and takes its worth otherwise.                     *)
LEMMA DrainExact ==
  ASSUME NEW m \in Melange, NEW a \in Melange
  PROVE  LET d == Transfer(a, m, Zero)
         IN  /\ d.err = "none" <=> Value(a) <= Value(m)
             /\ d.err = "none" => Value(d.from) + Value(a) = Value(m)
             /\ d.err # "none" => d.from = m
             /\ d.from \in Melange
<1> DEFINE M == MaxSupplementary
           d == Transfer(a, m, Zero)
<1>1. /\ m.currency \in Nat /\ a.currency \in Nat /\ MaxUint64 \in Nat /\ M \in Nat
      /\ m.supplementary \in Nat /\ m.supplementary < M
      /\ a.supplementary \in Nat /\ a.supplementary < M
      /\ m.currency <= MaxUint64 /\ a.currency <= MaxUint64
      /\ m.currency * M \in Nat /\ a.currency * M \in Nat
      /\ Value(m) = m.currency * M + m.supplementary
      /\ Value(a) = a.currency * M + a.supplementary
  BY MelangeFields, SpiceAssumption
<1>2. ~ Overflows(Zero, a)
  <2>1. Zero.currency = 0 /\ Zero.supplementary = 0
    BY ZeroIsNothing
  <2>2. Wrap(M - a.supplementary) = M - a.supplementary
    BY <1>1, WrapFits, SpiceAssumption
  <2> QED
    BY <1>1, <2>1, <2>2 DEF Overflows
<1>3. /\ Lacks(m, a) => d.err = "insufficient" /\ d.from = m
      /\ ~ Lacks(m, a) => d.err = "none" /\ d.from = Debited(m, a)
  BY <1>1, <1>2 DEF Transfer, Lacks
<1>4. ASSUME Lacks(m, a) PROVE Value(m) < Value(a)
  <2>1. CASE m.currency < a.currency
    <3>1. m.currency * M + M <= a.currency * M
      BY <1>1, <2>1, UnitsCount
    <3> QED
      BY <1>1, <3>1
  <2>2. CASE a.supplementary > m.supplementary /\ a.currency = m.currency
    BY <1>1, <2>2
  <2> QED
    BY <1>1, <1>4, <2>1, <2>2 DEF Lacks
<1>5. ASSUME ~ Lacks(m, a) PROVE Debited(m, a) \in Melange /\ Value(Debited(m, a)) + Value(a) = Value(m)
  <2> DEFINE c == m.currency - a.currency
  <2>1. c \in 0..MaxUint64 /\ (a.supplementary > m.supplementary => c # 0)
    BY <1>1, <1>5 DEF Lacks
  <2> DEFINE x == c * M
             y == a.currency * M
  <2>2. x \in Nat /\ y \in Nat /\ Value(m) = x + y + m.supplementary /\ Value(a) = y + a.supplementary
    <3>1. m.currency * M = x + y
      BY <1>1
    <3> QED
      BY <1>1, <2>1, <3>1
  <2>3. CASE a.supplementary > m.supplementary
    <3> DEFINE s == m.supplementary + M - a.supplementary
    <3>1. s \in 0..MaxUint64 /\ s \in 0..(M - 1) /\ c - 1 \in 0..MaxUint64
      BY <1>1, <2>1, <2>3, SpiceAssumption
    <3>2. Wrap(s) = s
      BY <3>1, WrapFits
    <3>3. Debited(m, a) = [currency |-> c - 1, supplementary |-> s]
      BY <2>3, <3>2 DEF Debited
    <3>4. (c - 1) * M = x - M
      BY <1>1, <2>1
    <3>5. Debited(m, a) \in Melange /\ Value(Debited(m, a)) = x - M + s
      BY <3>1, <3>3, <3>4, MelangeValue
    <3> HIDE DEF x, y
    <3> QED
      BY <1>1, <2>2, <3>5
  <2>4. CASE ~ (a.supplementary > m.supplementary)
    <3> DEFINE s == m.supplementary - a.supplementary
    <3>1. s \in 0..(M - 1)
      BY <1>1, <2>4
    <3>2. Debited(m, a) = [currency |-> c, supplementary |-> s]
      BY <2>4 DEF Debited
    <3>3. Debited(m, a) \in Melange /\ Value(Debited(m, a)) = x + s
      BY <2>1, <3>1, <3>2, MelangeValue
    <3> HIDE DEF x, y
    <3> QED
      BY <1>1, <2>2, <3>3
  <2> QED
    BY <2>3, <2>4
<1> HIDE DEF d
<1>6. CASE Lacks(m, a)
  BY <1>1, <1>3, <1>4, <1>6 DEF d
<1>7. CASE ~ Lacks(m, a)
  <2>1. Value(Debited(m, a)) \in Nat
    BY <1>5, <1>7, MelangeFields
  <2> QED
    BY <1>1, <1>3, <1>5, <1>7, <2>1 DEF d
<1> QED
  BY <1>6, <1>7

-----------------------------------------------------------------------------
(* The funds of a wallet *)

(* While a computation walks, its sums are worth what the wallet received  *)
(* and spent.  CalculateBalance has yet to add the stored funds, and       *)
(* updateFounds misses what the wallet paid itself.                        *)
SumsExact ==
  (Representable /\ at = "walking") =>
    /\ Value(spiceIn) + (IF walk = "balance" THEN Value(saved) ELSE 0) = received
    /\ Value(spiceOut) <= spent
    /\ (walk # "settle" \/ ~ paidSelf) => Value(spiceOut) = spent

FundsInv == FundsTypeOK /\ SumsExact /\ VerdictsAreExact /\ BalancesAreExact

(* Every computation starts with the stored funds and nothing spent. *)
LEMMA FundsInitHolds ==
  ASSUME FundsInit
  PROVE  FundsInv
<1>1. /\ walk \in {"validate", "balance", "settle"} /\ saved \in Melange
      /\ spiceOut = Zero /\ result = Zero /\ at = "walking"
      /\ received = Value(saved) /\ spent = 0 /\ paidSelf = FALSE
  BY DEF FundsInit
<1>2. Zero \in Melange /\ Value(Zero) = 0 /\ Value(saved) \in Nat /\ Value(saved) < Limit
  BY <1>1, ZeroIsNothing, MelangeFields
<1>3. spiceIn \in Melange /\ Value(spiceIn) + (IF walk = "balance" THEN Value(saved) ELSE 0) = received
  <2>1. CASE walk = "validate"
    <3>1. spiceIn = Supply(Zero, saved).m
      BY <2>1 DEF FundsInit
    <3>2. Value(Zero) + Value(saved) < Limit
      BY <1>2
    <3>3. spiceIn \in Melange /\ Value(spiceIn) = Value(Zero) + Value(saved)
      BY <1>1, <1>2, <3>1, <3>2, SupplyShape, SupplyExact
    <3> QED
      BY <1>1, <1>2, <2>1, <3>3
  <2>2. CASE walk # "validate"
    BY <1>1, <1>2, <2>2 DEF FundsInit
  <2> QED
    BY <2>1, <2>2
<1>4. FundsTypeOK
  BY <1>1, <1>2, <1>3 DEF FundsTypeOK
<1>5. SumsExact /\ VerdictsAreExact /\ BalancesAreExact
  BY <1>1, <1>2, <1>3 DEF SumsExact, VerdictsAreExact, BalancesAreExact
<1> QED
  BY <1>4, <1>5 DEF FundsInv

(* A vertex counts: what was representable before stays below the limit. *)
LEMMA CountsMore ==
  ASSUME FundsInv, NEW issues \in BOOLEAN, NEW receives \in BOOLEAN, NEW a \in Melange,
         Counts(issues, receives, a)
  PROVE  /\ at = "walking" /\ UNCHANGED <<walk, saved, result>>
         /\ received \in Nat /\ spent \in Nat /\ received' \in Nat /\ spent' \in Nat
         /\ received' = received + (IF receives THEN Value(a) ELSE 0)
         /\ spent' = spent + (IF issues THEN Value(a) ELSE 0)
         /\ paidSelf' \in BOOLEAN /\ (~ paidSelf' => ~ paidSelf /\ ~ (issues /\ receives))
         /\ Representable' => Representable
<1>1. Value(a) \in Nat /\ Limit \in Nat /\ received \in Nat /\ spent \in Nat
  BY MelangeFields, SpiceAssumption DEF FundsInv, FundsTypeOK, Limit
<1>2. /\ received' = received + (IF receives THEN Value(a) ELSE 0)
      /\ spent' = spent + (IF issues THEN Value(a) ELSE 0)
      /\ at = "walking" /\ UNCHANGED <<walk, saved, result>>
      /\ paidSelf' = (paidSelf \/ (issues /\ receives))
  BY DEF Counts
<1>3. received' \in Nat /\ spent' \in Nat /\ received <= received' /\ spent <= spent'
  BY <1>1, <1>2
<1>4. Representable' => Representable
  BY <1>1, <1>3 DEF Representable
<1>5. paidSelf' \in BOOLEAN /\ (~ paidSelf' => ~ paidSelf /\ ~ (issues /\ receives))
  BY <1>2 DEF FundsInv, FundsTypeOK
<1> QED
  BY <1>1, <1>2, <1>3, <1>4, <1>5

(* A step of a walk that stays below the limit reports no error. *)
LEMMA WalkGoesOn ==
  ASSUME FundsInv, NEW issues \in BOOLEAN, NEW receives \in BOOLEAN, NEW a \in Melange,
         Counts(issues, receives, a), Representable'
  PROVE  /\ receives => /\ Supply(spiceIn, a).err = "none"
                        /\ Value(Supply(spiceIn, a).m) = Value(spiceIn) + Value(a)
         /\ issues => /\ Supply(spiceOut, a).err = "none"
                      /\ Value(Supply(spiceOut, a).m) = Value(spiceOut) + Value(a)
<1>1. /\ at = "walking" /\ Representable
      /\ received' = received + (IF receives THEN Value(a) ELSE 0)
      /\ spent' = spent + (IF issues THEN Value(a) ELSE 0)
      /\ received \in Nat /\ spent \in Nat
  BY CountsMore
<1>2. /\ spiceIn \in Melange /\ spiceOut \in Melange
      /\ Value(spiceIn) \in Nat /\ Value(spiceOut) \in Nat /\ Value(a) \in Nat /\ Value(saved) \in Nat
      /\ Limit \in Nat
  BY MelangeFields, SpiceAssumption DEF FundsInv, FundsTypeOK, Limit
<1>3. Value(spiceIn) <= received /\ Value(spiceOut) <= spent
  BY <1>1, <1>2 DEF FundsInv, SumsExact
<1>4. receives => Value(spiceIn) + Value(a) < Limit
  BY <1>1, <1>2, <1>3 DEF Representable
<1>5. issues => Value(spiceOut) + Value(a) < Limit
  BY <1>1, <1>2, <1>3 DEF Representable
<1> QED
  BY <1>2, <1>4, <1>5, SupplyExact

(* validateLeaf and CalculateBalance come to a vertex. *)
LEMMA pourFundsKeeps ==
  ASSUME FundsInv, NEW issues \in BOOLEAN, NEW receives \in BOOLEAN, NEW a \in Melange,
         pourFunds(issues, receives, a)
  PROVE  FundsInv'
<1> DEFINE out == Supply(spiceOut, a)
           in == Supply(spiceIn, a)
           fails == issues /\ out.err # "none"
<1>1. /\ walk # "settle" /\ Counts(issues, receives, a)
      /\ spiceOut' = IF issues THEN out.m ELSE spiceOut
      /\ spiceIn' = IF receives /\ ~ fails THEN in.m ELSE spiceIn
      /\ at' = IF fails \/ (receives /\ in.err # "none") THEN "overflow" ELSE at
  BY DEF pourFunds
<1>2. /\ at = "walking" /\ UNCHANGED <<walk, saved, result>>
      /\ received \in Nat /\ spent \in Nat /\ received' \in Nat /\ spent' \in Nat
      /\ received' = received + (IF receives THEN Value(a) ELSE 0)
      /\ spent' = spent + (IF issues THEN Value(a) ELSE 0)
      /\ paidSelf' \in BOOLEAN
      /\ Representable' => Representable
  BY <1>1, CountsMore
<1>3. out.m \in Melange /\ in.m \in Melange
  BY SupplyShape DEF FundsInv, FundsTypeOK
<1>4. FundsTypeOK'
  <2> HIDE DEF out, in, fails
  <2> QED
    BY <1>1, <1>2, <1>3 DEF FundsInv, FundsTypeOK, Outcome
<1>5. ASSUME Representable' PROVE /\ at' = "walking"
                                  /\ receives => Value(in.m) = Value(spiceIn) + Value(a)
                                  /\ issues => Value(out.m) = Value(spiceOut) + Value(a)
                                  /\ spiceIn' = IF receives THEN in.m ELSE spiceIn
  BY <1>1, <1>2, <1>5, WalkGoesOn
<1> HIDE DEF out, in, fails
<1>6. SumsExact'
  <2>1. SUFFICES ASSUME Representable', at' = "walking"
                 PROVE  /\ Value(spiceIn)' + (IF walk = "balance" THEN Value(saved) ELSE 0) = received'
                        /\ Value(spiceOut)' = spent'
    BY <1>2, <1>4 DEF SumsExact, FundsTypeOK
  <2>2. /\ Value(spiceIn) + (IF walk = "balance" THEN Value(saved) ELSE 0) = received
        /\ Value(spiceOut) = spent
    BY <1>1, <1>2, <2>1 DEF FundsInv, SumsExact
  <2>3. Value(spiceIn) \in Nat /\ Value(saved) \in Nat /\ Value(a) \in Nat /\ Value(spiceOut) \in Nat
    BY MelangeFields DEF FundsInv, FundsTypeOK
  <2>4. Value(spiceOut)' = spent'
    <3>1. CASE issues
      BY <1>1, <1>2, <1>5, <2>1, <2>2, <3>1
    <3>2. CASE ~ issues
      BY <1>1, <1>2, <2>2, <2>3, <3>2
    <3> QED
      BY <3>1, <3>2
  <2>5. Value(spiceIn)' + (IF walk = "balance" THEN Value(saved) ELSE 0) = received'
    <3>1. CASE receives
      <4>1. Value(spiceIn)' = Value(spiceIn) + Value(a)
        BY <1>5, <2>1, <3>1
      <4> QED
        BY <1>2, <2>2, <2>3, <3>1, <4>1
    <3>2. CASE ~ receives
      <4>1. Value(spiceIn)' = Value(spiceIn)
        BY <1>5, <2>1, <3>2
      <4> QED
        BY <1>2, <2>2, <2>3, <3>2, <4>1
    <3> QED
      BY <3>1, <3>2
  <2> QED
    BY <2>4, <2>5
<1>7. VerdictsAreExact' /\ BalancesAreExact'
  BY <1>5 DEF VerdictsAreExact, BalancesAreExact
<1> QED
  BY <1>4, <1>6, <1>7 DEF FundsInv

(* truncate comes to a vertex. *)
LEMMA updateFoundsKeeps ==
  ASSUME FundsInv, NEW issues \in BOOLEAN, NEW receives \in BOOLEAN, NEW a \in Melange,
         updateFounds(issues, receives, a)
  PROVE  FundsInv'
<1> DEFINE out == Supply(spiceOut, a)
           in == Supply(spiceIn, a)
<1>1. /\ walk = "settle" /\ Counts(issues, receives, a)
      /\ spiceOut' = IF issues /\ ~ receives THEN out.m ELSE spiceOut
      /\ spiceIn' = IF receives THEN in.m ELSE spiceIn
      /\ at' = at
  BY DEF updateFounds
<1>2. /\ at = "walking" /\ UNCHANGED <<walk, saved, result>>
      /\ received \in Nat /\ spent \in Nat /\ received' \in Nat /\ spent' \in Nat
      /\ received' = received + (IF receives THEN Value(a) ELSE 0)
      /\ spent' = spent + (IF issues THEN Value(a) ELSE 0)
      /\ paidSelf' \in BOOLEAN /\ (~ paidSelf' => ~ paidSelf /\ ~ (issues /\ receives))
      /\ Representable' => Representable
  BY <1>1, CountsMore
<1>3. out.m \in Melange /\ in.m \in Melange
  BY SupplyShape DEF FundsInv, FundsTypeOK
<1>4. ASSUME Representable' PROVE /\ receives => Value(in.m) = Value(spiceIn) + Value(a)
                                  /\ issues => Value(out.m) = Value(spiceOut) + Value(a)
  BY <1>1, <1>4, WalkGoesOn
<1> HIDE DEF out, in
<1>5. FundsTypeOK'
  BY <1>1, <1>2, <1>3 DEF FundsInv, FundsTypeOK
<1>6. SumsExact'
  <2>1. SUFFICES ASSUME Representable'
                 PROVE  /\ Value(spiceIn)' = received'
                        /\ Value(spiceOut)' <= spent'
                        /\ ~ paidSelf' => Value(spiceOut)' = spent'
    BY <1>1, <1>2 DEF SumsExact
  <2>2. Value(spiceIn) \in Nat /\ Value(a) \in Nat /\ Value(spiceOut) \in Nat
    BY MelangeFields DEF FundsInv, FundsTypeOK
  <2>3. /\ Value(spiceIn) = received /\ Value(spiceOut) <= spent
        /\ ~ paidSelf => Value(spiceOut) = spent
    BY <1>1, <1>2, <2>1, <2>2 DEF FundsInv, SumsExact
  <2>4. Value(spiceIn)' = received'
    <3>1. CASE receives
      BY <1>1, <1>2, <1>4, <2>1, <2>3, <3>1
    <3>2. CASE ~ receives
      BY <1>1, <1>2, <2>2, <2>3, <3>2
    <3> QED
      BY <3>1, <3>2
  <2>5. Value(spiceOut)' <= spent' /\ (~ paidSelf' => Value(spiceOut)' = spent')
    <3>1. CASE issues /\ ~ receives
      <4>1. Value(spiceOut)' = Value(spiceOut) + Value(a) /\ spent' = spent + Value(a)
        BY <1>1, <1>2, <1>4, <2>1, <3>1
      <4> QED
        BY <1>2, <2>2, <2>3, <4>1
    <3>2. CASE issues /\ receives
      <4>1. Value(spiceOut)' = Value(spiceOut) /\ spent' = spent + Value(a) /\ paidSelf'
        BY <1>1, <1>2, <3>2
      <4> QED
        BY <1>2, <2>2, <2>3, <4>1
    <3>3. CASE ~ issues
      <4>1. Value(spiceOut)' = Value(spiceOut) /\ spent' = spent
        BY <1>1, <1>2, <3>3
      <4> QED
        BY <1>2, <2>2, <2>3, <4>1
    <3> QED
      BY <3>1, <3>2, <3>3
  <2> QED
    BY <2>4, <2>5
<1>7. VerdictsAreExact' /\ BalancesAreExact'
  BY <1>1, <1>2 DEF VerdictsAreExact, BalancesAreExact
<1> QED
  BY <1>5, <1>6, <1>7 DEF FundsInv

(* The three computations end. *)
LEMMA EndsKeep ==
  ASSUME FundsInv, checkHasSufficientfunds \/ CalculateBalance \/ saveToStorage
  PROVE  FundsInv'
<1>1. /\ spiceIn \in Melange /\ spiceOut \in Melange /\ saved \in Melange /\ result \in Melange
      /\ received \in Nat /\ spent \in Nat
      /\ Value(spiceIn) \in Nat /\ Value(spiceOut) \in Nat /\ Value(saved) \in Nat
  BY MelangeFields DEF FundsInv, FundsTypeOK
<1>2. at = "walking" /\ UNCHANGED <<walk, saved, spiceIn, spiceOut, received, spent, paidSelf>>
  BY DEF checkHasSufficientfunds, CalculateBalance, saveToStorage
<1>3. Representable' = Representable
  BY <1>2 DEF Representable
<1>4. Representable => /\ Value(spiceIn) + (IF walk = "balance" THEN Value(saved) ELSE 0) = received
                       /\ (walk # "settle" \/ ~ paidSelf) => Value(spiceOut) = spent
  BY <1>2 DEF FundsInv, SumsExact
<1> DEFINE d == Transfer(spiceOut, spiceIn, Zero)
<1>5. /\ d.err = "none" <=> Value(spiceOut) <= Value(spiceIn)
      /\ d.err = "none" => Value(d.from) + Value(spiceOut) = Value(spiceIn)
      /\ d.from \in Melange
  BY <1>1, DrainExact
<1>6. CASE checkHasSufficientfunds
  <2>1. walk = "validate" /\ at' = (IF d.err = "none" THEN "accepted" ELSE "refused") /\ UNCHANGED result
    BY <1>6 DEF checkHasSufficientfunds
  <2> HIDE DEF d
  <2>2. at' \in {"accepted", "refused"}
    BY <2>1
  <2>3. FundsTypeOK'
    BY <1>2, <2>1, <2>2 DEF FundsInv, FundsTypeOK, Outcome
  <2>4. VerdictsAreExact'
    <3>1. SUFFICES ASSUME Representable
                   PROVE  /\ at' = "accepted" => spent <= received
                          /\ at' = "refused" => received < spent
      BY <1>2, <1>3, <2>2 DEF VerdictsAreExact
    <3>2. Value(spiceIn) = received /\ Value(spiceOut) = spent
      BY <1>1, <1>4, <2>1, <3>1
    <3> QED
      BY <1>1, <1>5, <2>1, <3>2
  <2> QED
    BY <2>2, <2>3, <2>4 DEF FundsInv, SumsExact, BalancesAreExact
<1>7. CASE saveToStorage
  <2>1. walk = "settle" /\ at' = "settled" /\ result' = d.from
    BY <1>7 DEF saveToStorage
  <2> HIDE DEF d
  <2>2. FundsTypeOK'
    BY <1>2, <1>5, <2>1 DEF FundsInv, FundsTypeOK, Outcome
  <2>3. BalancesAreExact'
    <3>1. SUFFICES ASSUME Representable, ~ paidSelf, spent <= received
                   PROVE  Value(d.from) + spent = received
      BY <1>2, <1>3, <2>1 DEF BalancesAreExact
    <3>2. Value(spiceIn) = received /\ Value(spiceOut) = spent
      BY <1>1, <1>4, <2>1, <3>1
    <3> QED
      BY <1>5, <3>1, <3>2
  <2> QED
    BY <2>1, <2>2, <2>3 DEF FundsInv, SumsExact, VerdictsAreExact
<1>8. CASE CalculateBalance
  <2> DEFINE s == Supply(saved, spiceIn)
             e == Transfer(spiceOut, s.m, Zero)
  <2>1. /\ walk = "balance"
        /\ at' = IF s.err # "none" THEN "overflow" ELSE IF e.err # "none" THEN "failed" ELSE "answered"
        /\ result' = IF s.err = "none" /\ e.err = "none" THEN e.from ELSE result
    BY <1>8 DEF CalculateBalance
  <2>2. s.m \in Melange
    BY <1>1, SupplyShape
  <2>3. Representable => s.err = "none" /\ Value(s.m) = received /\ Value(spiceOut) = spent
    <3>1. SUFFICES ASSUME Representable PROVE s.err = "none" /\ Value(s.m) = received
      BY <1>4, <2>1
    <3>2. Value(saved) + Value(spiceIn) = received /\ received < Limit
      BY <1>1, <1>4, <2>1, <3>1 DEF Representable
    <3> QED
      BY <1>1, <3>2, SupplyExact
  <2> HIDE DEF s
  <2>4. /\ e.err = "none" <=> Value(spiceOut) <= Value(s.m)
        /\ e.err = "none" => Value(e.from) + Value(spiceOut) = Value(s.m)
        /\ e.from \in Melange
    BY <1>1, <2>2, DrainExact
  <2> HIDE DEF e
  <2>5. at' \in {"overflow", "failed", "answered"} /\ result' \in Melange
    BY <1>1, <2>1, <2>4
  <2>6. FundsTypeOK'
    BY <1>2, <2>5 DEF FundsInv, FundsTypeOK, Outcome
  <2>7. VerdictsAreExact' /\ BalancesAreExact'
    <3>1. SUFFICES ASSUME Representable
                   PROVE  /\ at' # "overflow"
                          /\ at' = "failed" => received < spent
                          /\ at' = "answered" => Value(result)' + spent = received
      BY <1>2, <1>3, <2>5 DEF VerdictsAreExact, BalancesAreExact
    <3>2. s.err = "none" /\ Value(s.m) = received /\ Value(spiceOut) = spent
      BY <2>3, <3>1
    <3>3. CASE e.err = "none"
      BY <2>1, <2>4, <3>2, <3>3
    <3>4. CASE e.err # "none"
      BY <1>1, <2>1, <2>4, <3>2, <3>4
    <3> QED
      BY <3>3, <3>4
  <2> QED
    BY <2>5, <2>6, <2>7 DEF FundsInv, SumsExact
<1> QED
  BY <1>6, <1>7, <1>8

(* The inductive invariant of the computations. *)
THEOREM FundsSafe == FundsSpec => []FundsInv
<1>1. FundsInit => FundsInv
  BY FundsInitHolds
<1>2. FundsInv /\ [FundsNext]_fundsVars => FundsInv'
  <2>1. SUFFICES ASSUME FundsInv, [FundsNext]_fundsVars PROVE FundsInv'
    OBVIOUS
  <2>2. CASE FundsNext
    BY <2>1, <2>2, pourFundsKeeps, updateFoundsKeeps, EndsKeep DEF FundsNext
  <2>3. CASE UNCHANGED fundsVars
    BY <2>1, <2>3 DEF fundsVars, FundsInv, FundsTypeOK, SumsExact, VerdictsAreExact, BalancesAreExact,
                      Representable
  <2> QED
    BY <2>1, <2>2, <2>3
<1> QED
  BY <1>1, <1>2, PTL DEF FundsSpec

(* The sums and the results of the three computations are amounts with      *)
(* nothing left to carry, also once a sum has passed the limit.             *)
THEOREM FundsTypeCorrect == FundsSpec => []FundsTypeOK
<1>1. FundsInv => FundsTypeOK
  BY DEF FundsInv
<1> QED
  BY <1>1, FundsSafe, PTL

(* validateLeaf decides as natural numbers do, for every width of a word    *)
(* and every number of supplementary units.                                 *)
THEOREM VerdictsCorrect == FundsSpec => []VerdictsAreExact
<1>1. FundsInv => VerdictsAreExact
  BY DEF FundsInv
<1> QED
  BY <1>1, FundsSafe, PTL

(* Below the limit of the two units CalculateBalance leaves what was not    *)
(* spent, and truncate too for a wallet that never paid itself and spent   *)
(* no more than it had.                                                     *)
THEOREM BalancesCorrect == FundsSpec => []BalancesAreExact
<1>1. FundsInv => BalancesAreExact
  BY DEF FundsInv
<1> QED
  BY <1>1, FundsSafe, PTL

=============================================================================
