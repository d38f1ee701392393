---------------------------- MODULE AddressProofs ---------------------------
(***************************************************************************)
(* Theorems about the base58 codec and the addresses of the C client, for  *)
(* keys, checksums and limbs of any length.  The loops of the codec        *)
(* multiply a number in place, digit by digit: the lemmas say which number *)
(* the scratch buffer and the limbs hold, that the buffers are large       *)
(* enough, and which string or bytes come out at the end.  The theorems    *)
(* say so of an address on its way from a key to a key: decoding inverts   *)
(* encoding.                                                               *)
(***************************************************************************)
EXTENDS Address, SequenceTheorems, WellFoundedInduction, TLAPS

(* The provers to try on a leaf, with their time limits in seconds. *)
USE ZenonT(5), SMTT(20)
-----------------------------------------------------------------------------
(* Division, and functions defined by recursion on a number.               *)

(* Quotient and remainder. *)
LEMMA DivMod ==
  ASSUME NEW x \in Int, NEW m \in Nat \ {0}
  PROVE  x = m * (x \div m) + (x % m) /\ x % m \in 0 .. m - 1 /\ x \div m \in Int
BY SMT

(* The quotient of a number is a number. *)
LEMMA DivNat ==
  ASSUME NEW x \in Nat, NEW m \in Nat \ {0}
  PROVE  x \div m \in Nat
BY SMT

(* Products grow by steps of a factor. *)
LEMMA ProductGrows ==
  ASSUME NEW m \in Nat, NEW q \in Int, NEW p \in Int, q < p
  PROVE  m * q + m <= m * p
BY SMT

(* Quotient and remainder are the only ones. *)
LEMMA DivModIs ==
  ASSUME NEW m \in Nat \ {0}, NEW q \in Int, NEW r \in 0 .. m - 1, NEW x \in Int, x = m * q + r
  PROVE  x % m = r /\ x \div m = q
<1> DEFINE s == x % m
<1> DEFINE p == x \div m
<1>1. x = m * p + s /\ s \in 0 .. m - 1 /\ p \in Int
  BY DivMod
<1> HIDE DEF s, p
<1>2. ~(q < p) /\ ~(p < q)
  BY <1>1, ProductGrows, SMT
<1>3. q = p
  BY <1>2, <1>1, SMT
<1> QED
  BY <1>1, <1>3, SMT DEF s, p

(* Dividing twice is dividing by the product. *)
LEMMA DivDiv ==
  ASSUME NEW m \in Nat \ {0}, NEW k \in Nat \ {0}, NEW x \in Nat
  PROVE  (x \div m) \div k = x \div (m * k)
BY SMT

(* Every set of numbers that is not empty has a least element. *)
LEMMA LeastNumber ==
  ASSUME NEW T, T \subseteq Nat, T # {}
  PROVE  \E n \in T : \A m \in T : ~(m < n)
<1>1. PICK n \in T : \A m \in T : ~ (<<m, n>> \in OpToRel(<, Nat))
  BY NatLessThanWellFounded, WFMin
<1> QED
  BY <1>1 DEF OpToRel

(* The values of a loop of n turns: each is made by a step from the one    *)
(* before.                                                                 *)
Steps(S) == [Nat -> [S -> S]]
IsLoop(f, S, init, step, n) ==
  /\ f \in [0 .. n -> S] /\ f[0] = init
  /\ \A k \in 1 .. n : f[k] = step[k][f[k - 1]]

(* A loop of any number of turns has its values. *)
LEMMA LoopExists ==
  ASSUME NEW S, NEW init \in S, NEW step \in Steps(S), NEW last \in Nat
  PROVE  \E f : IsLoop(f, S, init, step, last)
<1> DEFINE T == {n \in Nat : ~ \E f : IsLoop(f, S, init, step, n)}
<1> SUFFICES ASSUME T # {} PROVE FALSE
  BY Zenon
<1>1. PICK n \in T : \A m \in T : ~(m < n)
  BY LeastNumber
<1>2. n \in Nat /\ ~ \E f : IsLoop(f, S, init, step, n)
  BY <1>1
<1>3. n # 0
  <2>1. IsLoop([k \in 0 .. 0 |-> init], S, init, step, 0)
    BY SMT DEF IsLoop
  <2> QED
    BY <2>1, <1>2
<1>4. n - 1 \in Nat /\ n - 1 < n /\ n - 1 \in 0 .. n - 1
  BY <1>2, <1>3, SMT
<1>5. PICK f : IsLoop(f, S, init, step, n - 1)
  BY <1>1, <1>4, Zenon
<1>6. f \in [0 .. n - 1 -> S] /\ f[0] = init /\ \A k \in 1 .. n - 1 : f[k] = step[k][f[k - 1]]
  BY <1>5 DEF IsLoop
<1> DEFINE v == step[n][f[n - 1]]
<1>7. v \in S
  <2>1. step[n] \in [S -> S] /\ f[n - 1] \in S
    BY <1>2, <1>4, <1>6 DEF Steps
  <2> QED
    BY <2>1
<1> HIDE DEF v
<1> DEFINE g == [k \in 0 .. n |-> IF k < n THEN f[k] ELSE v]
<1>8. g \in [0 .. n -> S]
  BY <1>2, <1>6, <1>7, SMT
<1>9. g[0] = init
  BY <1>2, <1>3, <1>6, SMT
<1>10. ASSUME NEW k \in 1 .. n PROVE g[k] = step[k][g[k - 1]]
  <2>1. k - 1 \in 0 .. n /\ k - 1 < n /\ g[k - 1] = f[k - 1]
    BY <1>2, SMT
  <2>2. CASE k < n
    <3>1. k \in 1 .. n - 1 /\ g[k] = f[k]
      BY <1>2, <2>2, SMT
    <3> QED
      BY <3>1, <2>1, <1>6, Zenon
  <2>3. CASE k = n
    <3>1. g[n] = v
      BY <1>2, SMT
    <3> QED
      BY <3>1, <2>1, <2>3, Zenon DEF v
  <2> QED
    BY <1>2, <2>2, <2>3, SMT
<1> HIDE DEF g
<1>11. IsLoop(g, S, init, step, n)
  BY <1>8, <1>9, <1>10, Zenon DEF IsLoop
<1> QED
  BY <1>2, <1>11, Zenon
(* Induction up to a number. *)
LEMMA Upwards ==
  ASSUME NEW n \in Nat, NEW S, 0 \in S, \A k \in 1 .. n : k - 1 \in S => k \in S
  PROVE  0 .. n \subseteq S
<1> DEFINE T == {k \in 0 .. n : k \notin S}
<1> SUFFICES ASSUME T # {} PROVE FALSE
  BY Zenon
<1>1. PICK k \in T : \A m \in T : ~(m < k)
  <2>1. T \subseteq Nat
    BY SMT
  <2> QED
    BY <2>1, LeastNumber
<1>2. k \in 0 .. n /\ k \notin S
  BY <1>1
<1>3. k \in 1 .. n /\ k - 1 \in 0 .. n /\ k - 1 < k
  BY <1>2, SMT
<1>4. k - 1 \in S
  BY <1>1, <1>3, Zenon
<1> QED
  BY <1>2, <1>3, <1>4, Zenon

(* Two loops with the same start and the same turns are the same. *)
SameTurns(f, g, n) ==
  /\ f[0] = g[0]
  /\ \A k \in 1 .. n : f[k - 1] = g[k - 1] => f[k] = g[k]

LEMMA SameLoop ==
  ASSUME NEW n \in Nat, NEW f, NEW g, SameTurns(f, g, n)
  PROVE  \A k \in 0 .. n : f[k] = g[k]
<1> DEFINE S == {k \in 0 .. n : f[k] = g[k]}
<1>1. 0 \in S
  BY SMT DEF SameTurns
<1>2. \A k \in 1 .. n : k - 1 \in S => k \in S
  BY SMT DEF SameTurns
<1>3. 0 .. n \subseteq S
  <2> HIDE DEF S
  <2> QED
    BY <1>1, <1>2, Upwards
<1> QED
  BY <1>3, Zenon


-----------------------------------------------------------------------------
(* Powers, and the number of the first n digits in a base.                 *)

IsPowers(p, base, n) == p[0] = 1 /\ \A k \in 1 .. n : p[k] = base * p[k - 1]

LEMMA PowersExist ==
  ASSUME NEW base \in Nat, NEW n \in Nat
  PROVE  \E p \in [0 .. n -> Nat] : IsPowers(p, base, n)
<1> DEFINE one == 1
<1> DEFINE step == [k \in Nat |-> [v \in Nat |-> base * v]]
<1>1. step \in Steps(Nat) /\ one \in Nat
  <2>1. \A v \in Nat : base * v \in Nat
    BY SMT
  <2> QED
    BY <2>1, Zenon DEF Steps
<1>2. PICK p : IsLoop(p, Nat, one, step, n)
  <2> HIDE DEF step, one
  <2> QED
    BY <1>1, LoopExists
<1>3. p \in [0 .. n -> Nat] /\ p[0] = 1 /\ \A k \in 1 .. n : p[k] = step[k][p[k - 1]]
  BY <1>2, Zenon DEF IsLoop
<1>4. ASSUME NEW k \in 1 .. n PROVE p[k] = base * p[k - 1]
  <2>1. k \in Nat /\ k - 1 \in 0 .. n
    BY SMT
  <2>2. p[k - 1] \in Nat
    BY <1>3, <2>1, Zenon
  <2>3. step[k][p[k - 1]] = base * p[k - 1]
    BY <2>1, <2>2
  <2> QED
    BY <1>3, <2>3, Zenon
<1> QED
  BY <1>3, <1>4, Zenon DEF IsPowers

LEMMA PowerAt ==
  ASSUME NEW base, NEW n \in Nat, NEW p, IsPowers(p, base, n), NEW m \in 0 .. n
  PROVE  Power(base, m) = p[m]
<1> DEFINE Powers(f) == f = [k \in 0 .. m |-> IF k = 0 THEN 1 ELSE base * f[k - 1]]
<1> DEFINE power == CHOOSE f : Powers(f)
<1> DEFINE q == [k \in 0 .. m |-> p[k]]
<1>1. m \in Nat /\ m \in 0 .. m
  BY SMT
<1>2. Powers(q)
  <2>1. ASSUME NEW k \in 0 .. m PROVE p[k] = IF k = 0 THEN 1 ELSE base * q[k - 1]
    <3>1. CASE k = 0
      BY <3>1 DEF IsPowers
    <3>2. CASE k # 0
      <4>1. k \in 1 .. n /\ k - 1 \in 0 .. m
        BY <3>2, SMT
      <4>2. q[k - 1] = p[k - 1]
        BY <4>1, Zenon
      <4> QED
        BY <4>1, <4>2, <3>2, Zenon DEF IsPowers
    <3> QED
      BY <3>1, <3>2
  <2> QED
    BY <2>1, Zenon
<1>3. Powers(power)
  BY <1>2, Zenon
<1>4. Power(base, m) = power[m]
  BY Zenon DEF Power
<1> HIDE DEF power, q
<1>5. power[0] = 1 /\ \A k \in 1 .. m : power[k] = base * power[k - 1]
  BY <1>3, <1>1, SMT
<1>6. SameTurns(power, p, m)
  <2>1. \A k \in 1 .. m : k \in 1 .. n
    BY SMT
  <2> QED
    BY <1>5, <2>1, Zenon DEF SameTurns, IsPowers
<1>7. \A k \in 0 .. m : power[k] = p[k]
  BY <1>1, <1>6, SameLoop, SMT
<1> QED
  BY <1>1, <1>4, <1>7, Zenon

(* A power is the base times the power before. *)
LEMMA PowerIs ==
  ASSUME NEW base \in Nat, NEW n \in Nat
  PROVE  /\ Power(base, 0) = 1 /\ Power(base, n) \in Nat
         /\ Power(base, n + 1) = base * Power(base, n)
<1>0. n + 1 \in Nat
  BY SMT
<1>1. PICK p \in [0 .. n + 1 -> Nat] : IsPowers(p, base, n + 1)
  BY <1>0, PowersExist, Zenon
<1>2. /\ n + 1 \in Nat /\ 0 \in 0 .. n + 1 /\ n \in 0 .. n + 1 /\ n + 1 \in 0 .. n + 1
      /\ n + 1 \in 1 .. n + 1 /\ (n + 1) - 1 = n
  BY SMT
<1>3. Power(base, 0) = p[0] /\ Power(base, n) = p[n] /\ Power(base, n + 1) = p[n + 1]
  BY <1>1, <1>2, PowerAt, SMT
<1> QED
  BY <1>1, <1>2, <1>3, Zenon DEF IsPowers

(* The number of the first n digits of x. *)
Val(x, base, n) ==
  LET value[k \in 0 .. n] == IF k = 0 THEN 0 ELSE base * value[k - 1] + x[k]
  IN  value[n]

IsReading(v, x, base, n) == v[0] = 0 /\ \A k \in 1 .. n : v[k] = base * v[k - 1] + x[k]
Numbers(x, n) == \A k \in 1 .. n : x[k] \in Nat

LEMMA ReadingExists ==
  ASSUME NEW base \in Nat, NEW n \in Nat, NEW x, Numbers(x, n)
  PROVE  \E v \in [0 .. n -> Nat] : IsReading(v, x, base, n)
<1> DEFINE zero == 0
<1> DEFINE y == [k \in Nat |-> IF k \in 1 .. n THEN x[k] ELSE 0]
<1>1. y \in [Nat -> Nat]
  BY SMT DEF Numbers
<1>2. \A k \in 1 .. n : y[k] = x[k]
  BY SMT
<1> HIDE DEF y
<1> DEFINE step == [k \in Nat |-> [v \in Nat |-> base * v + y[k]]]
<1>3. step \in Steps(Nat) /\ zero \in Nat
  <2>1. \A k \in Nat : \A v \in Nat : base * v + y[k] \in Nat
    BY <1>1, SMT
  <2> QED
    BY <2>1, Zenon DEF Steps
<1>4. PICK p : IsLoop(p, Nat, zero, step, n)
  <2> HIDE DEF step, zero
  <2> QED
    BY <1>3, LoopExists
<1>5. p \in [0 .. n -> Nat] /\ p[0] = 0 /\ \A k \in 1 .. n : p[k] = step[k][p[k - 1]]
  BY <1>4, Zenon DEF IsLoop
<1>6. ASSUME NEW k \in 1 .. n PROVE p[k] = base * p[k - 1] + x[k]
  <2>1. k \in Nat /\ k - 1 \in 0 .. n
    BY SMT
  <2>2. p[k - 1] \in Nat
    BY <1>5, <2>1, Zenon
  <2>3. step[k][p[k - 1]] = base * p[k - 1] + y[k]
    BY <2>1, <2>2
  <2> QED
    BY <1>2, <1>5, <2>3, Zenon
<1> QED
  BY <1>5, <1>6, Zenon DEF IsReading

LEMMA ValAt ==
  ASSUME NEW base, NEW n \in Nat, NEW x, NEW v, IsReading(v, x, base, n), NEW m \in 0 .. n
  PROVE  Val(x, base, m) = v[m]
<1> DEFINE Reads(f) == f = [k \in 0 .. m |-> IF k = 0 THEN 0 ELSE base * f[k - 1] + x[k]]
<1> DEFINE value == CHOOSE f : Reads(f)
<1> DEFINE q == [k \in 0 .. m |-> v[k]]
<1>1. m \in Nat /\ m \in 0 .. m
  BY SMT
<1>2. Reads(q)
  <2>1. ASSUME NEW k \in 0 .. m PROVE v[k] = IF k = 0 THEN 0 ELSE base * q[k - 1] + x[k]
    <3>1. CASE k = 0
      BY <3>1 DEF IsReading
    <3>2. CASE k # 0
      <4>1. k \in 1 .. n /\ k - 1 \in 0 .. m
        BY <3>2, SMT
      <4>2. q[k - 1] = v[k - 1]
        BY <4>1, Zenon
      <4> QED
        BY <4>1, <4>2, <3>2, Zenon DEF IsReading
    <3> QED
      BY <3>1, <3>2
  <2> QED
    BY <2>1, Zenon
<1>3. Reads(value)
  BY <1>2, Zenon
<1>4. Val(x, base, m) = value[m]
  BY Zenon DEF Val
<1> HIDE DEF value, q
<1>5. value[0] = 0 /\ \A k \in 1 .. m : value[k] = base * value[k - 1] + x[k]
  BY <1>3, <1>1, SMT
<1>6. SameTurns(value, v, m)
  <2>1. \A k \in 1 .. m : k \in 1 .. n
    BY SMT
  <2> QED
    BY <1>5, <2>1, Zenon DEF SameTurns, IsReading
<1>7. \A k \in 0 .. m : value[k] = v[k]
  BY <1>1, <1>6, SameLoop, SMT
<1> QED
  BY <1>1, <1>4, <1>7, Zenon

(* A digit more multiplies by the base. *)
LEMMA ValIs ==
  ASSUME NEW base \in Nat, NEW n \in Nat, NEW x, Numbers(x, n)
  PROVE  /\ Val(x, base, 0) = 0
         /\ \A k \in 0 .. n : Val(x, base, k) \in Nat
         /\ \A k \in 1 .. n : Val(x, base, k) = base * Val(x, base, k - 1) + x[k]
<1>1. PICK v \in [0 .. n -> Nat] : IsReading(v, x, base, n)
  BY ReadingExists, Zenon
<1>2. \A k \in 0 .. n : Val(x, base, k) = v[k]
  BY <1>1, ValAt, SMT
<1>3. 0 \in 0 .. n /\ \A k \in 1 .. n : k \in 0 .. n /\ k - 1 \in 0 .. n
  BY SMT
<1> QED
  BY <1>1, <1>2, <1>3, Zenon DEF IsReading

LEMMA PowerPos ==
  ASSUME NEW base \in Nat \ {0}, NEW n \in Nat
  PROVE  Power(base, n) \in Nat \ {0}
<1> DEFINE S == {k \in 0 .. n : Power(base, k) \in Nat \ {0}}
<1>1. 0 \in S
  BY PowerIs, SMT
<1>2. ASSUME NEW k \in 1 .. n, k - 1 \in S PROVE k \in S
  <2> DEFINE p == Power(base, k - 1)
  <2>1. k - 1 \in Nat /\ (k - 1) + 1 = k /\ k \in 0 .. n
    BY SMT
  <2>2. Power(base, k) = base * p /\ p \in Nat \ {0}
    BY <1>2, <2>1, PowerIs
  <2> HIDE DEF p
  <2>3. base * p \in Nat \ {0}
    BY <2>2, SMT
  <2> QED
    BY <2>1, <2>2, <2>3, Zenon
<1>3. 0 .. n \subseteq S
  <2> HIDE DEF S
  <2> QED
    BY <1>1, <1>2, Upwards
<1>4. n \in 0 .. n
  BY SMT
<1> QED
  BY <1>3, <1>4, Zenon

(* Adding exponents multiplies powers. *)
LEMMA PowerSum ==
  ASSUME NEW base \in Nat, NEW a \in Nat, NEW n \in Nat
  PROVE  Power(base, a + n) = Power(base, a) * Power(base, n)
<1> DEFINE p == Power(base, a)
<1> DEFINE S == {k \in 0 .. n : Power(base, a + k) = p * Power(base, k)}
<1>0. p \in Nat
  BY PowerIs
<1>1. 0 \in S
  <2>1. a + 0 = a /\ p * 1 = p /\ 0 \in 0 .. n
    BY <1>0, SMT
  <2>2. Power(base, 0) = 1
    BY PowerIs
  <2> QED
    BY <2>1, <2>2, Zenon
<1> HIDE DEF p
<1>2. ASSUME NEW k \in 1 .. n, k - 1 \in S PROVE k \in S
  <2> DEFINE q == Power(base, k - 1)
  <2>1. /\ k - 1 \in Nat /\ (k - 1) + 1 = k /\ k \in 0 .. n
        /\ a + (k - 1) \in Nat /\ (a + (k - 1)) + 1 = a + k
    BY SMT
  <2>2. Power(base, k) = base * q /\ q \in Nat
    BY <2>1, PowerIs
  <2>3. Power(base, a + k) = base * Power(base, a + (k - 1))
    BY <2>1, PowerIs
  <2>4. Power(base, a + (k - 1)) = p * q
    BY <1>2, Zenon
  <2> HIDE DEF q
  <2>5. base * (p * q) = p * (base * q)
    BY <1>0, <2>2, SMT
  <2> QED
    BY <2>1, <2>2, <2>3, <2>4, <2>5, Zenon
<1>3. 0 .. n \subseteq S
  <2> HIDE DEF S
  <2> QED
    BY <1>1, <1>2, Upwards
<1>4. n \in 0 .. n
  BY SMT
<1> QED
  BY <1>3, <1>4, Zenon DEF p

(* A power of a power. *)
LEMMA PowerPower ==
  ASSUME NEW base \in Nat, NEW w \in Nat, NEW n \in Nat
  PROVE  Power(Power(base, w), n) = Power(base, w * n)
<1> DEFINE b == Power(base, w)
<1> DEFINE S == {k \in 0 .. n : Power(b, k) = Power(base, w * k)}
<1>0. b \in Nat
  BY PowerIs
<1>1. 0 \in S
  <2>1. w * 0 = 0 /\ 0 \in 0 .. n
    BY SMT
  <2>2. Power(base, 0) = 1 /\ Power(b, 0) = 1
    BY <1>0, PowerIs
  <2> QED
    BY <2>1, <2>2, Zenon
<1>2. ASSUME NEW k \in 1 .. n, k - 1 \in S PROVE k \in S
  <2> DEFINE c == w * (k - 1)
  <2>1. /\ k - 1 \in Nat /\ (k - 1) + 1 = k /\ k \in 0 .. n
        /\ w * k = w + c /\ c \in Nat
    BY SMT
  <2> HIDE DEF c
  <2>2. Power(b, k) = b * Power(b, k - 1)
    BY <1>0, <2>1, PowerIs
  <2>3. Power(base, w + c) = b * Power(base, c)
    BY <2>1, PowerSum
  <2>4. Power(b, k - 1) = Power(base, c)
    BY <1>2, Zenon DEF c
  <2> QED
    BY <2>1, <2>2, <2>3, <2>4, Zenon
<1>3. 0 .. n \subseteq S
  <2> HIDE DEF S
  <2> QED
    BY <1>1, <1>2, Upwards
<1>4. n \in 0 .. n
  BY SMT
<1> QED
  BY <1>3, <1>4, Zenon

(* A larger exponent has a larger power. *)
LEMMA PowerGrows ==
  ASSUME NEW base \in Nat \ {0}, NEW a \in Nat, NEW n \in Nat, a <= n
  PROVE  Power(base, a) <= Power(base, n)
<1> DEFINE d == n - a
<1>1. d \in Nat /\ a + d = n
  BY SMT
<1> HIDE DEF d
<1> DEFINE p == Power(base, a)
<1> DEFINE q == Power(base, d)
<1>2. Power(base, n) = p * q
  BY <1>1, PowerSum
<1>3. p \in Nat \ {0} /\ q \in Nat \ {0}
  BY <1>1, PowerPos
<1> HIDE DEF p, q
<1>4. p <= p * q
  BY <1>3, SMT
<1> QED
  BY <1>2, <1>4, Zenon DEF p

Digits(x, base, n) == \A k \in 1 .. n : x[k] \in 0 .. base - 1
Agree(x, y, n) == \A k \in 1 .. n : x[k] = y[k]

LEMMA DigitsAreNumbers ==
  ASSUME NEW base \in Nat, NEW n, NEW x, Digits(x, base, n)
  PROVE  Numbers(x, n)
<1>1. \A d \in 0 .. base - 1 : d \in Nat
  BY SMT
<1> QED
  BY <1>1, Zenon DEF Digits, Numbers

(* The number is that of the digits alone. *)
LEMMA ValSame ==
  ASSUME NEW base \in Nat, NEW n \in Nat, NEW x, NEW y, Numbers(x, n), Agree(x, y, n)
  PROVE  Val(x, base, n) = Val(y, base, n)
<1>1. Numbers(y, n)
  BY Zenon DEF Numbers, Agree
<1>2. PICK v \in [0 .. n -> Nat] : IsReading(v, x, base, n)
  BY ReadingExists, Zenon
<1>3. IsReading(v, y, base, n)
  BY <1>2, Zenon DEF IsReading, Agree
<1>4. n \in 0 .. n
  BY SMT
<1> QED
  BY <1>2, <1>3, <1>4, ValAt, SMT

(* n digits hold less than the n-th power. *)
LEMMA ValBound ==
  ASSUME NEW base \in Nat \ {0}, NEW n \in Nat, NEW x, Digits(x, base, n)
  PROVE  Val(x, base, n) < Power(base, n)
<1> DEFINE S == {k \in 0 .. n : Val(x, base, k) < Power(base, k)}
<1>0. Numbers(x, n) /\ base \in Nat
  BY DigitsAreNumbers, SMT
<1>1. 0 \in S
  BY <1>0, ValIs, PowerIs, SMT
<1>2. ASSUME NEW k \in 1 .. n, k - 1 \in S PROVE k \in S
  <2> DEFINE p == Power(base, k - 1)
  <2> DEFINE v == Val(x, base, k - 1)
  <2>1. k - 1 \in Nat /\ (k - 1) + 1 = k /\ k \in 0 .. n /\ k - 1 \in 0 .. n
    BY SMT
  <2>2. Power(base, k) = base * p /\ p \in Nat
    BY <1>0, <2>1, PowerIs
  <2>3. Val(x, base, k) = base * v + x[k] /\ v \in Nat
    BY <1>0, <2>1, ValIs
  <2>4. v < p /\ x[k] \in 0 .. base - 1
    BY <1>2, Zenon DEF Digits
  <2> HIDE DEF p, v
  <2>5. base * v + base <= base * p
    BY <1>0, <2>2, <2>3, <2>4, ProductGrows, SMT
  <2> DEFINE bv == base * v
  <2> DEFINE bp == base * p
  <2>6. bv \in Nat /\ bp \in Nat
    BY <1>0, <2>2, <2>3, SMT
  <2> HIDE DEF bv, bp
  <2>7. bv + x[k] < bp
    BY <2>4, <2>5, <2>6, SMT DEF bv, bp
  <2> QED
    BY <2>1, <2>2, <2>3, <2>7, Zenon DEF bv, bp
<1>3. 0 .. n \subseteq S
  <2> HIDE DEF S
  <2> QED
    BY <1>1, <1>2, Upwards
<1>4. n \in 0 .. n
  BY SMT
<1> QED
  BY <1>3, <1>4, Zenon

(* Digits are determined by their number. *)
LEMMA ValUnique ==
  ASSUME NEW base \in Nat \ {0}, NEW n \in Nat, NEW x, NEW y, Digits(x, base, n), Digits(y, base, n),
         Val(x, base, n) = Val(y, base, n)
  PROVE  Agree(x, y, n)
<1>0. Numbers(x, n) /\ Numbers(y, n) /\ base \in Nat
  BY DigitsAreNumbers, SMT
<1> DEFINE S == {j \in 0 .. n : Val(x, base, n - j) = Val(y, base, n - j)}
<1>1. 0 \in S
  <2>1. n - 0 = n /\ 0 \in 0 .. n
    BY SMT
  <2> QED
    BY <2>1, Zenon
<1>2. ASSUME NEW k \in 1 .. n, Val(x, base, k) = Val(y, base, k)
      PROVE  x[k] = y[k] /\ Val(x, base, k - 1) = Val(y, base, k - 1)
  <2> DEFINE v == Val(x, base, k - 1)
  <2> DEFINE w == Val(y, base, k - 1)
  <2> DEFINE m == Val(x, base, k)
  <2>1. k - 1 \in 0 .. n
    BY SMT
  <2>2. m = base * v + x[k] /\ v \in Nat /\ m = base * w + y[k] /\ w \in Nat
    <3>1. Val(x, base, k) = base * v + x[k] /\ v \in Nat
      BY <1>0, <2>1, ValIs
    <3>2. Val(y, base, k) = base * w + y[k] /\ w \in Nat
      BY <1>0, <2>1, ValIs
    <3> QED
      BY <1>2, <3>1, <3>2, Zenon
  <2>3. x[k] \in 0 .. base - 1 /\ y[k] \in 0 .. base - 1
    BY Zenon DEF Digits
  <2>4. m \in Nat
    <3>1. k \in 0 .. n
      BY SMT
    <3> QED
      BY <1>0, <3>1, ValIs, Zenon
  <2> HIDE DEF v, w, m
  <2>8. m \in Int /\ v \in Int /\ w \in Int
    BY <2>2, <2>4, SMT
  <2>5. m % base = x[k] /\ m \div base = v
    BY <2>2, <2>3, <2>8, DivModIs, Zenon
  <2>6. m % base = y[k] /\ m \div base = w
    BY <2>2, <2>3, <2>8, DivModIs, Zenon
  <2> QED
    BY <2>5, <2>6, Zenon DEF v, w
<1>3. ASSUME NEW j \in 1 .. n, j - 1 \in S PROVE j \in S
  <2>1. n - (j - 1) \in 1 .. n /\ (n - (j - 1)) - 1 = n - j /\ j \in 0 .. n
    BY SMT
  <2>2. Val(x, base, n - (j - 1)) = Val(y, base, n - (j - 1))
    BY <1>3, Zenon
  <2>3. Val(x, base, n - j) = Val(y, base, n - j)
    BY <1>2, <2>1, <2>2, Zenon
  <2> QED
    BY <2>1, <2>3, Zenon
<1>4. 0 .. n \subseteq S
  <2> HIDE DEF S
  <2> QED
    BY <1>1, <1>3, Upwards
<1>5. ASSUME NEW k \in 1 .. n PROVE x[k] = y[k]
  <2>1. n - k \in 0 .. n /\ n - (n - k) = k
    BY SMT
  <2>2. Val(x, base, n - (n - k)) = Val(y, base, n - (n - k))
    BY <1>4, <2>1, Zenon
  <2> QED
    BY <1>2, <2>1, <2>2, Zenon
<1> QED
  BY <1>5, Zenon DEF Agree
-----------------------------------------------------------------------------
(* The inner loops: a number is multiplied in place, from its last digit.  *)

IsCarries(carry, cells, base, factor, c, n) ==
  /\ carry \in [0 .. n -> Nat] /\ carry[0] = c
  /\ \A k \in 1 .. n : carry[k] = (carry[k - 1] + factor * cells[n - k + 1]) \div base

LEMMA CarriesAre ==
  ASSUME NEW base \in Nat \ {0}, NEW factor \in Nat, NEW c \in Nat, NEW n \in Nat,
         NEW cells, Len(cells) = n, Numbers(cells, n)
  PROVE  IsCarries(Carries(cells, base, factor, c), cells, base, factor, c, n)
<1> DEFINE y == [k \in Nat |-> IF k \in 1 .. n THEN factor * cells[n - k + 1] ELSE 0]
<1>1. y \in [Nat -> Nat] /\ \A k \in 1 .. n : y[k] = factor * cells[n - k + 1]
  <2>1. ASSUME NEW k \in 1 .. n PROVE factor * cells[n - k + 1] \in Nat
    <3>1. n - k + 1 \in 1 .. n
      BY SMT
    <3>2. cells[n - k + 1] \in Nat
      BY <3>1, Zenon DEF Numbers
    <3> QED
      BY <3>2, SMT
  <2>2. \A k \in 1 .. n : k \in Nat
    BY SMT
  <2> QED
    BY <2>1, <2>2, Zenon
<1> HIDE DEF y
<1> DEFINE step == [k \in Nat |-> [v \in Nat |-> (v + y[k]) \div base]]
<1>2. step \in Steps(Nat)
  <2>1. ASSUME NEW k \in Nat, NEW v \in Nat PROVE (v + y[k]) \div base \in Nat
    <3>1. y[k] \in Nat
      BY <1>1, Zenon
    <3>2. v + y[k] \in Nat
      BY <3>1, SMT
    <3> QED
      BY <3>2, DivNat
  <2> QED
    BY <2>1, Zenon DEF Steps
<1>3. PICK p : IsLoop(p, Nat, c, step, n)
  <2> HIDE DEF step
  <2> QED
    BY <1>2, LoopExists
<1>4. p \in [0 .. n -> Nat] /\ p[0] = c /\ \A k \in 1 .. n : p[k] = step[k][p[k - 1]]
  BY <1>3, Zenon DEF IsLoop
<1>5. ASSUME NEW k \in 1 .. n PROVE p[k] = (p[k - 1] + y[k]) \div base
  <2>1. k \in Nat /\ k - 1 \in 0 .. n
    BY SMT
  <2>2. p[k - 1] \in Nat
    BY <1>4, <2>1, Zenon
  <2>3. step[k][p[k - 1]] = (p[k - 1] + y[k]) \div base
    BY <2>1, <2>2
  <2> QED
    BY <1>4, <2>3, Zenon
<1> DEFINE Runs(f) == f = [k \in 0 .. n |-> IF k = 0 THEN c
                             ELSE (f[k - 1] + factor * cells[n - k + 1]) \div base]
<1> DEFINE carry == CHOOSE f : Runs(f)
<1>6. Runs(p)
  <2>1. ASSUME NEW k \in 0 .. n
        PROVE  p[k] = IF k = 0 THEN c ELSE (p[k - 1] + factor * cells[n - k + 1]) \div base
    <3>1. CASE k = 0
      BY <3>1, <1>4
    <3>2. CASE k # 0
      <4>1. k \in 1 .. n
        BY <3>2, SMT
      <4> QED
        BY <4>1, <3>2, <1>1, <1>5, Zenon
    <3> QED
      BY <3>1, <3>2
  <2>2. p = [k \in 0 .. n |-> p[k]]
    BY <1>4, Zenon
  <2> QED
    BY <2>1, <2>2, Zenon
<1>7. Runs(carry)
  BY <1>6, Zenon
<1>8. Carries(cells, base, factor, c) = carry
  BY Zenon DEF Carries
<1> HIDE DEF carry
<1>9. /\ carry[0] = c
      /\ \A k \in 1 .. n : carry[k] = (carry[k - 1] + factor * cells[n - k + 1]) \div base
  <2>1. \A k \in 1 .. n : k \in 0 .. n /\ k # 0
    BY SMT
  <2>2. 0 \in 0 .. n
    BY SMT
  <2> QED
    BY <2>1, <2>2, <1>7, Zenon
<1> HIDE DEF step, Runs
<1>10. SameTurns(carry, p, n)
  <2>1. carry[0] = p[0]
    BY <1>4, <1>9, Zenon
  <2>2. \A k \in 1 .. n : carry[k - 1] = p[k - 1] => carry[k] = p[k]
    BY <1>1, <1>5, <1>9, Zenon
  <2> QED
    BY <2>1, <2>2, Zenon DEF SameTurns
<1>11. \A k \in 0 .. n : carry[k] = p[k]
  BY <1>10, SameLoop, SMT
<1>12. carry \in [0 .. n -> Nat]
  <2>1. carry = [k \in 0 .. n |-> carry[k]]
    BY <1>7, Zenon DEF Runs
  <2> QED
    BY <2>1, <1>4, <1>11, Zenon
<1> QED
  BY <1>8, <1>9, <1>12, Zenon DEF IsCarries

(* The cells y that a full loop leaves. *)
IsScaled(y, carry, cells, base, factor, n) ==
  \A j \in 1 .. n : y[j] = (carry[n - j] + factor * cells[j]) % base

(* The product of the first j cells, with the carry from the others. *)
Products(cells, base, factor, carry, n) ==
  [j \in 0 .. n |-> factor * Val(cells, base, j) + carry[n - j]]

IsProducts(r, y, carry, cells, base, factor, c, n) ==
  /\ r \in [0 .. n -> Nat]
  /\ r[0] = carry[n] /\ r[n] = factor * Val(cells, base, n) + c
  /\ \A j \in 1 .. n : r[j] = base * r[j - 1] + y[j]

(* Together with the last carry they are the product. *)
LEMMA ScaledReads ==
  ASSUME NEW base \in Nat \ {0}, NEW factor \in Nat, NEW c \in Nat, NEW n \in Nat, NEW cells, NEW y,
         NEW carry, Numbers(cells, n), IsCarries(carry, cells, base, factor, c, n),
         IsScaled(y, carry, cells, base, factor, n)
  PROVE  /\ Digits(y, base, n)
         /\ IsProducts(Products(cells, base, factor, carry, n), y, carry, cells, base, factor, c, n)
<1> DEFINE r == [j \in 0 .. n |-> factor * Val(cells, base, j) + carry[n - j]]
<1>0. base \in Nat
  BY SMT
<1>1. Val(cells, base, 0) = 0 /\ \A j \in 0 .. n : Val(cells, base, j) \in Nat
  BY <1>0, ValIs
<1>2. \A j \in 1 .. n : Val(cells, base, j) = base * Val(cells, base, j - 1) + cells[j]
  BY <1>0, ValIs
<1>3. carry \in [0 .. n -> Nat] /\ carry[0] = c
  BY Zenon DEF IsCarries
<1>4. r \in [0 .. n -> Nat]
  <2>1. ASSUME NEW j \in 0 .. n PROVE factor * Val(cells, base, j) + carry[n - j] \in Nat
    <3>1. n - j \in 0 .. n
      BY SMT
    <3>2. carry[n - j] \in Nat /\ Val(cells, base, j) \in Nat
      BY <1>1, <1>3, <3>1, Zenon
    <3> QED
      BY <3>2, SMT
  <2> QED
    BY <2>1, Zenon
<1>5. r[0] = carry[n] /\ r[n] = factor * Val(cells, base, n) + c
  <2>1. n - 0 = n /\ n - n = 0 /\ 0 \in 0 .. n /\ n \in 0 .. n
    BY SMT
  <2>2. r[0] = factor * 0 + carry[n] /\ r[n] = factor * Val(cells, base, n) + carry[0]
    BY <1>1, <2>1, Zenon
  <2>3. carry[n] \in Nat
    BY <1>3, <2>1, Zenon
  <2> HIDE DEF r
  <2>4. factor * 0 + carry[n] = carry[n]
    BY <2>3, SMT
  <2> QED
    BY <1>3, <2>2, <2>4, Zenon
<1>6. ASSUME NEW j \in 1 .. n
      PROVE  r[j] = base * r[j - 1] + y[j] /\ y[j] \in 0 .. base - 1
  <2> DEFINE d == carry[n - j]
  <2> DEFINE e == carry[n - (j - 1)]
  <2> DEFINE v == Val(cells, base, j - 1)
  <2> DEFINE fx == factor * cells[j]
  <2> DEFINE t == d + fx
  <2>1. /\ j \in 0 .. n /\ j - 1 \in 0 .. n /\ n - j \in 0 .. n
        /\ n - (j - 1) \in 1 .. n /\ (n - (j - 1)) - 1 = n - j /\ n - (n - (j - 1)) + 1 = j
    BY SMT
  <2>2. e = t \div base
    <3>1. e = (carry[(n - (j - 1)) - 1] + factor * cells[n - (n - (j - 1)) + 1]) \div base
      BY <2>1, Zenon DEF IsCarries
    <3> QED
      BY <2>1, <3>1, Zenon
  <2>3. y[j] = t % base
    BY Zenon DEF IsScaled
  <2>4. r[j] = factor * (base * v + cells[j]) + d /\ r[j - 1] = factor * v + e
    BY <1>2, <2>1, Zenon
  <2>5. cells[j] \in Nat /\ d \in Nat /\ v \in Nat
    BY <1>1, <1>3, <2>1, Zenon DEF Numbers
  <2>6. fx \in Nat
    BY <2>5, SMT
  <2> HIDE DEF d, e, v, fx
  <2>7. t \in Nat /\ t \in Int
    BY <2>5, <2>6, SMT
  <2> HIDE DEF t
  <2>8. t = base * e + y[j] /\ y[j] \in 0 .. base - 1 /\ e \in Int
    BY <2>2, <2>3, <2>7, DivMod
  <2> DEFINE fv == factor * v
  <2>9. fv \in Nat
    BY <2>5, SMT
  <2>10. factor * (base * v + cells[j]) = base * fv + fx
    <3>1. factor * (base * v + cells[j]) = factor * (base * v) + factor * cells[j]
      BY <1>0, <2>5, SMT
    <3>2. factor * (base * v) = base * (factor * v)
      BY <1>0, <2>5, SMT
    <3> QED
      BY <3>1, <3>2, Zenon DEF fx
  <2>11. base * (fv + e) = base * fv + base * e
    <3> HIDE DEF fv
    <3> QED
      BY <1>0, <2>8, <2>9, SMT
  <2> DEFINE bf == base * fv
  <2> DEFINE be == base * e
  <2>12. bf \in Int /\ be \in Int
    <3> HIDE DEF fv
    <3> QED
      BY <1>0, <2>8, <2>9, SMT
  <2>13. r[j] = (bf + fx) + d /\ base * r[j - 1] = bf + be
    BY <2>4, <2>10, <2>11, Zenon
  <2>14. t = be + y[j] /\ t = d + fx
    BY <2>8, Zenon DEF t
  <2> DEFINE br == base * r[j - 1]
  <2> DEFINE rj == r[j]
  <2> HIDE DEF r, bf, be, br, rj
  <2>15. rj = (bf + fx) + d /\ br = bf + be
    BY <2>13, Zenon DEF br, rj
  <2>16. rj = br + y[j]
    BY <2>5, <2>6, <2>8, <2>12, <2>14, <2>15, SMT
  <2> QED
    BY <2>8, <2>16, Zenon DEF br, rj
<1> HIDE DEF r
<1>7. Digits(y, base, n)
  BY <1>6, Zenon DEF Digits
<1>8. IsProducts(r, y, carry, cells, base, factor, c, n)
  BY <1>4, <1>5, <1>6, Zenon DEF IsProducts
<1> QED
  BY <1>7, <1>8, Zenon DEF r, Products

(* When no carry is left over the cells hold the product; when one is, the *)
(* product needs more cells.                                               *)
LEMMA ScaledValue ==
  ASSUME NEW base \in Nat \ {0}, NEW factor \in Nat, NEW c \in Nat, NEW n \in Nat, NEW cells, NEW y,
         NEW carry, Numbers(cells, n), IsCarries(carry, cells, base, factor, c, n),
         IsScaled(y, carry, cells, base, factor, n)
  PROVE  /\ Digits(y, base, n)
         /\ carry[n] = 0 => Val(y, base, n) = factor * Val(cells, base, n) + c
         /\ carry[n] # 0 => Power(base, n) <= factor * Val(cells, base, n) + c
<1>0. base \in Nat /\ n \in 0 .. n /\ 0 \in 0 .. n
  BY SMT
<1> DEFINE r == Products(cells, base, factor, carry, n)
<1>a. Digits(y, base, n) /\ IsProducts(r, y, carry, cells, base, factor, c, n)
  BY ScaledReads
<1>1. /\ Digits(y, base, n) /\ r \in [0 .. n -> Nat]
      /\ r[0] = carry[n] /\ r[n] = factor * Val(cells, base, n) + c
      /\ \A j \in 1 .. n : r[j] = base * r[j - 1] + y[j]
  BY <1>a, Zenon DEF IsProducts
<1> HIDE DEF r
<1>2. ASSUME carry[n] = 0 PROVE Val(y, base, n) = r[n]
  <2>1. IsReading(r, y, base, n)
    BY <1>1, <1>2, Zenon DEF IsReading
  <2> QED
    BY <2>1, <1>0, ValAt, SMT
<1>3. ASSUME carry[n] # 0 PROVE Power(base, n) <= r[n]
  <2> DEFINE S == {j \in 0 .. n : Power(base, j) <= r[j]}
  <2>1. 0 \in S
    <3>1. r[0] \in Nat /\ r[0] # 0
      BY <1>0, <1>1, <1>3, Zenon
    <3>2. 1 <= r[0]
      BY <3>1, SMT
    <3>3. Power(base, 0) = 1
      BY <1>0, PowerIs
    <3> QED
      BY <1>0, <3>2, <3>3, Zenon
  <2>2. ASSUME NEW j \in 1 .. n, j - 1 \in S PROVE j \in S
    <3> DEFINE p == Power(base, j - 1)
    <3> DEFINE q == r[j - 1]
    <3>1. j - 1 \in Nat /\ (j - 1) + 1 = j /\ j \in 0 .. n /\ j - 1 \in 0 .. n
      BY SMT
    <3>2. Power(base, j) = base * p /\ p \in Nat
      <4>1. Power(base, (j - 1) + 1) = base * p /\ p \in Nat
        BY <1>0, <3>1, PowerIs, Zenon
      <4> QED
        BY <3>1, <4>1, Zenon
    <3>3. r[j] = base * q + y[j] /\ q \in Nat
      BY <1>1, <3>1, Zenon
    <3>4. p <= q
      BY <2>2, Zenon
    <3>5. y[j] \in 0 .. base - 1
      BY <1>1, Zenon DEF Digits
    <3> HIDE DEF p, q
    <3>6. base * p <= base * q
      BY <1>0, <3>2, <3>3, <3>4, SMT
    <3> DEFINE bp == base * p
    <3> DEFINE bq == base * q
    <3>7. bp \in Nat /\ bq \in Nat
      BY <1>0, <3>2, <3>3, SMT
    <3> HIDE DEF bp, bq
    <3>8. bp <= bq + y[j]
      BY <3>5, <3>6, <3>7, SMT DEF bp, bq
    <3> QED
      BY <3>1, <3>2, <3>3, <3>8, Zenon DEF bp, bq
  <2>3. 0 .. n \subseteq S
    <3> HIDE DEF S
    <3> QED
      BY <2>1, <2>2, Upwards
  <2> QED
    BY <2>3, <1>0, Zenon
<1> QED
  BY <1>1, <1>2, <1>3, Zenon

(* A number is zero when and only when its digits are. *)
Zeros(x, n) == \A k \in 1 .. n : x[k] = 0

LEMMA ValZero ==
  ASSUME NEW base \in Nat \ {0}, NEW n \in Nat, NEW x, Zeros(x, n)
  PROVE  Val(x, base, n) = 0
<1> DEFINE v == [k \in 0 .. n |-> 0]
<1>1. IsReading(v, x, base, n)
  <2>1. v[0] = 0
    BY SMT
  <2>2. ASSUME NEW k \in 1 .. n PROVE v[k] = base * v[k - 1] + x[k]
    <3>1. v[k] = 0 /\ v[k - 1] = 0
      BY SMT
    <3>2. x[k] = 0
      BY Zenon DEF Zeros
    <3> HIDE DEF v
    <3> QED
      BY <3>1, <3>2, SMT
  <2> HIDE DEF v
  <2> QED
    BY <2>1, <2>2, Zenon DEF IsReading
<1>2. n \in 0 .. n /\ v[n] = 0
  BY SMT
<1> HIDE DEF v
<1> QED
  BY <1>1, <1>2, ValAt, SMT

LEMMA ZeroVal ==
  ASSUME NEW base \in Nat \ {0}, NEW n \in Nat, NEW x, Digits(x, base, n), Val(x, base, n) = 0
  PROVE  Zeros(x, n)
<1> DEFINE z == [k \in 1 .. n |-> 0]
<1>1. Zeros(z, n)
  BY Zenon DEF Zeros
<1>2. Digits(z, base, n)
  <2>1. 0 \in 0 .. base - 1
    BY SMT
  <2> QED
    BY <2>1, Zenon DEF Digits
<1> HIDE DEF z
<1>3. Val(z, base, n) = 0
  BY <1>1, ValZero
<1>4. Agree(x, z, n)
  BY <1>2, <1>3, ValUnique
<1> QED
  BY <1>1, <1>4, Zenon DEF Agree, Zeros

(* Leading zeros do not count. *)
LEMMA ValSkip ==
  ASSUME NEW base \in Nat \ {0}, NEW m \in Nat, NEW n \in Nat, NEW x, NEW y, Numbers(y, n),
         Zeros(x, m), \A k \in 1 .. n : x[m + k] = y[k]
  PROVE  Val(x, base, m + n) = Val(y, base, n)
<1> DEFINE xn == m + n
<1>0. base \in Nat /\ xn \in Nat /\ 0 \in Nat
  BY SMT
<1>1. Numbers(x, xn)
  <2>1. ASSUME NEW k \in 1 .. xn PROVE x[k] \in Nat
    <3>1. CASE k <= m
      <4>1. k \in 1 .. m
        BY <3>1, SMT
      <4> QED
        BY <4>1, <1>0, Zenon DEF Zeros
    <3>2. CASE ~(k <= m)
      <4>1. k - m \in 1 .. n /\ m + (k - m) = k
        BY <3>2, SMT
      <4> QED
        BY <4>1, Zenon DEF Numbers
    <3> QED
      BY <3>1, <3>2
  <2> QED
    BY <2>1, Zenon DEF Numbers
<1>2. /\ \A k \in 0 .. xn : Val(x, base, k) \in Nat
      /\ \A k \in 1 .. xn : Val(x, base, k) = base * Val(x, base, k - 1) + x[k]
  <2> HIDE DEF xn
  <2> QED
    BY <1>0, <1>1, ValIs
<1> DEFINE v == [k \in 0 .. n |-> Val(x, base, m + k)]
<1>3. IsReading(v, y, base, n)
  <2>1. v[0] = 0
    <3>1. v[0] = Val(x, base, m)
      BY SMT
    <3> QED
      BY <3>1, ValZero
  <2>2. ASSUME NEW k \in 1 .. n PROVE v[k] = base * v[k - 1] + y[k]
    <3>1. m + k \in 1 .. xn /\ (m + k) - 1 = m + (k - 1) /\ k \in 0 .. n /\ k - 1 \in 0 .. n
      BY SMT
    <3>2. Val(x, base, m + k) = base * Val(x, base, m + (k - 1)) + y[k]
      BY <1>2, <3>1, Zenon
    <3> QED
      BY <3>1, <3>2, Zenon
  <2> HIDE DEF v
  <2> QED
    BY <2>1, <2>2, Zenon DEF IsReading
<1>4. n \in 0 .. n /\ v[n] = Val(x, base, m + n)
  BY SMT
<1> HIDE DEF v
<1> QED
  BY <1>3, <1>4, ValAt, SMT

(* A first digit of at least p, and one of less than p. *)
LEMMA ValLead ==
  ASSUME NEW base \in Nat \ {0}, NEW n \in Nat, NEW x, Numbers(x, n + 1), NEW p \in Nat, p <= x[1]
  PROVE  p * Power(base, n) <= Val(x, base, n + 1)
<1> DEFINE nn == n + 1
<1>0. base \in Nat /\ nn \in Nat /\ 1 \in 1 .. nn /\ 1 - 1 = 0 /\ 0 \in 0 .. n /\ n \in 0 .. n
  BY SMT
<1>1. /\ Val(x, base, 0) = 0
      /\ \A k \in 0 .. nn : Val(x, base, k) \in Nat
      /\ \A k \in 1 .. nn : Val(x, base, k) = base * Val(x, base, k - 1) + x[k]
  <2> HIDE DEF nn
  <2> QED
    BY <1>0, ValIs DEF nn
<1> DEFINE S == {k \in 0 .. n : p * Power(base, k) <= Val(x, base, k + 1)}
<1>2. 0 \in S
  <2>1. Val(x, base, 1) = base * 0 + x[1]
    BY <1>0, <1>1, Zenon
  <2>2. Power(base, 0) = 1
    BY <1>0, PowerIs, Zenon
  <2>3. x[1] \in Nat
    BY <1>0, Zenon DEF Numbers
  <2>4. base * 0 + x[1] = x[1] /\ p * 1 = p /\ 0 + 1 = 1
    BY <2>3, SMT
  <2> QED
    BY <1>0, <2>1, <2>2, <2>4, Zenon
<1>3. ASSUME NEW k \in 1 .. n, k - 1 \in S PROVE k \in S
  <2> DEFINE q == Power(base, k - 1)
  <2> DEFINE v == Val(x, base, k)
  <2>1. /\ k - 1 \in Nat /\ (k - 1) + 1 = k /\ k \in 0 .. n /\ k \in 0 .. nn
        /\ k + 1 \in 1 .. nn /\ (k + 1) - 1 = k
    BY SMT
  <2>2. Power(base, k) = base * q /\ q \in Nat
    <3>1. Power(base, (k - 1) + 1) = base * q /\ q \in Nat
      BY <1>0, <2>1, PowerIs, Zenon
    <3> QED
      BY <2>1, <3>1, Zenon
  <2>3. Val(x, base, k + 1) = base * v + x[k + 1] /\ v \in Nat /\ x[k + 1] \in Nat
    BY <1>1, <2>1, Zenon DEF Numbers
  <2>4. p * q <= v
    BY <1>3, <2>1, Zenon
  <2> HIDE DEF q, v
  <2> DEFINE w == p * q
  <2>5. w \in Nat /\ p * (base * q) = base * w
    BY <1>0, <2>2, SMT
  <2> HIDE DEF w
  <2>6. base * w <= base * v
    BY <1>0, <2>3, <2>4, <2>5, SMT DEF w
  <2> DEFINE bw == base * w
  <2> DEFINE bv == base * v
  <2>7. bw \in Nat /\ bv \in Nat
    BY <1>0, <2>3, <2>5, SMT
  <2> HIDE DEF bw, bv
  <2>8. bw <= bv + x[k + 1]
    BY <2>3, <2>6, <2>7, SMT DEF bw, bv
  <2> QED
    BY <2>1, <2>2, <2>3, <2>5, <2>8, Zenon DEF bw, bv
<1>4. 0 .. n \subseteq S
  <2> HIDE DEF S
  <2> QED
    BY <1>2, <1>3, Upwards
<1> QED
  BY <1>0, <1>4, Zenon

LEMMA ValFirst ==
  ASSUME NEW base \in Nat \ {0}, NEW n \in Nat, NEW x, Digits(x, base, n + 1), NEW p \in Nat, x[1] < p
  PROVE  Val(x, base, n + 1) < p * Power(base, n)
<1> DEFINE nn == n + 1
<1>0. base \in Nat /\ nn \in Nat /\ 1 \in 1 .. nn /\ 1 - 1 = 0 /\ 0 \in 0 .. n /\ n \in 0 .. n
  BY SMT
<1>a. Numbers(x, nn)
  BY <1>0, DigitsAreNumbers
<1>1. /\ Val(x, base, 0) = 0
      /\ \A k \in 0 .. nn : Val(x, base, k) \in Nat
      /\ \A k \in 1 .. nn : Val(x, base, k) = base * Val(x, base, k - 1) + x[k]
  <2> HIDE DEF nn
  <2> QED
    BY <1>0, <1>a, ValIs
<1> DEFINE S == {k \in 0 .. n : Val(x, base, k + 1) < p * Power(base, k)}
<1>2. 0 \in S
  <2>1. Val(x, base, 1) = base * 0 + x[1]
    BY <1>0, <1>1, Zenon
  <2>2. Power(base, 0) = 1
    BY <1>0, PowerIs, Zenon
  <2>3. x[1] \in Nat
    BY <1>0, <1>a, Zenon DEF Numbers
  <2>4. base * 0 + x[1] = x[1] /\ p * 1 = p /\ 0 + 1 = 1
    BY <2>3, SMT
  <2> QED
    BY <1>0, <2>1, <2>2, <2>4, Zenon
<1>3. ASSUME NEW k \in 1 .. n, k - 1 \in S PROVE k \in S
  <2> DEFINE q == Power(base, k - 1)
  <2> DEFINE v == Val(x, base, k)
  <2>1. /\ k - 1 \in Nat /\ (k - 1) + 1 = k /\ k \in 0 .. n /\ k \in 0 .. nn
        /\ k + 1 \in 1 .. nn /\ (k + 1) - 1 = k
    BY SMT
  <2>2. Power(base, k) = base * q /\ q \in Nat
    <3>1. Power(base, (k - 1) + 1) = base * q /\ q \in Nat
      BY <1>0, <2>1, PowerIs, Zenon
    <3> QED
      BY <2>1, <3>1, Zenon
  <2>3. Val(x, base, k + 1) = base * v + x[k + 1] /\ v \in Nat /\ x[k + 1] \in 0 .. base - 1
    BY <1>1, <2>1, Zenon DEF Digits
  <2>4. v < p * q
    BY <1>3, <2>1, Zenon
  <2> HIDE DEF q, v
  <2> DEFINE w == p * q
  <2>5. w \in Nat /\ p * (base * q) = base * w
    BY <1>0, <2>2, SMT
  <2> HIDE DEF w
  <2>6. v < w /\ v \in Int /\ w \in Int
    BY <2>3, <2>4, <2>5, SMT DEF w
  <2>a. base * v + base <= base * w
    BY <1>0, <2>6, ProductGrows, Zenon
  <2> DEFINE bw == base * w
  <2> DEFINE bv == base * v
  <2>7. bw \in Nat /\ bv \in Nat
    BY <1>0, <2>3, <2>5, SMT
  <2> HIDE DEF bw, bv
  <2>8. bv + x[k + 1] < bw
    BY <2>3, <2>a, <2>7, SMT DEF bw, bv
  <2> QED
    BY <2>1, <2>2, <2>3, <2>5, <2>8, Zenon DEF bw, bv
<1>4. 0 .. n \subseteq S
  <2> HIDE DEF S
  <2> QED
    BY <1>2, <1>3, Upwards
<1> QED
  BY <1>0, <1>4, Zenon
-----------------------------------------------------------------------------
(* Sequences: arrays, and the elements in front that are all the same.     *)

LEMMA ArrayIsSeq ==
  ASSUME NEW n \in Nat, NEW S, NEW f \in [1 .. n -> S]
  PROVE  f \in Seq(S) /\ Len(f) = n
<1>1. f \in Seq(S)
  BY SeqDef, Zenon
<1>2. Len(f) \in Nat /\ DOMAIN f = 1 .. Len(f)
  BY <1>1, LenProperties
<1>3. DOMAIN f = 1 .. n
  BY Zenon
<1>4. 1 .. n = 1 .. Len(f)
  BY <1>2, <1>3, Zenon
<1> DEFINE m == Len(f)
<1> HIDE DEF m
<1>5. m = n
  <2>1. m \in Nat /\ 1 .. n = 1 .. m
    BY <1>2, <1>4, Zenon DEF m
  <2>2. CASE m < n
    <3>1. n \in 1 .. n
      BY <2>1, <2>2, SMT
    <3>2. n \in 1 .. m
      BY <2>1, <3>1, Zenon
    <3> QED
      BY <3>2, <2>1, <2>2, SMT
  <2>3. CASE n < m
    <3>1. m \in 1 .. m
      BY <2>1, <2>3, SMT
    <3>2. m \in 1 .. n
      BY <2>1, <3>1, Zenon
    <3> QED
      BY <3>2, <2>1, <2>3, SMT
  <2> QED
    BY <2>1, <2>2, <2>3, SMT
<1> QED
  BY <1>1, <1>5, Zenon DEF m

(* n elements in front equal x, and the next one does not. *)
Leads(s, x, n) ==
  /\ n \in 0 .. Len(s)
  /\ \A k \in 1 .. n : s[k] = x
  /\ n < Len(s) => s[n + 1] # x

LEMMA LeadingCountIs ==
  ASSUME NEW s, NEW x, Len(s) \in Nat
  PROVE  Leads(s, x, LeadingCount(s, x))
<1> DEFINE len == Len(s)
<1> DEFINE T == {k \in 0 .. len : k < len => s[k + 1] # x}
<1>1. T \subseteq Nat /\ len \in T
  <2> HIDE DEF len
  <2> QED
    BY SMT DEF len
<1>2. PICK n \in T : \A m \in T : ~(m < n)
  <2> HIDE DEF T
  <2> QED
    BY <1>1, LeastNumber
<1>3. ASSUME NEW k \in 1 .. n PROVE s[k] = x
  <2> HIDE DEF len
  <2>1. n \in 0 .. len
    BY <1>2, Zenon
  <2>2. k - 1 \in 0 .. len /\ k - 1 < n /\ k - 1 < len /\ (k - 1) + 1 = k
    BY <2>1, SMT DEF len
  <2>3. k - 1 \notin T
    BY <1>2, <2>2, Zenon
  <2> QED
    BY <2>2, <2>3, Zenon
<1>4. Leads(s, x, n)
  BY <1>2, <1>3, Zenon DEF Leads
<1>5. LeadingCount(s, x) = CHOOSE m \in 0 .. Len(s) : (\A k \in 1 .. m : s[k] = x) /\ (m < Len(s) => s[m + 1] # x)
  BY Zenon DEF LeadingCount
<1> QED
  BY <1>4, <1>5, Zenon DEF Leads

LEMMA LeadsOnce ==
  ASSUME NEW s, NEW x, Len(s) \in Nat, NEW m, NEW n, Leads(s, x, m), Leads(s, x, n)
  PROVE  m = n
<1> DEFINE len == Len(s)
<1>1. m \in 0 .. len /\ n \in 0 .. len
  BY Zenon DEF Leads
<1>2. ASSUME NEW a \in 0 .. len, NEW b \in 0 .. len, a < b, Leads(s, x, a), Leads(s, x, b)
      PROVE  FALSE
  <2> HIDE DEF len
  <2>1. a + 1 \in 1 .. b /\ a < len
    BY <1>2, SMT DEF len
  <2> QED
    BY <2>1, <1>2, Zenon DEF Leads, len
<1>3. ~(m < n) /\ ~(n < m)
  <2> HIDE DEF len
  <2> QED
    BY <1>1, <1>2, Zenon
<1> QED
  BY <1>1, <1>3, SMT

LEMMA LeadingCountOnly ==
  ASSUME NEW s, NEW x, Len(s) \in Nat, NEW n, Leads(s, x, n)
  PROVE  LeadingCount(s, x) = n
<1>1. Leads(s, x, LeadingCount(s, x))
  BY LeadingCountIs
<1> QED
  BY <1>1, LeadsOnce, Zenon
-----------------------------------------------------------------------------
(* The size of the scratch buffer.                                         *)

BufSize(n) == (n * 138) \div 100 + 1

LEMMA BufSizeIs ==
  ASSUME NEW n \in Nat
  PROVE  /\ BufSize(n) \in Nat \ {0} /\ BufSize(n) + 1 <= BufSize(n + 1)
         /\ BufSize(n) + 11 <= BufSize(n + 8)
BY SMT DEF BufSize

(* Eight bytes fit into eleven digits. *)
LEMMA EightBytes == Power(Byte, 8) <= Power(Base, 11)
<1>1. ASSUME NEW b \in Nat
      PROVE  /\ Power(b, 1) = b /\ Power(b, 2) = b * b /\ Power(b, 3) = b * (b * b)
  <2>1. Power(b, 0) = 1 /\ Power(b, 0 + 1) = b * Power(b, 0)
    BY PowerIs
  <2>2. Power(b, 1 + 1) = b * Power(b, 1) /\ Power(b, 2 + 1) = b * Power(b, 2)
    BY PowerIs
  <2>3. 0 + 1 = 1 /\ 1 + 1 = 2 /\ 2 + 1 = 3 /\ b * 1 = b
    BY SMT
  <2> QED
    BY <2>1, <2>2, <2>3, Zenon
<1> DEFINE a == Power(Byte, 2)
<1> DEFINE c == Power(Byte, 4)
<1> DEFINE d == Power(Base, 2)
<1> DEFINE e == Power(Base, 3)
<1>2. Byte \in Nat /\ Base \in Nat /\ 2 \in Nat /\ 3 \in Nat
  BY SMT DEF Byte, Base
<1>3. a = Byte * Byte /\ d = Base * Base /\ e = Base * (Base * Base)
  BY <1>1, <1>2, Zenon
<1>4. c = a * a
  <2>1. Power(Byte, 2 + 2) = a * a
    BY <1>2, PowerSum, Zenon
  <2>2. 2 + 2 = 4
    BY SMT
  <2> QED
    BY <2>1, <2>2, Zenon
<1>5. Power(Byte, 8) = c * c
  <2>1. 4 \in Nat /\ 4 + 4 = 8
    BY SMT
  <2>2. Power(Byte, 4 + 4) = c * c
    BY <1>2, <2>1, PowerSum, Zenon
  <2> QED
    BY <2>1, <2>2, Zenon
<1>6. Power(Base, 11) = (e * e) * (e * d)
  <2>1. 5 \in Nat /\ 6 \in Nat /\ 3 + 3 = 6 /\ 3 + 2 = 5 /\ 6 + 5 = 11
    BY SMT
  <2>2. Power(Base, 3 + 3) = e * e
    BY <1>2, PowerSum, Zenon
  <2>3. Power(Base, 3 + 2) = e * d
    BY <1>2, PowerSum, Zenon
  <2>4. Power(Base, 6 + 5) = Power(Base, 6) * Power(Base, 5)
    BY <1>2, <2>1, PowerSum, Zenon
  <2> QED
    BY <2>1, <2>2, <2>3, <2>4, Zenon
<1> HIDE DEF a, c, d, e
<1>7. a = 65536 /\ d = 3364 /\ e = 195112
  BY <1>3, SMT DEF Byte, Base
<1>8. c = 4294967296 /\ e * e = 38068692544 /\ e * d = 656356768
  BY <1>4, <1>7, SMT
<1>9. c * c <= (e * e) * (e * d)
  BY <1>8, SMT
<1> QED
  BY <1>5, <1>6, <1>9, Zenon

(* The size is enough for fewer than eight bytes. *)
LEMMA FewBytes ==
  ASSUME NEW n \in 0 .. 7
  PROVE  Power(Byte, n) <= Power(Base, BufSize(n))
<1>0. Byte \in Nat /\ Base \in Nat
  BY SMT DEF Byte, Base
<1>1. \A k \in Nat : Power(Byte, k + 1) = Byte * Power(Byte, k)
  BY <1>0, PowerIs, Zenon
<1>2. \A k \in Nat : Power(Base, k + 1) = Base * Power(Base, k)
  BY <1>0, PowerIs, Zenon
<1>3. Power(Byte, 0) = 1 /\ Power(Base, 0) = 1
  BY <1>0, PowerIs, SMT
<1>a1. Power(Byte, 1) = 256
  <2>1. Power(Byte, 0 + 1) = Byte * Power(Byte, 0)
    BY <1>1, SMT
  <2> QED
    BY <1>3, <2>1, SMT DEF Byte
<1>a2. Power(Byte, 2) = 65536
  <2>1. Power(Byte, 1 + 1) = Byte * Power(Byte, 1)
    BY <1>1, SMT
  <2> QED
    BY <1>a1, <2>1, SMT DEF Byte
<1>a3. Power(Byte, 3) = 16777216
  <2>1. Power(Byte, 2 + 1) = Byte * Power(Byte, 2)
    BY <1>1, SMT
  <2> QED
    BY <1>a2, <2>1, SMT DEF Byte
<1>a4. Power(Byte, 4) = 4294967296
  <2>1. Power(Byte, 3 + 1) = Byte * Power(Byte, 3)
    BY <1>1, SMT
  <2> QED
    BY <1>a3, <2>1, SMT DEF Byte
<1>a5. Power(Byte, 5) = 1099511627776
  <2>1. Power(Byte, 4 + 1) = Byte * Power(Byte, 4)
    BY <1>1, SMT
  <2> QED
    BY <1>a4, <2>1, SMT DEF Byte
<1>a6. Power(Byte, 6) = 281474976710656
  <2>1. Power(Byte, 5 + 1) = Byte * Power(Byte, 5)
    BY <1>1, SMT
  <2> QED
    BY <1>a5, <2>1, SMT DEF Byte
<1>a7. Power(Byte, 7) = 72057594037927936
  <2>1. Power(Byte, 6 + 1) = Byte * Power(Byte, 6)
    BY <1>1, SMT
  <2> QED
    BY <1>a6, <2>1, SMT DEF Byte
<1>d1. Power(Base, 1) = 58
  <2>1. Power(Base, 0 + 1) = Base * Power(Base, 0)
    BY <1>2, SMT
  <2> QED
    BY <1>3, <2>1, SMT DEF Base
<1>d2. Power(Base, 2) = 3364
  <2>1. Power(Base, 1 + 1) = Base * Power(Base, 1)
    BY <1>2, SMT
  <2> QED
    BY <1>d1, <2>1, SMT DEF Base
<1>d3. Power(Base, 3) = 195112
  <2>1. Power(Base, 2 + 1) = Base * Power(Base, 2)
    BY <1>2, SMT
  <2> QED
    BY <1>d2, <2>1, SMT DEF Base
<1>d4. Power(Base, 4) = 11316496
  <2>1. Power(Base, 3 + 1) = Base * Power(Base, 3)
    BY <1>2, SMT
  <2> QED
    BY <1>d3, <2>1, SMT DEF Base
<1>d5. Power(Base, 5) = 656356768
  <2>1. Power(Base, 4 + 1) = Base * Power(Base, 4)
    BY <1>2, SMT
  <2> QED
    BY <1>d4, <2>1, SMT DEF Base
<1>d6. Power(Base, 6) = 38068692544
  <2>1. Power(Base, 5 + 1) = Base * Power(Base, 5)
    BY <1>2, SMT
  <2> QED
    BY <1>d5, <2>1, SMT DEF Base
<1>d7. Power(Base, 7) = 2207984167552
  <2>1. Power(Base, 6 + 1) = Base * Power(Base, 6)
    BY <1>2, SMT
  <2> QED
    BY <1>d6, <2>1, SMT DEF Base
<1>d8. Power(Base, 8) = 128063081718016
  <2>1. Power(Base, 7 + 1) = Base * Power(Base, 7)
    BY <1>2, SMT
  <2> QED
    BY <1>d7, <2>1, SMT DEF Base
<1>d9. Power(Base, 9) = 7427658739644928
  <2>1. Power(Base, 8 + 1) = Base * Power(Base, 8)
    BY <1>2, SMT
  <2> QED
    BY <1>d8, <2>1, SMT DEF Base
<1>d10. Power(Base, 10) = 430804206899405824
  <2>1. Power(Base, 9 + 1) = Base * Power(Base, 9)
    BY <1>2, SMT
  <2> QED
    BY <1>d9, <2>1, SMT DEF Base
<1>c0. CASE n = 0
  <2>1. BufSize(n) = 1
    BY <1>c0, SMT DEF BufSize
  <2> QED
    BY <1>c0, <2>1, <1>3, <1>d1, SMT
<1>c1. CASE n = 1
  <2>1. BufSize(n) = 2
    BY <1>c1, SMT DEF BufSize
  <2> QED
    BY <1>c1, <2>1, <1>a1, <1>d2, SMT
<1>c2. CASE n = 2
  <2>1. BufSize(n) = 3
    BY <1>c2, SMT DEF BufSize
  <2> QED
    BY <1>c2, <2>1, <1>a2, <1>d3, SMT
<1>c3. CASE n = 3
  <2>1. BufSize(n) = 5
    BY <1>c3, SMT DEF BufSize
  <2> QED
    BY <1>c3, <2>1, <1>a3, <1>d5, SMT
<1>c4. CASE n = 4
  <2>1. BufSize(n) = 6
    BY <1>c4, SMT DEF BufSize
  <2> QED
    BY <1>c4, <2>1, <1>a4, <1>d6, SMT
<1>c5. CASE n = 5
  <2>1. BufSize(n) = 7
    BY <1>c5, SMT DEF BufSize
  <2> QED
    BY <1>c5, <2>1, <1>a5, <1>d7, SMT
<1>c6. CASE n = 6
  <2>1. BufSize(n) = 9
    BY <1>c6, SMT DEF BufSize
  <2> QED
    BY <1>c6, <2>1, <1>a6, <1>d9, SMT
<1>c7. CASE n = 7
  <2>1. BufSize(n) = 10
    BY <1>c7, SMT DEF BufSize
  <2> QED
    BY <1>c7, <2>1, <1>a7, <1>d10, SMT
<1>4. n = 0 \/ n = 1 \/ n = 2 \/ n = 3 \/ n = 4 \/ n = 5 \/ n = 6 \/ n = 7
  BY SMT
<1> QED
  BY <1>4, <1>c0, <1>c1, <1>c2, <1>c3, <1>c4, <1>c5, <1>c6, <1>c7, Zenon

(* It is always enough: eight bytes more have eleven cells more. *)
LEMMA SizeIsEnough ==
  ASSUME NEW n \in Nat
  PROVE  Power(Byte, n) <= Power(Base, BufSize(n))
<1> DEFINE T == {k \in Nat : ~(Power(Byte, k) <= Power(Base, BufSize(k)))}
<1> SUFFICES ASSUME T # {} PROVE FALSE
  BY Zenon
<1>1. PICK k \in T : \A m \in T : ~(m < k)
  <2>1. T \subseteq Nat
    BY Zenon
  <2> HIDE DEF T
  <2> QED
    BY <2>1, LeastNumber
<1>2. k \in Nat /\ ~(Power(Byte, k) <= Power(Base, BufSize(k)))
  BY <1>1, Zenon
<1>3. CASE k <= 7
  <2>1. k \in 0 .. 7
    BY <1>2, <1>3, SMT
  <2> QED
    BY <1>2, <2>1, FewBytes, SMT
<1>4. CASE ~(k <= 7)
  <2> DEFINE m == k - 8
  <2>1. m \in Nat /\ m < k /\ m + 8 = k /\ 8 \in Nat /\ 11 \in Nat
    BY <1>2, <1>4, SMT
  <2> HIDE DEF m
  <2>2. Power(Byte, m) <= Power(Base, BufSize(m))
    BY <1>1, <2>1, Zenon
  <2>0. Byte \in Nat /\ Base \in Nat /\ Byte \in Nat \ {0} /\ Base \in Nat \ {0}
    BY SMT DEF Byte, Base
  <2>3. BufSize(m) \in Nat /\ BufSize(m) + 11 \in Nat /\ BufSize(k) \in Nat /\ BufSize(m) + 11 <= BufSize(k)
    <3>1. BufSize(m + 8) = BufSize(k)
      BY <2>1, Zenon
    <3>2. BufSize(m) \in Nat \ {0} /\ BufSize(m) + 11 <= BufSize(m + 8)
      BY <2>1, BufSizeIs
    <3>3. BufSize(k) \in Nat \ {0}
      BY <1>2, BufSizeIs
    <3> QED
      BY <3>1, <3>2, <3>3, SMT
  <2> DEFINE p == Power(Byte, m)
  <2> DEFINE q == Power(Base, BufSize(m))
  <2> DEFINE p8 == Power(Byte, 8)
  <2> DEFINE q11 == Power(Base, 11)
  <2>4. Power(Byte, m + 8) = p * p8
    BY <2>0, <2>1, PowerSum, Zenon
  <2>5. Power(Base, BufSize(m) + 11) = q * q11
    BY <2>0, <2>1, <2>3, PowerSum, Zenon
  <2>6. Power(Base, BufSize(m) + 11) <= Power(Base, BufSize(k))
    <3> DEFINE a == BufSize(m) + 11
    <3> DEFINE c == BufSize(k)
    <3>1. a \in Nat /\ c \in Nat /\ a <= c
      BY <2>3, Zenon
    <3> HIDE DEF a, c
    <3>2. Power(Base, a) <= Power(Base, c)
      BY <2>0, <3>1, PowerGrows, Zenon
    <3> QED
      BY <3>2, Zenon DEF a, c
  <2>7. p \in Nat /\ q \in Nat /\ p8 \in Nat /\ q11 \in Nat
    BY <2>0, <2>1, <2>3, PowerIs, Zenon
  <2>8. p8 <= q11
    BY EightBytes, Zenon
  <2>9. Power(Base, BufSize(k)) \in Nat
    BY <2>0, <2>3, PowerIs, Zenon
  <2>10. p <= q
    BY <2>2, Zenon
  <2> HIDE DEF p, q, p8, q11
  <2>11. p * p8 <= q * q11
    <3>1. p * p8 <= q * p8
      BY <2>7, <2>10, SMT
    <3>2. q * p8 <= q * q11
      BY <2>7, <2>8, SMT
    <3>3. p * p8 \in Nat /\ q * p8 \in Nat /\ q * q11 \in Nat
      BY <2>7, SMT
    <3> QED
      BY <3>1, <3>2, <3>3, SMT
  <2> DEFINE x == p * p8
  <2> DEFINE y == q * q11
  <2> DEFINE z == Power(Base, BufSize(k))
  <2>12. x \in Nat /\ y \in Nat /\ z \in Nat
    BY <2>7, <2>9, SMT
  <2>13. x <= y /\ y <= z
    BY <2>5, <2>6, <2>11, Zenon
  <2>14. ~(x <= z)
    BY <1>2, <2>1, <2>4, Zenon
  <2> HIDE DEF x, y, z
  <2> QED
    BY <2>12, <2>13, <2>14, SMT
<1> QED
  BY <1>3, <1>4
-----------------------------------------------------------------------------
(* One byte more in the scratch buffer.                                    *)

(* What is known of the scratch buffer between two bytes: its digits, and  *)
(* that the cells up to the high mark are still zero.                      *)
Cells(buf, size) == buf \in [1 .. size -> 0 .. Base - 1]
Mark(buf, high, size) == high \in 0 .. size - 1 /\ Zeros(buf, high + 1)

LEMMA CellsAre ==
  ASSUME NEW size \in Nat, NEW buf, Cells(buf, size)
  PROVE  Len(buf) = size /\ Digits(buf, Base, size) /\ Numbers(buf, size)
<1>1. Len(buf) = size
  BY ArrayIsSeq, Zenon DEF Cells
<1>2. Digits(buf, Base, size)
  BY Zenon DEF Cells, Digits
<1>3. Base \in Nat
  BY SMT DEF Base
<1> QED
  BY <1>1, <1>2, <1>3, DigitsAreNumbers, Zenon

(* Where the inner loop stops. *)
Turns(buf, carry, high, size, k) ==
  /\ k \in 0 .. size
  /\ k < size => ~(size - 1 - k > high) /\ carry[k] = 0

(* Once the carry is used up it stays so over cells that are zero. *)
LEMMA CarryUsedUp ==
  ASSUME NEW size \in Nat, NEW buf, NEW carry, NEW c, NEW high, Mark(buf, high, size),
         IsCarries(carry, buf, Base, Byte, c, size), NEW t \in 0 .. size, t < size,
         Turns(buf, carry, high, size, t)
  PROVE  \A k \in t .. size : carry[k] = 0
<1>1. high \in 0 .. size - 1 /\ Zeros(buf, high + 1)
  BY Zenon DEF Mark
<1>2. size - 1 - t <= high /\ carry[t] = 0
  <2>1. ~(size - 1 - t > high) /\ carry[t] = 0
    BY Zenon DEF Turns
  <2> QED
    BY <2>1, <1>1, SMT
<1> DEFINE S == {m \in 0 .. size - t : carry[t + m] = 0}
<1>3. 0 \in S
  <2>1. t + 0 = t /\ 0 \in 0 .. size - t
    BY SMT
  <2> QED
    BY <1>2, <2>1, Zenon
<1>4. ASSUME NEW m \in 1 .. size - t, m - 1 \in S PROVE m \in S
  <2> DEFINE k == t + m
  <2>1. /\ k \in 1 .. size /\ k - 1 = t + (m - 1) /\ m \in 0 .. size - t
        /\ size - k + 1 \in 1 .. high + 1
    BY <1>1, <1>2, SMT
  <2>2. carry[k] = (carry[k - 1] + Byte * buf[size - k + 1]) \div Base
    BY <2>1, Zenon DEF IsCarries
  <2>3. carry[k - 1] = 0
    BY <2>1, <1>4, Zenon
  <2>4. buf[size - k + 1] = 0
    BY <1>1, <2>1, Zenon DEF Zeros
  <2>5. (0 + Byte * 0) \div Base = 0
    BY SMT DEF Byte, Base
  <2>6. carry[k] = 0
    BY <2>2, <2>3, <2>4, <2>5, Zenon
  <2> QED
    BY <2>1, <2>6, Zenon
<1>5. 0 .. size - t \subseteq S
  <2>1. size - t \in Nat
    BY SMT
  <2> HIDE DEF S
  <2> QED
    BY <1>3, <1>4, <2>1, Upwards
<1>6. ASSUME NEW k \in t .. size PROVE carry[k] = 0
  <2>1. k - t \in 0 .. size - t /\ t + (k - t) = k
    BY SMT
  <2> QED
    BY <1>5, <2>1, Zenon
<1> QED
  BY <1>6

(* The loop that stops there does as much as one over all the cells. *)
LEMMA EarlyStop ==
  ASSUME NEW size \in Nat, NEW buf, Cells(buf, size), NEW carry, NEW c, NEW high, Mark(buf, high, size),
         IsCarries(carry, buf, Base, Byte, c, size), NEW t \in 0 .. size,
         Turns(buf, carry, high, size, t)
  PROVE  /\ IsScaled(Scaled(buf, Base, Byte, carry, t), carry, buf, Base, Byte, size)
         /\ t < size => Zeros(Scaled(buf, Base, Byte, carry, t), size - t)
<1>0. Len(buf) = size
  BY CellsAre
<1> DEFINE y == Scaled(buf, Base, Byte, carry, t)
<1>1. y = [j \in 1 .. size |-> IF j > size - t THEN (carry[size - j] + Byte * buf[j]) % Base
                               ELSE buf[j]]
  BY <1>0, Zenon DEF Scaled
<1> HIDE DEF y
<1>2. ASSUME NEW j \in 1 .. size, ~(j > size - t)
      PROVE  y[j] = 0 /\ (carry[size - j] + Byte * buf[j]) % Base = 0
  <2>1. t < size /\ size - j \in t .. size
    BY <1>2, SMT
  <2>2. high \in 0 .. size - 1 /\ Zeros(buf, high + 1)
    BY Zenon DEF Mark
  <2>3. ~(size - 1 - t > high)
    BY <2>1, Zenon DEF Turns
  <2>4. j \in 1 .. high + 1
    BY <1>2, <2>2, <2>3, SMT
  <2>5. buf[j] = 0
    BY <2>2, <2>4, Zenon DEF Zeros
  <2>6. carry[size - j] = 0
    BY <2>1, CarryUsedUp, SMT
  <2>7. (0 + Byte * 0) % Base = 0
    BY SMT DEF Byte, Base
  <2>8. y[j] = buf[j]
    BY <1>1, <1>2, Zenon
  <2> QED
    BY <2>5, <2>6, <2>7, <2>8, Zenon
<1>3. ASSUME NEW j \in 1 .. size PROVE y[j] = (carry[size - j] + Byte * buf[j]) % Base
  <2>1. CASE j > size - t
    BY <1>1, <2>1, Zenon
  <2>2. CASE ~(j > size - t)
    BY <1>2, <2>2, Zenon
  <2> QED
    BY <2>1, <2>2
<1>4. IsScaled(y, carry, buf, Base, Byte, size)
  BY <1>3, Zenon DEF IsScaled
<1>5. ASSUME t < size PROVE Zeros(y, size - t)
  <2>1. ASSUME NEW j \in 1 .. size - t PROVE y[j] = 0
    <3>1. j \in 1 .. size /\ ~(j > size - t)
      BY SMT
    <3> QED
      BY <3>1, <1>2, Zenon
  <2> QED
    BY <2>1, Zenon DEF Zeros
<1> QED
  BY <1>4, <1>5, Zenon DEF y

(* Carry over a buffer of a size. *)
SizedCarry(buf, byte, high, size) ==
  LET carry == Carries(buf, Base, Byte, byte)
      Goes(k) == size - 1 - k > high \/ carry[k] # 0
      turns == CHOOSE k \in 0 .. size : /\ k < size => ~Goes(k)
                                        /\ \A m \in 0 .. k - 1 : Goes(m)
  IN  [buf  |-> Scaled(buf, Base, Byte, carry, turns),
       high |-> IF turns = size THEN 0 ELSE size - 1 - turns]

(* The buffer after a byte. *)
TookByte(r, buf, byte, size) ==
  /\ Cells(r.buf, size) /\ r.high \in 0 .. size - 1
  /\ Val(r.buf, Base, size) = Byte * Val(buf, Base, size) + byte
  /\ r.buf[1] = 0 => Mark(r.buf, r.high, size)

LEMMA CarryTakesByte ==
  ASSUME NEW size \in Nat \ {0}, NEW buf, NEW high, Cells(buf, size), Mark(buf, high, size),
         NEW byte \in 0 .. Byte - 1, Byte * Val(buf, Base, size) + byte < Power(Base, size)
  PROVE  TookByte(Carry(buf, byte, high), buf, byte, size)
<1>0. /\ size \in Nat /\ Base \in Nat \ {0} /\ Base \in Nat /\ Byte \in Nat /\ byte \in Nat
      /\ size \in 0 .. size
  BY SMT DEF Base, Byte
<1>1. Len(buf) = size /\ Digits(buf, Base, size) /\ Numbers(buf, size)
  BY <1>0, CellsAre
<1> DEFINE carry == Carries(buf, Base, Byte, byte)
<1>2. IsCarries(carry, buf, Base, Byte, byte, size)
  BY <1>0, <1>1, CarriesAre
<1> HIDE DEF carry
<1> DEFINE Goes(k) == size - 1 - k > high \/ carry[k] # 0
<1> DEFINE Stops(k) == (k < size => ~Goes(k)) /\ \A m \in 0 .. k - 1 : Goes(m)
<1> DEFINE turns == CHOOSE k \in 0 .. size : Stops(k)
<1>3. \E k \in 0 .. size : Stops(k)
  <2> DEFINE T == {k \in 0 .. size : k < size => ~Goes(k)}
  <2>1. T \subseteq Nat /\ T # {}
    <3>1. \A k \in 0 .. size : k \in Nat
      BY SMT
    <3>2. ~(size < size)
      BY <1>0, SMT
    <3>3. size \in T
      BY <1>0, <3>2, Zenon
    <3> QED
      BY <3>1, <3>3, Zenon
  <2>2. PICK k \in T : \A m \in T : ~(m < k)
    <3> HIDE DEF T
    <3> QED
      BY <2>1, LeastNumber
  <2>3. ASSUME NEW m \in 0 .. k - 1 PROVE Goes(m)
    <3>1. k \in 0 .. size
      BY <2>2, Zenon
    <3>2. m \in 0 .. size /\ m < k
      BY <1>0, <3>1, SMT
    <3> QED
      BY <2>2, <3>2, Zenon
  <2> QED
    BY <2>2, <2>3, Zenon
<1>4. turns \in 0 .. size /\ Stops(turns)
  BY <1>3, Zenon
<1>5. Carry(buf, byte, high) =
        [buf  |-> Scaled(buf, Base, Byte, carry, turns),
         high |-> IF turns = size THEN 0 ELSE size - 1 - turns]
  <2>1. Carry(buf, byte, high) = SizedCarry(buf, byte, high, Len(buf))
    BY Zenon DEF Carry, SizedCarry
  <2>2. Carry(buf, byte, high) = SizedCarry(buf, byte, high, size)
    BY <2>1, <1>1, Zenon
  <2> QED
    BY <2>2, Zenon DEF SizedCarry, carry
<1> HIDE DEF turns
<1> DEFINE y == Scaled(buf, Base, Byte, carry, turns)
<1> DEFINE h == IF turns = size THEN 0 ELSE size - 1 - turns
<1>6. Turns(buf, carry, high, size, turns)
  BY <1>4, Zenon DEF Turns
<1> HIDE DEF Stops, Goes
<1>7. IsScaled(y, carry, buf, Base, Byte, size) /\ (turns < size => Zeros(y, size - turns))
  BY <1>0, <1>2, <1>4, <1>6, EarlyStop, SMT
<1>8. Digits(y, Base, size) /\ Val(y, Base, size) = Byte * Val(buf, Base, size) + byte
  <2>1. /\ Digits(y, Base, size)
        /\ carry[size] = 0 => Val(y, Base, size) = Byte * Val(buf, Base, size) + byte
        /\ carry[size] # 0 => Power(Base, size) <= Byte * Val(buf, Base, size) + byte
    <3> HIDE DEF y
    <3> QED
      BY <1>0, <1>1, <1>2, <1>7, ScaledValue
  <2> DEFINE v == Byte * Val(buf, Base, size) + byte
  <2> DEFINE p == Power(Base, size)
  <2>2. v \in Nat /\ p \in Nat
    <3>1. Val(buf, Base, size) \in Nat
      BY <1>0, <1>1, ValIs, Zenon
    <3>2. v \in Nat
      BY <3>1, SMT DEF Byte
    <3>3. p \in Nat
      BY <1>0, PowerIs
    <3> QED
      BY <3>2, <3>3, Zenon
  <2>3. v < p
    BY Zenon
  <2> HIDE DEF v, p
  <2>4. ~(p <= v)
    BY <2>2, <2>3, SMT
  <2>5. carry[size] = 0
    BY <2>1, <2>4, Zenon DEF v, p
  <2> QED
    BY <2>1, <2>5, Zenon
<1>9. Cells(y, size)
  <2>1. y = [j \in 1 .. size |-> y[j]]
    BY <1>1, Zenon DEF Scaled
  <2> HIDE DEF y
  <2> QED
    BY <2>1, <1>8, Zenon DEF Cells, Digits
<1>10. h \in 0 .. size - 1
  BY <1>0, <1>4, SMT
<1>11. ASSUME y[1] = 0 PROVE Zeros(y, h + 1)
  <2> HIDE DEF y
  <2>1. CASE turns = size
    <3>1. h + 1 = 1
      BY <2>1, SMT
    <3>2. \A k \in 1 .. 1 : k = 1
      BY SMT
    <3> HIDE DEF h
    <3> QED
      BY <3>1, <3>2, <1>11, Zenon DEF Zeros
  <2>2. CASE turns # size
    <3>1. turns < size /\ h + 1 = size - turns
      BY <1>0, <1>4, <2>2, SMT
    <3> HIDE DEF h
    <3> QED
      BY <1>7, <3>1, Zenon
  <2> QED
    BY <2>1, <2>2
<1> DEFINE r == Carry(buf, byte, high)
<1>12. r.buf = y /\ r.high = h
  BY <1>5
<1> HIDE DEF r, y, h
<1>13. TookByte(r, buf, byte, size)
  BY <1>8, <1>9, <1>10, <1>11, <1>12, Zenon DEF TookByte, Mark
<1> QED
  BY <1>13, Zenon DEF r
-----------------------------------------------------------------------------
(* The encoder's loop over the bytes.                                      *)

Bytes(data, n) == data \in [1 .. n -> 0 .. Byte - 1]

LEMMA BytesAre ==
  ASSUME NEW n \in Nat, NEW data, Bytes(data, n)
  PROVE  Len(data) = n /\ Digits(data, Byte, n) /\ Numbers(data, n)
<1>1. Len(data) = n
  BY ArrayIsSeq, Zenon DEF Bytes
<1>2. Digits(data, Byte, n)
  BY Zenon DEF Bytes, Digits
<1>3. Byte \in Nat
  BY SMT DEF Byte
<1> QED
  BY <1>1, <1>2, <1>3, DigitsAreNumbers, Zenon

(* The bytes read so far hold less than those without the leading zeros    *)
(* can.                                                                    *)
LEMMA PrefixBound ==
  ASSUME NEW n \in Nat, NEW data, Digits(data, Byte, n), NEW z \in Nat, NEW m \in Nat, z + m <= n,
         Zeros(data, z)
  PROVE  Val(data, Byte, z + m) < Power(Byte, m)
<1>0. Byte \in Nat \ {0} /\ Byte \in Nat
  BY SMT DEF Byte
<1> DEFINE y == [k \in 1 .. m |-> data[z + k]]
<1>1. Digits(y, Byte, m)
  <2>1. ASSUME NEW k \in 1 .. m PROVE y[k] \in 0 .. Byte - 1
    <3>1. z + k \in 1 .. n
      BY SMT
    <3> QED
      BY <3>1, Zenon DEF Digits
  <2> HIDE DEF y
  <2> QED
    BY <2>1, Zenon DEF Digits
<1>2. \A k \in 1 .. m : data[z + k] = y[k]
  BY Zenon
<1> HIDE DEF y
<1>3. Numbers(y, m)
  BY <1>0, <1>1, DigitsAreNumbers
<1>4. Val(data, Byte, z + m) = Val(y, Byte, m)
  BY <1>0, <1>2, <1>3, ValSkip
<1>5. Val(y, Byte, m) < Power(Byte, m)
  BY <1>0, <1>1, ValBound
<1> QED
  BY <1>4, <1>5, Zenon

(* Between two bytes the scratch buffer holds the number of the bytes read *)
(* so far.                                                                 *)
Scratch(st, data, n, z, at) ==
  LET size == BufSize(n - z)
  IN  /\ at \in z .. n
      /\ Cells(st.buf, size) /\ st.high \in 0 .. size - 1
      /\ Val(st.buf, Base, size) = Val(data, Byte, at)
      /\ at < n => Mark(st.buf, st.high, size)

LEMMA ScratchStarts ==
  ASSUME NEW n \in Nat, NEW data, Bytes(data, n)
  PROVE  Scratch(EncStart(data), data, n, LeadingCount(data, 0), LeadingCount(data, 0))
<1>1. Len(data) = n /\ Digits(data, Byte, n) /\ Numbers(data, n)
  BY BytesAre
<1> DEFINE z == LeadingCount(data, 0)
<1>2. Leads(data, 0, z)
  BY <1>1, LeadingCountIs
<1>3. z \in 0 .. n /\ Zeros(data, z)
  BY <1>1, <1>2, Zenon DEF Leads, Zeros
<1> DEFINE size == BufSize(n - z)
<1>4. EncSize(data) = size
  BY <1>1, Zenon DEF EncSize, BufSize
<1> HIDE DEF z
<1>5. n - z \in Nat /\ z \in Nat /\ z \in z .. n
  BY <1>3, SMT
<1>6. size \in Nat \ {0}
  BY <1>5, BufSizeIs
<1> HIDE DEF size
<1> DEFINE st == EncStart(data)
<1>7. st.buf = [k \in 1 .. size |-> 0] /\ st.high = size - 1
  BY <1>4, Zenon DEF EncStart
<1> HIDE DEF st
<1>8. Zeros(st.buf, size) /\ Cells(st.buf, size)
  <2>1. 0 \in 0 .. Base - 1
    BY SMT DEF Base
  <2> QED
    BY <1>7, <2>1, Zenon DEF Zeros, Cells
<1>9. Val(st.buf, Base, size) = 0
  <2>1. Base \in Nat \ {0} /\ size \in Nat
    BY <1>6, SMT DEF Base
  <2> QED
    BY <1>8, <2>1, ValZero
<1>10. Val(data, Byte, z) = 0
  <2>1. Byte \in Nat \ {0}
    BY SMT DEF Byte
  <2> QED
    BY <1>3, <1>5, <2>1, ValZero
<1>11. size - 1 \in 0 .. size - 1 /\ (size - 1) + 1 = size
  BY <1>6, SMT
<1>12. Scratch(st, data, n, z, z)
  BY <1>5, <1>7, <1>8, <1>9, <1>10, <1>11, Zenon DEF Scratch, Mark, size
<1> QED
  BY <1>12, Zenon DEF st, z

LEMMA ScratchTakesByte ==
  ASSUME NEW n \in Nat, NEW data, Bytes(data, n), NEW z \in 0 .. n, Zeros(data, z), NEW st, NEW at,
         Scratch(st, data, n, z, at), at < n
  PROVE  Scratch(EncByte(st, data[at + 1]), data, n, z, at + 1)
<1>0. /\ Base \in Nat \ {0} /\ Base \in Nat /\ Byte \in Nat \ {0} /\ Byte \in Nat
      /\ n - z \in Nat /\ z \in Nat
  BY SMT DEF Base, Byte
<1>1. Digits(data, Byte, n) /\ Numbers(data, n)
  BY BytesAre
<1> DEFINE size == BufSize(n - z)
<1>2. size \in Nat \ {0}
  BY <1>0, BufSizeIs
<1>3. /\ at \in z .. n
      /\ Cells(st.buf, size) /\ Val(st.buf, Base, size) = Val(data, Byte, at)
      /\ Mark(st.buf, st.high, size)
  BY Zenon DEF Scratch
<1> HIDE DEF size
<1> DEFINE m == (at + 1) - z
<1>4. /\ at + 1 \in 1 .. n /\ (at + 1) - 1 = at /\ at + 1 \in z .. n
      /\ m \in Nat \ {0} /\ m \in Nat /\ z + m = at + 1 /\ z + m <= n /\ m <= n - z
  BY <1>0, <1>3, SMT
<1> DEFINE byte == data[at + 1]
<1>5. byte \in 0 .. Byte - 1
  BY <1>1, <1>4, Zenon DEF Digits
<1> DEFINE v == Val(data, Byte, at + 1)
<1>6. v = Byte * Val(data, Byte, at) + byte /\ v \in Nat
  <2>1. \A k \in 1 .. n : k \in 0 .. n
    BY SMT
  <2>2. /\ \A k \in 0 .. n : Val(data, Byte, k) \in Nat
        /\ \A k \in 1 .. n : Val(data, Byte, k) = Byte * Val(data, Byte, k - 1) + data[k]
    BY <1>0, <1>1, ValIs, SMT
  <2>3. Val(data, Byte, at + 1) = Byte * Val(data, Byte, (at + 1) - 1) + data[at + 1]
    BY <1>4, <2>2, Zenon
  <2>4. Val(data, Byte, at + 1) \in Nat
    BY <1>4, <2>1, <2>2, Zenon
  <2> QED
    BY <1>4, <2>3, <2>4, Zenon
<1>7. v < Power(Byte, m)
  <2> HIDE DEF m
  <2>1. Val(data, Byte, z + m) < Power(Byte, m)
    BY <1>0, <1>1, <1>4, PrefixBound
  <2> QED
    BY <1>4, <2>1, Zenon
<1>8. v < Power(Base, size)
  <2>1. Power(Byte, m) <= Power(Byte, n - z)
    <3> DEFINE d == n - z
    <3>1. d \in Nat /\ m <= d
      BY <1>0, <1>4, Zenon
    <3> HIDE DEF d, m
    <3>2. Power(Byte, m) <= Power(Byte, d)
      BY <1>0, <1>4, <3>1, PowerGrows
    <3> QED
      BY <3>2, Zenon DEF d
  <2>2. Power(Byte, n - z) <= Power(Base, size)
    BY <1>0, SizeIsEnough, Zenon DEF size
  <2>3. Power(Byte, m) \in Nat /\ Power(Byte, n - z) \in Nat /\ Power(Base, size) \in Nat
    <3>1. size \in Nat
      BY <1>2
    <3> HIDE DEF m
    <3> QED
      BY <1>0, <1>4, <3>1, PowerIs, Zenon
  <2> HIDE DEF m, v
  <2> QED
    BY <1>6, <1>7, <2>1, <2>2, <2>3, SMT
<1> DEFINE r == Carry(st.buf, byte, st.high)
<1>9. TookByte(r, st.buf, byte, size)
  <2> DEFINE buf == st.buf
  <2> DEFINE high == st.high
  <2>1. Byte * Val(buf, Base, size) + byte < Power(Base, size)
    BY <1>3, <1>6, <1>8, Zenon
  <2>2. Cells(buf, size) /\ Mark(buf, high, size)
    BY <1>3, Zenon
  <2> HIDE DEF buf, high, byte
  <2>3. TookByte(Carry(buf, byte, high), buf, byte, size)
    BY <1>2, <1>5, <2>1, <2>2, CarryTakesByte
  <2> QED
    BY <2>3, Zenon DEF buf, high
<1> HIDE DEF r
<1>10. Cells(r.buf, size) /\ r.high \in 0 .. size - 1 /\ Val(r.buf, Base, size) = v
  BY <1>3, <1>6, <1>9, Zenon DEF TookByte
<1>11. ASSUME at + 1 < n PROVE Mark(r.buf, r.high, size)
  <2> DEFINE d == (n - z) - 1
  <2>1. d \in Nat /\ d + 1 = n - z /\ m <= d
    BY <1>0, <1>4, <1>11, SMT
  <2> HIDE DEF m, v, d
  <2>2. Power(Byte, m) <= Power(Byte, d)
    BY <1>0, <1>4, <2>1, PowerGrows
  <2>3. Power(Byte, d) <= Power(Base, BufSize(d))
    BY <2>1, SizeIsEnough
  <2>4. BufSize(d) \in Nat /\ BufSize(d) + 1 <= size
    <3>1. BufSize(d) \in Nat \ {0} /\ BufSize(d) + 1 <= BufSize(d + 1)
      BY <2>1, BufSizeIs
    <3> QED
      BY <2>1, <3>1, Zenon DEF size
  <2> DEFINE s == size - 1
  <2>5. s \in Nat /\ s + 1 = size /\ BufSize(d) <= s
    BY <1>2, <2>4, SMT
  <2> HIDE DEF s
  <2>6. Power(Base, BufSize(d)) <= Power(Base, s)
    BY <1>0, <2>4, <2>5, PowerGrows
  <2>7. /\ Power(Byte, m) \in Nat /\ Power(Byte, d) \in Nat /\ Power(Base, BufSize(d)) \in Nat
        /\ Power(Base, s) \in Nat
    BY <1>0, <1>4, <2>1, <2>4, <2>5, PowerIs, Zenon
  <2>8. v < Power(Base, s)
    BY <1>6, <1>7, <2>2, <2>3, <2>6, <2>7, SMT
  <2>9. r.buf[1] = 0
    <3> DEFINE x == r.buf
    <3>1. Numbers(x, s + 1) /\ Digits(x, Base, s + 1)
      BY <1>2, <1>10, <2>5, CellsAre, Zenon
    <3>2. x[1] \in Nat
      <4>1. 1 \in 1 .. s + 1
        BY <2>5, SMT
      <4> QED
        BY <3>1, <4>1, Zenon DEF Numbers
    <3>3. ASSUME 1 <= x[1] PROVE FALSE
      <4>1. 1 \in Nat
        BY SMT
      <4> HIDE DEF x
      <4>2. 1 * Power(Base, s) <= Val(x, Base, s + 1)
        BY <1>0, <2>5, <3>1, <3>3, <4>1, ValLead
      <4>3. Val(x, Base, s + 1) = v
        BY <1>10, <2>5, Zenon DEF x
      <4>4. 1 * Power(Base, s) = Power(Base, s)
        BY <2>7, SMT
      <4>5. Power(Base, s) <= v
        BY <4>2, <4>3, <4>4, Zenon
      <4> QED
        BY <4>5, <1>6, <2>7, <2>8, SMT
    <3> HIDE DEF x
    <3>4. x[1] = 0
      BY <3>2, <3>3, SMT
    <3> QED
      BY <3>4, Zenon DEF x
  <2> QED
    BY <1>9, <2>9, Zenon DEF TookByte
<1>12. Scratch(r, data, n, z, at + 1)
  BY <1>4, <1>10, <1>11, Zenon DEF Scratch, size
<1> QED
  BY <1>12, Zenon DEF r, EncByte
-----------------------------------------------------------------------------
(* The characters.                                                         *)

LEMMA DigitChar ==
  ASSUME NEW d \in 0 .. Base - 1
  PROVE  /\ b58digits_ordered[d] \in 1 .. Byte - 1 /\ IsDigit(b58digits_ordered[d])
         /\ b58digits_map[b58digits_ordered[d]] = d
         /\ b58digits_ordered[d] = One <=> d = 0
<1> DEFINE c == b58digits_ordered[d]
<1>1. /\ d \in 0 .. 8 => c = 49 + d
      /\ d \in 9 .. 16 => c = 65 + d - 9
      /\ d \in 17 .. 21 => c = 74 + d - 17
      /\ d \in 22 .. 32 => c = 80 + d - 22
      /\ d \in 33 .. 43 => c = 97 + d - 33
      /\ d \in 44 .. 57 => c = 109 + d - 44
  BY SMTT(60) DEF b58digits_ordered, Base
<1>2. \/ d \in 0 .. 8 \/ d \in 9 .. 16 \/ d \in 17 .. 21 \/ d \in 22 .. 32 \/ d \in 33 .. 43
      \/ d \in 44 .. 57
  BY SMT DEF Base
<1> HIDE DEF c
<1>3. c \in 49 .. 122 /\ (c = One <=> d = 0)
  BY <1>1, <1>2, SMT DEF One
<1>4. b58digits_map[c] = d
  BY <1>1, <1>2, <1>3, SMTT(60) DEF b58digits_map
<1>5. c \in 1 .. Byte - 1 /\ c < 128 /\ d # -1
  BY <1>3, SMT DEF Byte, Base
<1> QED
  BY <1>3, <1>4, <1>5, Zenon DEF IsDigit, c

LEMMA DigitOf ==
  ASSUME NEW c \in 1 .. Byte - 1, IsDigit(c)
  PROVE  b58digits_map[c] \in 0 .. Base - 1 /\ (b58digits_map[c] = 0 <=> c = One)
<1>1. c \in 0 .. 127 /\ b58digits_map[c] # -1
  BY SMT DEF IsDigit
<1> DEFINE d == b58digits_map[c]
<1>2. /\ c \in 49 .. 57 => d = c - 49
      /\ c \in 65 .. 72 => d = c - 65 + 9
      /\ c \in 74 .. 78 => d = c - 74 + 17
      /\ c \in 80 .. 90 => d = c - 80 + 22
      /\ c \in 97 .. 107 => d = c - 97 + 33
      /\ c \in 109 .. 122 => d = c - 109 + 44
  BY <1>1, SMTT(60) DEF b58digits_map
<1>3. \/ c \in 49 .. 57 \/ c \in 65 .. 72 \/ c \in 74 .. 78 \/ c \in 80 .. 90 \/ c \in 97 .. 107
      \/ c \in 109 .. 122
  BY <1>1, SMTT(60) DEF b58digits_map
<1> HIDE DEF d
<1>4. d \in 0 .. Base - 1 /\ (d = 0 <=> c = One)
  BY <1>2, <1>3, SMTT(60) DEF Base, One
<1> QED
  BY <1>4, Zenon DEF d

LEMMA OneIsDigit == IsDigit(One) /\ b58digits_map[One] = 0 /\ One \in 1 .. Byte - 1
BY SMTT(60) DEF b58digits_map, One, IsDigit, Byte
-----------------------------------------------------------------------------
(* A string and its number.                                                *)

Chars == 1 .. Byte - 1
AllDigits(s, n) == \A k \in 1 .. n : IsDigit(s[k])
Marks(s, n) == [k \in 1 .. n |-> b58digits_map[s[k]]]

LEMMA MarksAre ==
  ASSUME NEW s \in Seq(Chars), NEW n \in 0 .. Len(s), AllDigits(s, n)
  PROVE  Marks(s, n) \in [1 .. n -> 0 .. Base - 1] /\ Digits(Marks(s, n), Base, n) /\ Numbers(Marks(s, n), n)
<1> DEFINE len == Len(s)
<1>1. len \in Nat /\ s \in [1 .. len -> Chars]
  BY LenProperties
<1>2. ASSUME NEW k \in 1 .. n PROVE b58digits_map[s[k]] \in 0 .. Base - 1
  <2>1. k \in 1 .. len
    <3> HIDE DEF len
    <3> QED
      BY <1>1, SMT DEF len
  <2>2. s[k] \in 1 .. Byte - 1
    BY <1>1, <2>1, Zenon DEF Chars
  <2>3. IsDigit(s[k])
    BY Zenon DEF AllDigits
  <2> DEFINE c == s[k]
  <2>4. c \in 1 .. Byte - 1 /\ IsDigit(c)
    BY <2>2, <2>3, Zenon
  <2> HIDE DEF c
  <2>5. b58digits_map[c] \in 0 .. Base - 1
    BY <2>4, DigitOf
  <2> QED
    BY <2>5, Zenon DEF c
<1>3. Marks(s, n) \in [1 .. n -> 0 .. Base - 1]
  BY <1>2, Zenon DEF Marks
<1>4. Digits(Marks(s, n), Base, n)
  BY <1>3, Zenon DEF Digits
<1>5. Base \in Nat
  BY SMT DEF Base
<1> QED
  BY <1>3, <1>4, <1>5, DigitsAreNumbers, Zenon

(* The string of some bytes: the '1's are the zeros in front, and the      *)
(* number is the same.                                                     *)
Encodes(s, data, n, z) ==
  /\ s \in Seq(Chars) /\ AllDigits(s, Len(s)) /\ Leads(s, One, z)
  /\ Val(Marks(s, Len(s)), Base, Len(s)) = Val(data, Byte, n)

(* z times '1', and then the digits of buf from j on. *)
LEMMA TextIs ==
  ASSUME NEW z \in Nat, NEW size \in Nat, NEW j \in 0 .. size, NEW buf, Cells(buf, size),
         Leads(buf, 0, j), NEW data, NEW n,
         Val(buf, Base, size) = Val(data, Byte, n)
  PROVE  Encodes([k \in 1 .. z |-> One] \o [k \in 1 .. size - j |-> b58digits_ordered[buf[j + k]]],
                 data, n, z)
<1> DEFINE m == size - j
<1> DEFINE ones == [k \in 1 .. z |-> One]
<1> DEFINE rest == [k \in 1 .. m |-> b58digits_ordered[buf[j + k]]]
<1> DEFINE s == ones \o rest
<1>0. m \in Nat /\ j \in Nat /\ j + m = size /\ Base \in Nat \ {0} /\ Base \in Nat
  BY SMT DEF Base
<1>1. Len(buf) = size /\ Digits(buf, Base, size) /\ Numbers(buf, size)
  BY CellsAre
<1>2. ASSUME NEW k \in 1 .. m
      PROVE  /\ buf[j + k] \in 0 .. Base - 1 /\ rest[k] = b58digits_ordered[buf[j + k]]
             /\ rest[k] \in Chars /\ IsDigit(rest[k]) /\ b58digits_map[rest[k]] = buf[j + k]
             /\ (rest[k] = One <=> buf[j + k] = 0)
  <2>1. j + k \in 1 .. size
    BY SMT
  <2> DEFINE d == buf[j + k]
  <2>2. d \in 0 .. Base - 1
    BY <1>1, <2>1, Zenon DEF Digits
  <2>3. rest[k] = b58digits_ordered[d]
    BY Zenon
  <2> HIDE DEF d, rest
  <2>4. /\ b58digits_ordered[d] \in 1 .. Byte - 1 /\ IsDigit(b58digits_ordered[d])
        /\ b58digits_map[b58digits_ordered[d]] = d
        /\ b58digits_ordered[d] = One <=> d = 0
    BY <2>2, DigitChar
  <2> QED
    BY <2>2, <2>3, <2>4, Zenon DEF d, Chars
<1>3. ones \in [1 .. z -> Chars] /\ rest \in [1 .. m -> Chars]
  <2>1. One \in Chars
    BY OneIsDigit, Zenon DEF Chars
  <2>2. \A k \in 1 .. m : rest[k] \in Chars
    BY <1>2, Zenon
  <2>3. rest = [k \in 1 .. m |-> rest[k]]
    BY Zenon
  <2> HIDE DEF rest
  <2> QED
    BY <2>1, <2>2, <2>3, Zenon
<1>4. \A k \in 1 .. z : ones[k] = One
  BY Zenon
<1> HIDE DEF ones, rest
<1>5. ones \in Seq(Chars) /\ Len(ones) = z
  BY <1>3, ArrayIsSeq
<1>6. rest \in Seq(Chars) /\ Len(rest) = m
  <2> HIDE DEF m
  <2> QED
    BY <1>0, <1>3, ArrayIsSeq
<1>7. /\ s \in Seq(Chars) /\ Len(s) = z + m
      /\ \A k \in 1 .. z + m : s[k] = IF k <= z THEN ones[k] ELSE rest[k - z]
  <2> HIDE DEF m
  <2>1. /\ s \in Seq(Chars) /\ Len(s) = Len(ones) + Len(rest)
        /\ \A k \in 1 .. Len(ones) + Len(rest) : s[k] = IF k <= Len(ones) THEN ones[k] ELSE rest[k - Len(ones)]
    BY <1>5, <1>6, ConcatProperties
  <2> QED
    BY <2>1, <1>5, <1>6, Zenon
<1> HIDE DEF s
<1>8. \A k \in 1 .. z : s[k] = One
  <2>1. ASSUME NEW k \in 1 .. z PROVE s[k] = One
    <3>1. k \in 1 .. z + m /\ k <= z
      BY <1>0, SMT
    <3> HIDE DEF m
    <3> QED
      BY <1>4, <1>7, <3>1, Zenon
  <2> QED
    BY <2>1, Zenon
<1>9. \A k \in 1 .. m : s[z + k] = rest[k]
  <2>1. ASSUME NEW k \in 1 .. m PROVE s[z + k] = rest[k]
    <3>1. z + k \in 1 .. z + m /\ ~(z + k <= z) /\ (z + k) - z = k
      BY <1>0, SMT
    <3> HIDE DEF m
    <3> QED
      BY <1>7, <3>1, Zenon
  <2> QED
    BY <2>1, Zenon
<1> DEFINE len == z + m
<1>10. AllDigits(s, len)
  <2>1. ASSUME NEW k \in 1 .. len PROVE IsDigit(s[k])
    <3>1. CASE k <= z
      <4>1. k \in 1 .. z
        BY <3>1, SMT
      <4> QED
        BY <1>8, <4>1, OneIsDigit, Zenon
    <3>2. CASE ~(k <= z)
      <4>1. k - z \in 1 .. m /\ z + (k - z) = k
        BY <1>0, <3>2, SMT
      <4> HIDE DEF m
      <4>2. s[k] = rest[k - z]
        BY <1>9, <4>1, Zenon
      <4>3. IsDigit(rest[k - z])
        BY <1>2, <4>1, Zenon
      <4> QED
        BY <4>2, <4>3, Zenon
    <3> QED
      BY <3>1, <3>2
  <2> HIDE DEF len
  <2> QED
    BY <2>1, Zenon DEF AllDigits
<1>11. Leads(s, One, z)
  <2>1. z \in 0 .. len
    BY <1>0, SMT
  <2>2. ASSUME z < len PROVE s[z + 1] # One
    <3>1. 1 \in 1 .. m /\ j < size
      BY <1>0, <2>2, SMT
    <3>2. buf[j + 1] # 0
      BY <1>1, <3>1, Zenon DEF Leads
    <3> HIDE DEF m
    <3>3. rest[1] # One
      BY <1>2, <3>1, <3>2, Zenon
    <3> QED
      BY <1>9, <3>1, <3>3, Zenon
  <2>3. Len(s) = len
    BY <1>7, Zenon
  <2> HIDE DEF len
  <2> QED
    BY <1>8, <2>1, <2>2, <2>3, Zenon DEF Leads
<1> DEFINE tail == [k \in 1 .. m |-> buf[j + k]]
<1>12. Numbers(tail, m)
  <2>1. \A d \in 0 .. Base - 1 : d \in Nat
    BY <1>0, SMT
  <2> QED
    BY <1>2, <2>1, Zenon DEF Numbers
<1>13. \A k \in 1 .. m : buf[j + k] = tail[k]
  BY Zenon
<1> HIDE DEF tail
<1>14. Val(buf, Base, size) = Val(tail, Base, m)
  <2>1. Zeros(buf, j)
    BY Zenon DEF Leads, Zeros
  <2> HIDE DEF m
  <2>2. Val(buf, Base, j + m) = Val(tail, Base, m)
    BY <1>0, <1>12, <1>13, <2>1, ValSkip
  <2> QED
    BY <1>0, <2>2, Zenon
<1>15. Val(Marks(s, len), Base, len) = Val(tail, Base, m)
  <2> DEFINE x == Marks(s, len)
  <2>1. Zeros(x, z)
    <3>1. ASSUME NEW k \in 1 .. z PROVE x[k] = 0
      <4>1. k \in 1 .. len
        BY <1>0, SMT
      <4>2. x[k] = b58digits_map[s[k]]
        BY <4>1, Zenon DEF Marks
      <4> QED
        BY <4>2, <1>8, OneIsDigit, Zenon
    <3> QED
      BY <3>1, Zenon DEF Zeros
  <2>2. ASSUME NEW k \in 1 .. m PROVE x[z + k] = tail[k]
    <3>1. z + k \in 1 .. len
      BY <1>0, SMT
    <3>2. x[z + k] = b58digits_map[s[z + k]]
      BY <3>1, Zenon DEF Marks
    <3>3. b58digits_map[s[z + k]] = buf[j + k]
      BY <1>2, <1>9, Zenon
    <3> QED
      BY <3>2, <3>3, <1>13, Zenon
  <2> HIDE DEF x, m
  <2>3. Val(x, Base, z + m) = Val(tail, Base, m)
    BY <1>0, <1>12, <2>1, <2>2, ValSkip
  <2> QED
    BY <2>3, Zenon DEF x
<1>16. Len(s) = len
  BY <1>7, Zenon
<1> HIDE DEF len
<1>17. Encodes(s, data, n, z)
  BY <1>7, <1>10, <1>11, <1>14, <1>15, <1>16, Zenon DEF Encodes
<1> QED
  BY <1>17, Zenon DEF s, ones, rest

(* What EncFinish makes of the buffer once all bytes are read. *)
LEMMA FinishEncodes ==
  ASSUME NEW n \in Nat, NEW data, Bytes(data, n), NEW st, NEW z, Leads(data, 0, z),
         Scratch(st, data, n, z, n), NEW room, EncFinish(st, data, room).ok
  PROVE  Encodes(EncFinish(st, data, room).b58, data, n, z)
<1>1. Len(data) = n
  BY BytesAre
<1>2. LeadingCount(data, 0) = z /\ z \in 0 .. n
  BY <1>1, LeadingCountOnly, Zenon DEF Leads
<1> DEFINE size == BufSize(n - z)
<1>3. n - z \in Nat /\ z \in Nat
  BY <1>2, SMT
<1>4. size \in Nat
  BY <1>3, BufSizeIs, Zenon
<1> HIDE DEF size
<1> DEFINE buf == st.buf
<1>5. Cells(buf, size) /\ Val(buf, Base, size) = Val(data, Byte, n)
  BY Zenon DEF Scratch, size
<1> HIDE DEF buf
<1>6. Len(buf) = size
  BY <1>4, <1>5, CellsAre
<1> DEFINE j == LeadingCount(buf, 0)
<1>7. Leads(buf, 0, j)
  BY <1>4, <1>6, LeadingCountIs
<1>8. j \in 0 .. size
  BY <1>6, <1>7, Zenon DEF Leads
<1> DEFINE s == [k \in 1 .. z |-> One] \o [k \in 1 .. size - j |-> b58digits_ordered[buf[j + k]]]
<1>9. EncFinish(st, data, room).b58 = s
  <2> DEFINE fits == room <= z + size - j
  <2>1. EncFinish(st, data, room) =
          IF fits THEN [ok |-> FALSE, b58 |-> <<>>, b58sz |-> z + size - j + 1]
          ELSE [ok |-> TRUE, b58 |-> s, b58sz |-> z + size - j + 1]
    BY <1>2, <1>6, Zenon DEF EncFinish, buf
  <2> HIDE DEF fits, s, j
  <2>2. CASE fits
    <3>1. EncFinish(st, data, room) = [ok |-> FALSE, b58 |-> <<>>, b58sz |-> z + size - j + 1]
      BY <2>1, <2>2, Zenon
    <3>2. EncFinish(st, data, room).ok = FALSE
      BY <3>1, SMT
    <3> QED
      BY <3>2, Zenon
  <2>3. CASE ~fits
    <3>1. EncFinish(st, data, room) = [ok |-> TRUE, b58 |-> s, b58sz |-> z + size - j + 1]
      BY <2>1, <2>3, Zenon
    <3> QED
      BY <3>1, SMT
  <2> QED
    BY <2>2, <2>3
<1> HIDE DEF j
<1>10. Encodes(s, data, n, z)
  BY <1>3, <1>4, <1>5, <1>7, <1>8, TextIs
<1> QED
  BY <1>9, <1>10, Zenon
-----------------------------------------------------------------------------
(* Limbs and bytes.                                                        *)

(* The digits in front count as often as those behind have values. *)
LEMMA ValSplit ==
  ASSUME NEW base \in Nat \ {0}, NEW m \in Nat, NEW n \in Nat, NEW x, NEW y, Numbers(x, m + n),
         \A k \in 1 .. n : x[m + k] = y[k]
  PROVE  Val(x, base, m + n) = Val(x, base, m) * Power(base, n) + Val(y, base, n)
<1> DEFINE all == m + n
<1> DEFINE u == Val(x, base, m)
<1>0. base \in Nat /\ all \in Nat /\ m \in 0 .. all /\ 0 \in 0 .. n /\ n \in 0 .. n /\ m + 0 = m
  BY SMT
<1>a. Numbers(x, all)
  BY Zenon
<1>1. /\ \A k \in 0 .. all : Val(x, base, k) \in Nat
      /\ \A k \in 1 .. all : Val(x, base, k) = base * Val(x, base, k - 1) + x[k]
  <2> HIDE DEF all
  <2> QED
    BY <1>0, <1>a, ValIs
<1>2. Numbers(y, n)
  <2>1. ASSUME NEW k \in 1 .. n PROVE y[k] \in Nat
    <3>1. m + k \in 1 .. all
      BY SMT
    <3>2. x[m + k] \in Nat
      BY <1>a, <3>1, Zenon DEF Numbers
    <3> QED
      BY <3>2, Zenon
  <2> QED
    BY <2>1, Zenon DEF Numbers
<1>3. /\ Val(y, base, 0) = 0
      /\ \A k \in 0 .. n : Val(y, base, k) \in Nat
      /\ \A k \in 1 .. n : Val(y, base, k) = base * Val(y, base, k - 1) + y[k]
  BY <1>0, <1>2, ValIs
<1>4. u \in Nat
  BY <1>0, <1>1, Zenon
<1> DEFINE S == {k \in 0 .. n : Val(x, base, m + k) = u * Power(base, k) + Val(y, base, k)}
<1>5. 0 \in S
  <2>1. Power(base, 0) = 1
    BY <1>0, PowerIs, Zenon
  <2>2. Val(x, base, m + 0) = u
    BY <1>0, Zenon
  <2> HIDE DEF u
  <2>3. u * 1 + 0 = u
    BY <1>4, SMT
  <2> QED
    BY <1>0, <1>3, <2>1, <2>2, <2>3, Zenon
<1>6. ASSUME NEW k \in 1 .. n, k - 1 \in S PROVE k \in S
  <2> DEFINE p == Power(base, k - 1)
  <2> DEFINE v == Val(y, base, k - 1)
  <2> DEFINE w == Val(x, base, m + (k - 1))
  <2>1. /\ k - 1 \in Nat /\ (k - 1) + 1 = k /\ k \in 0 .. n /\ k - 1 \in 0 .. n
        /\ m + k \in 1 .. all /\ (m + k) - 1 = m + (k - 1)
    BY SMT
  <2>2. Power(base, k) = base * p /\ p \in Nat
    <3>1. Power(base, (k - 1) + 1) = base * p /\ p \in Nat
      BY <1>0, <2>1, PowerIs, Zenon
    <3> QED
      BY <2>1, <3>1, Zenon
  <2>3. Val(y, base, k) = base * v + y[k] /\ v \in Nat /\ y[k] \in Nat
    BY <1>2, <1>3, <2>1, Zenon DEF Numbers
  <2>4. Val(x, base, m + k) = base * w + y[k]
    BY <1>1, <2>1, Zenon
  <2>5. w = u * p + v
    BY <1>6, Zenon
  <2> HIDE DEF p, v, w, u
  <2> DEFINE up == u * p
  <2>6. up \in Nat /\ u * (base * p) = base * up
    BY <1>0, <1>4, <2>2, SMT
  <2> HIDE DEF up
  <2>7. base * (up + v) = base * up + base * v
    BY <1>0, <2>3, <2>6, SMT
  <2> DEFINE b1 == base * up
  <2> DEFINE b2 == base * v
  <2>8. b1 \in Nat /\ b2 \in Nat
    BY <1>0, <2>3, <2>6, SMT
  <2> HIDE DEF b1, b2
  <2>9. (b1 + b2) + y[k] = b1 + (b2 + y[k])
    BY <2>3, <2>8, SMT
  <2>10. Val(x, base, m + k) = (b1 + b2) + y[k]
    BY <2>4, <2>5, <2>7, Zenon DEF up, b1, b2
  <2>11. u * Power(base, k) + Val(y, base, k) = b1 + (b2 + y[k])
    BY <2>2, <2>3, <2>6, Zenon DEF b1, b2
  <2> QED
    BY <2>1, <2>9, <2>10, <2>11, Zenon
<1>7. 0 .. n \subseteq S
  <2> HIDE DEF S
  <2> QED
    BY <1>5, <1>6, Upwards
<1> QED
  BY <1>0, <1>7, Zenon

Behind(x, m, y, n) == \A k \in 1 .. n : x[m + k] = y[k]
Holds(x, base, len, n) == Val(x, base, len) < Power(base, n)

(* A number that n digits hold has zeros before its last n digits. *)
LEMMA ValTop ==
  ASSUME NEW base \in Nat \ {0}, NEW m \in Nat, NEW n \in Nat, NEW x, NEW y, Digits(x, base, m + n),
         Behind(x, m, y, n), Holds(x, base, m + n, n)
  PROVE  Zeros(x, m) /\ Val(y, base, n) = Val(x, base, m + n)
<1>a. \A k \in 1 .. n : x[m + k] = y[k]
  BY Zenon DEF Behind
<1>b. Val(x, base, m + n) < Power(base, n)
  BY Zenon DEF Holds
<1> DEFINE u == Val(x, base, m)
<1> DEFINE v == Val(y, base, n)
<1> DEFINE p == Power(base, n)
<1> DEFINE w == Val(x, base, m + n)
<1>0. base \in Nat /\ m + n \in Nat /\ m \in 0 .. m + n /\ m + n \in 0 .. m + n /\ n \in 0 .. n /\ m \in 0 .. m
  BY SMT
<1>1. Numbers(x, m + n)
  <2> DEFINE k == m + n
  <2>1. Digits(x, base, k)
    BY Zenon
  <2> HIDE DEF k
  <2>2. Numbers(x, k)
    BY <1>0, <2>1, DigitsAreNumbers
  <2> QED
    BY <2>2, Zenon DEF k
<1>2. w = u * p + v
  BY <1>1, <1>a, ValSplit
<1>3. Digits(y, base, n) /\ Digits(x, base, m)
  <2>1. ASSUME NEW k \in 1 .. n PROVE y[k] \in 0 .. base - 1
    <3>1. m + k \in 1 .. m + n
      BY SMT
    <3>2. x[m + k] \in 0 .. base - 1
      BY <3>1, Zenon DEF Digits
    <3> QED
      BY <1>a, <3>2, Zenon
  <2>2. \A k \in 1 .. m : k \in 1 .. m + n
    BY SMT
  <2> QED
    BY <2>1, <2>2, Zenon DEF Digits
<1>4. v \in Nat /\ u \in Nat
  <2>1. Numbers(y, n)
    BY <1>0, <1>3, DigitsAreNumbers
  <2>2. Numbers(x, m)
    BY <1>0, <1>3, DigitsAreNumbers
  <2>3. v \in Nat
    BY <1>0, <2>1, ValIs, Zenon
  <2>4. u \in Nat
    BY <1>0, <2>2, ValIs, Zenon
  <2> QED
    BY <2>3, <2>4, Zenon
<1>5. p \in Nat /\ w < p
  BY <1>0, <1>b, PowerIs, Zenon
<1> HIDE DEF u, v, p, w
<1>6. u = 0
  <2> SUFFICES ASSUME u # 0 PROVE FALSE
    BY Zenon
  <2>1. p <= u * p /\ u * p \in Nat
    BY <1>4, <1>5, SMT
  <2> DEFINE up == u * p
  <2>2. up \in Nat /\ p <= up /\ w = up + v
    BY <1>2, <2>1, Zenon
  <2> HIDE DEF up
  <2> QED
    BY <1>4, <1>5, <2>2, SMT
<1>7. w = v
  <2>1. 0 * p + v = v
    BY <1>4, <1>5, SMT
  <2> QED
    BY <1>2, <1>6, <2>1, Zenon
<1>8. Zeros(x, m)
  BY <1>3, <1>6, ZeroVal DEF u
<1> QED
  BY <1>7, <1>8, Zenon DEF v, w

LEMMA WordIs ==
  /\ WordBytes \in Nat \ {0} /\ WordBytes \in Nat /\ Word \in Nat \ {0} /\ Word \in Nat
  /\ \A k \in Nat : Power(Word, k) = Power(Byte, WordBytes * k)
<1>1. WordBytes \in Nat \ {0} /\ WordBytes \in Nat
  BY WordBytesAssumption, SMT
<1>2. Byte \in Nat \ {0} /\ Byte \in Nat
  BY SMT DEF Byte
<1>3. Word \in Nat \ {0}
  BY <1>1, <1>2, PowerPos, Zenon DEF Word
<1>4. Word \in Nat
  BY <1>3
<1>5. \A k \in Nat : Power(Word, k) = Power(Byte, WordBytes * k)
  BY <1>1, <1>2, PowerPower, Zenon DEF Word
<1> QED
  BY <1>1, <1>3, <1>4, <1>5, Zenon

(* How many limbs a buffer has, and how many of its bytes the first holds. *)
LEMMA LimbCount ==
  ASSUME NEW binsz \in Nat \ {0}
  PROVE  /\ OutiSize(binsz) \in Nat \ {0} /\ BytesLeft(binsz) \in Nat
         /\ BytesLeft(binsz) = 0 => binsz = WordBytes * OutiSize(binsz)
         /\ BytesLeft(binsz) # 0 => binsz = WordBytes * (OutiSize(binsz) - 1) + BytesLeft(binsz)
         /\ binsz <= WordBytes * OutiSize(binsz)
<1> DEFINE w == WordBytes
<1> DEFINE q == binsz \div w
<1> DEFINE r == binsz % w
<1> DEFINE c == (binsz + w - 1) \div w
<1>1. w \in Nat \ {0} /\ binsz \in Int
  BY WordIs, SMT
<1>2. OutiSize(binsz) = c /\ BytesLeft(binsz) = r
  BY Zenon DEF OutiSize, BytesLeft
<1> HIDE DEF w
<1>3. binsz = w * q + r /\ r \in 0 .. w - 1 /\ q \in Int
  BY <1>1, DivMod
<1>4. q \in Nat
  BY <1>1, DivNat
<1> HIDE DEF q, r
<1> DEFINE wq == w * q
<1>5. wq \in Nat /\ w * (q + 1) = wq + w
  BY <1>1, <1>4, SMT
<1>6. CASE r = 0
  <2>1. binsz + w - 1 = w * q + (w - 1)
    <3>1. binsz = wq + r
      BY <1>3, Zenon
    <3> HIDE DEF wq
    <3>2. binsz + w - 1 = wq + (w - 1)
      BY <3>1, <1>1, <1>5, <1>6, SMT
    <3> QED
      BY <3>2, Zenon DEF wq
  <2>2. c = q
    <3> DEFINE x == binsz + w - 1
    <3> DEFINE d == w - 1
    <3>1. x \in Int /\ d \in 0 .. w - 1
      BY <1>1, SMT
    <3>2. x = w * q + d
      BY <2>1, Zenon
    <3> HIDE DEF x, d
    <3>3. x \div w = q
      BY <1>1, <1>3, <3>1, <3>2, DivModIs
    <3> QED
      BY <3>3, Zenon DEF x
  <2>3. binsz = w * q
    BY <1>3, <1>5, <1>6, SMT DEF wq
  <2>4. q # 0
    <3> SUFFICES ASSUME q = 0 PROVE FALSE
      BY Zenon
    <3>1. w * 0 = 0
      BY <1>1, SMT
    <3>2. binsz = 0
      BY <2>3, <3>1, Zenon
    <3> QED
      BY <3>2
  <2>5. binsz <= w * q /\ c \in Nat \ {0} /\ r \in Nat
    BY <1>4, <1>6, <2>2, <2>3, <2>4, SMT
  <2> QED
    BY <1>2, <1>6, <2>2, <2>3, <2>5, Zenon DEF w
<1>7. CASE r # 0
  <2> DEFINE p == q + 1
  <2>1. binsz + w - 1 = w * p + (r - 1)
    <3>1. binsz = wq + r
      BY <1>3, Zenon
    <3> HIDE DEF wq
    <3>2. binsz + w - 1 = (wq + w) + (r - 1)
      BY <3>1, <1>1, <1>3, <1>5, <1>7, SMT
    <3> QED
      BY <3>2, <1>5, Zenon
  <2>2. c = p
    <3> DEFINE x == binsz + w - 1
    <3> DEFINE d == r - 1
    <3>1. x \in Int /\ d \in 0 .. w - 1 /\ p \in Int
      BY <1>1, <1>3, <1>4, <1>7, SMT
    <3>2. x = w * p + d
      BY <2>1, Zenon
    <3> HIDE DEF x, d, p
    <3>3. x \div w = p
      BY <1>1, <3>1, <3>2, DivModIs
    <3> QED
      BY <3>3, Zenon DEF x
  <2>3. binsz = w * (c - 1) + r
    <3>1. p - 1 = q
      BY <1>4, SMT
    <3> HIDE DEF p, c
    <3> QED
      BY <1>3, <2>2, <3>1, Zenon
  <2>4. binsz <= w * c
    <3>1. w * c = wq + w
      BY <1>5, <2>2, Zenon
    <3>2. binsz = wq + r
      BY <1>3, Zenon
    <3> HIDE DEF wq, c
    <3>3. wq + r <= wq + w
      BY <1>1, <1>3, <1>5, SMT
    <3> QED
      BY <3>1, <3>2, <3>3, Zenon
  <2>5. c \in Nat \ {0} /\ r \in Nat
    <3>1. p \in Nat \ {0} /\ r \in Nat
      BY <1>3, <1>4, SMT
    <3> HIDE DEF p, c
    <3> QED
      BY <2>2, <3>1, Zenon
  <2> HIDE DEF p, c
  <2> QED
    BY <1>2, <1>7, <2>3, <2>4, <2>5, Zenon DEF w
<1> QED
  BY <1>6, <1>7

(* The limbs hold a number that fits the buffer unless the first of them   *)
(* is over the mask.                                                       *)
LEMMA LimbsFit ==
  ASSUME NEW binsz \in Nat \ {0}, NEW outi, Digits(outi, Word, OutiSize(binsz))
  PROVE  ~OverMask(outi, binsz) <=> Val(outi, Word, OutiSize(binsz)) < Power(Byte, binsz)
<1> DEFINE n == OutiSize(binsz)
<1> DEFINE left == BytesLeft(binsz)
<1> DEFINE v == Val(outi, Word, n)
<1>0. /\ n \in Nat \ {0} /\ n \in Nat /\ left \in Nat /\ Byte \in Nat \ {0} /\ Byte \in Nat /\ binsz \in Nat
      /\ n \in 0 .. n /\ 1 \in 1 .. n
  BY LimbCount, SMT DEF Byte
<1>1. /\ left = 0 => binsz = WordBytes * n
      /\ left # 0 => binsz = WordBytes * (n - 1) + left
  BY LimbCount, Zenon
<1>2. Numbers(outi, n)
  <2> HIDE DEF n
  <2>1. Digits(outi, Word, n)
    BY Zenon DEF n
  <2> QED
    BY <1>0, <2>1, WordIs, DigitsAreNumbers
<1>3. v \in Nat /\ Power(Byte, binsz) \in Nat /\ outi[1] \in Nat
  <2>1. v \in Nat
    <3> HIDE DEF n
    <3> QED
      BY <1>0, <1>2, WordIs, ValIs, Zenon
  <2>2. Power(Byte, binsz) \in Nat
    BY <1>0, PowerIs, Zenon
  <2>3. outi[1] \in Nat
    BY <1>0, <1>2, Zenon DEF Numbers
  <2> QED
    BY <2>1, <2>2, <2>3, Zenon
<1>4. CASE left = 0
  <2>1. ~OverMask(outi, binsz)
    BY <1>4, Zenon DEF OverMask
  <2>2. Power(Word, n) = Power(Byte, binsz)
    BY <1>0, <1>1, <1>4, WordIs, Zenon
  <2>3. v < Power(Word, n)
    <3> HIDE DEF n
    <3>1. Digits(outi, Word, n)
      BY Zenon DEF n
    <3> QED
      BY <1>0, <3>1, WordIs, ValBound, Zenon
  <2> QED
    BY <2>1, <2>2, <2>3, Zenon
<1>5. CASE left # 0
  <2> DEFINE p == Power(Byte, left)
  <2> DEFINE m == n - 1
  <2>1. m \in Nat /\ m + 1 = n
    BY <1>0, SMT
  <2>2. OverMask(outi, binsz) <=> outi[1] >= p
    BY <1>5, Zenon DEF OverMask
  <2>3. p \in Nat
    BY <1>0, PowerIs, Zenon
  <2>4. Power(Byte, binsz) = p * Power(Word, m)
    <3> DEFINE wm == WordBytes * m
    <3>1. binsz = wm + left
      BY <1>1, <1>5, Zenon
    <3>2. wm \in Nat
      BY <2>1, WordIs, SMT
    <3>3. Power(Word, m) = Power(Byte, wm)
      BY <2>1, WordIs, Zenon
    <3> HIDE DEF wm, m, left
    <3>4. Power(Byte, wm + left) = Power(Byte, wm) * p
      BY <1>0, <3>2, PowerSum, Zenon
    <3>5. Power(Byte, wm) \in Nat
      BY <1>0, <3>2, PowerIs, Zenon
    <3> HIDE DEF p
    <3>6. Power(Byte, wm) * p = p * Power(Byte, wm)
      BY <2>3, <3>5, SMT
    <3> QED
      BY <3>1, <3>3, <3>4, <3>6, Zenon
  <2> HIDE DEF p, m, n
  <2>5. Digits(outi, Word, m + 1) /\ Numbers(outi, m + 1) /\ v = Val(outi, Word, m + 1)
    BY <1>2, <2>1, Zenon DEF n
  <2>6. CASE outi[1] < p
    <3>1. Val(outi, Word, m + 1) < p * Power(Word, m)
      BY <2>1, <2>3, <2>5, <2>6, WordIs, ValFirst, Zenon
    <3>2. v < Power(Byte, binsz)
      BY <2>4, <2>5, <3>1, Zenon
    <3>3. ~(outi[1] >= p)
      BY <1>3, <2>3, <2>6, SMT
    <3> QED
      BY <2>2, <3>2, <3>3, Zenon DEF n
  <2>7. CASE ~(outi[1] < p)
    <3>1. p <= outi[1] /\ outi[1] >= p
      BY <1>3, <2>3, <2>7, SMT
    <3>2. p * Power(Word, m) <= Val(outi, Word, m + 1)
      BY <2>1, <2>3, <2>5, <3>1, WordIs, ValLead, Zenon
    <3>3. Power(Byte, binsz) <= v
      BY <2>4, <2>5, <3>2, Zenon
    <3>4. ~(v < Power(Byte, binsz))
      <4> HIDE DEF v
      <4> QED
        BY <1>3, <3>3, SMT
    <3> QED
      BY <2>2, <3>1, <3>4, Zenon DEF n
  <2> QED
    BY <2>6, <2>7
<1> QED
  BY <1>4, <1>5
-----------------------------------------------------------------------------
(* The decoder's loop over the characters.                                 *)

(* The number of the first n characters. *)
Number(s, n) == Val(Marks(s, n), Base, n)

LEMMA NextNumber ==
  ASSUME NEW s \in Seq(Chars), NEW at \in Nat, at < Len(s), AllDigits(s, at + 1)
  PROVE  /\ AllDigits(s, at) /\ Number(s, at) \in Nat /\ Number(s, at + 1) \in Nat
         /\ b58digits_map[s[at + 1]] \in Nat
         /\ Number(s, at + 1) = Base * Number(s, at) + b58digits_map[s[at + 1]]
<1> DEFINE next == at + 1
<1>0. Len(s) \in Nat
  BY LenProperties
<1>1. /\ next \in Nat /\ at \in 0 .. Len(s) /\ next \in 0 .. Len(s) /\ next \in 1 .. next
      /\ next - 1 = at /\ at \in 0 .. next /\ next \in 0 .. next /\ at \in 0 .. at
  BY <1>0, SMT
<1>2. \A k \in 1 .. at : k \in 1 .. next
  BY SMT
<1>3. AllDigits(s, at) /\ AllDigits(s, next)
  BY <1>2, Zenon DEF AllDigits
<1>4. Base \in Nat
  BY SMT DEF Base
<1> DEFINE x == Marks(s, at)
<1> DEFINE y == Marks(s, next)
<1>5. Numbers(x, at)
  BY <1>1, <1>3, MarksAre
<1>6. Numbers(y, next)
  <2> HIDE DEF next
  <2> QED
    BY <1>1, <1>3, MarksAre
<1>7. Agree(x, y, at)
  BY <1>2, Zenon DEF Agree, Marks
<1>8. y[next] = b58digits_map[s[next]]
  BY <1>1, Zenon DEF Marks
<1> HIDE DEF x, y, next
<1>9. Val(x, Base, at) = Val(y, Base, at)
  BY <1>4, <1>5, <1>7, ValSame
<1>10. /\ Val(y, Base, 0) = 0
       /\ \A k \in 0 .. next : Val(y, Base, k) \in Nat
       /\ \A k \in 1 .. next : Val(y, Base, k) = Base * Val(y, Base, k - 1) + y[k]
  <2>1. next \in Nat
    BY <1>1, Zenon
  <2> QED
    BY <2>1, <1>4, <1>6, ValIs, ZenonT(40)
<1>11. Val(y, Base, next) = Base * Val(y, Base, next - 1) + y[next]
  BY <1>1, <1>10, ZenonT(40)
<1>12. Val(y, Base, next) = Base * Val(x, Base, at) + b58digits_map[s[next]]
  BY <1>1, <1>8, <1>9, <1>11, Zenon
<1>13. Val(y, Base, next) \in Nat /\ Val(x, Base, at) \in Nat
  BY <1>1, <1>9, <1>10, Zenon
<1>14. y[next] \in Nat
  BY <1>1, <1>6, Zenon DEF Numbers
<1> QED
  BY <1>3, <1>8, <1>12, <1>13, <1>14, Zenon DEF Number, x, y, next

(* Between two characters the limbs hold the number of the characters read *)
(* so far; the decoder has given up when a character is no digit or the    *)
(* number has outgrown the buffer.                                         *)
LimbType(binsz) == [ok : BOOLEAN, outi : [1 .. OutiSize(binsz) -> 0 .. Word - 1]]
Limbs(st, s, at, binsz) ==
  /\ st \in LimbType(binsz)
  /\ st.ok => /\ AllDigits(s, at) /\ Val(st.outi, Word, OutiSize(binsz)) = Number(s, at)
              /\ Number(s, at) < Power(Byte, binsz)
  /\ ~st.ok => ~AllDigits(s, at) \/ Power(Byte, binsz) <= Number(s, at)

LEMMA LimbsStart ==
  ASSUME NEW s \in Seq(Chars), NEW z, Leads(s, One, z), NEW binsz \in Nat \ {0}
  PROVE  Limbs(DecStart(binsz), s, z, binsz)
<1> DEFINE st == DecStart(binsz)
<1> DEFINE n == OutiSize(binsz)
<1>0. Len(s) \in Nat
  BY LenProperties
<1>1. z \in Nat
  BY <1>0, SMT DEF Leads
<1>2. n \in Nat /\ Base \in Nat \ {0} /\ Byte \in Nat \ {0} /\ binsz \in Nat
  BY LimbCount, SMT DEF Base, Byte
<1>3. st.ok = TRUE /\ st.outi = [j \in 1 .. n |-> 0]
  BY Zenon DEF DecStart
<1>4. st \in LimbType(binsz)
  <2>1. 0 \in 0 .. Word - 1
    BY WordIs, SMT
  <2>2. [j \in 1 .. n |-> 0] \in [1 .. n -> 0 .. Word - 1]
    BY <2>1, Zenon
  <2>3. st = [ok |-> TRUE, outi |-> [j \in 1 .. n |-> 0]]
    BY Zenon DEF DecStart
  <2> HIDE DEF n, st
  <2> QED
    BY <2>2, <2>3 DEF LimbType, n
<1>5. Zeros(st.outi, n)
  BY <1>3, Zenon DEF Zeros
<1> HIDE DEF st, n
<1>6. Val(st.outi, Word, n) = 0
  BY <1>2, <1>5, WordIs, ValZero, Zenon
<1>7. AllDigits(s, z)
  BY OneIsDigit, Zenon DEF Leads, AllDigits
<1>8. Zeros(Marks(s, z), z)
  BY OneIsDigit, Zenon DEF Leads, Marks, Zeros
<1>9. Number(s, z) = 0
  BY <1>1, <1>2, <1>8, ValZero, Zenon DEF Number
<1>10. Power(Byte, binsz) \in Nat \ {0}
  BY <1>2, PowerPos, Zenon
<1>11. 0 < Power(Byte, binsz)
  BY <1>10, SMT
<1>12. Limbs(st, s, z, binsz)
  BY <1>3, <1>4, <1>6, <1>7, <1>9, <1>11, Zenon DEF Limbs, n
<1> QED
  BY <1>12, Zenon DEF st

LEMMA LimbsTakeChar ==
  ASSUME NEW s \in Seq(Chars), NEW at \in Nat, at < Len(s), NEW binsz \in Nat \ {0}, NEW st,
         Limbs(st, s, at, binsz), st.ok
  PROVE  Limbs(DecChar(st, s[at + 1], binsz), s, at + 1, binsz)
<1> DEFINE n == OutiSize(binsz)
<1> DEFINE ch == s[at + 1]
<1> DEFINE r == DecChar(st, ch, binsz)
<1>0. n \in Nat /\ Base \in Nat \ {0} /\ Base \in Nat /\ binsz \in Nat /\ Byte \in Nat \ {0} /\ at + 1 \in 1 .. at + 1
  BY LimbCount, SMT DEF Base, Byte
<1>1. st \in LimbType(binsz) /\ AllDigits(s, at) /\ Val(st.outi, Word, n) = Number(s, at)
  BY Zenon DEF Limbs
<1>2. CASE ~IsDigit(ch)
  <2>1. r = [st EXCEPT !.ok = FALSE]
    BY <1>2, Zenon DEF DecChar
  <2>2. r \in LimbType(binsz) /\ r.ok = FALSE
    <3> HIDE DEF r
    <3> QED
      BY <1>1, <2>1 DEF LimbType
  <2>3. ~AllDigits(s, at + 1)
    BY <1>0, <1>2, Zenon DEF AllDigits
  <2> HIDE DEF r
  <2>4. Limbs(r, s, at + 1, binsz)
    BY <2>2, <2>3, Zenon DEF Limbs
  <2> QED
    BY <2>4, Zenon DEF r
<1>3. CASE IsDigit(ch)
  <2> DEFINE outi == st.outi
  <2> DEFINE c == b58digits_map[ch]
  <2> DEFINE carry == Carries(outi, Word, Base, c)
  <2> DEFINE y == Scaled(outi, Word, Base, carry, n)
  <2>1. outi \in [1 .. n -> 0 .. Word - 1]
    BY <1>1 DEF LimbType
  <2> HIDE DEF outi
  <2>2. Len(outi) = n
    BY <1>0, <2>1, ArrayIsSeq
  <2>3. Digits(outi, Word, n)
    BY <2>1, Zenon DEF Digits
  <2>4. Numbers(outi, n)
    BY <1>0, <2>3, WordIs, DigitsAreNumbers, Zenon
  <2>5. AllDigits(s, at + 1)
    <3>1. ASSUME NEW k \in 1 .. at + 1 PROVE IsDigit(s[k])
      <4>1. k \in 1 .. at \/ k = at + 1
        BY SMT
      <4> QED
        BY <1>1, <1>3, <4>1, Zenon DEF AllDigits
    <3> QED
      BY <3>1, Zenon DEF AllDigits
  <2>6. /\ Number(s, at) \in Nat /\ Number(s, at + 1) \in Nat /\ c \in Nat
        /\ Number(s, at + 1) = Base * Number(s, at) + c
    BY <2>5, NextNumber
  <2>7. r = [ok |-> carry[n] = 0 /\ ~OverMask(y, binsz), outi |-> y]
    <3>1. r = [ok |-> carry[Len(outi)] = 0 /\ ~OverMask(Scaled(outi, Word, Base, carry, Len(outi)), binsz),
               outi |-> Scaled(outi, Word, Base, carry, Len(outi))]
      BY <1>3, Zenon DEF DecChar, outi
    <3> HIDE DEF carry
    <3> QED
      BY <2>2, <3>1, Zenon
  <2> HIDE DEF c
  <2>8. IsCarries(carry, outi, Word, Base, c, n)
    BY <1>0, <2>2, <2>4, <2>6, WordIs, CarriesAre, Zenon
  <2> HIDE DEF carry
  <2>9. y = [j \in 1 .. n |-> (carry[n - j] + Base * outi[j]) % Word]
    <3>1. y = [j \in 1 .. n |-> IF j > n - n THEN (carry[n - j] + Base * outi[j]) % Word ELSE outi[j]]
      BY <2>2, Zenon DEF Scaled
    <3>2. \A j \in 1 .. n : j > n - n
      <4> HIDE DEF n
      <4> QED
        BY <1>0, SMT
    <3> HIDE DEF y
    <3> QED
      BY <3>1, <3>2, Zenon
  <2> HIDE DEF y, n
  <2>10. IsScaled(y, carry, outi, Word, Base, n)
    BY <2>9, Zenon DEF IsScaled
  <2>11. /\ Digits(y, Word, n)
         /\ carry[n] = 0 => Val(y, Word, n) = Base * Val(outi, Word, n) + c
         /\ carry[n] # 0 => Power(Word, n) <= Base * Val(outi, Word, n) + c
    <3>1. Word \in Nat \ {0} /\ Base \in Nat /\ n \in Nat /\ c \in Nat
      BY <1>0, <2>6, WordIs, Zenon
    <3> QED
      BY <2>4, <2>8, <2>10, <3>1, ScaledValue, SMT
  <2>12. Base * Val(outi, Word, n) + c = Number(s, at + 1)
    BY <1>1, <2>6, Zenon DEF outi
  <2>13. y \in [1 .. n -> 0 .. Word - 1]
    <3>1. \A j \in 1 .. n : y[j] \in 0 .. Word - 1
      BY <2>11, Zenon DEF Digits
    <3>2. y = [j \in 1 .. n |-> y[j]]
      BY <2>9, Zenon
    <3> QED
      BY <3>1, <3>2, Zenon
  <2>14. ~OverMask(y, binsz) <=> Val(y, Word, n) < Power(Byte, binsz)
    <3>1. Digits(y, Word, OutiSize(binsz))
      BY <2>11, Zenon DEF n
    <3>2. ~OverMask(y, binsz) <=> Val(y, Word, OutiSize(binsz)) < Power(Byte, binsz)
      BY <3>1, LimbsFit
    <3> QED
      BY <3>2, Zenon DEF n
  <2>15. Power(Byte, binsz) <= Power(Word, n)
    <3>1. binsz <= WordBytes * n
      BY LimbCount, Zenon DEF n
    <3> DEFINE wn == WordBytes * n
    <3>2. wn \in Nat
      BY <1>0, WordIs, SMT
    <3>3. Power(Word, n) = Power(Byte, wn)
      BY <1>0, WordIs, Zenon
    <3> HIDE DEF wn
    <3>4. Power(Byte, binsz) <= Power(Byte, wn)
      BY <1>0, <3>1, <3>2, PowerGrows, Zenon DEF wn
    <3> QED
      BY <3>3, <3>4, Zenon
  <2>16. Power(Byte, binsz) \in Nat /\ Power(Word, n) \in Nat
    <3>1. Byte \in Nat
      BY <1>0
    <3> QED
      BY <1>0, <3>1, WordIs, PowerIs, Zenon
  <2> DEFINE v == Number(s, at + 1)
  <2> DEFINE ok == carry[n] = 0 /\ ~OverMask(y, binsz)
  <2>17. ASSUME ok PROVE Val(y, Word, n) = v /\ v < Power(Byte, binsz)
    BY <2>11, <2>12, <2>14, <2>17, Zenon
  <2>18. ASSUME ~ok PROVE Power(Byte, binsz) <= v
    <3>1. CASE carry[n] # 0
      <4>1. Power(Word, n) <= v
        BY <2>11, <2>12, <3>1, Zenon
      <4> HIDE DEF v
      <4>2. v \in Nat
        BY <2>6, Zenon DEF v
      <4> QED
        BY <2>15, <2>16, <4>1, <4>2, SMT
    <3>2. CASE carry[n] = 0
      <4>1. ~(v < Power(Byte, binsz))
        BY <2>11, <2>12, <2>14, <2>18, <3>2, Zenon
      <4>2. v \in Nat
        BY <2>6, Zenon
      <4> HIDE DEF v
      <4> QED
        BY <2>16, <4>1, <4>2, SMT
    <3> QED
      BY <3>1, <3>2
  <2>19. ok \in BOOLEAN
    BY Zenon
  <2>20. r = [ok |-> ok, outi |-> y]
    BY <2>7, Zenon
  <2> HIDE DEF ok, r, v
  <2>21. r \in LimbType(binsz) /\ r.ok = ok /\ r.outi = y
    BY <2>13, <2>19, <2>20 DEF LimbType, n
  <2>22. Limbs(r, s, at + 1, binsz)
    BY <2>5, <2>17, <2>18, <2>21, Zenon DEF Limbs, n, v
  <2> QED
    BY <2>22, Zenon DEF r
<1> QED
  BY <1>2, <1>3
-----------------------------------------------------------------------------
(* The bytes of the limbs.                                                 *)

IsWide(wide, outi, n) ==
  /\ wide \in [1 .. n * WordBytes -> 0 .. Byte - 1]
  /\ \A j \in 0 .. n - 1 : \A r \in 0 .. WordBytes - 1 :
        /\ (WordBytes * j + r) + 1 \in 1 .. n * WordBytes
        /\ wide[(WordBytes * j + r) + 1] = (outi[j + 1] \div Power(Byte, WordBytes - 1 - r)) % Byte

LEMMA WideIs ==
  ASSUME NEW n \in Nat, NEW outi \in [1 .. n -> 0 .. Word - 1]
  PROVE  IsWide(LimbBytes(outi), outi, n)
<1> DEFINE w == WordBytes
<1> DEFINE nw == n * w
<1> DEFINE wide == LimbBytes(outi)
<1> DEFINE B(k) == (outi[((k - 1) \div w) + 1] \div Power(Byte, w - 1 - ((k - 1) % w))) % Byte
<1>0. Len(outi) = n
  BY ArrayIsSeq
<1>1. w \in Nat \ {0} /\ w \in Nat /\ Byte \in Nat \ {0} /\ Byte \in Nat
  BY WordIs, SMT DEF Byte
<1>2. wide = [k \in 1 .. nw |-> B(k)]
  BY <1>0, Zenon DEF LimbBytes
<1> HIDE DEF w, wide
<1>3. ASSUME NEW k \in 1 .. nw PROVE B(k) \in 0 .. Byte - 1
  <2> DEFINE q == (k - 1) \div w
  <2> DEFINE r == (k - 1) % w
  <2>0. nw \in Nat
    BY <1>1, SMT
  <2> HIDE DEF nw
  <2>1. k - 1 \in Int /\ k - 1 \in Nat
    BY <2>0, SMT
  <2>2. k - 1 = w * q + r /\ r \in 0 .. w - 1 /\ q \in Int
    BY <1>1, <2>1, DivMod
  <2>3. q \in Nat
    BY <1>1, <2>1, DivNat
  <2> HIDE DEF q, r
  <2>4. q + 1 \in 1 .. n
    <3>1. CASE n <= q
      <4>1. n * w <= w * q
        BY <1>1, <2>3, <3>1, SMT
      <4> DEFINE wq == w * q
      <4>2. wq \in Nat /\ nw <= wq /\ k - 1 = wq + r
        BY <1>1, <2>2, <2>3, <4>1, SMT DEF nw
      <4> HIDE DEF wq
      <4> QED
        BY <2>0, <2>2, <4>2, SMT
    <3>2. CASE ~(n <= q)
      BY <2>3, <3>2, SMT
    <3> QED
      BY <3>1, <3>2
  <2> DEFINE x == outi[q + 1]
  <2> DEFINE p == Power(Byte, w - 1 - r)
  <2>5. x \in Nat
    <3>1. x \in 0 .. Word - 1
      BY <2>4, Zenon
    <3> HIDE DEF x
    <3> QED
      BY <3>1, WordIs, SMT
  <2>6. p \in Nat \ {0}
    <3>1. w - 1 - r \in Nat
      BY <1>1, <2>2, SMT
    <3> DEFINE e == w - 1 - r
    <3>2. e \in Nat
      BY <3>1
    <3> HIDE DEF e
    <3>3. Power(Byte, e) \in Nat \ {0}
      BY <1>1, <3>2, PowerPos
    <3> QED
      BY <3>3, Zenon DEF e
  <2> HIDE DEF x, p
  <2> DEFINE t == x \div p
  <2>7. t \in Int
    BY <2>5, <2>6, DivNat, SMT
  <2> HIDE DEF t
  <2>8. t % Byte \in 0 .. Byte - 1
    BY <1>1, <2>7, DivMod
  <2> QED
    BY <2>8, Zenon DEF t, x, p, q, r
<1>4. wide \in [1 .. nw -> 0 .. Byte - 1]
  <2> HIDE DEF B
  <2> QED
    BY <1>2, <1>3, Zenon
<1>5. ASSUME NEW j \in 0 .. n - 1, NEW r \in 0 .. w - 1
      PROVE  /\ (w * j + r) + 1 \in 1 .. nw
             /\ wide[(w * j + r) + 1] = (outi[j + 1] \div Power(Byte, w - 1 - r)) % Byte
  <2> DEFINE wj == w * j
  <2> DEFINE k == (wj + r) + 1
  <2>1. j \in Nat /\ j \in Int /\ r \in Nat
    BY <1>1, SMT
  <2>2. wj \in Nat
    BY <1>1, <2>1, SMT
  <2>3. wj + w <= nw /\ nw \in Nat
    <3>1. w * j + w <= w * n
      BY <1>1, <2>1, ProductGrows, SMT
    <3>2. w * n = nw /\ nw \in Nat
      BY <1>1, SMT
    <3> QED
      BY <3>1, <3>2, Zenon
  <2> DEFINE x == k - 1
  <2>4. k \in 1 .. nw /\ x \in Int /\ x = wj + r
    <3> HIDE DEF wj, nw
    <3> QED
      BY <1>1, <2>1, <2>2, <2>3, SMT
  <2>5. x = w * j + r
    BY <2>4, Zenon
  <2> HIDE DEF x, wj, nw
  <2>6. x % w = r /\ x \div w = j
    BY <1>1, <2>1, <2>4, <2>5, DivModIs
  <2>7. wide[k] = B(k)
    BY <1>2, <2>4, Zenon
  <2>8. B(k) = (outi[j + 1] \div Power(Byte, w - 1 - r)) % Byte
    BY <2>6, Zenon DEF x
  <2> QED
    BY <2>4, <2>7, <2>8, Zenon DEF wj
<1> QED
  BY <1>4, <1>5, Zenon DEF IsWide, w, wide

LEMMA LimbReads ==
  ASSUME NEW n \in Nat, NEW outi \in [1 .. n -> 0 .. Word - 1], NEW wide, IsWide(wide, outi, n),
         NEW j \in 0 .. n - 1
  PROVE  Val(wide, Byte, WordBytes * (j + 1)) = Word * Val(wide, Byte, WordBytes * j) + outi[j + 1]
<1> DEFINE w == WordBytes
<1> DEFINE wj == w * j
<1> DEFINE nw == n * w
<1> DEFINE x == outi[j + 1]
<1> DEFINE u == Val(wide, Byte, wj)
<1>1. w \in Nat \ {0} /\ w \in Nat /\ Byte \in Nat \ {0} /\ Byte \in Nat
  BY WordIs, SMT DEF Byte
<1>2. j \in Nat /\ j \in Int /\ j + 1 \in 1 .. n
  BY SMT
<1>3. x \in 0 .. Word - 1 /\ x \in Nat
  <2>1. x \in 0 .. Word - 1
    BY <1>2, Zenon
  <2> HIDE DEF x
  <2> QED
    BY <2>1, WordIs, SMT
<1> HIDE DEF w, x
<1>4. wj \in Nat /\ nw \in Nat
  BY <1>1, <1>2, SMT
<1>5. wj + w <= nw /\ w * (j + 1) = wj + w
  <2>1. w * j + w <= w * n
    BY <1>1, <1>2, ProductGrows, SMT
  <2>2. w * n = nw /\ w * (j + 1) = wj + w
    BY <1>1, <1>2, SMT
  <2> QED
    BY <2>1, <2>2, Zenon
<1>6. wide \in [1 .. nw -> 0 .. Byte - 1]
  BY Zenon DEF IsWide, w
<1> HIDE DEF nw
<1>7. Numbers(wide, nw)
  <2>1. Digits(wide, Byte, nw)
    BY <1>6, Zenon DEF Digits
  <2> QED
    BY <1>1, <1>4, <2>1, DigitsAreNumbers
<1>8. /\ Val(wide, Byte, 0) = 0
      /\ \A k \in 0 .. nw : Val(wide, Byte, k) \in Nat
      /\ \A k \in 1 .. nw : Val(wide, Byte, k) = Byte * Val(wide, Byte, k - 1) + wide[k]
  BY <1>1, <1>4, <1>7, ValIs
<1>9. \A r \in 0 .. w - 1 : wide[(wj + r) + 1] = (x \div Power(Byte, w - 1 - r)) % Byte
  BY Zenon DEF IsWide, w, x
<1> HIDE DEF wj
<1>10. u \in Nat
  <2>1. wj \in 0 .. nw
    BY <1>1, <1>4, <1>5, SMT
  <2> QED
    BY <1>8, <2>1, Zenon
<1> DEFINE S == {r \in 0 .. w : Val(wide, Byte, wj + r) = u * Power(Byte, r) + (x \div Power(Byte, w - r))}
<1>11. 0 \in S
  <2>1. Power(Byte, 0) = 1
    BY <1>1, PowerIs, Zenon
  <2>2. wj + 0 = wj /\ w - 0 = w /\ 0 \in 0 .. w
    BY <1>1, <1>4, SMT
  <2>3. Power(Byte, w) = Word
    BY Zenon DEF Word, w
  <2>4. x \div Word = 0
    <3>1. x = Word * 0 + x /\ x \in Int /\ 0 \in Int
      BY <1>3, WordIs, SMT
    <3> QED
      BY <1>3, <3>1, WordIs, DivModIs, Zenon
  <2> HIDE DEF u
  <2>5. u * 1 + 0 = u
    BY <1>10, SMT
  <2> QED
    BY <2>1, <2>2, <2>3, <2>4, <2>5, Zenon DEF u
<1>12. ASSUME NEW r \in 1 .. w, r - 1 \in S PROVE r \in S
  <2> DEFINE e == w - r
  <2> DEFINE p == Power(Byte, e)
  <2> DEFINE t == x \div p
  <2> DEFINE q == Power(Byte, r - 1)
  <2> DEFINE v == Val(wide, Byte, wj + (r - 1))
  <2>1. /\ r - 1 \in Nat /\ (r - 1) + 1 = r /\ r \in 0 .. w /\ r - 1 \in 0 .. w - 1
        /\ wj + r \in 1 .. nw /\ (wj + r) - 1 = wj + (r - 1) /\ (wj + (r - 1)) + 1 = wj + r
        /\ e \in Nat /\ w - 1 - (r - 1) = e /\ w - (r - 1) = e + 1
    BY <1>1, <1>4, <1>5, SMT
  <2>2. Power(Byte, r) = Byte * q /\ q \in Nat
    <3>1. Power(Byte, (r - 1) + 1) = Byte * q /\ q \in Nat
      BY <1>1, <2>1, PowerIs, Zenon
    <3> QED
      BY <2>1, <3>1, Zenon
  <2> HIDE DEF e
  <2>3. Power(Byte, e + 1) = Byte * p /\ p \in Nat \ {0}
    BY <1>1, <2>1, PowerIs, PowerPos, Zenon
  <2>4. wide[wj + r] = t % Byte
    <3>1. wide[(wj + (r - 1)) + 1] = (x \div Power(Byte, w - 1 - (r - 1))) % Byte
      BY <1>9, <2>1, Zenon
    <3> QED
      BY <2>1, <3>1, Zenon
  <2>5. x \div Power(Byte, w - (r - 1)) = t \div Byte
    <3> HIDE DEF p
    <3>1. t \div Byte = x \div (p * Byte)
      BY <1>1, <1>3, <2>3, DivDiv
    <3>2. p * Byte = Byte * p
      BY <1>1, <2>3, SMT
    <3>3. Power(Byte, w - (r - 1)) = Byte * p
      BY <2>1, <2>3, Zenon
    <3> QED
      BY <3>1, <3>2, <3>3, Zenon
  <2>6. v = u * q + (t \div Byte)
    BY <1>12, <2>5, Zenon
  <2>7. Val(wide, Byte, wj + r) = Byte * v + (t % Byte)
    BY <1>8, <2>1, <2>4, Zenon
  <2>8. t \in Int
    <3> HIDE DEF p
    <3>1. t \in Nat
      BY <1>3, <2>3, DivNat
    <3> HIDE DEF t
    <3> QED
      BY <3>1, SMT
  <2> HIDE DEF p, t, q, v, u
  <2> DEFINE a == t \div Byte
  <2> DEFINE d == t % Byte
  <2>9. t = Byte * a + d /\ d \in 0 .. Byte - 1 /\ a \in Int
    BY <1>1, <2>8, DivMod
  <2> HIDE DEF a, d
  <2> DEFINE uq == u * q
  <2>10. uq \in Nat /\ u * (Byte * q) = Byte * uq
    BY <1>1, <1>10, <2>2, SMT
  <2> HIDE DEF uq
  <2>11. v = uq + a
    BY <2>6, Zenon DEF uq, a
  <2>12. Byte * v + d = Byte * uq + t
    BY <2>9, <2>10, <2>11, SMT DEF Byte
  <2>13. Val(wide, Byte, wj + r) = u * Power(Byte, r) + t
    BY <2>2, <2>7, <2>10, <2>12, Zenon DEF d
  <2> QED
    BY <2>1, <2>13, Zenon DEF t, p, e
<1>13. 0 .. w \subseteq S
  <2> HIDE DEF S
  <2> QED
    BY <1>1, <1>11, <1>12, Upwards
<1>14. Val(wide, Byte, wj + w) = u * Power(Byte, w) + (x \div Power(Byte, w - w))
  <2>1. w \in 0 .. w
    BY <1>1, SMT
  <2> QED
    BY <1>13, <2>1, Zenon
<1>15. x \div Power(Byte, w - w) = x
  <2>1. w - w = 0 /\ x \div 1 = x
    BY <1>1, <1>3, SMT
  <2>2. Power(Byte, 0) = 1
    BY <1>1, PowerIs, Zenon
  <2> QED
    BY <2>1, <2>2, Zenon
<1>16. u * Power(Byte, w) = Word * u
  <2>1. Power(Byte, w) = Word
    BY Zenon DEF Word, w
  <2> HIDE DEF u
  <2>2. u * Word = Word * u
    BY <1>10, WordIs, SMT
  <2> QED
    BY <2>1, <2>2, Zenon
<1> QED
  BY <1>5, <1>14, <1>15, <1>16, Zenon DEF u, x, w, wj

(* The bytes of the limbs read the same number. *)
LEMMA WideReads ==
  ASSUME NEW n \in Nat, NEW outi \in [1 .. n -> 0 .. Word - 1], NEW wide, IsWide(wide, outi, n)
  PROVE  Val(wide, Byte, WordBytes * n) = Val(outi, Word, n)
<1>0. Digits(outi, Word, n) /\ 0 \in 0 .. n /\ n \in 0 .. n
  BY SMT DEF Digits
<1>1. Numbers(outi, n)
  BY <1>0, WordIs, DigitsAreNumbers, Zenon
<1>2. /\ Val(outi, Word, 0) = 0
      /\ \A k \in 0 .. n : Val(outi, Word, k) \in Nat
      /\ \A k \in 1 .. n : Val(outi, Word, k) = Word * Val(outi, Word, k - 1) + outi[k]
  BY <1>1, WordIs, ValIs, Zenon
<1> DEFINE S == {k \in 0 .. n : Val(wide, Byte, WordBytes * k) = Val(outi, Word, k)}
<1>3. 0 \in S
  <2>1. WordBytes * 0 = 0
    BY WordIs, SMT
  <2>2. Zeros(wide, 0)
    <3>1. 1 .. 0 = {}
      BY SMT
    <3> QED
      BY <3>1, Zenon DEF Zeros
  <2>3. Val(wide, Byte, 0) = 0
    <3>1. Byte \in Nat \ {0} /\ 0 \in Nat
      BY SMT DEF Byte
    <3> QED
      BY <2>2, <3>1, ValZero
  <2> QED
    BY <1>0, <1>2, <2>1, <2>3, Zenon
<1>4. ASSUME NEW k \in 1 .. n, k - 1 \in S PROVE k \in S
  <2> DEFINE j == k - 1
  <2>1. j \in 0 .. n - 1 /\ j + 1 = k /\ k \in 0 .. n
    BY SMT
  <2>2. Val(wide, Byte, WordBytes * j) = Val(outi, Word, j)
    BY <1>4, Zenon
  <2>3. Val(outi, Word, k) = Word * Val(outi, Word, j) + outi[k]
    BY <1>2, Zenon
  <2> HIDE DEF j
  <2>4. Val(wide, Byte, WordBytes * (j + 1)) = Word * Val(wide, Byte, WordBytes * j) + outi[j + 1]
    BY <2>1, LimbReads
  <2> QED
    BY <2>1, <2>2, <2>3, <2>4, Zenon
<1>5. 0 .. n \subseteq S
  <2> HIDE DEF S
  <2> QED
    BY <1>3, <1>4, Upwards
<1> QED
  BY <1>0, <1>5, Zenon

(* What the decoder hands out when it has not given up. *)
Decodes(fin, s, binsz) ==
  /\ fin.ok = TRUE /\ Bytes(fin.bin, binsz) /\ Val(fin.bin, Byte, binsz) = Number(s, Len(s))
  /\ fin.binsz = binsz - LeadingCount(fin.bin, 0) + LeadingCount(s, One)

LEMMA FinishDecodes ==
  ASSUME NEW s, NEW binsz \in Nat \ {0}, NEW st, Limbs(st, s, Len(s), binsz), st.ok
  PROVE  Decodes(DecFinish(st, s, binsz), s, binsz)
<1> DEFINE n == OutiSize(binsz)
<1> DEFINE outi == st.outi
<1> DEFINE w == WordBytes
<1> DEFINE nw == w * n
<1>0. /\ n \in Nat /\ Byte \in Nat \ {0} /\ Byte \in Nat /\ binsz \in Nat /\ binsz <= nw /\ w \in Nat
  BY LimbCount, WordIs, SMT DEF Byte
<1>1. st \in LimbType(binsz) /\ Val(outi, Word, n) = Number(s, Len(s)) /\ Number(s, Len(s)) < Power(Byte, binsz)
  BY Zenon DEF Limbs
<1>2. outi \in [1 .. n -> 0 .. Word - 1]
  BY <1>1 DEF LimbType
<1> DEFINE wide == LimbBytes(outi)
<1> HIDE DEF n, outi, w
<1>3. IsWide(wide, outi, n)
  BY <1>0, <1>2, WideIs
<1> HIDE DEF wide
<1>4. nw \in Nat /\ n * w = nw
  BY <1>0, SMT
<1>5. wide \in [1 .. nw -> 0 .. Byte - 1]
  <2>1. wide \in [1 .. n * w -> 0 .. Byte - 1]
    BY <1>3, Zenon DEF IsWide, w
  <2> QED
    BY <1>4, <2>1, Zenon
<1>6. Val(wide, Byte, nw) = Number(s, Len(s))
  <2>1. Val(wide, Byte, WordBytes * n) = Val(outi, Word, n)
    BY <1>0, <1>2, <1>3, WideReads
  <2> QED
    BY <1>1, <2>1, Zenon DEF w
<1> HIDE DEF nw
<1>7. Len(wide) = nw
  BY <1>4, <1>5, ArrayIsSeq
<1> DEFINE m == nw - binsz
<1>8. m \in Nat /\ m + binsz = nw
  BY <1>0, <1>4, SMT
<1> DEFINE bin == SubSeq(wide, m + 1, nw)
<1>9. bin \in Seq(0 .. Byte - 1) /\ Len(bin) = binsz /\ \A k \in 1 .. binsz : bin[k] = wide[m + k]
  <2> HIDE DEF m
  <2>1. /\ m + 1 \in Int /\ nw \in Int /\ m + 1 <= nw /\ nw - (m + 1) + 1 = binsz
        /\ \A k \in m + 1 .. nw : k \in 1 .. nw
        /\ \A k \in 1 .. binsz : (m + 1) + k - 1 = m + k
    BY <1>0, <1>4, <1>8, SMT
  <2>2. \A k \in m + 1 .. nw : wide[k] \in 0 .. Byte - 1
    BY <1>5, <2>1, Zenon
  <2>3. /\ bin \in Seq(0 .. Byte - 1)
        /\ Len(bin) = IF m + 1 <= nw THEN nw - (m + 1) + 1 ELSE 0
        /\ \A k \in 1 .. nw - (m + 1) + 1 : bin[k] = wide[(m + 1) + k - 1]
    BY <2>1, <2>2, SubSeqProperties
  <2> QED
    BY <2>1, <2>3, Zenon
<1> HIDE DEF bin
<1>10. Bytes(bin, binsz)
  <2>1. bin \in [1 .. Len(bin) -> 0 .. Byte - 1]
    BY <1>9, LenProperties
  <2> QED
    BY <1>9, <2>1, Zenon DEF Bytes
<1>11. Val(bin, Byte, binsz) = Number(s, Len(s))
  <2>1. Digits(wide, Byte, m + binsz)
    BY <1>5, <1>8, Zenon DEF Digits
  <2>2. Holds(wide, Byte, m + binsz, binsz)
    BY <1>1, <1>6, <1>8, Zenon DEF Holds
  <2>3. Behind(wide, m, bin, binsz)
    BY <1>9, Zenon DEF Behind
  <2>a. Byte \in Nat \ {0} /\ binsz \in Nat /\ m \in Nat
    BY <1>0, <1>8, Zenon
  <2> HIDE DEF m
  <2>4. Zeros(wide, m) /\ Val(bin, Byte, binsz) = Val(wide, Byte, m + binsz)
    BY <2>1, <2>2, <2>3, <2>a, ValTop, SMT
  <2> QED
    BY <1>6, <1>8, <2>4, Zenon
<1> DEFINE fin == DecFinish(st, s, binsz)
<1>12. fin = [ok |-> TRUE, bin |-> bin, binsz |-> binsz - LeadingCount(bin, 0) + LeadingCount(s, One)]
  <2>1. bin = SubSeq(wide, Len(wide) - binsz + 1, Len(wide))
    <3>1. Len(wide) - binsz + 1 = m + 1
      BY <1>7, Zenon
    <3> QED
      BY <1>7, <3>1, Zenon DEF bin
  <2> QED
    BY <2>1, Zenon DEF DecFinish, wide, outi
<1> HIDE DEF fin
<1>13. fin.ok = TRUE /\ fin.bin = bin /\ fin.binsz = binsz - LeadingCount(bin, 0) + LeadingCount(s, One)
  BY <1>12, SMT
<1>14. Decodes(fin, s, binsz)
  BY <1>10, <1>11, <1>13, Zenon DEF Decodes
<1> QED
  BY <1>14, Zenon DEF fin
-----------------------------------------------------------------------------
(* The reference: long division.                                           *)

DivTurn(v, k, digits, from, to) ==
  LET t == from * v.rest + digits[k]
  IN  [quotient |-> [v.quotient EXCEPT ![k] = t \div to], rest |-> t % to]

DivStates(from, to, n) == [quotient : [1 .. n -> 0 .. from - 1], rest : 0 .. to - 1]

(* A turn divides the rest and the next digit. *)
LEMMA DivTurnIs ==
  ASSUME NEW from \in Nat \ {0}, NEW to \in Nat \ {0}, NEW n \in Nat,
         NEW digits \in [1 .. n -> 0 .. from - 1], NEW k \in 1 .. n, NEW v \in DivStates(from, to, n)
  PROVE  DivTurn(v, k, digits, from, to) \in DivStates(from, to, n)
<1> DEFINE q == v.quotient
<1> DEFINE r == v.rest
<1> DEFINE d == digits[k]
<1> DEFINE t == from * r + d
<1>1. q \in [1 .. n -> 0 .. from - 1] /\ r \in 0 .. to - 1
  BY DEF DivStates
<1>2. d \in 0 .. from - 1
  BY Zenon
<1>3. DivTurn(v, k, digits, from, to) = [quotient |-> [q EXCEPT ![k] = t \div to], rest |-> t % to]
  BY Zenon DEF DivTurn
<1> HIDE DEF q, r, d
<1> DEFINE fr == from * r
<1>4. fr \in Nat /\ r \in Int /\ to \in Int /\ from \in Nat
  BY <1>1, SMT
<1>5. fr + from <= from * to
  BY <1>1, <1>4, ProductGrows, SMT
<1>6. from * to = to * from
  BY <1>4, SMT
<1> HIDE DEF fr
<1>7. t = fr + d
  BY Zenon DEF fr
<1> HIDE DEF t
<1>8. t \in Nat /\ t \in Int /\ t < to * from
  <2> DEFINE p == to * from
  <2>1. p \in Int
    BY <1>4, SMT
  <2>2. fr + from <= p
    BY <1>5, <1>6, Zenon
  <2> HIDE DEF p
  <2>3. t \in Nat /\ t \in Int /\ t < p
    BY <1>2, <1>4, <1>7, <2>1, <2>2, SMT
  <2> QED
    BY <2>3, Zenon DEF p
<1> DEFINE a == t \div to
<1>9. t = to * a + (t % to) /\ t % to \in 0 .. to - 1 /\ a \in Int
  BY <1>8, DivMod
<1>10. a \in Nat
  BY <1>8, DivNat
<1> HIDE DEF a
<1>11. a < from
  <2> SUFFICES ASSUME ~(a < from) PROVE FALSE
    BY Zenon
  <2>1. from <= a
    BY <1>4, <1>10, SMT
  <2>2. to * from <= to * a
    BY <1>4, <1>10, <2>1, SMT
  <2> DEFINE x == to * from
  <2> DEFINE y == to * a
  <2>3. x \in Int /\ y \in Int
    BY <1>4, <1>10, SMT
  <2>4. t < x /\ x <= y /\ t = y + (t % to)
    BY <1>8, <1>9, <2>2, Zenon
  <2> DEFINE z == t % to
  <2> HIDE DEF x, y, z
  <2>5. z \in Nat /\ t = y + z
    BY <1>9, <2>4, SMT DEF z
  <2> QED
    BY <1>8, <2>3, <2>4, <2>5, SMT
<1>12. a \in 0 .. from - 1
  BY <1>4, <1>10, <1>11, SMT
<1>13. [q EXCEPT ![k] = a] \in [1 .. n -> 0 .. from - 1]
  BY <1>1, <1>12, SMT
<1> DEFINE qq == [q EXCEPT ![k] = a]
<1> DEFINE rr == t % to
<1>14. DivTurn(v, k, digits, from, to) = [quotient |-> qq, rest |-> rr]
  BY <1>3, Zenon DEF a
<1>15. qq \in [1 .. n -> 0 .. from - 1] /\ rr \in 0 .. to - 1
  BY <1>9, <1>13, Zenon
<1> HIDE DEF qq, rr
<1> QED
  BY <1>14, <1>15 DEF DivStates

IsDivision(f, digits, from, to, n) ==
  /\ f \in [0 .. n -> DivStates(from, to, n)] /\ f[0] = [quotient |-> digits, rest |-> 0]
  /\ \A k \in 1 .. n : f[k] = DivTurn(f[k - 1], k, digits, from, to)

DivRuns(f, digits, from, to, n) ==
  f = [k \in 0 .. n |-> IF k = 0 THEN [quotient |-> digits, rest |-> 0]
                        ELSE DivTurn(f[k - 1], k, digits, from, to)]

LEMMA DivisionRuns ==
  ASSUME NEW from \in Nat \ {0}, NEW to \in Nat \ {0}, NEW n \in Nat,
         NEW digits \in [1 .. n -> 0 .. from - 1]
  PROVE  \E f : IsDivision(f, digits, from, to, n) /\ Division(digits, from, to) = f[n]
<1> DEFINE S == DivStates(from, to, n)
<1> DEFINE init == [quotient |-> digits, rest |-> 0]
<1> DEFINE T(v, k) == DivTurn(v, k, digits, from, to)
<1> DEFINE step == [k \in Nat |-> [v \in S |-> IF k \in 1 .. n THEN T(v, k) ELSE v]]
<1>0. Len(digits) = n
  BY ArrayIsSeq
<1>1. \A k \in 1 .. n : \A v \in S : T(v, k) \in S
  BY DivTurnIs
<1>2. init \in S
  <2>1. 0 \in 0 .. to - 1
    BY SMT
  <2> QED
    BY <2>1 DEF DivStates
<1> HIDE DEF S, T, init
<1>3. step \in Steps(S)
  <2>1. \A k \in Nat : \A v \in S : (IF k \in 1 .. n THEN T(v, k) ELSE v) \in S
    BY <1>1, Zenon
  <2> QED
    BY <2>1, Zenon DEF Steps
<1>4. PICK p : IsLoop(p, S, init, step, n)
  <2> HIDE DEF step
  <2> QED
    BY <1>2, <1>3, LoopExists
<1>5. p \in [0 .. n -> S] /\ p[0] = init
  BY <1>4, Zenon DEF IsLoop
<1>6. ASSUME NEW k \in 1 .. n PROVE p[k] = T(p[k - 1], k)
  <2>1. k \in Nat /\ k - 1 \in 0 .. n
    BY SMT
  <2>2. p[k] = step[k][p[k - 1]]
    BY <1>4, Zenon DEF IsLoop
  <2>3. p[k - 1] \in S
    BY <1>5, <2>1, Zenon
  <2> DEFINE v == p[k - 1]
  <2>4. v \in S
    BY <2>3, Zenon
  <2> HIDE DEF v
  <2>5. step[k][v] = T(v, k)
    BY <2>1, <2>4
  <2> QED
    BY <2>2, <2>5, Zenon DEF v
<1> HIDE DEF step
<1> DEFINE Runs(f) == DivRuns(f, digits, from, to, n)
<1>7. Runs(p)
  <2>1. ASSUME NEW k \in 0 .. n PROVE p[k] = IF k = 0 THEN init ELSE T(p[k - 1], k)
    <3>1. CASE k = 0
      BY <3>1, <1>5, Zenon
    <3>2. CASE k # 0
      <4>1. k \in 1 .. n
        BY <3>2, SMT
      <4> QED
        BY <4>1, <3>2, <1>6, Zenon
    <3> QED
      BY <3>1, <3>2
  <2>2. p = [k \in 0 .. n |-> p[k]]
    BY <1>5, Zenon
  <2>3. p = [k \in 0 .. n |-> IF k = 0 THEN init ELSE T(p[k - 1], k)]
    BY <2>1, <2>2, Zenon
  <2> QED
    BY <2>3, Zenon DEF T, init, DivRuns
<1> DEFINE f == CHOOSE g : DivRuns(g, digits, from, to, n)
<1>8. DivRuns(f, digits, from, to, n)
  BY <1>7, Zenon
<1>9. Division(digits, from, to) = f[n]
  <2>1. Division(digits, from, to) = (CHOOSE g : DivRuns(g, digits, from, to, Len(digits)))[Len(digits)]
    BY Zenon DEF Division, DivRuns, DivTurn
  <2> QED
    BY <1>0, <2>1, Zenon
<1> HIDE DEF f, Runs
<1>10. f[0] = init /\ \A k \in 1 .. n : f[k] = T(f[k - 1], k)
  <2>1. \A k \in 1 .. n : k \in 0 .. n /\ k # 0
    BY SMT
  <2>2. 0 \in 0 .. n
    BY SMT
  <2>3. f = [k \in 0 .. n |-> IF k = 0 THEN init ELSE T(f[k - 1], k)]
    BY <1>8, Zenon DEF T, init, DivRuns
  <2>4. ASSUME NEW k \in 1 .. n PROVE f[k] = T(f[k - 1], k)
    BY <2>1, <2>3, Zenon
  <2>5. f[0] = init
    BY <2>2, <2>3, Zenon
  <2> QED
    BY <2>4, <2>5, Zenon
<1>11. SameTurns(f, p, n)
  <2>1. f[0] = p[0]
    BY <1>5, <1>10, Zenon
  <2>2. \A k \in 1 .. n : f[k - 1] = p[k - 1] => f[k] = p[k]
    BY <1>6, <1>10, Zenon
  <2> QED
    BY <2>1, <2>2, Zenon DEF SameTurns
<1>12. \A k \in 0 .. n : f[k] = p[k]
  BY <1>11, SameLoop, SMT
<1>13. f \in [0 .. n -> S]
  <2>1. f = [k \in 0 .. n |-> f[k]]
    BY <1>8, Zenon DEF DivRuns
  <2> QED
    BY <2>1, <1>5, <1>12, Zenon
<1>14. IsDivision(f, digits, from, to, n)
  BY <1>10, <1>13, Zenon DEF IsDivision, S, T, init
<1> QED
  BY <1>9, <1>14, Zenon

(* Quotient and rest of a number given by its digits. *)
Divided(d, digits, from, to, n) ==
  /\ d.quotient \in [1 .. n -> 0 .. from - 1] /\ d.rest \in 0 .. to - 1
  /\ Val(digits, from, n) = to * Val(d.quotient, from, n) + d.rest

LEMMA DivisionDivides ==
  ASSUME NEW from \in Nat \ {0}, NEW to \in Nat \ {0}, NEW n \in Nat,
         NEW digits \in [1 .. n -> 0 .. from - 1]
  PROVE  Divided(Division(digits, from, to), digits, from, to, n)
<1>1. PICK f : IsDivision(f, digits, from, to, n) /\ Division(digits, from, to) = f[n]
  BY DivisionRuns
<1>2. /\ f \in [0 .. n -> DivStates(from, to, n)] /\ f[0] = [quotient |-> digits, rest |-> 0]
      /\ \A k \in 1 .. n : f[k] = DivTurn(f[k - 1], k, digits, from, to)
  BY <1>1, Zenon DEF IsDivision
<1>0. from \in Nat /\ to \in Nat /\ 0 \in 0 .. n /\ n \in 0 .. n
  BY SMT
<1>3. ASSUME NEW k \in 0 .. n
      PROVE  f[k].quotient \in [1 .. n -> 0 .. from - 1] /\ f[k].rest \in 0 .. to - 1
  <2>1. f[k] \in DivStates(from, to, n)
    BY <1>2, Zenon
  <2> DEFINE v == f[k]
  <2>2. v \in DivStates(from, to, n)
    BY <2>1, Zenon
  <2> HIDE DEF v
  <2>3. v.quotient \in [1 .. n -> 0 .. from - 1] /\ v.rest \in 0 .. to - 1
    BY <2>2 DEF DivStates
  <2> QED
    BY <2>3, Zenon DEF v
<1> DEFINE c == [j \in 1 .. n |-> (from * f[j - 1].rest + digits[j]) \div to]
<1>4. ASSUME NEW k \in 1 .. n
      PROVE  /\ f[k].quotient = [f[k - 1].quotient EXCEPT ![k] = c[k]]
             /\ f[k].rest = (from * f[k - 1].rest + digits[k]) % to
  <2> DEFINE v == f[k - 1]
  <2> DEFINE t == from * v.rest + digits[k]
  <2>1. f[k] = [quotient |-> [v.quotient EXCEPT ![k] = t \div to], rest |-> t % to]
    BY <1>2, Zenon DEF DivTurn
  <2>2. c[k] = t \div to
    BY Zenon
  <2> DEFINE qq == [v.quotient EXCEPT ![k] = t \div to]
  <2> DEFINE rr == t % to
  <2>3. f[k] = [quotient |-> qq, rest |-> rr]
    BY <2>1, Zenon
  <2> DEFINE w == f[k]
  <2> HIDE DEF qq, rr, w
  <2>4. w = [quotient |-> qq, rest |-> rr]
    BY <2>3, Zenon DEF w
  <2>5. w.quotient = qq /\ w.rest = rr
    BY <2>4, SMT
  <2> HIDE DEF c
  <2> QED
    BY <2>2, <2>5, Zenon DEF w, qq, rr
<1> HIDE DEF c
<1> DEFINE S == {k \in 0 .. n : \A j \in 1 .. k : f[k].quotient[j] = c[j]}
<1>5. 0 .. n \subseteq S
  <2>1. 0 \in S
    <3>1. 1 .. 0 = {}
      BY SMT
    <3> QED
      BY <1>0, <3>1, Zenon
  <2>2. ASSUME NEW k \in 1 .. n, k - 1 \in S PROVE k \in S
    <3>1. k - 1 \in 0 .. n /\ k \in 0 .. n
      BY SMT
    <3> DEFINE q == f[k - 1].quotient
    <3>2. q \in [1 .. n -> 0 .. from - 1] /\ \A j \in 1 .. k - 1 : q[j] = c[j]
      BY <1>3, <2>2, <3>1, Zenon
    <3> HIDE DEF q
    <3>3. ASSUME NEW j \in 1 .. k PROVE [q EXCEPT ![k] = c[k]][j] = c[j]
      <4>1. j \in 1 .. n
        BY SMT
      <4>2. CASE j = k
        BY <3>2, <4>1, <4>2, Zenon
      <4>3. CASE j # k
        <5>1. j \in 1 .. k - 1
          BY <4>3, SMT
        <5>2. [q EXCEPT ![k] = c[k]][j] = q[j]
          BY <3>2, <4>1, <4>3, Zenon
        <5> QED
          BY <3>2, <5>1, <5>2, Zenon
      <4> QED
        BY <4>2, <4>3
    <3>4. f[k].quotient = [q EXCEPT ![k] = c[k]]
      BY <1>4, Zenon DEF q
    <3> QED
      BY <3>1, <3>3, <3>4, Zenon
  <2> HIDE DEF S
  <2> QED
    BY <2>1, <2>2, Upwards
<1> DEFINE quot == f[n].quotient
<1>6. Agree(c, quot, n)
  BY <1>0, <1>5, Zenon DEF Agree
<1>7. quot \in [1 .. n -> 0 .. from - 1]
  BY <1>0, <1>3, Zenon
<1> HIDE DEF quot
<1>8. Numbers(c, n) /\ Numbers(digits, n)
  <2>1. Digits(quot, from, n) /\ Digits(digits, from, n)
    BY <1>7, Zenon DEF Digits
  <2>2. Numbers(quot, n)
    BY <1>0, <2>1, DigitsAreNumbers
  <2>3. Numbers(digits, n)
    BY <1>0, <2>1, DigitsAreNumbers
  <2> QED
    BY <1>6, <2>2, <2>3, Zenon DEF Numbers, Agree
<1>9. /\ Val(c, from, 0) = 0
      /\ \A k \in 0 .. n : Val(c, from, k) \in Nat
      /\ \A k \in 1 .. n : Val(c, from, k) = from * Val(c, from, k - 1) + c[k]
  BY <1>0, <1>8, ValIs
<1>10. /\ Val(digits, from, 0) = 0
       /\ \A k \in 0 .. n : Val(digits, from, k) \in Nat
       /\ \A k \in 1 .. n : Val(digits, from, k) = from * Val(digits, from, k - 1) + digits[k]
  <2>1. Numbers(digits, n) /\ from \in Nat /\ n \in Nat
    BY <1>0, <1>8, Zenon
  <2> DEFINE x == digits
  <2>2. Numbers(x, n)
    BY <2>1, Zenon
  <2> HIDE DEF x
  <2>3. /\ Val(x, from, 0) = 0
        /\ \A k \in 0 .. n : Val(x, from, k) \in Nat
        /\ \A k \in 1 .. n : Val(x, from, k) = from * Val(x, from, k - 1) + x[k]
    BY <2>1, <2>2, ValIs
  <2> QED
    BY <2>3, Zenon DEF x
<1> DEFINE U == {k \in 0 .. n : Val(digits, from, k) = to * Val(c, from, k) + f[k].rest}
<1>11. 0 .. n \subseteq U
  <2>1. 0 \in U
    <3>1. f[0].rest = 0
      BY <1>2
    <3>2. to * 0 + 0 = 0
      BY <1>0, SMT
    <3> QED
      BY <1>0, <1>9, <1>10, <3>1, <3>2, Zenon
  <2>2. ASSUME NEW k \in 1 .. n, k - 1 \in U PROVE k \in U
    <3>1. k - 1 \in 0 .. n /\ k \in 0 .. n
      BY SMT
    <3> DEFINE q == Val(c, from, k - 1)
    <3> DEFINE r == f[k - 1].rest
    <3> DEFINE d == digits[k]
    <3> DEFINE t == from * r + d
    <3>2. Val(digits, from, k) = from * (to * q + r) + d
      BY <1>10, <2>2, Zenon
    <3>3. f[k].rest = t % to
      BY <1>4, Zenon
    <3>4. c[k] = t \div to
      BY Zenon DEF c
    <3>5. Val(c, from, k) = from * q + c[k]
      BY <1>9, Zenon
    <3>6. q \in Nat /\ r \in Nat /\ d \in Nat
      <4>1. r \in 0 .. to - 1
        BY <1>3, <3>1, Zenon
      <4>2. q \in Nat /\ d \in Nat
        BY <1>8, <1>9, <3>1, Zenon DEF Numbers
      <4> HIDE DEF r
      <4> QED
        BY <1>0, <4>1, <4>2, SMT
    <3> HIDE DEF q, r, d
    <3> DEFINE fr == from * r
    <3>7. t \in Int /\ fr \in Nat
      BY <1>0, <3>6, SMT
    <3>8. t = fr + d
      BY Zenon
    <3> HIDE DEF t, fr
    <3> DEFINE a == t \div to
    <3> DEFINE b == t % to
    <3>9. t = to * a + b /\ b \in 0 .. to - 1 /\ a \in Int
      BY <3>7, DivMod
    <3> HIDE DEF a, b
    <3> DEFINE fq == from * q
    <3> DEFINE tfq == to * fq
    <3> DEFINE ta == to * a
    <3>10. fq \in Nat
      BY <1>0, <3>6, SMT
    <3>11. from * (to * q + r) = to * fq + fr
      <4>1. from * (to * q + r) = from * (to * q) + from * r
        BY <1>0, <3>6, SMT
      <4>2. from * (to * q) = to * (from * q)
        BY <1>0, <3>6, SMT
      <4> QED
        BY <4>1, <4>2, Zenon DEF fr
    <3> HIDE DEF fq
    <3>12. to * (fq + a) = tfq + ta /\ tfq \in Int /\ ta \in Int
      BY <1>0, <3>9, <3>10, SMT
    <3> HIDE DEF tfq, ta
    <3>13. (tfq + fr) + d = (tfq + ta) + b
      <4>1. fr + d = ta + b
        BY <3>8, <3>9, Zenon DEF ta
      <4> QED
        BY <3>6, <3>7, <3>9, <3>12, <4>1, SMT
    <3>14. Val(digits, from, k) = (tfq + fr) + d
      BY <3>2, <3>11, Zenon DEF tfq
    <3>15. to * Val(c, from, k) + f[k].rest = (tfq + ta) + b
      BY <3>3, <3>4, <3>5, <3>12, Zenon DEF a, b, fq
    <3> QED
      BY <3>1, <3>13, <3>14, <3>15, Zenon
  <2> HIDE DEF U
  <2> QED
    BY <2>1, <2>2, Upwards
<1>12. Val(digits, from, n) = to * Val(c, from, n) + f[n].rest
  BY <1>0, <1>11, Zenon
<1>13. Val(c, from, n) = Val(quot, from, n)
  BY <1>0, <1>6, <1>8, ValSame
<1>14. f[n].rest \in 0 .. to - 1
  BY <1>0, <1>3, Zenon
<1> QED
  BY <1>1, <1>7, <1>12, <1>13, <1>14, Zenon DEF Divided, quot

ConvTurn(v, k, from, to, n) ==
  LET division == Division(v.left, from, to)
  IN  [left  |-> division.quotient,
       cells |-> [v.cells EXCEPT ![n - k + 1] = division.rest]]

ConvStart(digits, n) == [left |-> digits, cells |-> [j \in 1 .. n |-> 0]]

ConvStates(from, to, m, n) == [left : [1 .. m -> 0 .. from - 1], cells : [1 .. n -> 0 .. to - 1]]

Turned(v, w, k, from, to, m, n) ==
  LET d == Division(v.left, from, to)
  IN  /\ w \in ConvStates(from, to, m, n)
      /\ Divided(d, v.left, from, to, m)
      /\ w.left = d.quotient
      /\ w.cells = [v.cells EXCEPT ![n - k + 1] = d.rest]

(* A turn divides what is left, and writes the rest down. *)
LEMMA ConvTurnIs ==
  ASSUME NEW from \in Nat \ {0}, NEW to \in Nat \ {0}, NEW m \in Nat, NEW n \in Nat,
         NEW k \in 1 .. n, NEW v \in ConvStates(from, to, m, n)
  PROVE  Turned(v, ConvTurn(v, k, from, to, n), k, from, to, m, n)
<1> DEFINE l == v.left
<1> DEFINE c == v.cells
<1> DEFINE d == Division(l, from, to)
<1> DEFINE w == ConvTurn(v, k, from, to, n)
<1>1. l \in [1 .. m -> 0 .. from - 1] /\ c \in [1 .. n -> 0 .. to - 1]
  BY DEF ConvStates
<1>2. w = [left |-> d.quotient, cells |-> [c EXCEPT ![n - k + 1] = d.rest]]
  BY Zenon DEF ConvTurn
<1> HIDE DEF l, c, w
<1>3. Divided(d, l, from, to, m)
  BY <1>1, DivisionDivides
<1> HIDE DEF d
<1>4. d.quotient \in [1 .. m -> 0 .. from - 1] /\ d.rest \in 0 .. to - 1
  BY <1>3, Zenon DEF Divided
<1> DEFINE q == d.quotient
<1> DEFINE r == d.rest
<1>5. q \in [1 .. m -> 0 .. from - 1] /\ r \in 0 .. to - 1 /\ n - k + 1 \in 1 .. n
  BY <1>4, SMT
<1>6. w = [left |-> q, cells |-> [c EXCEPT ![n - k + 1] = r]]
  BY <1>2, Zenon
<1> HIDE DEF q, r
<1> DEFINE cc == [c EXCEPT ![n - k + 1] = r]
<1>7. cc \in [1 .. n -> 0 .. to - 1]
  BY <1>1, <1>5, Zenon
<1>8. w = [left |-> q, cells |-> cc]
  BY <1>6, Zenon
<1> HIDE DEF cc
<1>9. w \in ConvStates(from, to, m, n) /\ w.left = q /\ w.cells = cc
  BY <1>5, <1>7, <1>8 DEF ConvStates
<1> QED
  BY <1>3, <1>9, Zenon DEF Turned, w, l, c, d, q, r, cc

IsConversion(f, digits, from, to, m, n) ==
  /\ f \in [0 .. n -> ConvStates(from, to, m, n)] /\ f[0] = ConvStart(digits, n)
  /\ \A k \in 1 .. n : f[k] = ConvTurn(f[k - 1], k, from, to, n)

ConvRuns(f, digits, from, to, n) ==
  f = [k \in 0 .. n |-> IF k = 0 THEN ConvStart(digits, n)
                        ELSE ConvTurn(f[k - 1], k, from, to, n)]

LEMMA ConvertRuns ==
  ASSUME NEW from \in Nat \ {0}, NEW to \in Nat \ {0}, NEW m \in Nat, NEW n \in Nat,
         NEW digits \in [1 .. m -> 0 .. from - 1]
  PROVE  \E f : IsConversion(f, digits, from, to, m, n) /\ Convert(digits, from, to, n) = f[n]
<1> DEFINE S == ConvStates(from, to, m, n)
<1> DEFINE init == ConvStart(digits, n)
<1> DEFINE T(v, k) == ConvTurn(v, k, from, to, n)
<1> DEFINE step == [k \in Nat |-> [v \in S |-> IF k \in 1 .. n THEN T(v, k) ELSE v]]
<1>1. \A k \in 1 .. n : \A v \in S : T(v, k) \in S
  <2>1. \A k \in 1 .. n : \A v \in S : Turned(v, T(v, k), k, from, to, m, n)
    BY ConvTurnIs
  <2> HIDE DEF T
  <2> QED
    BY <2>1, Zenon DEF Turned
<1>2. init \in S
  <2>1. [j \in 1 .. n |-> 0] \in [1 .. n -> 0 .. to - 1]
    BY SMT
  <2> DEFINE z == [j \in 1 .. n |-> 0]
  <2>2. z \in [1 .. n -> 0 .. to - 1]
    BY <2>1, Zenon
  <2> HIDE DEF z
  <2>3. [left |-> digits, cells |-> z] \in ConvStates(from, to, m, n)
    BY <2>2 DEF ConvStates
  <2> QED
    BY <2>3, Zenon DEF z, ConvStart
<1> HIDE DEF S, T, init
<1>3. step \in Steps(S)
  <2>1. \A k \in Nat : \A v \in S : (IF k \in 1 .. n THEN T(v, k) ELSE v) \in S
    BY <1>1, Zenon
  <2> QED
    BY <2>1, Zenon DEF Steps
<1>4. PICK p : IsLoop(p, S, init, step, n)
  <2> HIDE DEF step
  <2> QED
    BY <1>2, <1>3, LoopExists
<1>5. p \in [0 .. n -> S] /\ p[0] = init
  BY <1>4, Zenon DEF IsLoop
<1>6. ASSUME NEW k \in 1 .. n PROVE p[k] = T(p[k - 1], k)
  <2>1. k \in Nat /\ k - 1 \in 0 .. n
    BY SMT
  <2>2. p[k] = step[k][p[k - 1]]
    BY <1>4, Zenon DEF IsLoop
  <2>3. p[k - 1] \in S
    BY <1>5, <2>1, Zenon
  <2> DEFINE v == p[k - 1]
  <2>4. v \in S
    BY <2>3, Zenon
  <2> HIDE DEF v
  <2>5. step[k][v] = T(v, k)
    BY <2>1, <2>4
  <2> QED
    BY <2>2, <2>5, Zenon DEF v
<1> HIDE DEF step
<1> DEFINE Runs(f) == ConvRuns(f, digits, from, to, n)
<1>7. Runs(p)
  <2>1. ASSUME NEW k \in 0 .. n PROVE p[k] = IF k = 0 THEN init ELSE T(p[k - 1], k)
    <3>1. CASE k = 0
      BY <3>1, <1>5, Zenon
    <3>2. CASE k # 0
      <4>1. k \in 1 .. n
        BY <3>2, SMT
      <4> QED
        BY <4>1, <3>2, <1>6, Zenon
    <3> QED
      BY <3>1, <3>2
  <2>2. p = [k \in 0 .. n |-> p[k]]
    BY <1>5, Zenon
  <2>3. p = [k \in 0 .. n |-> IF k = 0 THEN init ELSE T(p[k - 1], k)]
    BY <2>1, <2>2, Zenon
  <2> QED
    BY <2>3, Zenon DEF T, init, ConvRuns
<1> DEFINE f == CHOOSE g : ConvRuns(g, digits, from, to, n)
<1>8. ConvRuns(f, digits, from, to, n)
  BY <1>7, Zenon
<1>9. Convert(digits, from, to, n) = f[n]
  BY Zenon DEF Convert, ConvRuns, ConvTurn, ConvStart
<1> HIDE DEF f, Runs
<1>10. f[0] = init /\ \A k \in 1 .. n : f[k] = T(f[k - 1], k)
  <2>1. \A k \in 1 .. n : k \in 0 .. n /\ k # 0
    BY SMT
  <2>2. 0 \in 0 .. n
    BY SMT
  <2>3. f = [k \in 0 .. n |-> IF k = 0 THEN init ELSE T(f[k - 1], k)]
    BY <1>8, Zenon DEF T, init, ConvRuns
  <2>4. ASSUME NEW k \in 1 .. n PROVE f[k] = T(f[k - 1], k)
    BY <2>1, <2>3, Zenon
  <2>5. f[0] = init
    BY <2>2, <2>3, Zenon
  <2> QED
    BY <2>4, <2>5, Zenon
<1>11. SameTurns(f, p, n)
  <2>1. f[0] = p[0]
    BY <1>5, <1>10, Zenon
  <2>2. \A k \in 1 .. n : f[k - 1] = p[k - 1] => f[k] = p[k]
    BY <1>6, <1>10, Zenon
  <2> QED
    BY <2>1, <2>2, Zenon DEF SameTurns
<1>12. \A k \in 0 .. n : f[k] = p[k]
  BY <1>11, SameLoop, SMT
<1>13. f \in [0 .. n -> S]
  <2>1. f = [k \in 0 .. n |-> f[k]]
    BY <1>8, Zenon DEF ConvRuns
  <2> QED
    BY <2>1, <1>5, <1>12, Zenon
<1>14. IsConversion(f, digits, from, to, m, n)
  BY <1>10, <1>13, Zenon DEF IsConversion, S, T, init
<1> QED
  BY <1>9, <1>14, Zenon



(* What a conversion leaves and what it writes make up the number. *)
Converted(c, digits, from, to, m, n) ==
  /\ c.left \in [1 .. m -> 0 .. from - 1] /\ c.cells \in [1 .. n -> 0 .. to - 1]
  /\ Val(digits, from, m) = Power(to, n) * Val(c.left, from, m) + Val(c.cells, to, n)

LEMMA ConvertConverts ==
  ASSUME NEW from \in Nat \ {0}, NEW to \in Nat \ {0}, NEW m \in Nat, NEW n \in Nat,
         NEW digits \in [1 .. m -> 0 .. from - 1]
  PROVE  Converted(Convert(digits, from, to, n), digits, from, to, m, n)
<1>1. PICK f : IsConversion(f, digits, from, to, m, n) /\ Convert(digits, from, to, n) = f[n]
  BY ConvertRuns, ZenonT(30)
<1>2. /\ f \in [0 .. n -> ConvStates(from, to, m, n)] /\ f[0] = ConvStart(digits, n)
      /\ \A k \in 1 .. n : f[k] = ConvTurn(f[k - 1], k, from, to, n)
  BY <1>1, Zenon DEF IsConversion
<1>0. from \in Nat /\ to \in Nat /\ 0 \in 0 .. n /\ n \in 0 .. n
  BY SMT
<1>3. ASSUME NEW k \in 0 .. n
      PROVE  f[k].left \in [1 .. m -> 0 .. from - 1] /\ f[k].cells \in [1 .. n -> 0 .. to - 1]
  <2> DEFINE v == f[k]
  <2>2. v \in ConvStates(from, to, m, n)
    BY <1>2, Zenon
  <2> HIDE DEF v
  <2>3. v.left \in [1 .. m -> 0 .. from - 1] /\ v.cells \in [1 .. n -> 0 .. to - 1]
    BY <2>2 DEF ConvStates
  <2> QED
    BY <2>3, Zenon DEF v
<1>4. f[0].left = digits
  <2> DEFINE z == [j \in 1 .. n |-> 0]
  <2> DEFINE v == f[0]
  <2>1. v = [left |-> digits, cells |-> z]
    BY <1>2, Zenon DEF ConvStart
  <2> HIDE DEF z, v
  <2>2. v.left = digits
    BY <2>1, SMT
  <2> QED
    BY <2>2, Zenon DEF v
<1> DEFINE R(k) == Division(f[k - 1].left, from, to).rest
<1> DEFINE V(k) == Val(f[k].left, from, m)
<1>5. ASSUME NEW k \in 1 .. n
      PROVE  /\ f[k].cells = [f[k - 1].cells EXCEPT ![n - k + 1] = R(k)]
             /\ V(k - 1) = to * V(k) + R(k)
  <2>1. k - 1 \in 0 .. n
    BY SMT
  <2> DEFINE v == f[k - 1]
  <2>2. v \in ConvStates(from, to, m, n) /\ f[k] = ConvTurn(v, k, from, to, n)
    BY <1>2, <2>1, Zenon
  <2> HIDE DEF v
  <2> DEFINE w == ConvTurn(v, k, from, to, n)
  <2> DEFINE d == Division(v.left, from, to)
  <2>5. Turned(v, w, k, from, to, m, n)
    BY <2>2, ConvTurnIs
  <2>3. /\ Divided(d, v.left, from, to, m) /\ w.left = d.quotient
        /\ w.cells = [v.cells EXCEPT ![n - k + 1] = d.rest]
    BY <2>5, Zenon DEF Turned
  <2>4. Val(v.left, from, m) = to * Val(d.quotient, from, m) + d.rest
    BY <2>3, Zenon DEF Divided
  <2> QED
    BY <2>2, <2>3, <2>4, Zenon DEF v
<1> DEFINE S == {k \in 0 .. n : \A j \in 1 .. k : f[k].cells[n - j + 1] = R(j)}
<1> HIDE DEF R, V
<1>6. 0 .. n \subseteq S
  <2>1. 0 \in S
    <3>1. 1 .. 0 = {}
      BY SMT
    <3> QED
      BY <1>0, <3>1, Zenon
  <2>2. ASSUME NEW k \in 1 .. n, k - 1 \in S PROVE k \in S
    <3>1. k - 1 \in 0 .. n /\ k \in 0 .. n
      BY SMT
    <3> DEFINE q == f[k - 1].cells
    <3>2. q \in [1 .. n -> 0 .. to - 1] /\ \A j \in 1 .. k - 1 : q[n - j + 1] = R(j)
      BY <1>3, <2>2, <3>1, Zenon
    <3> HIDE DEF q
    <3>3. ASSUME NEW j \in 1 .. k PROVE [q EXCEPT ![n - k + 1] = R(k)][n - j + 1] = R(j)
      <4>1. n - j + 1 \in 1 .. n /\ n - k + 1 \in 1 .. n
        BY SMT
      <4>2. CASE j = k
        BY <3>2, <4>1, <4>2, Zenon
      <4>3. CASE j # k
        <5>1. j \in 1 .. k - 1 /\ n - j + 1 # n - k + 1
          BY <4>3, SMT
        <5>2. [q EXCEPT ![n - k + 1] = R(k)][n - j + 1] = q[n - j + 1]
          BY <3>2, <4>1, <5>1, Zenon
        <5> QED
          BY <3>2, <5>1, <5>2, Zenon
      <4> QED
        BY <4>2, <4>3
    <3>4. f[k].cells = [q EXCEPT ![n - k + 1] = R(k)]
      BY <1>5, Zenon DEF q
    <3> QED
      BY <3>1, <3>3, <3>4, Zenon
  <2> HIDE DEF S
  <2> QED
    BY <2>1, <2>2, Upwards
<1> DEFINE C == f[n].cells
<1>7. C \in [1 .. n -> 0 .. to - 1] /\ \A j \in 1 .. n : C[n - j + 1] = R(j)
  BY <1>0, <1>3, <1>6, Zenon
<1> HIDE DEF S, C
<1>8. ASSUME NEW k \in 0 .. n PROVE V(k) \in Nat
  <2> DEFINE l == f[k].left
  <2>1. l \in [1 .. m -> 0 .. from - 1]
    BY <1>3, Zenon
  <2> HIDE DEF l
  <2>2. Digits(l, from, m)
    BY <2>1, Zenon DEF Digits
  <2>3. Numbers(l, m)
    BY <1>0, <2>2, DigitsAreNumbers
  <2>4. \A j \in 0 .. m : Val(l, from, j) \in Nat
    BY <1>0, <2>3, ValIs
  <2>5. m \in 0 .. m
    BY SMT
  <2> QED
    BY <2>4, <2>5, Zenon DEF V, l
<1>9. Numbers(C, n)
  <2>1. Digits(C, to, n)
    BY <1>7, Zenon DEF Digits
  <2> QED
    BY <1>0, <2>1, DigitsAreNumbers
<1>10. /\ Val(C, to, 0) = 0
       /\ \A k \in 0 .. n : Val(C, to, k) \in Nat
       /\ \A k \in 1 .. n : Val(C, to, k) = to * Val(C, to, k - 1) + C[k]
  BY <1>0, <1>9, ValIs
<1> DEFINE U == {k \in 0 .. n : V(n - k) = Power(to, k) * V(n) + Val(C, to, k)}
<1>11. V(n) \in Nat
  BY <1>0, <1>8, Zenon
<1>12. 0 .. n \subseteq U
  <2>1. 0 \in U
    <3>1. Power(to, 0) = 1 /\ n - 0 = n
      BY <1>0, PowerIs, SMT
    <3>2. 1 * V(n) + 0 = V(n)
      BY <1>11, SMT
    <3> QED
      BY <1>0, <1>10, <3>1, <3>2, Zenon
  <2>2. ASSUME NEW k \in 1 .. n, k - 1 \in U PROVE k \in U
    <3>1. /\ k - 1 \in 0 .. n /\ k \in 0 .. n /\ n - k + 1 \in 1 .. n /\ k - 1 \in Nat
          /\ n - (n - k + 1) + 1 = k /\ (n - k + 1) - 1 = n - k /\ n - (k - 1) = n - k + 1
          /\ (k - 1) + 1 = k /\ n - k \in 0 .. n
      BY SMT
    <3> DEFINE p == Power(to, k - 1)
    <3> DEFINE u == Val(C, to, k - 1)
    <3> DEFINE v == V(n)
    <3> DEFINE d == C[k]
    <3>2. V(n - k + 1) = p * v + u
      BY <2>2, <3>1, Zenon
    <3>3. V(n - k) = to * V(n - k + 1) + R(n - k + 1)
      <4>1. V((n - k + 1) - 1) = to * V(n - k + 1) + R(n - k + 1)
        BY <1>5, <3>1, Zenon
      <4> QED
        BY <3>1, <4>1, Zenon
    <3>4. R(n - k + 1) = d
      <4>1. C[n - (n - k + 1) + 1] = R(n - k + 1)
        BY <1>7, <3>1, Zenon
      <4> QED
        BY <3>1, <4>1, Zenon
    <3>5. Val(C, to, k) = to * u + d
      BY <1>10, Zenon
    <3>6. Power(to, k) = to * p /\ p \in Nat
      <4>1. Power(to, (k - 1) + 1) = to * p /\ p \in Nat
        BY <1>0, <3>1, PowerIs, Zenon
      <4> QED
        BY <3>1, <4>1, Zenon
    <3>7. u \in Nat /\ v \in Nat /\ d \in Nat
      BY <1>9, <1>10, <1>11, <3>1, Zenon DEF Numbers
    <3> HIDE DEF p, u, v, d
    <3> DEFINE pv == p * v
    <3>8. (to * p) * v = to * pv /\ pv \in Nat
      BY <1>0, <3>6, <3>7, SMT
    <3> HIDE DEF pv
    <3>9. to * (pv + u) = to * pv + to * u
      BY <1>0, <3>7, <3>8, SMT
    <3> DEFINE tpv == to * pv
    <3> DEFINE tu == to * u
    <3>10. tpv \in Nat /\ tu \in Nat
      BY <1>0, <3>7, <3>8, SMT
    <3> HIDE DEF tpv, tu
    <3>11. (tpv + tu) + d = tpv + (tu + d)
      BY <3>7, <3>10, SMT
    <3>12. V(n - k) = (tpv + tu) + d
      BY <3>2, <3>3, <3>4, <3>9, Zenon DEF pv, tpv, tu
    <3>13. Power(to, k) * v + Val(C, to, k) = tpv + (tu + d)
      BY <3>5, <3>6, <3>8, Zenon DEF tpv, tu
    <3> QED
      BY <3>1, <3>11, <3>12, <3>13, Zenon DEF v
  <2> HIDE DEF U
  <2> QED
    BY <2>1, <2>2, Upwards
<1>13. n - n = 0
  BY SMT
<1>14. V(0) = Power(to, n) * V(n) + Val(C, to, n)
  BY <1>0, <1>12, <1>13, Zenon
<1>15. V(0) = Val(digits, from, m)
  BY <1>4, Zenon DEF V
<1> QED
  BY <1>0, <1>1, <1>3, <1>14, <1>15, Zenon DEF Converted, V, C

(* The value of digits is a number below the power. *)
LEMMA DigitsValue ==
  ASSUME NEW base \in Nat \ {0}, NEW n \in Nat, NEW x, Digits(x, base, n)
  PROVE  Val(x, base, n) \in Nat /\ Val(x, base, n) < Power(base, n)
<1>1. Val(x, base, n) < Power(base, n)
  BY ValBound
<1>2. base \in Nat /\ n \in 0 .. n
  BY SMT
<1>3. Numbers(x, n)
  BY <1>2, DigitsAreNumbers
<1>4. \A j \in 0 .. n : Val(x, base, j) \in Nat
  BY <1>2, <1>3, ValIs
<1> QED
  BY <1>1, <1>2, <1>4, Zenon

(* Two numbers of digits are the same when their values are. *)
LEMMA SameNumberIs ==
  ASSUME NEW from \in Nat \ {0}, NEW to \in Nat \ {0}, NEW m \in Nat, NEW n \in Nat,
         NEW digits \in [1 .. m -> 0 .. from - 1], NEW cells \in [1 .. n -> 0 .. to - 1],
         Val(cells, to, n) = Val(digits, from, m)
  PROVE  SameNumber(cells, to, digits, from)
<1> DEFINE c == Convert(digits, from, to, n)
<1> DEFINE l == c.left
<1> DEFINE x == c.cells
<1>0. Len(cells) = n /\ Len(digits) = m /\ to \in Nat
  BY ArrayIsSeq
<1>1. Converted(c, digits, from, to, m, n)
  BY ConvertConverts
<1> HIDE DEF c
<1>2. l \in [1 .. m -> 0 .. from - 1] /\ x \in [1 .. n -> 0 .. to - 1]
  BY <1>1, Zenon DEF Converted
<1>3. Val(cells, to, n) = Power(to, n) * Val(l, from, m) + Val(x, to, n)
  BY <1>1, Zenon DEF Converted
<1> HIDE DEF l, x
<1>4. Digits(l, from, m) /\ Digits(x, to, n) /\ Digits(cells, to, n)
  BY <1>2, Zenon DEF Digits
<1>5. Val(l, from, m) \in Nat
  BY <1>4, DigitsValue
<1>6. Val(x, to, n) \in Nat
  BY <1>4, DigitsValue
<1>7. Val(cells, to, n) \in Nat /\ Val(cells, to, n) < Power(to, n)
  BY <1>4, DigitsValue
<1>8. Power(to, n) \in Nat
  BY <1>0, PowerIs
<1>9. Val(l, from, m) = 0 /\ Val(x, to, n) = Val(cells, to, n)
  <2> DEFINE a == Val(l, from, m)
  <2> DEFINE b == Val(x, to, n)
  <2> DEFINE d == Val(cells, to, n)
  <2> DEFINE p == Power(to, n)
  <2>1. a \in Nat /\ b \in Nat /\ d \in Nat /\ p \in Nat /\ d < p /\ d = p * a + b
    BY <1>3, <1>5, <1>6, <1>7, <1>8, Zenon
  <2> HIDE DEF a, b, d, p
  <2>2. a = 0
    <3> SUFFICES ASSUME a # 0 PROVE FALSE
      BY Zenon
    <3>1. a >= 1
      BY <2>1, SMT
    <3>2. p * a >= p
      BY <2>1, <3>1, SMT
    <3> DEFINE pa == p * a
    <3>3. pa \in Nat
      BY <2>1, SMT
    <3>4. d = pa + b /\ pa >= p
      BY <2>1, <3>2, Zenon
    <3> HIDE DEF pa
    <3> QED
      BY <2>1, <3>3, <3>4, SMT
  <2>3. p * 0 = 0
    BY <2>1, SMT
  <2>4. d = 0 + b
    BY <2>1, <2>2, <2>3, Zenon
  <2>5. b = d
    BY <2>1, <2>4, SMT
  <2> QED
    BY <2>2, <2>5, Zenon DEF a, b, d
<1>10. Zeros(l, m)
  BY <1>4, <1>9, ZeroVal
<1>11. Agree(x, cells, n)
  BY <1>4, <1>9, ValUnique
<1>12. cells = x
  BY <1>2, <1>11, SMT DEF Agree
<1> QED
  BY <1>0, <1>10, <1>12, Zenon DEF SameNumber, Zeros, l, x, c

(* A number fits into n digits when it is below the power. *)
LEMMA FitsIntoIs ==
  ASSUME NEW from \in Nat \ {0}, NEW to \in Nat \ {0}, NEW m \in Nat, NEW n \in Nat,
         NEW digits \in [1 .. m -> 0 .. from - 1]
  PROVE  FitsInto(n, to, digits, from) <=> Val(digits, from, m) < Power(to, n)
<1> DEFINE c == Convert(digits, from, to, n)
<1> DEFINE l == c.left
<1> DEFINE x == c.cells
<1>0. Len(digits) = m /\ to \in Nat
  BY ArrayIsSeq
<1>1. Converted(c, digits, from, to, m, n)
  BY ConvertConverts
<1> HIDE DEF c
<1>2. l \in [1 .. m -> 0 .. from - 1] /\ x \in [1 .. n -> 0 .. to - 1]
  BY <1>1, Zenon DEF Converted
<1>3. Val(digits, from, m) = Power(to, n) * Val(l, from, m) + Val(x, to, n)
  BY <1>1, Zenon DEF Converted
<1> HIDE DEF l, x
<1>4. Digits(l, from, m) /\ Digits(x, to, n)
  BY <1>2, Zenon DEF Digits
<1>5. Val(l, from, m) \in Nat
  BY <1>4, DigitsValue
<1>6. Val(x, to, n) \in Nat /\ Val(x, to, n) < Power(to, n)
  BY <1>4, DigitsValue
<1>8. Power(to, n) \in Nat
  BY <1>0, PowerIs
<1>9. FitsInto(n, to, digits, from) <=> Zeros(l, m)
  BY <1>0, Zenon DEF FitsInto, Zeros, l, c
<1>10. Val(l, from, m) = 0 <=> Val(digits, from, m) < Power(to, n)
  <2> DEFINE a == Val(l, from, m)
  <2> DEFINE b == Val(x, to, n)
  <2> DEFINE d == Val(digits, from, m)
  <2> DEFINE p == Power(to, n)
  <2> DEFINE pa == p * a
  <2>1. a \in Nat /\ b \in Nat /\ p \in Nat /\ b < p /\ d = pa + b
    BY <1>3, <1>5, <1>6, <1>8, Zenon
  <2> HIDE DEF a, b, d, p
  <2>2. a # 0 => a >= 1
    BY <2>1, SMT
  <2>3. a >= 1 => pa >= p
    BY <2>1, SMT
  <2>4. a = 0 => pa = 0
    BY <2>1, SMT
  <2>5. pa \in Nat
    BY <2>1, SMT
  <2> HIDE DEF pa
  <2>6. a = 0 <=> d < p
    BY <2>1, <2>2, <2>3, <2>4, <2>5, SMT
  <2> QED
    BY <2>6, Zenon DEF a, d, p
<1>11. Zeros(l, m) <=> Val(l, from, m) = 0
  BY <1>4, ZeroVal, ValZero
<1> QED
  BY <1>9, <1>10, <1>11, Zenon
-----------------------------------------------------------------------------
(* The sealed key.                                                         *)

(* Version, key and checksum, in their places. *)
IsSealed(data, ver, k) ==
  /\ Bytes(data, DECODED_LEN) /\ data[1] = ver
  /\ SubSeq(data, 2, 1 + PUBLIC_KEY_LEN) = k
  /\ SubSeq(data, 2 + PUBLIC_KEY_LEN, DECODED_LEN) = checksum(<<ver>> \o k, CHECKSUM_LEN)

Joined(d, a, x, y, m, n, S) ==
  /\ d \in [1 .. (m + n) + 1 -> S] /\ d[1] = a
  /\ SubSeq(d, 2, 1 + m) = x /\ SubSeq(d, 2 + m, (m + n) + 1) = y

LEMMA ConcatIs ==
  ASSUME NEW m \in Nat, NEW n \in Nat, NEW S, NEW a \in S, NEW x \in [1 .. m -> S], NEW y \in [1 .. n -> S]
  PROVE  Joined((<<a>> \o x) \o y, a, x, y, m, n, S)
<1>1. x \in Seq(S) /\ Len(x) = m
  BY ArrayIsSeq
<1>2. y \in Seq(S) /\ Len(y) = n
  BY ArrayIsSeq
<1> DEFINE d == (<<a>> \o x) \o y
<1>3. /\ d \in Seq(S) /\ Len(d) = (m + n) + 1 /\ d[1] = a
      /\ \A k \in 1 .. m : d[k + 1] = x[k]
      /\ \A k \in 1 .. n : d[(m + 1) + k] = y[k]
  BY <1>1, <1>2, SMT
<1> HIDE DEF d
<1>4. d \in [1 .. (m + n) + 1 -> S]
  <2>1. d \in [1 .. Len(d) -> S]
    BY <1>3, SMT
  <2> QED
    BY <1>3, <2>1, Zenon
<1>5. SubSeq(d, 2, 1 + m) = [k \in 1 .. m |-> d[k + 1]]
  <2>1. /\ SubSeq(d, 2, 1 + m) \in Seq(S) /\ Len(SubSeq(d, 2, 1 + m)) = m
        /\ \A k \in 1 .. m : SubSeq(d, 2, 1 + m)[k] = d[k + 1]
    BY <1>3, SMT
  <2> QED
    BY <2>1, SMT
<1>6. SubSeq(d, 2 + m, (m + n) + 1) = [k \in 1 .. n |-> d[(m + 1) + k]]
  <2>1. /\ SubSeq(d, 2 + m, (m + n) + 1) \in Seq(S) /\ Len(SubSeq(d, 2 + m, (m + n) + 1)) = n
        /\ \A k \in 1 .. n : SubSeq(d, 2 + m, (m + n) + 1)[k] = d[(m + 1) + k]
    BY <1>3, SMT
  <2> DEFINE t == SubSeq(d, 2 + m, (m + n) + 1)
  <2>2. t \in Seq(S) /\ Len(t) = n /\ \A k \in 1 .. n : t[k] = d[(m + 1) + k]
    BY <2>1, Zenon
  <2> HIDE DEF t
  <2>3. t \in [1 .. Len(t) -> S]
    BY <2>2, SMT
  <2>4. t = [k \in 1 .. n |-> t[k]]
    BY <2>2, <2>3, Zenon
  <2> QED
    BY <2>2, <2>4, Zenon DEF t
<1>7. x = [k \in 1 .. m |-> x[k]] /\ y = [k \in 1 .. n |-> y[k]]
  BY Zenon
<1>8. SubSeq(d, 2, 1 + m) = x
  BY <1>3, <1>5, <1>7, Zenon
<1>9. SubSeq(d, 2 + m, (m + n) + 1) = y
  BY <1>3, <1>6, <1>7, Zenon
<1> QED
  BY <1>3, <1>4, <1>8, <1>9, Zenon DEF d, Joined

LEMMA SealedIs ==
  ASSUME NEW ver \in Versions, NEW len \in KeyLengths, NEW k \in Keys(len), Len(k) = PUBLIC_KEY_LEN
  PROVE  IsSealed(Sealed(ver, k), ver, k)
<1> DEFINE c == checksum(<<ver>> \o k, CHECKSUM_LEN)
<1>1. /\ PUBLIC_KEY_LEN \in Nat /\ CHECKSUM_LEN \in Nat /\ len \in Nat /\ ver \in 0 .. Byte - 1
      /\ k \in [1 .. len -> 0 .. Byte - 1] /\ c \in [1 .. CHECKSUM_LEN -> 0 .. Byte - 1]
  BY AddressAssumption, Zenon
<1>2. len = PUBLIC_KEY_LEN
  BY <1>1, ArrayIsSeq
<1>3. k \in [1 .. PUBLIC_KEY_LEN -> 0 .. Byte - 1]
  BY <1>1, <1>2, Zenon
<1>4. Sealed(ver, k) = (<<ver>> \o k) \o c
  BY Zenon DEF Sealed
<1> HIDE DEF c
<1> DEFINE B == 0 .. Byte - 1
<1> DEFINE d == (<<ver>> \o k) \o c
<1>5. k \in [1 .. PUBLIC_KEY_LEN -> B] /\ c \in [1 .. CHECKSUM_LEN -> B] /\ ver \in B
  BY <1>1, <1>3, Zenon
<1> HIDE DEF B
<1>6. /\ d \in [1 .. (PUBLIC_KEY_LEN + CHECKSUM_LEN) + 1 -> B] /\ d[1] = ver
      /\ SubSeq(d, 2, 1 + PUBLIC_KEY_LEN) = k
      /\ SubSeq(d, 2 + PUBLIC_KEY_LEN, (PUBLIC_KEY_LEN + CHECKSUM_LEN) + 1) = c
  <2>1. Joined(d, ver, k, c, PUBLIC_KEY_LEN, CHECKSUM_LEN, B)
    BY <1>1, <1>5, ConcatIs
  <2> QED
    BY <2>1, Zenon DEF Joined
<1> HIDE DEF d
<1> QED
  BY <1>4, <1>6, Zenon DEF IsSealed, Bytes, DECODED_LEN, B, c, d
-----------------------------------------------------------------------------
(* The states of an address.                                               *)

Message == Sealed(version, key)
Front == LeadingCount(Message, 0)

KeyInv ==
  /\ version \in Versions /\ \E len \in KeyLengths : key \in Keys(len)
  /\ pc \in {"b58enc", "encoded", "b58tobin", "decoded"} => Len(key) = PUBLIC_KEY_LEN

(* The scratch buffer holds the bytes read so far. *)
EncodeInv == pc = "b58enc" => Scratch(enc, Message, DECODED_LEN, Front, i)

(* The string is the number of the sealed key. *)
TextInv == pc \in {"encoded", "b58tobin", "decoded"} => Encodes(b58, Message, DECODED_LEN, Front)

(* The limbs hold the characters read so far. *)
DecodeInv ==
  pc = "b58tobin" =>
    /\ str \in Seq(Chars) /\ i \in 0 .. Len(str) /\ Limbs(dec, str, i, DECODED_LEN)
    /\ reader \in Versions

(* The blocks in use at each step. *)
HeapInv ==
  /\ pc = "start" => heap = {}
  /\ pc \in {"b58enc", "encoded", "b58tobin"} => heap = {"b58"}
  /\ pc = "decoded" => heap = {"b58"} \/ (heap = {"b58", "raw"} /\ ret > 0)
  /\ pc = "freed" => heap = {}

AddressInv == KeyInv /\ EncodeInv /\ TextInv /\ DecodeInv /\ AddressRoundTrip /\ HeapInv

LEMMA MessageIs ==
  ASSUME KeyInv, pc \in {"b58enc", "encoded", "b58tobin", "decoded"} \/ Len(key) = PUBLIC_KEY_LEN
  PROVE  /\ IsSealed(Message, version, key) /\ Bytes(Message, DECODED_LEN)
         /\ Leads(Message, 0, Front) /\ DECODED_LEN \in Nat \ {0}
<1>1. Len(key) = PUBLIC_KEY_LEN /\ version \in Versions
  BY Zenon DEF KeyInv
<1>2. PICK len \in KeyLengths : key \in Keys(len)
  BY Zenon DEF KeyInv
<1>3. IsSealed(Message, version, key)
  BY <1>1, <1>2, SealedIs, Zenon DEF Message
<1>4. Bytes(Message, DECODED_LEN)
  BY <1>3, Zenon DEF IsSealed
<1>5. DECODED_LEN \in Nat \ {0} /\ DECODED_LEN \in Nat
  BY AddressAssumption, SMT DEF DECODED_LEN
<1>6. Len(Message) = DECODED_LEN
  BY <1>4, <1>5, BytesAre
<1>7. Leads(Message, 0, Front)
  BY <1>5, <1>6, LeadingCountIs, Zenon DEF Front
<1> QED
  BY <1>3, <1>4, <1>5, <1>7

LEMMA AddressStarts == ASSUME Init PROVE AddressInv
<1>1. pc = "start" /\ version \in Versions /\ (\E len \in KeyLengths : key \in Keys(len)) /\ heap = {}
  BY Zenon DEF Init
<1> QED
  BY <1>1 DEF AddressInv, KeyInv, EncodeInv, TextInv, DecodeInv, AddressRoundTrip, HeapInv

(* The loops of the encoder. *)
LEMMA EncodingSteps ==
  ASSUME AddressInv, encode_address_from_raw \/ EncodeByte \/ EncodeDone
  PROVE  AddressInv'
<1>1. CASE encode_address_from_raw
  <2>1. /\ pc = "start" /\ Len(key) = PUBLIC_KEY_LEN /\ enc' = EncStart(Message) /\ i' = Front
        /\ heap' = heap \union {"b58"} /\ pc' = "b58enc" /\ version' = version /\ key' = key
    BY <1>1, Zenon DEF encode_address_from_raw, Message, Front
  <2>2. Bytes(Message, DECODED_LEN) /\ DECODED_LEN \in Nat
    BY <2>1, MessageIs DEF AddressInv
  <2>3. Scratch(EncStart(Message), Message, DECODED_LEN, Front, Front)
    BY <2>2, ScratchStarts, Zenon DEF Front
  <2>4. Message' = Message /\ Front' = Front
    BY <2>1, Zenon DEF Message, Front
  <2>5. EncodeInv'
    BY <2>1, <2>3, <2>4, Zenon DEF EncodeInv
  <2>6. KeyInv'
    BY <2>1, Zenon DEF AddressInv, KeyInv
  <2>7. HeapInv'
    BY <2>1 DEF AddressInv, HeapInv
  <2>8. TextInv' /\ DecodeInv' /\ AddressRoundTrip'
    BY <2>1 DEF TextInv, DecodeInv, AddressRoundTrip
  <2> QED
    BY <2>5, <2>6, <2>7, <2>8, Zenon DEF AddressInv
<1>2. CASE EncodeByte
  <2>1. /\ pc = "b58enc" /\ i < DECODED_LEN /\ enc' = EncByte(enc, Message[i + 1]) /\ i' = i + 1
        /\ pc' = pc /\ heap' = heap /\ version' = version /\ key' = key
    BY <1>2, Zenon DEF EncodeByte, Message
  <2>2. /\ Bytes(Message, DECODED_LEN) /\ Leads(Message, 0, Front) /\ DECODED_LEN \in Nat
        /\ DECODED_LEN \in Nat \ {0}
    BY <2>1, MessageIs DEF AddressInv
  <2>3. Scratch(enc, Message, DECODED_LEN, Front, i)
    BY <2>1, Zenon DEF AddressInv, EncodeInv
  <2>4. Front \in 0 .. DECODED_LEN /\ Zeros(Message, Front)
    <3>1. Len(Message) = DECODED_LEN
      BY <2>2, BytesAre
    <3> QED
      BY <2>2, <3>1, Zenon DEF Leads, Zeros
  <2>5. Scratch(EncByte(enc, Message[i + 1]), Message, DECODED_LEN, Front, i + 1)
    BY <2>1, <2>2, <2>3, <2>4, ScratchTakesByte
  <2>6. Message' = Message /\ Front' = Front
    BY <2>1, Zenon DEF Message, Front
  <2>7. EncodeInv'
    BY <2>1, <2>5, <2>6, Zenon DEF EncodeInv
  <2>8. KeyInv'
    BY <2>1, Zenon DEF AddressInv, KeyInv
  <2>9. HeapInv'
    BY <2>1 DEF AddressInv, HeapInv
  <2>10. TextInv' /\ DecodeInv' /\ AddressRoundTrip'
    BY <2>1 DEF TextInv, DecodeInv, AddressRoundTrip
  <2> QED
    BY <2>7, <2>8, <2>9, <2>10, Zenon DEF AddressInv
<1>3. CASE EncodeDone
  <2> DEFINE fin == EncFinish(enc, Message, ADDRESS_LEN)
  <2>1. /\ pc = "b58enc" /\ i = DECODED_LEN /\ b58' = fin.b58
        /\ pc' = IF fin.ok THEN "encoded" ELSE "no room"
        /\ heap' = heap /\ version' = version /\ key' = key
    BY <1>3, Zenon DEF EncodeDone, Message
  <2>2. /\ Bytes(Message, DECODED_LEN) /\ Leads(Message, 0, Front) /\ DECODED_LEN \in Nat
    BY <2>1, MessageIs DEF AddressInv
  <2>3. Scratch(enc, Message, DECODED_LEN, Front, DECODED_LEN)
    BY <2>1, Zenon DEF AddressInv, EncodeInv
  <2>4. fin.ok => Encodes(fin.b58, Message, DECODED_LEN, Front)
    BY <2>2, <2>3, FinishEncodes
  <2>5. Message' = Message /\ Front' = Front
    BY <2>1, Zenon DEF Message, Front
  <2> HIDE DEF fin
  <2>6. pc' \in {"encoded", "no room"} /\ (pc' = "encoded" => fin.ok)
    BY <2>1
  <2>7. TextInv'
    <3> SUFFICES ASSUME pc' \in {"encoded", "b58tobin", "decoded"}
                 PROVE  Encodes(b58', Message, DECODED_LEN, Front)
      BY <2>5, Zenon DEF TextInv
    <3>1. pc' = "encoded"
      BY <2>6
    <3> QED
      BY <2>1, <2>4, <2>6, <3>1, Zenon
  <2>8. KeyInv'
    BY <2>1, <2>6 DEF AddressInv, KeyInv
  <2>9. HeapInv'
    BY <2>1, <2>6 DEF AddressInv, HeapInv
  <2>10. EncodeInv' /\ DecodeInv' /\ AddressRoundTrip'
    BY <2>6 DEF EncodeInv, DecodeInv, AddressRoundTrip
  <2> QED
    BY <2>7, <2>8, <2>9, <2>10, Zenon DEF AddressInv
<1> QED
  BY <1>1, <1>2, <1>3

(* What a decoder that has not given up hands out. *)
LEMMA DecodedIs ==
  ASSUME AddressInv, DecodeDone, Decoded.ok
  PROVE  /\ pc = "b58tobin" /\ str \in Seq(Chars) /\ AllDigits(str, Len(str))
         /\ Decodes(Decoded, str, DECODED_LEN)
<1>1. pc = "b58tobin" /\ (~dec.ok \/ i = Len(str))
  BY Zenon DEF DecodeDone
<1>2. str \in Seq(Chars) /\ i \in 0 .. Len(str) /\ Limbs(dec, str, i, DECODED_LEN)
  BY <1>1, Zenon DEF AddressInv, DecodeInv
<1>3. DECODED_LEN \in Nat \ {0}
  BY <1>1, MessageIs DEF AddressInv
<1>4. dec.ok
  <2> SUFFICES ASSUME ~dec.ok PROVE FALSE
    BY Zenon
  <2>1. Decoded = [ok |-> FALSE, bin |-> <<>>, binsz |-> DECODED_LEN]
    BY Zenon DEF Decoded, DecFinish
  <2>2. Decoded.ok = FALSE
    BY <2>1, SMT
  <2> QED
    BY <2>2, Zenon
<1>5. Limbs(dec, str, Len(str), DECODED_LEN)
  BY <1>1, <1>2, <1>4, Zenon
<1>6. Decodes(Decoded, str, DECODED_LEN)
  BY <1>3, <1>4, <1>5, FinishDecodes, Zenon DEF Decoded
<1>7. AllDigits(str, Len(str))
  BY <1>4, <1>5, Zenon DEF Limbs
<1> QED
  BY <1>1, <1>2, <1>6, <1>7

(* An address read as it was written is the sealed key again. *)
LEMMA ReadsBack ==
  ASSUME AddressInv, DecodeDone, Decoded.ok, str = b58
  PROVE  Decoded.bin = Message /\ Decoded.binsz = DECODED_LEN
<1>1. pc = "b58tobin" /\ Decodes(Decoded, str, DECODED_LEN)
  BY DecodedIs
<1>2. /\ Bytes(Message, DECODED_LEN) /\ Leads(Message, 0, Front) /\ DECODED_LEN \in Nat \ {0}
      /\ DECODED_LEN \in Nat
  BY <1>1, MessageIs DEF AddressInv
<1>3. Encodes(str, Message, DECODED_LEN, Front)
  BY <1>1, Zenon DEF AddressInv, TextInv
<1>4. Bytes(Decoded.bin, DECODED_LEN) /\ Val(Decoded.bin, Byte, DECODED_LEN) = Number(str, Len(str))
  BY <1>1, Zenon DEF Decodes
<1>5. Number(str, Len(str)) = Val(Message, Byte, DECODED_LEN)
  BY <1>3, Zenon DEF Encodes, Number
<1> DEFINE bin == Decoded.bin
<1>6. Bytes(bin, DECODED_LEN) /\ Val(bin, Byte, DECODED_LEN) = Val(Message, Byte, DECODED_LEN)
  BY <1>4, <1>5, Zenon
<1> HIDE DEF bin
<1>7. Digits(bin, Byte, DECODED_LEN)
  BY <1>2, <1>6, BytesAre
<1>8. Digits(Message, Byte, DECODED_LEN)
  BY <1>2, BytesAre
<1>9. Byte \in Nat \ {0}
  BY SMT DEF Byte
<1>10. Agree(bin, Message, DECODED_LEN)
  BY <1>2, <1>6, <1>7, <1>8, <1>9, ValUnique
<1>11. bin = Message
  <2> DEFINE B == 0 .. Byte - 1
  <2>1. bin \in [1 .. DECODED_LEN -> B] /\ Message \in [1 .. DECODED_LEN -> B]
    BY <1>2, <1>6, Zenon DEF Bytes
  <2> HIDE DEF B
  <2>2. /\ bin = [k \in 1 .. DECODED_LEN |-> bin[k]]
        /\ Message = [k \in 1 .. DECODED_LEN |-> Message[k]]
    BY <2>1, Zenon
  <2>3. \A k \in 1 .. DECODED_LEN : bin[k] = Message[k]
    BY <1>10, Zenon DEF Agree
  <2> QED
    BY <2>2, <2>3, Zenon
<1>12. Decoded.binsz = DECODED_LEN - LeadingCount(Message, 0) + LeadingCount(str, One)
  BY <1>1, <1>11, Zenon DEF Decodes, bin
<1>13. LeadingCount(str, One) = Front
  <2>1. Leads(str, One, Front) /\ str \in Seq(Chars)
    BY <1>3, Zenon DEF Encodes
  <2>2. Len(str) \in Nat
    BY <2>1, SMT
  <2> QED
    BY <2>1, <2>2, LeadingCountOnly
<1>14. Front \in Nat
  <2>1. Len(Message) = DECODED_LEN
    BY <1>2, BytesAre
  <2>2. Front \in 0 .. DECODED_LEN
    BY <1>2, <2>1, Zenon DEF Leads
  <2> QED
    BY <1>2, <2>2, SMT
<1>15. Decoded.binsz = DECODED_LEN - Front + Front
  BY <1>12, <1>13, Zenon DEF Front
<1>16. DECODED_LEN - Front + Front = DECODED_LEN
  BY <1>2, <1>14, SMT
<1> QED
  BY <1>11, <1>15, <1>16, Zenon DEF bin

LEMMA StrnEqualSame ==
  ASSUME NEW a, NEW n PROVE StrnEqual(a, a, n)
BY Zenon DEF StrnEqual

(* No bytes are counted only when all of them are zeros. *)
LEMMA CountIs ==
  ASSUME NEW s \in Seq(Chars), NEW n \in Nat, NEW fin, Decodes(fin, s, n),
         ~(fin.binsz > 0)
  PROVE  Zeros(fin.bin, n)
<1> DEFINE bin == fin.bin
<1> DEFINE z == LeadingCount(bin, 0)
<1> DEFINE o == LeadingCount(s, One)
<1>1. Bytes(bin, n) /\ fin.binsz = n - z + o
  BY Zenon DEF Decodes
<1>2. Len(bin) = n /\ Len(s) \in Nat
  BY <1>1, BytesAre, SMT
<1>3. Leads(bin, 0, z)
  BY <1>2, LeadingCountIs
<1>4. Leads(s, One, o)
  BY <1>2, LeadingCountIs
<1>5. z \in 0 .. n /\ \A k \in 1 .. z : bin[k] = 0
  BY <1>2, <1>3, Zenon DEF Leads
<1>6. o \in 0 .. Len(s)
  BY <1>4, Zenon DEF Leads
<1>7. ~(n - z + o > 0)
  BY <1>1, Zenon
<1> HIDE DEF bin, z, o
<1>8. z = n
  BY <1>2, <1>5, <1>6, <1>7, SMT
<1> QED
  BY <1>5, <1>8, Zenon DEF Zeros, bin

(* No address of zeros is accepted. *)
LEMMA ZerosRejected ==
  ASSUME NEW bin, Bytes(bin, DECODED_LEN), Zeros(bin, DECODED_LEN), NEW ver \in Versions, bin[1] = ver,
         StrnEqual(SubSeq(bin, 2 + PUBLIC_KEY_LEN, DECODED_LEN),
                   checksum(<<ver>> \o SubSeq(bin, 2, 1 + PUBLIC_KEY_LEN), CHECKSUM_LEN),
                   CHECKSUM_LEN)
  PROVE  FALSE
<1> DEFINE p == SubSeq(bin, 2, 1 + PUBLIC_KEY_LEN)
<1> DEFINE a == SubSeq(bin, 2 + PUBLIC_KEY_LEN, DECODED_LEN)
<1> DEFINE zeros == [k \in 1 .. PUBLIC_KEY_LEN |-> 0]
<1>1. Zeros(bin, DECODED_LEN)
  BY Zenon
<1>2. bin \in [1 .. DECODED_LEN -> 0 .. Byte - 1] /\ bin[1] = ver
  BY Zenon DEF Bytes
<1>3. StrnEqual(a, checksum(<<ver>> \o p, CHECKSUM_LEN), CHECKSUM_LEN)
  BY Zenon
<1>4. PUBLIC_KEY_LEN \in Nat /\ CHECKSUM_LEN \in Nat /\ DECODED_LEN = (PUBLIC_KEY_LEN + CHECKSUM_LEN) + 1
  BY AddressAssumption, SMT DEF DECODED_LEN
<1>5. 1 \in 1 .. DECODED_LEN
  BY <1>4, SMT
<1>6. ver = 0
  BY <1>1, <1>2, <1>5, Zenon DEF Zeros
<1>7. /\ CHECKSUM_LEN > 0
      /\ checksum(<<0>> \o zeros, CHECKSUM_LEN)[1] # 0
  BY <1>6, ZeroChecksumAssumption, Zenon
<1> DEFINE m == PUBLIC_KEY_LEN
<1> DEFINE d == DECODED_LEN
<1> DEFINE B == 0 .. Byte - 1
<1>8. bin \in [1 .. d -> B] /\ m \in Nat /\ d = (m + CHECKSUM_LEN) + 1
  BY <1>2, <1>4, Zenon
<1>9. \A k \in 1 .. d : bin[k] = 0
  BY <1>1, Zenon DEF Zeros
<1>10. p = SubSeq(bin, 2, 1 + m) /\ a = SubSeq(bin, 2 + m, d)
  BY Zenon
<1> HIDE DEF B, m, d
<1>11. bin \in Seq(B) /\ Len(bin) = d
  <2>1. d \in Nat
    BY <1>4, <1>8, SMT
  <2> QED
    BY <1>8, <2>1, ArrayIsSeq
<1>12. /\ SubSeq(bin, 2, 1 + m) \in Seq(B) /\ Len(SubSeq(bin, 2, 1 + m)) = m
       /\ \A k \in 1 .. m : SubSeq(bin, 2, 1 + m)[k] = bin[k + 1]
  BY <1>4, <1>8, <1>11, SMT
<1>13. SubSeq(bin, 2 + m, d)[1] = bin[2 + m] /\ 2 + m \in 1 .. d
  BY <1>4, <1>7, <1>8, <1>11, SMT
<1>14. \A k \in 1 .. m : k + 1 \in 1 .. d
  BY <1>4, <1>8, SMT
<1> HIDE DEF p, a
<1>15. p = zeros
  <2>1. p \in Seq(B) /\ Len(p) = m /\ \A k \in 1 .. m : p[k] = 0
    BY <1>9, <1>10, <1>12, <1>14, Zenon
  <2>2. p \in [1 .. Len(p) -> B]
    BY <2>1, SMT
  <2>3. p = [k \in 1 .. m |-> p[k]]
    BY <2>1, <2>2, Zenon
  <2>4. p = [k \in 1 .. m |-> 0]
    BY <2>1, <2>3, Zenon
  <2> QED
    BY <2>4, Zenon DEF m
<1>16. a[1] = 0
  BY <1>9, <1>10, <1>13, Zenon
<1>17. 1 \in 1 .. CHECKSUM_LEN /\ 1 .. 1 - 1 = {}
  BY <1>4, <1>7, SMT
<1> HIDE DEF zeros
<1>18. a[1] = checksum(<<0>> \o zeros, CHECKSUM_LEN)[1]
  <2> DEFINE b == checksum(<<0>> \o zeros, CHECKSUM_LEN)
  <2>1. StrnEqual(a, b, CHECKSUM_LEN)
    BY <1>3, <1>6, <1>15, Zenon
  <2> HIDE DEF b
  <2>2. (\A j \in 1 .. 1 - 1 : a[j] # 0) => a[1] = b[1]
    BY <2>1, <1>17, Zenon DEF StrnEqual
  <2>3. \A j \in 1 .. 1 - 1 : a[j] # 0
    BY <1>17, Zenon
  <2> QED
    BY <2>2, <2>3, Zenon DEF b
<1> QED
  BY <1>7, <1>16, <1>18, Zenon

(* An accepted address never counts zero bytes. *)
LEMMA AcceptedCounts ==
  ASSUME NEW s \in Seq(Chars), NEW fin, Decodes(fin, s, DECODED_LEN),
         NEW ver \in Versions, fin.bin[1] = ver, DECODED_LEN \in Nat,
         StrnEqual(SubSeq(fin.bin, 2 + PUBLIC_KEY_LEN, DECODED_LEN),
                   checksum(<<ver>> \o SubSeq(fin.bin, 2, 1 + PUBLIC_KEY_LEN), CHECKSUM_LEN),
                   CHECKSUM_LEN)
  PROVE  fin.binsz > 0
<1> SUFFICES ASSUME ~(fin.binsz > 0) PROVE FALSE
  BY Zenon
<1>1. Zeros(fin.bin, DECODED_LEN)
  BY CountIs
<1>2. Bytes(fin.bin, DECODED_LEN)
  BY Zenon DEF Decodes
<1> QED
  BY <1>1, <1>2, ZerosRejected

(* The loops of the decoder. *)
LEMMA DecodingSteps ==
  ASSUME AddressInv, Deliver \/ DecodeChar
  PROVE  AddressInv'
<1>1. CASE Deliver
  <2>1. /\ pc = "encoded" /\ str' \in Seq(Chars) /\ reader' \in Versions
        /\ dec' = DecStart(DECODED_LEN) /\ i' = LeadingCount(str', One) /\ pc' = "b58tobin"
        /\ version' = version /\ key' = key /\ b58' = b58 /\ heap' = heap
    BY <1>1, Zenon DEF Deliver, Chars
  <2>2. DECODED_LEN \in Nat \ {0}
    BY <2>1, MessageIs DEF AddressInv
  <2>3. Leads(str', One, i')
    <3>1. Len(str') \in Nat
      BY <2>1, SMT
    <3> QED
      BY <2>1, <3>1, LeadingCountIs
  <2>4. Limbs(DecStart(DECODED_LEN), str', i', DECODED_LEN)
    BY <2>1, <2>2, <2>3, LimbsStart
  <2>5. i' \in 0 .. Len(str')
    BY <2>3, Zenon DEF Leads
  <2>6. DecodeInv'
    BY <2>1, <2>4, <2>5, Zenon DEF DecodeInv
  <2>7. Message' = Message /\ Front' = Front
    BY <2>1, Zenon DEF Message, Front
  <2>8. TextInv'
    BY <2>1, <2>7, Zenon DEF AddressInv, TextInv
  <2>9. KeyInv'
    BY <2>1, Zenon DEF AddressInv, KeyInv
  <2>10. HeapInv' /\ EncodeInv' /\ AddressRoundTrip'
    BY <2>1 DEF AddressInv, HeapInv, EncodeInv, AddressRoundTrip
  <2> QED
    BY <2>6, <2>8, <2>9, <2>10, Zenon DEF AddressInv
<1>2. CASE DecodeChar
  <2>1. /\ pc = "b58tobin" /\ dec.ok /\ i < Len(str) /\ dec' = DecChar(dec, str[i + 1], DECODED_LEN)
        /\ i' = i + 1 /\ pc' = pc /\ str' = str /\ reader' = reader
        /\ version' = version /\ key' = key /\ b58' = b58 /\ heap' = heap
    BY <1>2, Zenon DEF DecodeChar
  <2>2. DECODED_LEN \in Nat \ {0}
    BY <2>1, MessageIs DEF AddressInv
  <2>3. /\ str \in Seq(Chars) /\ i \in 0 .. Len(str) /\ Limbs(dec, str, i, DECODED_LEN)
        /\ reader \in Versions
    BY <2>1, Zenon DEF AddressInv, DecodeInv
  <2>4. i \in Nat /\ i + 1 \in 0 .. Len(str)
    BY <2>1, <2>3, SMT
  <2>5. Limbs(DecChar(dec, str[i + 1], DECODED_LEN), str, i + 1, DECODED_LEN)
    BY <2>1, <2>2, <2>3, <2>4, LimbsTakeChar
  <2>6. DecodeInv'
    BY <2>1, <2>3, <2>4, <2>5, Zenon DEF DecodeInv
  <2>7. Message' = Message /\ Front' = Front
    BY <2>1, Zenon DEF Message, Front
  <2>8. TextInv'
    BY <2>1, <2>7, Zenon DEF AddressInv, TextInv
  <2>9. KeyInv'
    BY <2>1, Zenon DEF AddressInv, KeyInv
  <2>10. HeapInv' /\ EncodeInv' /\ AddressRoundTrip'
    BY <2>1 DEF AddressInv, HeapInv, EncodeInv, AddressRoundTrip
  <2> QED
    BY <2>6, <2>8, <2>9, <2>10, Zenon DEF AddressInv
<1> QED
  BY <1>1, <1>2

(* The decoder's verdict, and what its caller frees. *)
LEMMA DecodedSteps ==
  ASSUME AddressInv, decode_address_to_raw
  PROVE  AddressInv'
<1> DEFINE bin == Decoded.bin
<1> DEFINE pub == SubSeq(bin, 2, 1 + PUBLIC_KEY_LEN)
<1> DEFINE actual == SubSeq(bin, 2 + PUBLIC_KEY_LEN, DECODED_LEN)
<1> DEFINE target == checksum(<<reader>> \o pub, CHECKSUM_LEN)
<1> DEFINE Accepted == bin[1] = reader /\ StrnEqual(actual, target, CHECKSUM_LEN)
<1>1. /\ DecodeDone /\ Decoded.ok /\ pc' = "decoded"
      /\ version' = version /\ key' = key /\ b58' = b58 /\ str' = str /\ reader' = reader
  BY Zenon DEF decode_address_to_raw
<1>2. \/ ~Accepted /\ ret' = 0 /\ raw' = raw /\ heap' = heap
      \/ Accepted /\ ret' = Decoded.binsz /\ raw' = pub /\ heap' = heap \union {"raw"}
  BY Zenon DEF decode_address_to_raw
<1>3. pc = "b58tobin" /\ str \in Seq(Chars) /\ Decodes(Decoded, str, DECODED_LEN)
  BY <1>1, DecodedIs
<1>4. DECODED_LEN \in Nat \ {0} /\ DECODED_LEN \in Nat /\ IsSealed(Message, version, key)
  BY <1>3, MessageIs DEF AddressInv
<1>5. reader \in Versions /\ heap = {"b58"}
  BY <1>3 DEF AddressInv, DecodeInv, HeapInv
<1>6. Accepted => Decoded.binsz > 0
  BY <1>3, <1>4, <1>5, AcceptedCounts
<1>7. ASSUME str = b58, reader = version PROVE Accepted /\ pub = key /\ Decoded.binsz = DECODED_LEN
  <2>1. bin = Message /\ Decoded.binsz = DECODED_LEN
    BY <1>1, <1>7, ReadsBack
  <2>2. bin[1] = version /\ pub = key /\ actual = checksum(<<version>> \o key, CHECKSUM_LEN)
    BY <1>4, <2>1, Zenon DEF IsSealed
  <2>3. target = actual
    BY <1>7, <2>2, Zenon
  <2> HIDE DEF target, actual, bin, pub
  <2>4. StrnEqual(actual, target, CHECKSUM_LEN)
    BY <2>3, StrnEqualSame, Zenon
  <2> QED
    BY <1>7, <2>1, <2>2, <2>4, Zenon
<1> HIDE DEF Accepted, pub
<1>8. AddressRoundTrip'
  <2>1. str' = b58' /\ reader' = version' => ret' > 0 /\ raw' = key'
    BY <1>1, <1>2, <1>6, <1>7, Zenon
  <2> QED
    BY <2>1, Zenon DEF AddressRoundTrip
<1>9. HeapInv'
  <2>1. heap' = {"b58"} \/ (heap' = {"b58"} \union {"raw"} /\ ret' > 0)
    BY <1>2, <1>5, <1>6, Zenon
  <2> QED
    BY <1>1, <2>1 DEF HeapInv
<1>10. Message' = Message /\ Front' = Front
  BY <1>1, Zenon DEF Message, Front
<1>11. TextInv'
  BY <1>1, <1>3, <1>10, Zenon DEF AddressInv, TextInv
<1>12. KeyInv'
  BY <1>1, <1>3, Zenon DEF AddressInv, KeyInv
<1>13. EncodeInv' /\ DecodeInv'
  BY <1>1 DEF EncodeInv, DecodeInv
<1> QED
  BY <1>8, <1>9, <1>11, <1>12, <1>13, Zenon DEF AddressInv

LEMMA AddressSteps == ASSUME AddressInv, [Next]_vars PROVE AddressInv'
<1>1. CASE encode_address_from_raw \/ EncodeByte \/ EncodeDone
  BY <1>1, EncodingSteps
<1>2. CASE Deliver \/ DecodeChar
  BY <1>2, DecodingSteps
<1>3. CASE decode_address_to_raw
  BY <1>3, DecodedSteps
<1>4. CASE encode_address_fails \/ decode_address_fails
  <2>1. pc' = "exited" /\ version' = version /\ key' = key
    BY <1>4, Zenon DEF encode_address_fails, decode_address_fails
  <2> QED
    BY <2>1 DEF AddressInv, KeyInv, EncodeInv, TextInv, DecodeInv, AddressRoundTrip, HeapInv
<1>5. CASE Free
  <2>1. /\ pc = "decoded" /\ pc' = "freed" /\ version' = version /\ key' = key
        /\ heap' = heap \ ({"b58"} \union {b \in {"raw"} : ret > 0})
    BY <1>5, Zenon DEF Free
  <2>2. heap = {"b58"} \/ (heap = {"b58", "raw"} /\ ret > 0)
    BY <2>1, Zenon DEF AddressInv, HeapInv
  <2>3. heap' = {}
    <3>1. CASE heap = {"b58"}
      BY <2>1, <3>1, Zenon
    <3>2. CASE heap = {"b58", "raw"} /\ ret > 0
      BY <2>1, <3>2, Zenon
    <3> QED
      BY <2>2, <3>1, <3>2
  <2> QED
    BY <2>1, <2>3 DEF AddressInv, KeyInv, EncodeInv, TextInv, DecodeInv, AddressRoundTrip, HeapInv
<1>6. CASE UNCHANGED vars
  <2>1. /\ pc' = pc /\ version' = version /\ key' = key /\ enc' = enc /\ dec' = dec /\ i' = i
        /\ b58' = b58 /\ str' = str /\ reader' = reader /\ raw' = raw /\ ret' = ret /\ heap' = heap
    BY <1>6, Zenon DEF vars
  <2> QED
    BY <2>1, Zenon DEF AddressInv, KeyInv, EncodeInv, TextInv, DecodeInv, AddressRoundTrip, HeapInv,
       Message, Front
<1> QED
  BY <1>1, <1>2, <1>3, <1>4, <1>5, <1>6 DEF Next

(***************************************************************************)
(* The inductive invariant of the address state machine.                   *)
(***************************************************************************)
THEOREM AddressInvariant == Spec => []AddressInv
<1>1. Init => AddressInv
  BY AddressStarts
<1>2. AddressInv /\ [Next]_vars => AddressInv'
  BY AddressSteps
<1> QED
  BY <1>1, <1>2, PTL DEF Spec

LEMMA BasesAre == Base \in Nat \ {0} /\ Base \in Nat /\ Byte \in Nat \ {0} /\ Byte \in Nat
BY SMT DEF Base, Byte

(* The prefix of a byte array, and its number. *)
LEMMA PrefixIs ==
  ASSUME NEW n \in Nat, NEW data, Bytes(data, n), NEW m \in 0 .. n
  PROVE  SubSeq(data, 1, m) \in [1 .. m -> 0 .. Byte - 1] /\ Val(SubSeq(data, 1, m), Byte, m) = Val(data, Byte, m)
<1> DEFINE B == 0 .. Byte - 1
<1> DEFINE x == SubSeq(data, 1, m)
<1>1. data \in [1 .. n -> B]
  BY Zenon DEF Bytes
<1> HIDE DEF B
<1>2. data \in Seq(B) /\ Len(data) = n
  BY <1>1, ArrayIsSeq
<1>3. m \in Nat
  BY SMT
<1>4. x \in Seq(B) /\ Len(x) = m /\ \A k \in 1 .. m : x[k] = data[k]
  BY <1>2, SMT
<1> HIDE DEF x
<1>5. x \in [1 .. Len(x) -> B]
  BY <1>4, SMT
<1>6. x \in [1 .. m -> B]
  BY <1>4, <1>5, Zenon
<1>7. Bytes(x, m)
  BY <1>6, Zenon DEF B, Bytes
<1>8. Numbers(x, m)
  BY <1>3, <1>7, BytesAre
<1>9. Agree(x, data, m)
  BY <1>4, Zenon DEF Agree
<1>10. Val(x, Byte, m) = Val(data, Byte, m)
  BY <1>3, <1>8, <1>9, BasesAre, ValSame
<1> QED
  BY <1>6, <1>10, Zenon DEF x, B

(***************************************************************************)
(* b58enc's scratch buffer, sized by the factor 138/100, holds the number  *)
(* of the bytes read so far whatever the key and however long it is: no    *)
(* carry is ever lost.                                                     *)
(***************************************************************************)
THEOREM ScratchIsExact == Spec => []ScratchHoldsPrefix
<1>1. AddressInv => ScratchHoldsPrefix
  <2> SUFFICES ASSUME AddressInv, pc = "b58enc"
               PROVE  SameNumber(enc.buf, Base, SubSeq(Sealed(version, key), 1, i), Byte)
    BY Zenon DEF ScratchHoldsPrefix
  <2>1. Bytes(Message, DECODED_LEN) /\ DECODED_LEN \in Nat /\ Leads(Message, 0, Front)
    BY MessageIs DEF AddressInv
  <2>2. Scratch(enc, Message, DECODED_LEN, Front, i)
    BY Zenon DEF AddressInv, EncodeInv
  <2> DEFINE size == BufSize(DECODED_LEN - Front)
  <2> DEFINE buf == enc.buf
  <2> DEFINE x == SubSeq(Message, 1, i)
  <2>3. /\ i \in Front .. DECODED_LEN /\ Cells(buf, size)
        /\ Val(buf, Base, size) = Val(Message, Byte, i)
    BY <2>2, Zenon DEF Scratch
  <2>4. Front \in 0 .. DECODED_LEN
    <3>1. Len(Message) = DECODED_LEN
      BY <2>1, BytesAre
    <3> QED
      BY <2>1, <3>1, Zenon DEF Leads
  <2>5. DECODED_LEN - Front \in Nat /\ i \in 0 .. DECODED_LEN /\ i \in Nat
    BY <2>1, <2>3, <2>4, SMT
  <2>6. size \in Nat
    BY <2>5, BufSizeIs
  <2>7. x \in [1 .. i -> 0 .. Byte - 1] /\ Val(x, Byte, i) = Val(Message, Byte, i)
    BY <2>1, <2>5, PrefixIs
  <2>8. buf \in [1 .. size -> 0 .. Base - 1]
    BY <2>3, Zenon DEF Cells
  <2> HIDE DEF size, buf, x
  <2>9. Val(buf, Base, size) = Val(x, Byte, i)
    BY <2>3, <2>7, Zenon
  <2>10. SameNumber(buf, Base, x, Byte)
    BY <2>5, <2>6, <2>7, <2>8, <2>9, BasesAre, SameNumberIs
  <2> QED
    BY <2>10, Zenon DEF buf, x, Message
<1> QED
  BY <1>1, AddressInvariant, PTL

(***************************************************************************)
(* b58tobin's limbs hold the number of the characters read so far, and it  *)
(* gives up exactly on a character that is no digit or a number that has   *)
(* outgrown the buffer, for limbs of any size and a buffer of any length.  *)
(***************************************************************************)
THEOREM LimbsAreExact == Spec => []LimbsHoldPrefix
<1>1. AddressInv => LimbsHoldPrefix
  <2> SUFFICES ASSUME AddressInv, pc = "b58tobin" PROVE LimbsHoldPrefix
    BY Zenon DEF LimbsHoldPrefix
  <2> DEFINE D == DECODED_LEN
  <2> DEFINE digits == Marks(str, i)
  <2> DEFINE n == OutiSize(D)
  <2>1. str \in Seq(Chars) /\ i \in 0 .. Len(str) /\ Limbs(dec, str, i, D)
    BY Zenon DEF AddressInv, DecodeInv
  <2>2. D \in Nat \ {0} /\ D \in Nat
    BY MessageIs DEF AddressInv
  <2>3. i \in Nat
    BY <2>1, SMT
  <2>4. n \in Nat
    BY <2>2, LimbCount
  <2>5. AllDigits(str, i) => digits \in [1 .. i -> 0 .. Base - 1]
    BY <2>1, MarksAre
  <2>6. AllDigits(str, i) => (FitsInto(D, Byte, digits, Base) <=> Val(digits, Base, i) < Power(Byte, D))
    BY <2>2, <2>3, <2>5, BasesAre, FitsIntoIs
  <2>7. Number(str, i) = Val(digits, Base, i)
    BY Zenon DEF Number
  <2>8. AllDigits(str, i) => Val(digits, Base, i) \in Nat
    <3> HIDE DEF digits
    <3>1. AllDigits(str, i) => Digits(digits, Base, i)
      BY <2>5, Zenon DEF Digits
    <3> QED
      BY <2>3, <3>1, BasesAre, DigitsValue
  <2>9. Power(Byte, D) \in Nat
    BY <2>2, BasesAre, PowerIs
  <2> DEFINE outi == dec.outi
  <2>10. dec.ok \in BOOLEAN /\ outi \in [1 .. n -> 0 .. Word - 1]
    <3>1. dec \in [ok : BOOLEAN, outi : [1 .. n -> 0 .. Word - 1]]
      BY <2>1, Zenon DEF Limbs, LimbType
    <3> DEFINE T == [1 .. n -> 0 .. Word - 1]
    <3>2. dec \in [ok : BOOLEAN, outi : T]
      BY <3>1, Zenon
    <3> HIDE DEF T
    <3>3. dec.ok \in BOOLEAN /\ dec.outi \in T
      BY <3>2
    <3> QED
      BY <3>3, Zenon DEF T
  <2>11. dec.ok => /\ AllDigits(str, i) /\ Val(outi, Word, n) = Val(digits, Base, i)
                   /\ Val(digits, Base, i) < Power(Byte, D)
    BY <2>1, <2>7, Zenon DEF Limbs
  <2>12. ~dec.ok => ~AllDigits(str, i) \/ Power(Byte, D) <= Val(digits, Base, i)
    BY <2>1, <2>7, Zenon DEF Limbs
  <2> HIDE DEF digits, n, outi, D
  <2>13. dec.ok => SameNumber(outi, Word, digits, Base)
    <3> SUFFICES ASSUME dec.ok PROVE SameNumber(outi, Word, digits, Base)
      BY Zenon
    <3>1. Val(outi, Word, n) = Val(digits, Base, i) /\ digits \in [1 .. i -> 0 .. Base - 1]
      BY <2>5, <2>11, Zenon
    <3>2. Word \in Nat \ {0}
      BY WordIs, Zenon
    <3> QED
      BY <2>3, <2>4, <2>10, <3>1, <3>2, BasesAre, SameNumberIs
  <2>14. ~dec.ok /\ AllDigits(str, i) => ~(Val(digits, Base, i) < Power(Byte, D))
    <3> DEFINE a == Val(digits, Base, i)
    <3> DEFINE b == Power(Byte, D)
    <3>1. AllDigits(str, i) => a \in Nat
      BY <2>8, Zenon
    <3>2. b \in Nat
      BY <2>9, Zenon
    <3>3. ~dec.ok /\ AllDigits(str, i) => b <= a
      BY <2>12, Zenon
    <3> HIDE DEF a, b
    <3>4. a \in Nat /\ b <= a => ~(a < b)
      BY <3>2, SMT
    <3> QED
      BY <3>1, <3>3, <3>4, Zenon DEF a, b
  <2>15. dec.ok <=> AllDigits(str, i) /\ FitsInto(D, Byte, digits, Base)
    BY <2>6, <2>11, <2>14, Zenon
  <2> QED
    BY <2>13, <2>15, Zenon DEF LimbsHoldPrefix, AllDigits, Marks, digits, outi, D
<1> QED
  BY <1>1, AddressInvariant, PTL

(***************************************************************************)
(* decode_address_to_raw inverts encode_address_from_raw: every key comes  *)
(* back from its address, whatever its length and its leading zeros.       *)
(***************************************************************************)
THEOREM RoundTripHolds == Spec => []AddressRoundTrip
<1>1. AddressInv => AddressRoundTrip
  BY Zenon DEF AddressInv
<1> QED
  BY <1>1, AddressInvariant, PTL

(***************************************************************************)
(* A caller that frees what a positive return value hands it leaves no     *)
(* block behind: no accepted string decodes with a count of zero.          *)
(***************************************************************************)
THEOREM NoLeak == Spec => []NothingLeaks
<1>1. AddressInv => NothingLeaks
  BY Zenon DEF AddressInv, HeapInv, NothingLeaks
<1> QED
  BY <1>1, AddressInvariant, PTL

(* A string is no longer than the scratch buffer of all the bytes. *)
LEMMA SizeOfAll ==
  ASSUME NEW n \in Nat, NEW z \in 0 .. n
  PROVE  z + BufSize(n - z) <= BufSize(n)
<1> DEFINE a == n - z
<1> DEFINE p == (n * 138) \div 100
<1> DEFINE q == (a * 138) \div 100
<1>1. BufSize(n) = p + 1 /\ BufSize(n - z) = q + 1
  BY Zenon DEF BufSize
<1>2. z + q <= p
  BY SMT
<1>3. p \in Int /\ q \in Int
  BY SMT
<1> HIDE DEF p, q
<1> QED
  BY <1>1, <1>2, <1>3, SMT

(* The buffer is longer than the scratch buffer of all the bytes. *)
RoomForAll == ADDRESS_LEN > (DECODED_LEN * 138) \div 100 + 1

(* With that much room the string fits. *)
LEMMA StringFits ==
  ASSUME AddressInv, pc = "b58enc", i = DECODED_LEN, RoomForAll
  PROVE  EncFinish(enc, Message, ADDRESS_LEN).ok
<1> DEFINE fin == EncFinish(enc, Message, ADDRESS_LEN)
<1>4. Scratch(enc, Message, DECODED_LEN, Front, DECODED_LEN)
  BY Zenon DEF AddressInv, EncodeInv
<1>5. /\ Bytes(Message, DECODED_LEN) /\ Leads(Message, 0, Front) /\ DECODED_LEN \in Nat
      /\ DECODED_LEN \in Nat \ {0}
  BY MessageIs DEF AddressInv
<1>6. Front \in 0 .. DECODED_LEN
  <2>1. Len(Message) = DECODED_LEN
    BY <1>5, BytesAre
  <2> QED
    BY <1>5, <2>1, Zenon DEF Leads
<1> DEFINE size == BufSize(DECODED_LEN - Front)
<1>7. Cells(enc.buf, size)
  BY <1>4, Zenon DEF Scratch
<1>8. size \in Nat
  <2>1. DECODED_LEN - Front \in Nat
    BY <1>5, <1>6, SMT
  <2> QED
    BY <2>1, BufSizeIs
<1>9. Front + size <= BufSize(DECODED_LEN)
  BY <1>5, <1>6, SizeOfAll
<1> HIDE DEF size
<1> DEFINE buf == enc.buf
<1> DEFINE j == LeadingCount(buf, 0)
<1>10. Len(buf) = size
  BY <1>7, <1>8, CellsAre
<1>11. Leads(buf, 0, j)
  BY <1>8, <1>10, LeadingCountIs
<1>12. j \in 0 .. size
  BY <1>10, <1>11, Zenon DEF Leads
<1>13. ADDRESS_LEN > BufSize(DECODED_LEN) /\ ADDRESS_LEN \in Nat /\ BufSize(DECODED_LEN) \in Nat
  BY <1>5, AddressAssumption, BufSizeIs DEF BufSize, RoomForAll
<1> HIDE DEF j
<1>14. ~(ADDRESS_LEN <= Front + size - j)
  <2> DEFINE m == BufSize(DECODED_LEN)
  <2>1. m \in Nat /\ ADDRESS_LEN > m /\ Front + size <= m
    BY <1>9, <1>13, Zenon
  <2> HIDE DEF m
  <2> QED
    BY <1>5, <1>6, <1>8, <1>12, <1>13, <2>1, SMT
<1>15. ~(ADDRESS_LEN <= LeadingCount(Message, 0) + Len(enc.buf) - LeadingCount(enc.buf, 0))
  BY <1>10, <1>14, Zenon DEF Front, j
<1>16. \E x, y : fin = [ok |-> TRUE, b58 |-> x, b58sz |-> y]
  BY <1>15, Zenon DEF EncFinish
<1> HIDE DEF fin
<1>17. fin.ok
  <2>1. PICK x, y : fin = [ok |-> TRUE, b58 |-> x, b58sz |-> y]
    BY <1>16, Zenon
  <2> QED
    BY <2>1, SMT
<1> QED
  BY <1>17, Zenon DEF fin

(***************************************************************************)
(* A buffer longer than the scratch buffer of all the bytes always has     *)
(* room for the string, as the 56 bytes of address.h have for the 52 of a  *)
(* 32 byte key: encode_address_from_raw never exits for want of room.      *)
(***************************************************************************)
THEOREM AddressHasRoom ==
  ASSUME RoomForAll
  PROVE  Spec => []AddressFits
<1>1. Init => AddressFits
  BY DEF Init, AddressFits
<1>2. AddressInv /\ AddressFits /\ [Next]_vars => AddressFits'
  <2> SUFFICES ASSUME AddressInv, pc # "no room", [Next]_vars, pc' = "no room" PROVE FALSE
    BY DEF AddressFits
  <2>1. EncodeDone
    BY DEF Next, vars, encode_address_fails, encode_address_from_raw, EncodeByte, Deliver, DecodeChar,
       decode_address_fails, decode_address_to_raw, Free
  <2> DEFINE fin == EncFinish(enc, Message, ADDRESS_LEN)
  <2>2. pc = "b58enc" /\ i = DECODED_LEN /\ (pc' = IF fin.ok THEN "encoded" ELSE "no room")
    BY <2>1, Zenon DEF EncodeDone, Message
  <2>3. fin.ok
    BY <2>2, StringFits, Zenon
  <2> HIDE DEF fin
  <2> QED
    BY <2>2, <2>3, Zenon
<1> QED
  BY <1>1, <1>2, AddressInvariant, PTL DEF Spec
=============================================================================
