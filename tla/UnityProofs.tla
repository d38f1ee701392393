----------------------------- MODULE UnityProofs ----------------------------
(***************************************************************************)
(* Theorems about the test framework of the C client, for bytes of any     *)
(* number of bits, any values, arrays, strings and floats, and any number  *)
(* of tests: first what its operators on numbers compute, then each of the *)
(* invariants of UnityVerdicts and UnityRunner.                            *)
(***************************************************************************)
EXTENDS UnityRunner, FiniteSetTheorems, SequenceTheorems, WellFoundedInduction, TLAPS

(* The provers to try on a leaf, with their time limits in seconds. *)
USE ZenonT(5), SMTT(20)
-----------------------------------------------------------------------------
(* Division, and functions defined by recursion on a number.               *)

(* Quotient and remainder. *)
LEMMA DivMod ==
  ASSUME NEW x \in Int, NEW m \in Nat \ {0}
  PROVE  x = m * (x \div m) + (x % m) /\ x % m \in 0 .. m - 1 /\ x \div m \in Int
BY SMT

(* Products grow by steps of a factor. *)
LEMMA ProductGrows ==
  ASSUME NEW m \in Nat, NEW q \in Int, NEW p \in Int, q < p
  PROVE  m * q + m <= m * p
BY SMT

(* Quotient and remainder are the only ones. *)
LEMMA DivModIs ==
  ASSUME NEW m \in Nat \ {0}, NEW q \in Int, NEW r \in 0 .. m - 1, NEW x \in Int, x = m * q + r
  PROVE  x % m = r /\ x \div m = q
<1> DEFINE s == x % m
<1> DEFINE p == x \div m
<1>1. x = m * p + s /\ s \in 0 .. m - 1 /\ p \in Int
  BY DivMod
<1> HIDE DEF s, p
<1>2. ~(q < p) /\ ~(p < q)
  BY <1>1, ProductGrows, SMT
<1>3. q = p
  BY <1>2, <1>1, SMT
<1> QED
  BY <1>1, <1>3, SMT DEF s, p

(* A multiple of the modulus does not change the remainder. *)
LEMMA ModSame ==
  ASSUME NEW m \in Nat \ {0}, NEW k \in Int, NEW x \in Int
  PROVE  (x + m * k) % m = x % m
<1> DEFINE r == x % m
<1> DEFINE q == x \div m
<1>1. x = m * q + r /\ r \in 0 .. m - 1 /\ q \in Int
  BY DivMod
<1> HIDE DEF r, q
<1> DEFINE y == x + m * k
<1>2. y = m * (q + k) + r /\ q + k \in Int /\ y \in Int
  BY <1>1, SMT
<1> HIDE DEF y
<1>3. y % m = r
  BY <1>1, <1>2, DivModIs, SMT
<1> QED
  BY <1>3 DEF r, y

(* The remainder for a multiple of the modulus has the same remainder. *)
LEMMA ModMod ==
  ASSUME NEW m \in Nat \ {0}, NEW k \in Nat \ {0}, NEW x \in Int
  PROVE  (x % (m * k)) % m = x % m
<1> DEFINE n == m * k
<1>1. n \in Nat \ {0}
  BY SMT
<1> HIDE DEF n
<1> DEFINE r == x % n
<1> DEFINE q == x \div n
<1>2. x = n * q + r /\ r \in Int /\ q \in Int
  BY <1>1, DivMod, SMT
<1> HIDE DEF r, q
<1>3. x = r + m * (k * q) /\ k * q \in Int
  BY <1>2, SMT DEF n
<1>4. (r + m * (k * q)) % m = r % m
  BY <1>2, <1>3, ModSame
<1>5. x % m = r % m
  BY <1>3, <1>4, Zenon
<1> QED
  BY <1>5 DEF r, n

(* Dividing twice is dividing by the product. *)
LEMMA DivDiv ==
  ASSUME NEW m \in Nat \ {0}, NEW k \in Nat \ {0}, NEW x \in Nat
  PROVE  (x \div m) \div k = x \div (m * k)
BY SMT

(* Every set of numbers that is not empty has a least element. *)
LEMMA LeastNumber ==
  ASSUME NEW T, T \subseteq Nat, T # {}
  PROVE  \E n \in T : \A m \in T : ~(m < n)
<1>1. PICK n \in T : \A m \in T : ~ (<<m, n>> \in OpToRel(<, Nat))
  BY NatLessThanWellFounded, WFMin
<1> QED
  BY <1>1 DEF OpToRel

(* The values of a loop of n turns: each is made by a step from the one    *)
(* before.                                                                 *)
Steps(S) == [Nat -> [S -> S]]
IsLoop(f, S, init, step, n) ==
  /\ f \in [0 .. n -> S] /\ f[0] = init
  /\ \A k \in 1 .. n : f[k] = step[k][f[k - 1]]

(* A loop of any number of turns has its values. *)
LEMMA LoopExists ==
  ASSUME NEW S, NEW init \in S, NEW step \in Steps(S), NEW last \in Nat
  PROVE  \E f : IsLoop(f, S, init, step, last)
<1> DEFINE T == {n \in Nat : ~ \E f : IsLoop(f, S, init, step, n)}
<1> SUFFICES ASSUME T # {} PROVE FALSE
  BY Zenon
<1>1. PICK n \in T : \A m \in T : ~(m < n)
  BY LeastNumber
<1>2. n \in Nat /\ ~ \E f : IsLoop(f, S, init, step, n)
  BY <1>1
<1>3. n # 0
  <2>1. IsLoop([k \in 0 .. 0 |-> init], S, init, step, 0)
    BY SMT DEF IsLoop
  <2> QED
    BY <2>1, <1>2
<1>4. n - 1 \in Nat /\ n - 1 < n /\ n - 1 \in 0 .. n - 1
  BY <1>2, <1>3, SMT
<1>5. PICK f : IsLoop(f, S, init, step, n - 1)
  BY <1>1, <1>4, Zenon
<1>6. f \in [0 .. n - 1 -> S] /\ f[0] = init /\ \A k \in 1 .. n - 1 : f[k] = step[k][f[k - 1]]
  BY <1>5 DEF IsLoop
<1> DEFINE v == step[n][f[n - 1]]
<1>7. v \in S
  <2>1. step[n] \in [S -> S] /\ f[n - 1] \in S
    BY <1>2, <1>4, <1>6 DEF Steps
  <2> QED
    BY <2>1
<1> HIDE DEF v
<1> DEFINE g == [k \in 0 .. n |-> IF k < n THEN f[k] ELSE v]
<1>8. g \in [0 .. n -> S]
  BY <1>2, <1>6, <1>7, SMT
<1>9. g[0] = init
  BY <1>2, <1>3, <1>6, SMT
<1>10. ASSUME NEW k \in 1 .. n PROVE g[k] = step[k][g[k - 1]]
  <2>1. k - 1 \in 0 .. n /\ k - 1 < n /\ g[k - 1] = f[k - 1]
    BY <1>2, SMT
  <2>2. CASE k < n
    <3>1. k \in 1 .. n - 1 /\ g[k] = f[k]
      BY <1>2, <2>2, SMT
    <3> QED
      BY <3>1, <2>1, <1>6, Zenon
  <2>3. CASE k = n
    <3>1. g[n] = v
      BY <1>2, SMT
    <3> QED
      BY <3>1, <2>1, <2>3, Zenon DEF v
  <2> QED
    BY <1>2, <2>2, <2>3, SMT
<1> HIDE DEF g
<1>11. IsLoop(g, S, init, step, n)
  BY <1>8, <1>9, <1>10, Zenon DEF IsLoop
<1> QED
  BY <1>2, <1>11, Zenon
-----------------------------------------------------------------------------
(* Powers of two and the widths of integers.                               *)

W == Width(8)

(* Pow2 is defined on all widths. *)
LEMMA Pow2Def ==
  /\ W \in Nat /\ W >= 16
  /\ Pow2 \in [0 .. W -> Nat \ {0}] /\ Pow2[0] = 1
  /\ \A n \in 1 .. W : Pow2[n] = 2 * Pow2[n - 1]
<1> DEFINE S == Nat \ {0}
<1> DEFINE one == 1
<1> DEFINE step == [k \in Nat |-> [v \in S |-> 2 * v]]
<1>1. W \in Nat /\ W >= 16
  BY ByteAssumption, SMT DEF W, Width
<1>2. step \in Steps(S) /\ one \in S
  BY SMT DEF Steps
<1>3. PICK f : IsLoop(f, S, one, step, W)
  <2> HIDE DEF step, S, one
  <2> QED
    BY <1>1, <1>2, LoopExists
<1>4. f \in [0 .. W -> S] /\ f[0] = 1 /\ \A k \in 1 .. W : f[k] = step[k][f[k - 1]]
  BY <1>3, Zenon DEF IsLoop
<1>5. f = [n \in 0 .. W |-> IF n = 0 THEN 1 ELSE 2 * f[n - 1]]
  <2>1. ASSUME NEW k \in 0 .. W PROVE f[k] = IF k = 0 THEN 1 ELSE 2 * f[k - 1]
    <3>1. CASE k = 0
      BY <3>1, <1>4
    <3>2. CASE k # 0
      <4>1. k \in 1 .. W /\ k \in Nat /\ k - 1 \in 0 .. W
        BY <1>1, <3>2, SMT
      <4>2. f[k - 1] \in S
        BY <4>1, <1>4, Zenon
      <4>3. step[k][f[k - 1]] = 2 * f[k - 1]
        BY <4>1, <4>2
      <4>4. f[k] = step[k][f[k - 1]]
        BY <1>4, <4>1, Zenon
      <4> QED
        BY <4>3, <4>4, <3>2, Zenon
    <3> QED
      BY <3>1, <3>2
  <2>2. f = [n \in 0 .. W |-> f[n]]
    BY <1>4, Zenon
  <2> QED
    BY <2>1, <2>2, Zenon
<1>6. Pow2 = [n \in 0 .. W |-> IF n = 0 THEN 1 ELSE 2 * Pow2[n - 1]]
  BY <1>5 DEF Pow2, W
<1>7. Pow2[0] = 1 /\ \A n \in 1 .. W : Pow2[n] = 2 * Pow2[n - 1]
  BY <1>1, <1>6, SMT
<1>8. \A n \in 0 .. W : Pow2[n] \in S
  <2> DEFINE T == {n \in 0 .. W : Pow2[n] \notin S}
  <2> SUFFICES ASSUME T # {} PROVE FALSE
    BY Zenon
  <2>1. PICK n \in T : \A m \in T : ~(m < n)
    <3>1. T \subseteq Nat
      BY <1>1, SMT
    <3> QED
      BY <3>1, LeastNumber
  <2>2. n \in 0 .. W /\ Pow2[n] \notin S
    BY <2>1
  <2>3. n # 0
    BY <2>2, <1>7, SMT
  <2>4. n \in 1 .. W /\ n - 1 \in 0 .. W /\ n - 1 < n
    BY <2>2, <2>3, <1>1, SMT
  <2>5. Pow2[n - 1] \in S
    BY <2>1, <2>4, Zenon
  <2>6. Pow2[n] = 2 * Pow2[n - 1]
    BY <2>4, <1>7
  <2> QED
    BY <2>2, <2>5, <2>6, SMT
<1> QED
  BY <1>1, <1>6, <1>7, <1>8

(* Adding exponents multiplies powers. *)
LEMMA Pow2Sum ==
  ASSUME NEW a \in Nat, NEW b \in Nat, a + b <= W
  PROVE  Pow2[a + b] = Pow2[a] * Pow2[b]
<1>1. W \in Nat /\ Pow2[0] = 1 /\ \A n \in 0 .. W : Pow2[n] \in Nat
  BY Pow2Def
<1>2. \A n \in 1 .. W : Pow2[n] = 2 * Pow2[n - 1]
  BY Pow2Def
<1>3. b \in 0 .. b /\ a \in 0 .. W /\ a + 0 = a
  BY <1>1, SMT
<1> DEFINE p == Pow2[a]
<1>4. p \in Nat /\ p * 1 = p
  BY <1>1, <1>3, SMT
<1> DEFINE T == {n \in 0 .. b : Pow2[a + n] # p * Pow2[n]}
<1>5. T \subseteq Nat
  BY SMT
<1> SUFFICES ASSUME T # {} PROVE FALSE
  BY <1>3, Zenon
<1>6. PICK n \in T : \A m \in T : ~(m < n)
  BY <1>5, LeastNumber, Zenon
<1>7. n \in 0 .. b /\ Pow2[a + n] # p * Pow2[n]
  BY <1>6, Zenon
<1>8. n # 0
  BY <1>1, <1>3, <1>4, <1>7, Zenon
<1> HIDE DEF p
<1>9. n - 1 \in 0 .. b /\ n - 1 < n /\ n \in 1 .. W /\ a + n \in 1 .. W
  BY <1>1, <1>7, <1>8, SMT
<1>10. n - 1 \in 0 .. W /\ (a + n) - 1 = a + (n - 1)
  BY <1>1, <1>7, <1>8, SMT
<1> DEFINE q == Pow2[n - 1]
<1>11. q \in Nat
  BY <1>1, <1>10, Zenon
<1>12. Pow2[a + (n - 1)] = p * q
  BY <1>6, <1>9, Zenon
<1>13. Pow2[a + n] = 2 * (p * q) /\ Pow2[n] = 2 * q
  BY <1>2, <1>9, <1>10, <1>12, Zenon
<1> HIDE DEF q
<1>14. 2 * (p * q) = p * (2 * q)
  BY <1>4, <1>11, SMT
<1> QED
  BY <1>7, <1>13, <1>14, Zenon

Bytes == {1, 2, 4, 8}
Size(b) == Pow2[Width(b)]
Half(b) == Pow2[Width(b) - 1]

(* The widths of the integers are among the exponents. *)
LEMMA Widths ==
  ASSUME NEW b \in Bytes
  PROVE  /\ W \in Nat /\ W = Width(8) /\ Width(b) \in 1 .. W /\ Width(b) - 1 \in 0 .. W
         /\ W - Width(b) \in Nat /\ Width(b) + (W - Width(b)) = W
         /\ b # 8 => Width(b) + (W - 1 - Width(b)) = W - 1 /\ W - 1 - Width(b) \in Nat
BY ByteAssumption, SMT DEF W, Width, Bytes

(* An integer of b bytes has twice as many values as are not negative, and *)
(* the narrower ones fit the wider.                                        *)
LEMMA Sizes ==
  ASSUME NEW b \in Bytes
  PROVE  /\ Size(b) \in Nat \ {0} /\ Half(b) \in Nat \ {0} /\ Size(b) = 2 * Half(b)
         /\ \E k \in Nat \ {0} : Size(8) = Size(b) * k
         /\ b # 8 => Size(b) <= Half(8)
<1>1. Size(b) \in Nat \ {0} /\ Half(b) \in Nat \ {0} /\ Size(b) = 2 * Half(b)
  <2>1. Width(b) \in 1 .. W /\ Width(b) \in 0 .. W /\ Width(b) - 1 \in 0 .. W
    BY Widths, SMT
  <2> QED
    BY <2>1, Pow2Def DEF Size, Half
<1>2. \A n \in 0 .. W : Pow2[n] \in Nat \ {0}
  BY Pow2Def
<1>3. \E k \in Nat \ {0} : Size(8) = Size(b) * k
  <2> DEFINE n == W - Width(b)
  <2>1. Width(b) \in Nat /\ n \in Nat /\ n \in 0 .. W /\ Width(b) + n = Width(8) /\ Width(b) + n <= W
    BY Widths, SMT
  <2> HIDE DEF n
  <2>2. Pow2[Width(b) + n] = Pow2[Width(b)] * Pow2[n]
    BY <2>1, Pow2Sum
  <2> QED
    BY <2>1, <2>2, <1>2, Zenon DEF Size
<1>4. ASSUME b # 8 PROVE Size(b) <= Half(8)
  <2> DEFINE n == W - 1 - Width(b)
  <2>1. /\ Width(b) \in Nat /\ n \in Nat /\ n \in 0 .. W
        /\ Width(b) + n = Width(8) - 1 /\ Width(b) + n <= W
    BY <1>4, Widths, SMT
  <2> HIDE DEF n
  <2>2. Pow2[Width(b) + n] = Pow2[Width(b)] * Pow2[n]
    BY <2>1, Pow2Sum
  <2> DEFINE p == Pow2[n]
  <2>3. Half(8) = Size(b) * p /\ p \in Nat \ {0}
    BY <2>1, <2>2, <1>2, Zenon DEF Size, Half
  <2> HIDE DEF p
  <2> QED
    BY <2>3, <1>1, SMT
<1> QED
  BY <1>1, <1>3, <1>4

(* What a cast to an integer type of b bytes gives. *)
LEMMA Casts ==
  ASSUME NEW b \in Bytes, NEW x \in Int
  PROVE  /\ UINT(x, b) \in 0 .. Size(b) - 1 /\ UINT(x, b) \in Int
         /\ INT(x, b) \in -Half(b) .. Half(b) - 1 /\ INT(x, b) \in Int
         /\ INT(x, b) = IF UINT(x, b) < Half(b) THEN UINT(x, b) ELSE UINT(x, b) - Size(b)
         /\ \E q \in Int : x = UINT(x, b) + Size(b) * q
         /\ \E q \in Int : x = INT(x, b) + Size(b) * q
<1> DEFINE m == Size(b)
<1> DEFINE h == Half(b)
<1> DEFINE u == UINT(x, b)
<1> DEFINE i == INT(x, b)
<1> DEFINE q == x \div m
<1>1. m \in Nat \ {0} /\ h \in Nat \ {0} /\ m = 2 * h
  BY Sizes
<1>2. u = x % m /\ i = IF u < h THEN u ELSE u - m
  BY DEF UINT, INT, Size, Half
<1> HIDE DEF m, h, u, i
<1>3. x = m * q + u /\ u \in 0 .. m - 1 /\ q \in Int
  BY <1>1, <1>2, DivMod
<1> HIDE DEF q
<1>4. i \in -h .. h - 1 /\ i \in Int /\ u \in Int
  BY <1>1, <1>2, <1>3, SMT
<1>5. x = u + m * q
  BY <1>1, <1>3, SMT
<1>6. x = i + m * q \/ x = i + m * (q + 1)
  BY <1>1, <1>2, <1>3, SMT
<1>7. q + 1 \in Int
  BY <1>3, SMT
<1>8. \E p \in Int : x = i + m * p
  BY <1>3, <1>6, <1>7, Zenon
<1> QED
  BY <1>2, <1>3, <1>4, <1>5, <1>8 DEF m, h, u, i

(* Numbers that a multiple of the size apart are cast to the same. *)
LEMMA CastSame ==
  ASSUME NEW b \in Bytes, NEW x \in Int, NEW y \in Int, NEW q \in Int, x = y + Size(b) * q
  PROVE  UINT(x, b) = UINT(y, b) /\ INT(x, b) = INT(y, b)
<1>1. Size(b) \in Nat \ {0}
  BY Sizes
<1>2. (y + Size(b) * q) % Size(b) = y % Size(b)
  BY <1>1, ModSame
<1>3. UINT(x, b) = UINT(y, b)
  BY <1>2 DEF UINT, Size
<1> QED
  BY <1>3 DEF INT

(* A number of the range is cast to itself. *)
LEMMA CastKeeps ==
  ASSUME NEW b \in Bytes, NEW x \in Int
  PROVE  /\ x \in 0 .. Size(b) - 1 => UINT(x, b) = x
         /\ x \in -Half(b) .. Half(b) - 1 => INT(x, b) = x
<1> DEFINE m == Size(b)
<1> DEFINE h == Half(b)
<1> DEFINE u == UINT(x, b)
<1> DEFINE i == INT(x, b)
<1>1. m \in Nat \ {0} /\ h \in Nat \ {0} /\ m = 2 * h
  BY Sizes
<1>2. u \in 0 .. m - 1 /\ i \in -h .. h - 1
  BY Casts
<1>3. PICK q \in Int : x = u + m * q
  BY Casts
<1>4. PICK p \in Int : x = i + m * p
  BY Casts
<1> HIDE DEF m, h, u, i
<1>5. ASSUME x \in 0 .. m - 1 PROVE u = x
  <2>1. ~(q < 0) /\ ~(0 < q)
    BY <1>1, <1>2, <1>3, <1>5, ProductGrows, SMT
  <2> QED
    BY <2>1, <1>1, <1>2, <1>3, SMT
<1>6. ASSUME x \in -h .. h - 1 PROVE i = x
  <2>1. ~(p < 0) /\ ~(0 < p)
    BY <1>1, <1>2, <1>4, <1>6, ProductGrows, SMT
  <2> QED
    BY <2>1, <1>1, <1>2, <1>4, SMT
<1> QED
  BY <1>5, <1>6 DEF m, h, u, i

(* A cast keeps what a cast to the same or to a narrower type gives, and   *)
(* the signed and the unsigned one tell the same numbers apart.            *)
LEMMA CastTwice ==
  ASSUME NEW b \in Bytes, NEW x \in Int
  PROVE  /\ UINT(INT(x, b), b) = UINT(x, b) /\ INT(UINT(x, b), b) = INT(x, b)
         /\ UINT(UNITY_INT(x), b) = UINT(x, b) /\ INT(UNITY_INT(x), b) = INT(x, b)
         /\ UINT(UNITY_UINT(x), b) = UINT(x, b) /\ INT(UNITY_UINT(x), b) = INT(x, b)
<1>1. Size(b) \in Nat /\ Size(8) \in Nat /\ 8 \in Bytes
  BY Sizes DEF Bytes
<1>2. INT(x, b) \in Int /\ UINT(x, b) \in Int /\ INT(x, 8) \in Int /\ UINT(x, 8) \in Int
  BY <1>1, Casts
<1>3. PICK k \in Nat : Size(8) = Size(b) * k
  BY Sizes
<1>4. PICK q1 \in Int : x = INT(x, b) + Size(b) * q1
  BY Casts
<1>5. PICK q2 \in Int : x = UINT(x, b) + Size(b) * q2
  BY Casts
<1>6. PICK q3 \in Int : x = INT(x, 8) + Size(8) * q3
  BY <1>1, Casts
<1>7. PICK q4 \in Int : x = UINT(x, 8) + Size(8) * q4
  BY <1>1, Casts
<1> DEFINE m == Size(b)
<1>8. /\ Size(8) * q3 = Size(b) * (k * q3) /\ k * q3 \in Int
      /\ Size(8) * q4 = Size(b) * (k * q4) /\ k * q4 \in Int
  <2>1. m \in Nat /\ Size(8) = m * k
    BY <1>1, <1>3
  <2> HIDE DEF m
  <2>2. (m * k) * q3 = m * (k * q3) /\ (m * k) * q4 = m * (k * q4) /\ k * q3 \in Int /\ k * q4 \in Int
    BY <2>1, SMT
  <2> QED
    BY <2>1, <2>2, Zenon DEF m
<1>9. /\ \E p \in Int : x = INT(x, 8) + Size(b) * p
      /\ \E p \in Int : x = UINT(x, 8) + Size(b) * p
  BY <1>6, <1>7, <1>8, Zenon
<1>10. UINT(x, b) = UINT(INT(x, b), b) /\ INT(x, b) = INT(UINT(x, b), b)
  BY <1>2, <1>4, <1>5, CastSame, Zenon
<1>11. UINT(x, b) = UINT(INT(x, 8), b) /\ INT(x, b) = INT(INT(x, 8), b)
  <2> DEFINE y == INT(x, 8)
  <2>1. PICK p \in Int : x = y + Size(b) * p
    BY <1>9
  <2>2. y \in Int
    BY <1>2
  <2> HIDE DEF y
  <2>3. UINT(x, b) = UINT(y, b) /\ INT(x, b) = INT(y, b)
    BY <2>1, <2>2, CastSame
  <2> QED
    BY <2>3 DEF y
<1>12. UINT(x, b) = UINT(UINT(x, 8), b) /\ INT(x, b) = INT(UINT(x, 8), b)
  <2> DEFINE y == UINT(x, 8)
  <2>1. PICK p \in Int : x = y + Size(b) * p
    BY <1>9
  <2>2. y \in Int
    BY <1>2
  <2> HIDE DEF y
  <2>3. UINT(x, b) = UINT(y, b) /\ INT(x, b) = INT(y, b)
    BY <2>1, <2>2, CastSame
  <2> QED
    BY <2>3 DEF y
<1> QED
  BY <1>10, <1>11, <1>12 DEF UNITY_INT, UNITY_UINT

(* A style has a number of bytes of its own or those of an int. *)
LEMMA StyleFacts ==
  ASSUME NEW style \in Styles
  PROVE  /\ style.bytes \in Bytes /\ BytesOf(style) \in Bytes /\ style.named \in BOOLEAN
         /\ style.range \in {"INT", "UINT", "HEX", "CHAR"}
         /\ style.range = "CHAR" => style.bytes = 1 /\ style.named
         /\ style.range = "HEX" => style.named
         /\ ~style.named => style.bytes = 4
         /\ (style.bytes = 8 \/ ~style.named) => BytesOf(style) = 8
         /\ ~(style.bytes = 8 \/ ~style.named) => BytesOf(style) = style.bytes /\ BytesOf(style) # 8
<1>1. CASE style \in [range : {"INT", "UINT", "HEX"}, bytes : {1, 2, 4, 8}, named : {TRUE}]
  BY <1>1 DEF Bytes, BytesOf
<1>2. CASE style \in [range : {"INT", "UINT"}, bytes : {IntWidth}, named : {FALSE}]
  BY <1>2 DEF Bytes, BytesOf, IntWidth
<1>3. CASE style = [range |-> "CHAR", bytes |-> 1, named |-> TRUE]
  BY <1>3 DEF Bytes, BytesOf
<1> QED
  BY <1>1, <1>2, <1>3 DEF Styles

(* The casts of the macros keep the number a style stands for: signed it   *)
(* is the value itself, unsigned the value made unsigned, and of EQUAL_HEX *)
(* the value reduced to its bytes.                                         *)
LEMMA CastMeans ==
  ASSUME NEW style \in Styles, NEW macro, NEW x \in Int
  PROVE  LET c == Cast(macro, style, x)
             b == BytesOf(style)
         IN  /\ c \in Int /\ c \in -Half(8) .. Half(8) - 1
             /\ UINT(c, b) = UINT(x, b) /\ INT(c, b) = INT(x, b)
             /\ IsInt(style) => c = INT(x, b)
             /\ (~IsInt(style) /\ ~(macro = "EQUAL" /\ style.range = "HEX")) =>
                   UNITY_UINT(c) = UINT(x, b)
<1> DEFINE c == Cast(macro, style, x)
<1> DEFINE b == BytesOf(style)
<1>1. b \in Bytes /\ 8 \in Bytes
  BY StyleFacts DEF Bytes
<1> DEFINE short == ~(style.bytes = 8 \/ ~style.named)
<1> DEFINE signed == IsInt(style) \/ (style.range = "HEX" /\ macro = "EQUAL")
<1>2. ~short => b = 8 /\ c = INT(x, 8)
  BY StyleFacts DEF Cast, UNITY_INT
<1>3. short /\ signed => b # 8 /\ c = INT(x, b)
  BY StyleFacts DEF Cast
<1>4. short /\ ~signed => b # 8 /\ c = INT(UINT(x, b), 8)
  BY StyleFacts DEF Cast, UNITY_INT
<1>5. (~IsInt(style) /\ ~(macro = "EQUAL" /\ style.range = "HEX")) => ~signed
  OBVIOUS
<1>6. IsInt(style) => signed
  OBVIOUS
<1> HIDE DEF b, c, short, signed
<1>7. INT(x, b) \in -Half(b) .. Half(b) - 1 /\ UINT(x, b) \in 0 .. Size(b) - 1
  BY <1>1, Casts
<1>8. /\ Half(b) \in Nat /\ Size(b) = 2 * Half(b) /\ Half(8) \in Nat /\ Size(8) = 2 * Half(8)
      /\ b # 8 => Size(b) <= Half(8)
  BY <1>1, Sizes
<1>9. /\ UINT(INT(x, b), b) = UINT(x, b) /\ INT(UINT(x, b), b) = INT(x, b)
      /\ UINT(UINT(x, b), b) = UINT(x, b) /\ INT(INT(x, b), b) = INT(x, b)
      /\ INT(x, b) \in Int /\ UINT(x, b) \in Int
  <2>1. INT(x, b) \in Int /\ UINT(x, b) \in Int
    BY <1>1, Casts
  <2> QED
    BY <2>1, <1>1, <1>7, CastTwice, CastKeeps
<1>10. CASE ~short
  <2>1. b = 8 /\ c = INT(x, 8)
    BY <1>2, <1>10
  <2>2. UNITY_UINT(c) = UINT(x, b)
    BY <2>1, <1>9 DEF UNITY_UINT
  <2> QED
    BY <2>1, <2>2, <1>7, <1>9 DEF c, b
<1>11. CASE short /\ signed
  <2>1. b # 8 /\ c = INT(x, b)
    BY <1>3, <1>11
  <2>2. c \in -Half(8) .. Half(8) - 1
    BY <2>1, <1>7, <1>8, <1>9, SMT
  <2>3. CASE IsInt(style)
    BY <2>1, <2>2, <2>3, <1>9 DEF c, b
  <2>4. CASE ~IsInt(style)
    <3>1. macro = "EQUAL" /\ style.range = "HEX"
      BY <2>4, <1>11 DEF signed
    <3> QED
      BY <2>1, <2>2, <2>4, <3>1, <1>9 DEF c, b
  <2> QED
    BY <2>3, <2>4
<1>12. CASE short /\ ~signed
  <2>1. b # 8 /\ c = INT(UINT(x, b), 8) /\ ~IsInt(style)
    BY <1>4, <1>6, <1>12
  <2>2. UINT(x, b) \in -Half(8) .. Half(8) - 1 /\ UINT(x, b) \in 0 .. Size(8) - 1
    BY <2>1, <1>7, <1>8, <1>9, SMT
  <2>3. c = UINT(x, b) /\ UINT(c, 8) = UINT(x, b)
    BY <2>1, <2>2, <1>1, <1>9, CastKeeps
  <2> QED
    BY <2>1, <2>2, <2>3, <1>9 DEF c, b, UNITY_UINT
<1> QED
  BY <1>10, <1>11, <1>12
-----------------------------------------------------------------------------
(* Assertions on two numbers.                                              *)

(* A verdict is to pass or to fail. *)
LEMMA VerdictIs ==
  /\ Pass.verdict = "pass"
  /\ \A n, x, y : /\ Fail(n, x, y).verdict = "fail" /\ Fail(n, x, y).element = n
                  /\ Fail(n, x, y).expected = x /\ Fail(n, x, y).actual = y
BY DEF Pass, Fail, None

(* The casts of a macro tell the numbers of a style apart. *)
LEMMA CastsDiffer ==
  ASSUME NEW style \in Styles, NEW macro, NEW x \in Int, NEW y \in Int
  PROVE  Cast(macro, style, x) = Cast(macro, style, y) <=> Means(style, x) = Means(style, y)
<1> DEFINE b == BytesOf(style)
<1>1. b \in Bytes
  BY StyleFacts
<1>2. UINT(x, b) = UINT(y, b) <=> INT(x, b) = INT(y, b)
  BY <1>1, CastTwice, Casts, SMT
<1>3. Means(style, x) = Means(style, y) <=> INT(x, b) = INT(y, b)
  BY <1>2 DEF Means, Reads, BytesOf
<1>4. ASSUME Cast(macro, style, x) = Cast(macro, style, y) PROVE INT(x, b) = INT(y, b)
  BY <1>4, CastMeans, SMT
<1>5. ASSUME INT(x, b) = INT(y, b) PROVE Cast(macro, style, x) = Cast(macro, style, y)
  BY <1>2, <1>5, StyleFacts DEF Cast, UNITY_INT
<1> QED
  BY <1>3, <1>4, <1>5

(* UnityAssertEqualNumber passes exactly for equal numbers. *)
LEMMA EqualNumberDecides ==
  ASSUME NEW style \in Styles, NEW e \in Int, NEW a \in Int
  PROVE  UnityAssertEqualNumber(Cast("EQUAL", style, e), Cast("EQUAL", style, a), style).verdict = "pass"
            <=> Means(style, a) = Means(style, e)
BY CastsDiffer, VerdictIs DEF UnityAssertEqualNumber

(* What a macro other than EQUAL compares is the number the style means. *)
LEMMA ComparedMeans ==
  ASSUME NEW style \in Styles, NEW macro, macro # "EQUAL", NEW x \in Int
  PROVE  LET c == Cast(macro, style, x)
         IN  /\ c \in Int /\ c \in -Half(8) .. Half(8) - 1
             /\ (IF IsInt(style) THEN c ELSE UNITY_UINT(c)) = Means(style, x) /\ Means(style, x) \in Int
<1>1. BytesOf(style) \in Bytes
  BY StyleFacts
<1>2. INT(x, BytesOf(style)) \in Int /\ UINT(x, BytesOf(style)) \in Int
  BY <1>1, Casts
<1> QED
  BY <1>2, CastMeans DEF Means, Reads, BytesOf

(* The relation a comparison is named for. *)
Relation(op, e, a) ==
  CASE op = "NOT_EQUAL" -> a # e
    [] op = "GREATER_THAN" -> a > e
    [] op = "GREATER_OR_EQUAL" -> a >= e
    [] op = "SMALLER_THAN" -> a < e
    [] op = "SMALLER_OR_EQUAL" -> a <= e

(* UnityAssertGreaterOrLessOrEqualNumber decides by that relation. *)
LEMMA CompareDecides ==
  ASSUME NEW op \in DOMAIN Compare, NEW style \in Styles, NEW e \in Int, NEW a \in Int
  PROVE  UnityAssertGreaterOrLessOrEqualNumber(
            Cast(op, style, e), Cast(op, style, a), Compare[op], style).verdict = "pass"
            <=> Relation(op, Means(style, e), Means(style, a))
<1> DEFINE t == Cast(op, style, e)
<1> DEFINE c == Cast(op, style, a)
<1> DEFINE x == Means(style, e)
<1> DEFINE y == Means(style, a)
<1> DEFINE r == UnityAssertGreaterOrLessOrEqualNumber(t, c, Compare[op], style)
<1>1. op \in {"NOT_EQUAL", "GREATER_THAN", "GREATER_OR_EQUAL", "SMALLER_THAN", "SMALLER_OR_EQUAL"}
  BY DEF Compare
<1>2. /\ (IF IsInt(style) THEN t ELSE UNITY_UINT(t)) = x /\ x \in Int
      /\ (IF IsInt(style) THEN c ELSE UNITY_UINT(c)) = y /\ y \in Int
  BY <1>1, ComparedMeans
<1>3. t = c <=> x = y
  BY CastsDiffer
<1>4. r.verdict = "pass" <=>
        \/ t = c /\ "EQUAL" \in Compare[op]
        \/ ~(t = c \/ (y > x /\ "SMALLER" \in Compare[op]) \/ (y < x /\ "GREATER" \in Compare[op]))
  BY <1>2, VerdictIs, Zenon DEF UnityAssertGreaterOrLessOrEqualNumber
<1> HIDE DEF t, c, x, y, r
<1>5. r.verdict = "pass" <=> Relation(op, x, y)
  <2>1. CASE op = "NOT_EQUAL"
    BY <1>2, <1>3, <1>4, <2>1 DEF Compare, Relation
  <2>2. CASE op = "GREATER_THAN"
    BY <1>2, <1>3, <1>4, <2>2, SMT DEF Compare, Relation
  <2>3. CASE op = "GREATER_OR_EQUAL"
    BY <1>2, <1>3, <1>4, <2>3, SMT DEF Compare, Relation
  <2>4. CASE op = "SMALLER_THAN"
    BY <1>2, <1>3, <1>4, <2>4, SMT DEF Compare, Relation
  <2>5. CASE op = "SMALLER_OR_EQUAL"
    BY <1>2, <1>3, <1>4, <2>5, SMT DEF Compare, Relation
  <2> QED
    BY <1>1, <2>1, <2>2, <2>3, <2>4, <2>5
<1> QED
  BY <1>5 DEF r, t, c, x, y

(* The unsigned difference of two numbers less than the size apart. *)
LEMMA DifferenceIs ==
  ASSUME NEW x \in Int, NEW y \in Int, y <= x, x - y < Size(8)
  PROVE  UNITY_UINT(UNITY_UINT(x) - UNITY_UINT(y)) = x - y
<1>1. 8 \in Bytes /\ Size(8) \in Nat
  BY Sizes DEF Bytes
<1> DEFINE m == Size(8)
<1> DEFINE u == UINT(x, 8)
<1> DEFINE v == UINT(y, 8)
<1>2. PICK q \in Int : x = u + m * q
  BY <1>1, Casts
<1>3. PICK p \in Int : y = v + m * p
  BY <1>1, Casts
<1>4. u \in Int /\ v \in Int /\ m \in Nat
  BY <1>1, Casts
<1>5. x - y \in 0 .. m - 1
  BY <1>1, SMT
<1> HIDE DEF m, u, v
<1> DEFINE d == x - y
<1>6. u - v = d + m * (p - q) /\ p - q \in Int /\ d \in Int /\ u - v \in Int
  BY <1>2, <1>3, <1>4, SMT
<1> HIDE DEF d
<1>7. UINT(u - v, 8) = UINT(d, 8)
  BY <1>1, <1>6, CastSame DEF m
<1>8. UINT(d, 8) = d
  BY <1>1, <1>5, <1>6, CastKeeps DEF d, m
<1> QED
  BY <1>7, <1>8 DEF u, v, d, UNITY_UINT

(* Within compares the distance of the numbers a style stands for. *)
LEMMA WithinIs ==
  ASSUME NEW style \in Styles, NEW delta \in Int,
         NEW e \in Int, e \in -Half(8) .. Half(8) - 1, NEW a \in Int, a \in -Half(8) .. Half(8) - 1
  PROVE  Within(delta, e, a, style) <=>
            Distance(IF IsInt(style) THEN a ELSE UNITY_UINT(a),
                     IF IsInt(style) THEN e ELSE UNITY_UINT(e)) <= delta
<1>1. 8 \in Bytes /\ Half(8) \in Nat /\ Size(8) = 2 * Half(8)
  BY Sizes DEF Bytes
<1>2. CASE IsInt(style)
  <2>1. CASE a > e
    <3>1. UNITY_UINT(UNITY_UINT(a) - UNITY_UINT(e)) = a - e
      BY <1>1, <2>1, DifferenceIs, SMT
    <3> QED
      BY <3>1, <2>1, <1>2, SMT DEF Within, Distance
  <2>2. CASE ~(a > e)
    <3>1. UNITY_UINT(UNITY_UINT(e) - UNITY_UINT(a)) = e - a
      BY <1>1, <2>2, DifferenceIs, SMT
    <3> QED
      BY <3>1, <2>2, <1>2, SMT DEF Within, Distance
  <2> QED
    BY <2>1, <2>2
<1>3. CASE ~IsInt(style)
  <2> DEFINE u == UNITY_UINT(e)
  <2> DEFINE v == UNITY_UINT(a)
  <2>1. u \in 0 .. Size(8) - 1 /\ v \in 0 .. Size(8) - 1 /\ u \in Int /\ v \in Int
    BY <1>1, Casts DEF UNITY_UINT
  <2>2. Within(delta, e, a, style) <=>
          IF v > u THEN UNITY_UINT(v - u) <= delta ELSE UNITY_UINT(u - v) <= delta
    BY <1>3 DEF Within
  <2> HIDE DEF u, v
  <2>3. v - u \in 0 .. Size(8) - 1 => UNITY_UINT(v - u) = v - u
    BY <2>1, <1>1, CastKeeps, SMT DEF UNITY_UINT
  <2>4. u - v \in 0 .. Size(8) - 1 => UNITY_UINT(u - v) = u - v
    BY <2>1, <1>1, CastKeeps, SMT DEF UNITY_UINT
  <2>5. Within(delta, e, a, style) <=> Distance(v, u) <= delta
    BY <2>1, <2>2, <2>3, <2>4, <1>1, SMT DEF Distance
  <2> QED
    BY <2>5, <1>3 DEF u, v
<1> QED
  BY <1>2, <1>3

(* UnityAssertNumbersWithin passes exactly for numbers not further apart   *)
(* than delta.                                                             *)
LEMMA WithinDecides ==
  ASSUME NEW style \in Styles, NEW e \in Int, NEW a \in Int, NEW d \in Int
  PROVE  UnityAssertNumbersWithin(CastDelta(style, FALSE, d), Cast("WITHIN", style, e),
                                  Cast("WITHIN", style, a), style).verdict = "pass"
            <=> Distance(Means(style, a), Means(style, e)) <= UINT(d, BytesOf(style))
<1>1. BytesOf(style) \in Bytes
  BY StyleFacts
<1>2. UINT(d, BytesOf(style)) \in Int
  BY <1>1, Casts
<1>3. CastDelta(style, FALSE, d) = UINT(d, BytesOf(style))
  BY StyleFacts DEF CastDelta, UNITY_UINT
<1> DEFINE t == Cast("WITHIN", style, e)
<1> DEFINE c == Cast("WITHIN", style, a)
<1> DEFINE delta == CastDelta(style, FALSE, d)
<1>4. /\ t \in Int /\ t \in -Half(8) .. Half(8) - 1
      /\ (IF IsInt(style) THEN t ELSE UNITY_UINT(t)) = Means(style, e)
  BY ComparedMeans
<1>5. /\ c \in Int /\ c \in -Half(8) .. Half(8) - 1
      /\ (IF IsInt(style) THEN c ELSE UNITY_UINT(c)) = Means(style, a)
  BY ComparedMeans
<1>6. delta \in Int
  BY <1>2, <1>3
<1> HIDE DEF t, c, delta
<1>7. Within(delta, t, c, style) <=> Distance(Means(style, a), Means(style, e)) <= delta
  BY <1>4, <1>5, <1>6, WithinIs
<1>8. UnityAssertNumbersWithin(delta, t, c, style).verdict = "pass" <=> Within(delta, t, c, style)
  BY VerdictIs DEF UnityAssertNumbersWithin
<1> QED
  BY <1>3, <1>7, <1>8 DEF t, c, delta

(* A cast to UNITY_INT keeps the bits. *)
LEMMA BitKept ==
  ASSUME NEW x \in Int, NEW k
  PROVE  Bit(UNITY_INT(x), k) = Bit(x, k)
<1>1. UNITY_UINT(UNITY_INT(x)) = UNITY_UINT(x)
  BY CastTwice DEF Bytes, UNITY_UINT
<1> QED
  BY <1>1 DEF Bit

(* A mask of an int has no bits above those of an int. *)
LEMMA MaskBits ==
  ASSUME NEW mask \in 0 .. Size(4) - 1, NEW k \in Width(4) .. W - 1
  PROVE  Bit(mask, k) = 0
<1>1. 4 \in Bytes /\ 8 \in Bytes
  BY DEF Bytes
<1>2. Width(4) \in Nat /\ W \in Nat /\ Width(4) <= W /\ W = Width(8)
  BY <1>1, Widths, SMT
<1>3. Size(4) \in Nat /\ Size(8) \in Nat /\ Size(4) <= Half(8) /\ Half(8) \in Nat /\ Size(8) = 2 * Half(8)
  BY <1>1, Sizes, SMT
<1>4. UNITY_UINT(mask) = mask
  BY <1>1, <1>3, CastKeeps, SMT DEF UNITY_UINT
<1> DEFINE n == k - Width(4)
<1>5. n \in Nat /\ n \in 0 .. W /\ Width(4) + n <= W /\ Width(4) + n = k /\ k \in 0 .. W
  BY <1>2, SMT
<1> HIDE DEF n
<1>6. Pow2[Width(4) + n] = Pow2[Width(4)] * Pow2[n]
  BY <1>2, <1>5, Pow2Sum
<1> DEFINE p == Pow2[n]
<1> DEFINE s == Size(4)
<1>7. p \in Nat \ {0} /\ s \in Nat
  BY <1>3, <1>5, Pow2Def
<1>8. Pow2[k] = s * p
  BY <1>5, <1>6, Zenon DEF Size
<1>9. mask \in 0 .. s - 1
  OBVIOUS
<1> HIDE DEF p, s
<1>10. s * p >= s
  BY <1>7, SMT
<1> DEFINE m == Pow2[k]
<1>11. m \in Nat \ {0} /\ m >= s
  BY <1>5, <1>8, <1>10, Pow2Def, Zenon
<1> HIDE DEF m
<1>12. mask \div m = 0
  BY <1>7, <1>9, <1>11, SMT
<1> QED
  BY <1>4, <1>12, SMT DEF Bit, m

(* UnityAssertBits passes exactly when the masked numbers look the same. *)
LEMMA BitsDecide ==
  ASSUME NEW mask \in 0 .. Size(4) - 1, NEW e \in Int, NEW a \in Int
  PROVE  UnityAssertBits(UNITY_INT(mask), UNITY_INT(e), UNITY_INT(a)).verdict = "pass"
            <=> UnityPrintMask(mask, e) = UnityPrintMask(mask, a)
<1>1. W \in Nat /\ Width(4) \in 1 .. W /\ W = Width(8) /\ Size(4) \in Nat
  BY Widths, Sizes DEF Bytes
<1> DEFINE Differs(k) == Bit(mask, k) = 1 /\ Bit(e, k) # Bit(a, k)
<1> DEFINE r == UnityAssertBits(UNITY_INT(mask), UNITY_INT(e), UNITY_INT(a))
<1>2. r.verdict = "pass" <=> ~ \E k \in 0 .. W - 1 : Differs(k)
  <2>1. \A k : Bit(UNITY_INT(mask), k) = Bit(mask, k)
    BY <1>1, BitKept, SMT
  <2>2. \A k : Bit(UNITY_INT(e), k) = Bit(e, k) /\ Bit(UNITY_INT(a), k) = Bit(a, k)
    BY BitKept
  <2> QED
    BY <2>1, <2>2, <1>1, VerdictIs DEF UnityAssertBits
<1>3. \A k \in Width(4) .. W - 1 : ~Differs(k)
  BY MaskBits, SMT
<1> DEFINE n == Width(4)
<1> DEFINE Digit(x, k) == IF Bit(mask, n - k) = 1 THEN Bit(x, n - k) ELSE Masked
<1> HIDE DEF r, n
<1>4. UnityPrintMask(mask, e) = UnityPrintMask(mask, a) <=>
        \A k \in 1 .. n : Digit(e, k) = Digit(a, k)
  BY Zenon DEF UnityPrintMask, IntWidth, n
<1>5. \A k \in 1 .. n : Digit(e, k) = Digit(a, k) <=> ~Differs(n - k)
  OBVIOUS
<1>6. (\A k \in 1 .. n : ~Differs(n - k)) <=> (\A k \in 0 .. n - 1 : ~Differs(k))
  <2> HIDE DEF Differs
  <2>1. \A k \in 0 .. n - 1 : n - k \in 1 .. n /\ n - (n - k) = k
    BY <1>1, SMT DEF n
  <2>2. \A k \in 1 .. n : n - k \in 0 .. n - 1
    BY <1>1, SMT DEF n
  <2> QED
    BY <2>1, <2>2
<1>7. (\A k \in 0 .. n - 1 : ~Differs(k)) <=> ~ \E k \in 0 .. W - 1 : Differs(k)
  <2> HIDE DEF Differs
  <2> QED
    BY <1>1, <1>3, SMT DEF n
<1> QED
  BY <1>2, <1>4, <1>5, <1>6, <1>7 DEF r

OtherOps == {"EQUAL_ARRAY", "EACH_EQUAL", "ARRAY_WITHIN", "STRING", "STRING_LEN", "STRING_ARRAY",
             "MEMORY", "FLOAT_WITHIN", "FLOAT_ARRAY", "FLOAT_IS"}

(* The assertions that compare something else than two numbers. *)
LEMMA OtherCalls ==
  /\ EqualIntArray => call'.op = "EQUAL_ARRAY"
  /\ EachEqual => call'.op = "EACH_EQUAL"
  /\ NumbersArrayWithin => call'.op = "ARRAY_WITHIN"
  /\ EqualString => call'.op = "STRING"
  /\ EqualStringLen => call'.op = "STRING_LEN"
  /\ EqualStringArray => call'.op = "STRING_ARRAY"
  /\ EqualMemory => call'.op = "MEMORY"
  /\ FloatsWithin => call'.op = "FLOAT_WITHIN"
  /\ EqualFloatArray => call'.op = "FLOAT_ARRAY"
  /\ FloatSpecial => call'.op = "FLOAT_IS"
<1>1. EqualIntArray => call'.op = "EQUAL_ARRAY"
  BY SMT DEF EqualIntArray, ArrayCall
<1>2. EachEqual => call'.op = "EACH_EQUAL"
  BY SMT DEF EachEqual, EachCall
<1>3. NumbersArrayWithin => call'.op = "ARRAY_WITHIN"
  BY SMT DEF NumbersArrayWithin, ArrayWithinCall
<1>4. EqualString => call'.op = "STRING"
  BY SMT DEF EqualString, StringCall
<1>5. EqualStringLen => call'.op = "STRING_LEN"
  BY SMT DEF EqualStringLen, StringLenCall
<1>6. EqualStringArray => call'.op = "STRING_ARRAY"
  BY SMT DEF EqualStringArray, StringArrayCall
<1>7. EqualMemory => call'.op = "MEMORY"
  BY SMT DEF EqualMemory, MemoryCall
<1>8. FloatsWithin => call'.op = "FLOAT_WITHIN"
  BY SMT DEF FloatsWithin, FloatCall
<1>9. EqualFloatArray => call'.op = "FLOAT_ARRAY"
  BY SMT DEF EqualFloatArray, FloatArrayCall
<1>10. FloatSpecial => call'.op = "FLOAT_IS"
  BY SMT DEF FloatSpecial, TraitCall
<1> QED
  BY <1>1, <1>2, <1>3, <1>4, <1>5, <1>6, <1>7, <1>8, <1>9, <1>10

(* The arguments of an assertion on two numbers. *)
LEMMA NumberArguments ==
  ASSUME NEW ops, NumberCall(ops)
  PROVE  \E op \in ops, style \in Styles, e \in Int, a \in Int, delta \in Int :
            /\ call'.op = op /\ call'.style = style /\ call'.e = e /\ call'.a = a
            /\ call'.delta = delta
<1>1. PICK op \in ops, style \in Styles, e \in Values, a \in Values, delta \in Deltas :
         call' = [op |-> op, style |-> style, e |-> e, a |-> a, delta |-> delta]
  BY DEF NumberCall
<1>2. e \in Int /\ a \in Int /\ delta \in Int
  BY ArgumentsAssumption
<1>3. call'.op = op /\ call'.style = style /\ call'.e = e /\ call'.a = a /\ call'.delta = delta
  BY <1>1
<1> QED
  BY <1>2, <1>3, Zenon

(* The assertions that compare two numbers. *)
LEMMA NumberOps ==
  ASSUME EqualNumber \/ CompareNumber \/ NumbersWithin \/ Bits
  PROVE  call'.op \in {"EQUAL", "WITHIN", "BITS", "NOT_EQUAL", "GREATER_THAN", "GREATER_OR_EQUAL",
                       "SMALLER_THAN", "SMALLER_OR_EQUAL"}
<1>1. CASE EqualNumber
  BY <1>1, SMT DEF EqualNumber, NumberCall
<1>2. CASE CompareNumber
  BY <1>2, SMT DEF CompareNumber, NumberCall, Compare
<1>3. CASE NumbersWithin
  BY <1>3, SMT DEF NumbersWithin, NumberCall
<1>4. CASE Bits
  BY <1>4, SMT DEF Bits, BitsCall
<1> QED
  BY <1>1, <1>2, <1>3, <1>4

(* Every assertion decides on numbers as NumbersAreCompared says. *)
LEMMA NumbersStep ==
  ASSUME Asserts
  PROVE  NumbersAreCompared'
<1>1. CASE EqualNumber
  <2>1. NumberCall({"EQUAL"})
    BY <1>1 DEF EqualNumber
  <2>2. PICK op \in {"EQUAL"}, style \in Styles, e \in Int, a \in Int, delta \in Int :
            /\ call'.op = op /\ call'.style = style /\ call'.e = e /\ call'.a = a
            /\ call'.delta = delta
    BY <2>1, NumberArguments, SMT
  <2>3. result'.verdict = "pass" <=> Means(style, a) = Means(style, e)
    BY <1>1, <2>2, EqualNumberDecides DEF EqualNumber
  <2>4. call'.op = "EQUAL"
    BY <2>2
  <2> QED
    BY <2>2, <2>3, <2>4 DEF NumbersAreCompared, Decided, Passed
<1>2. CASE CompareNumber
  <2>1. NumberCall(DOMAIN Compare)
    BY <1>2 DEF CompareNumber
  <2>2. PICK op \in DOMAIN Compare, style \in Styles, e \in Int, a \in Int, delta \in Int :
            /\ call'.op = op /\ call'.style = style /\ call'.e = e /\ call'.a = a
            /\ call'.delta = delta
    BY <2>1, NumberArguments
  <2>3. result'.verdict = "pass" <=> Relation(op, Means(style, e), Means(style, a))
    BY <1>2, <2>2, CompareDecides, SMT DEF CompareNumber
  <2>4. op \in {"NOT_EQUAL", "GREATER_THAN", "GREATER_OR_EQUAL", "SMALLER_THAN", "SMALLER_OR_EQUAL"}
    BY DEF Compare
  <2> DEFINE x == Means(style, e)
  <2> DEFINE y == Means(style, a)
  <2> HIDE DEF x, y
  <2>5. Relation(op, x, y) <=>
              CASE op = "EQUAL" -> y = x
                [] op = "NOT_EQUAL" -> y # x
                [] op = "GREATER_THAN" -> y > x
                [] op = "GREATER_OR_EQUAL" -> y >= x
                [] op = "SMALLER_THAN" -> y < x
                [] op = "SMALLER_OR_EQUAL" -> y <= x
                [] op = "WITHIN" ->
                     Distance(y, x) <= UINT(delta, BytesOf(style))
    BY <2>4 DEF Relation
  <2> QED
    BY <2>2, <2>3, <2>4, <2>5 DEF NumbersAreCompared, Decided, Passed, x, y
<1>3. CASE NumbersWithin
  <2>1. NumberCall({"WITHIN"})
    BY <1>3 DEF NumbersWithin
  <2>2. PICK op \in {"WITHIN"}, style \in Styles, e \in Int, a \in Int, delta \in Int :
            /\ call'.op = op /\ call'.style = style /\ call'.e = e /\ call'.a = a
            /\ call'.delta = delta
    BY <2>1, NumberArguments, SMT
  <2>3. result'.verdict = "pass" <=>
          Distance(Means(style, a), Means(style, e)) <= UINT(delta, BytesOf(style))
    <3>1. result' = UnityAssertNumbersWithin(CastDelta(style, FALSE, delta), Cast("WITHIN", style, e),
                                             Cast("WITHIN", style, a), style)
      BY <1>3, <2>2, Zenon DEF NumbersWithin
    <3> QED
      BY <3>1, WithinDecides
  <2>4. call'.op = "WITHIN"
    BY <2>2
  <2> QED
    BY <2>2, <2>3, <2>4 DEF NumbersAreCompared, Decided, Passed, BytesOf
<1>4. CASE Bits
  <2>1. PICK mask \in Masks, e \in Values, a \in Values :
          call' = [op |-> "BITS", mask |-> mask, e |-> e, a |-> a]
    BY <1>4 DEF Bits, BitsCall
  <2>2. call'.op = "BITS" /\ call'.mask = mask /\ call'.e = e /\ call'.a = a
    BY <2>1
  <2>3. e \in Int /\ a \in Int
    BY ArgumentsAssumption
  <2>4. mask \in 0 .. Size(4) - 1 =>
          (result'.verdict = "pass" <=> UnityPrintMask(mask, e) = UnityPrintMask(mask, a))
    BY <1>4, <2>2, <2>3, BitsDecide DEF Bits
  <2> QED
    BY <2>2, <2>4 DEF NumbersAreCompared, Decided, Passed, Size, IntWidth, Compare
<1>5. CASE EqualIntArray \/ EachEqual \/ NumbersArrayWithin \/ EqualString \/ EqualStringLen
           \/ EqualStringArray \/ EqualMemory \/ FloatsWithin \/ EqualFloatArray \/ FloatSpecial
  <2>1. call'.op \in OtherOps
    BY <1>5, OtherCalls DEF OtherOps
  <2> QED
    BY <2>1 DEF NumbersAreCompared, Decided, OtherOps, Compare
<1> QED
  BY <1>1, <1>2, <1>3, <1>4, <1>5 DEF Asserts

(* A step calls no assertion, one, or leaves the last one. *)
LEMMA LastResult ==
  ASSUME [Next]_vars
  PROVE  (call' = None /\ result' = None) \/ Asserts \/ (call' = call /\ result' = result)
BY DEF Next, Assertion, Over, vars

(***************************************************************************)
(* Assertions on two numbers and UnityAssertBits decide by the relation    *)
(* they are named for, for bytes of any even number of bits, all values    *)
(* and masks as wide as an int.                                            *)
(***************************************************************************)
THEOREM NumbersCompared == Spec => []NumbersAreCompared
<1>1. Init => NumbersAreCompared
  BY DEF Init, NoCall, NumbersAreCompared, Decided
<1>2. NumbersAreCompared /\ [Next]_vars => NumbersAreCompared'
  <2> SUFFICES ASSUME NumbersAreCompared, [Next]_vars PROVE NumbersAreCompared'
    OBVIOUS
  <2>1. CASE call' = None /\ result' = None
    BY <2>1, Zenon DEF NumbersAreCompared, Decided
  <2>2. CASE Asserts
    BY <2>2, NumbersStep
  <2>3. CASE call' = call /\ result' = result
    BY <2>3, Zenon DEF NumbersAreCompared, Decided, Passed
  <2> QED
    BY <2>1, <2>2, <2>3, LastResult
<1> QED
  BY <1>1, <1>2, PTL DEF Spec
-----------------------------------------------------------------------------
(* Assertions on arrays of numbers.                                        *)

(* What is shown of an element. *)
Shown(v, style) == IF style.range = "UINT" /\ style.bytes < IntWidth THEN UINT(v, style.bytes) ELSE v

(* The elements as the code reads them, and those that differ. *)
ReadAt(mem, p, k, style) == INT(mem[p][k], style.bytes)
Unequal(mem, p, q, num, style, each) ==
  {k \in 1 .. num : ReadAt(mem, p, IF each THEN 1 ELSE k, style) # ReadAt(mem, q, k, style)}
FurtherApart(delta, mem, p, q, num, style, each) ==
  {k \in 1 .. num :
      ~Within(delta, ReadAt(mem, p, IF each THEN 1 ELSE k, style), ReadAt(mem, q, k, style), style)}

(* What an array assertion decides, given the elements that differ. *)
DecidesOn(r, differ, mem, p, q, num, style, each) ==
  /\ num = 0 => r = Pointless
  /\ num # 0 /\ p = q => r = Pass
  /\ num # 0 /\ p # q /\ ~Comparable(p, q) => r = Pointless
  /\ num # 0 /\ p # q /\ Comparable(p, q) /\ differ = {} => r = Pass
  /\ num # 0 /\ p # q /\ Comparable(p, q) /\ differ # {} =>
        r = Fail(Least(differ),
                 UnityPrintNumberByStyle(
                    Shown(ReadAt(mem, p, IF each THEN 1 ELSE Least(differ), style), style), style),
                 UnityPrintNumberByStyle(Shown(ReadAt(mem, q, Least(differ), style), style), style))

(* UnityAssertEqualIntArray. *)
LEMMA EqualIntArrayIs ==
  ASSUME NEW mem, NEW p, NEW q, NEW num, NEW style, NEW each
  PROVE  DecidesOn(UnityAssertEqualIntArray(mem, p, q, num, style, each),
                   Unequal(mem, p, q, num, style, each), mem, p, q, num, style, each)
BY Zenon DEF DecidesOn, UnityAssertEqualIntArray, ForEachElement, Unequal, ReadAt, Shown,
             UnityIsOneArrayNull, Comparable

(* UnityAssertNumbersArrayWithin. *)
LEMMA ArrayWithinIs ==
  ASSUME NEW delta, NEW mem, NEW p, NEW q, NEW num, NEW style, NEW each
  PROVE  DecidesOn(UnityAssertNumbersArrayWithin(delta, mem, p, q, num, style, each),
                   FurtherApart(delta, mem, p, q, num, style, each), mem, p, q, num, style, each)
BY Zenon DEF DecidesOn, UnityAssertNumbersArrayWithin, ForEachElement, FurtherApart, ReadAt, Shown,
             UnityIsOneArrayNull, Comparable

(* The verdict ArraysAreCompared asks for. *)
Judges(r, differ, p, q, num) ==
  IF num > 0 /\ p # q /\ Comparable(p, q)
  THEN /\ r.verdict = "pass" <=> differ = {}
       /\ ~(r.verdict = "pass") => r.element = FirstOf(differ)
  ELSE r.verdict = "pass" <=> (num > 0 /\ p = q)

(* Such a decision is that verdict. *)
LEMMA DecisionIs ==
  ASSUME NEW r, NEW differ, NEW mem, NEW p, NEW q, NEW num \in Nat, NEW style, NEW each,
         DecidesOn(r, differ, mem, p, q, num, style, each)
  PROVE  Judges(r, differ, p, q, num)
<1>1. num > 0 <=> num # 0
  BY SMT
<1>2. Pass.verdict = "pass" /\ Pointless.verdict = "fail" /\ "fail" # "pass"
  BY VerdictIs, SMT DEF Pointless
<1>3. \A n, x, y : Fail(n, x, y).verdict = "fail" /\ Fail(n, x, y).element = n
  BY VerdictIs, SMT
<1>4. CASE num = 0
  BY <1>1, <1>2, <1>4 DEF DecidesOn, Judges
<1>5. CASE num # 0 /\ p = q
  BY <1>1, <1>2, <1>5 DEF DecidesOn, Judges
<1>6. CASE num # 0 /\ p # q /\ ~Comparable(p, q)
  BY <1>1, <1>2, <1>6 DEF DecidesOn, Judges
<1>7. CASE num # 0 /\ p # q /\ Comparable(p, q)
  <2>1. CASE differ = {}
    BY <1>1, <1>2, <1>7, <2>1 DEF DecidesOn, Judges
  <2>2. CASE differ # {}
    <3>1. r.verdict = "fail" /\ r.element = Least(differ)
      BY <1>7, <2>2, <1>3, SMT DEF DecidesOn
    <3> QED
      BY <1>1, <1>2, <1>7, <2>2, <3>1 DEF Judges, FirstOf
  <2> QED
    BY <2>1, <2>2
<1> QED
  BY <1>4, <1>5, <1>6, <1>7

(* Two different arrays that both exist are the first and the second. *)
LEMMA PointersAre ==
  ASSUME NEW pq \in Pointers, pq[1] # pq[2], Comparable(pq[1], pq[2])
  PROVE  pq[1] = "a" /\ pq[2] = "b"
BY SMT DEF Pointers, Comparable

(* The elements of arrays of numbers are numbers. *)
LEMMA CellsAre ==
  ASSUME NEW b \in Bytes, NEW mem \in Memories(Cells(b)), NEW num \in 0 .. Elements
  PROVE  num \in Nat /\ \A k \in 1 .. num : mem["a"][k] \in Int /\ mem["b"][k] \in Int
<1>1. Elements \in Nat /\ Cells(b) \subseteq Int
  BY ArgumentsAssumption DEF Bytes
<1>2. mem.a \in [1 .. Elements -> Cells(b)] /\ mem.b \in [1 .. Elements -> Cells(b)]
  BY DEF Memories
<1> QED
  BY <1>1, <1>2, SMT

(* Elements are equal as numbers exactly when the code reads them so. *)
LEMMA ReadsDiffer ==
  ASSUME NEW style, NEW b \in Bytes, NEW x \in Int, NEW y \in Int
  PROVE  Reads(style, b, x) = Reads(style, b, y) <=> INT(x, b) = INT(y, b)
<1>1. UINT(x, b) = UINT(y, b) <=> INT(x, b) = INT(y, b)
  BY CastTwice, Casts, SMT
<1> QED
  BY <1>1 DEF Reads

(* UnityAssertEqualIntArray decides as ArraysAreCompared says. *)
LEMMA EqualArrayStep ==
  ASSUME EqualIntArray
  PROVE  ArraysAreCompared'
<1>0. PICK style \in Styles, num \in 0 .. Elements, pq \in Pointers :
         \E mem \in Memories(Cells(style.bytes)) :
           call' = [op |-> "EQUAL_ARRAY", style |-> style, mem |-> mem, p |-> pq[1], q |-> pq[2],
                    num |-> num]
  BY DEF EqualIntArray, ArrayCall
<1>1. PICK mem \in Memories(Cells(style.bytes)) :
         call' = [op |-> "EQUAL_ARRAY", style |-> style, mem |-> mem, p |-> pq[1], q |-> pq[2],
                  num |-> num]
  BY <1>0
<1> DEFINE p == pq[1]
<1> DEFINE q == pq[2]
<1> DEFINE b == style.bytes
<1>2. /\ call'.op = "EQUAL_ARRAY" /\ call'.style = style /\ call'.mem = mem /\ call'.p = p
      /\ call'.q = q /\ call'.num = num
  BY <1>1
<1>3. result' = UnityAssertEqualIntArray(mem, p, q, num, style, FALSE)
  BY <1>2, Zenon DEF EqualIntArray
<1>4. b \in Bytes
  BY StyleFacts
<1>5. num \in Nat /\ \A k \in 1 .. num : mem["a"][k] \in Int /\ mem["b"][k] \in Int
  BY <1>1, <1>4, CellsAre
<1>6. p # q /\ Comparable(p, q) => p = "a" /\ q = "b"
  BY PointersAre
<1> HIDE DEF p, q
<1> DEFINE differ == {k \in 1 .. num : ~(Reads(style, b, mem[p][k]) = Reads(style, b, mem[q][k]))}
<1> DEFINE unequal == Unequal(mem, p, q, num, style, FALSE)
<1>7. p # q /\ Comparable(p, q) => differ = unequal
  <2> SUFFICES ASSUME p = "a", q = "b" PROVE differ = unequal
    BY <1>6
  <2>1. \A k \in 1 .. num : Reads(style, b, mem[p][k]) = Reads(style, b, mem[q][k])
                              <=> INT(mem[p][k], b) = INT(mem[q][k], b)
    BY <1>4, <1>5, ReadsDiffer
  <2> QED
    BY <2>1, Zenon DEF Unequal, ReadAt
<1>8. DecidesOn(result', unequal, mem, p, q, num, style, FALSE)
  BY <1>3, EqualIntArrayIs
<1> HIDE DEF unequal
<1>9. Judges(result', unequal, p, q, num)
  BY <1>5, <1>8, DecisionIs
<1>10. Judges(result', differ, p, q, num)
  BY <1>7, <1>9, Zenon DEF Judges
<1> QED
  BY <1>2, <1>10, Zenon DEF ArraysAreCompared, Element, Passed, Judges

(* UnityAssertNumbersArrayWithin on signed numbers decides as              *)
(* ArraysAreCompared says.                                                 *)
LEMMA ArrayWithinStep ==
  ASSUME NumbersArrayWithin
  PROVE  ArraysAreCompared'
<1>0. PICK style \in Styles, num \in 0 .. Elements, pq \in Pointers, d \in Deltas :
         \E mem \in Memories(Cells(style.bytes)) :
           call' = [op |-> "ARRAY_WITHIN", style |-> style, mem |-> mem, p |-> pq[1], q |-> pq[2],
                    num |-> num, delta |-> d]
  BY DEF NumbersArrayWithin, ArrayWithinCall
<1>1. PICK mem \in Memories(Cells(style.bytes)) :
         call' = [op |-> "ARRAY_WITHIN", style |-> style, mem |-> mem, p |-> pq[1], q |-> pq[2],
                  num |-> num, delta |-> d]
  BY <1>0
<1> DEFINE p == pq[1]
<1> DEFINE q == pq[2]
<1> DEFINE b == style.bytes
<1> DEFINE delta == UINT(d, BytesOf(style))
<1>2. /\ call'.op = "ARRAY_WITHIN" /\ call'.style = style /\ call'.mem = mem /\ call'.p = p
      /\ call'.q = q /\ call'.num = num /\ call'.delta = d
  BY <1>1
<1> SUFFICES ASSUME IsInt(style) PROVE ArraysAreCompared'
  BY <1>2, Zenon DEF ArraysAreCompared
<1>3. result' = UnityAssertNumbersArrayWithin(delta, mem, p, q, num, style, FALSE)
  <2>1. style.range # "UINT"
    BY DEF IsInt
  <2>2. CastDelta(style, TRUE, d) = delta
    BY <2>1, StyleFacts DEF CastDelta, UNITY_UINT
  <2> QED
    BY <1>2, <2>2, Zenon DEF NumbersArrayWithin
<1>4. b \in Bytes /\ BytesOf(style) \in Bytes /\ d \in Int
  BY StyleFacts, ArgumentsAssumption
<1>5. num \in Nat /\ \A k \in 1 .. num : mem["a"][k] \in Int /\ mem["b"][k] \in Int
  BY <1>1, <1>4, CellsAre
<1>6. p # q /\ Comparable(p, q) => p = "a" /\ q = "b"
  BY PointersAre
<1>7. delta \in Int
  BY <1>4, Casts
<1> HIDE DEF p, q, delta
<1> DEFINE differ == {k \in 1 .. num :
                        ~(Distance(Reads(style, b, mem[p][k]), Reads(style, b, mem[q][k])) <= delta)}
<1> DEFINE apart == FurtherApart(delta, mem, p, q, num, style, FALSE)
<1>8. p # q /\ Comparable(p, q) => differ = apart
  <2> SUFFICES ASSUME p = "a", q = "b" PROVE differ = apart
    BY <1>6
  <2>1. ASSUME NEW k \in 1 .. num
        PROVE  Distance(Reads(style, b, mem[p][k]), Reads(style, b, mem[q][k])) <= delta
                 <=> Within(delta, INT(mem[p][k], b), INT(mem[q][k], b), style)
    <3> DEFINE e == INT(mem[p][k], b)
    <3> DEFINE a == INT(mem[q][k], b)
    <3>1. mem[p][k] \in Int /\ mem[q][k] \in Int
      BY <1>5
    <3>2. /\ e \in Int /\ e \in -Half(b) .. Half(b) - 1
          /\ a \in Int /\ a \in -Half(b) .. Half(b) - 1
      BY <3>1, <1>4, Casts
    <3>3. Reads(style, b, mem[p][k]) = e /\ Reads(style, b, mem[q][k]) = a
      BY DEF Reads
    <3>4. /\ Half(b) \in Nat /\ Half(8) \in Nat /\ Half(b) <= Half(8)
      BY <1>4, Sizes, SMT DEF Bytes
    <3> HIDE DEF e, a
    <3>5. e \in -Half(8) .. Half(8) - 1 /\ a \in -Half(8) .. Half(8) - 1
      BY <3>2, <3>4, SMT
    <3>6. Within(delta, e, a, style) <=> Distance(a, e) <= delta
      BY <3>2, <3>5, <1>7, WithinIs
    <3>7. Distance(a, e) = Distance(e, a)
      BY <3>2, SMT DEF Distance
    <3> QED
      BY <3>3, <3>6, <3>7, Zenon DEF e, a
  <2> QED
    BY <2>1, Zenon DEF FurtherApart, ReadAt
<1>9. DecidesOn(result', apart, mem, p, q, num, style, FALSE)
  BY <1>3, ArrayWithinIs
<1> HIDE DEF apart
<1>10. Judges(result', apart, p, q, num)
  BY <1>5, <1>9, DecisionIs
<1>11. Judges(result', differ, p, q, num)
  BY <1>8, <1>10, Zenon DEF Judges
<1> QED
  BY <1>2, <1>11, Zenon DEF ArraysAreCompared, Element, Passed, Judges, delta

(* One value kept in UnityQuickCompare stands for all the expected ones,   *)
(* and is read back as the value.                                          *)
LEMMA EachEqualStep ==
  ASSUME EachEqual
  PROVE  ArraysAreCompared'
<1>0. PICK style \in Styles, num \in 0 .. Elements, value \in Values :
         \E m \in Memories(Cells(style.bytes)) :
           call' = [op |-> "EACH_EQUAL", style |-> style, mem |-> [m EXCEPT !.b = m.a],
                    p |-> "quick", q |-> "a", num |-> num, value |-> value]
  BY DEF EachEqual, EachCall
<1>1. PICK m \in Memories(Cells(style.bytes)) :
         call' = [op |-> "EACH_EQUAL", style |-> style, mem |-> [m EXCEPT !.b = m.a],
                  p |-> "quick", q |-> "a", num |-> num, value |-> value]
  BY <1>0
<1> DEFINE b == style.bytes
<1> DEFINE c == Cast("EQUAL", style, value)
<1> DEFINE mem == [call'.mem EXCEPT !["quick"] = UnityNumToPtr(c, b)]
<1>2. /\ call'.op = "EACH_EQUAL" /\ call'.style = style /\ call'.mem = [m EXCEPT !.b = m.a]
      /\ call'.p = "quick" /\ call'.q = "a" /\ call'.num = num /\ call'.value = value
  BY <1>1
<1>3. result' = UnityAssertEqualIntArray(mem, "quick", "a", num, style, TRUE)
  BY <1>2, Zenon DEF EachEqual
<1>4. b \in Bytes /\ value \in Int /\ 8 \in Bytes
  BY StyleFacts, ArgumentsAssumption DEF Bytes
<1>5. num \in Nat /\ \A k \in 1 .. num : m["a"][k] \in Int
  BY <1>1, <1>4, CellsAre
<1>6. mem["a"] = m["a"] /\ call'.mem["a"] = m["a"] /\ mem["quick"] = UnityNumToPtr(c, b)
  BY <1>1, <1>2 DEF Memories
<1>7. INT(mem["quick"][1], b) = INT(value, b)
  <2>1. c \in Int /\ INT(c, BytesOf(style)) = INT(value, BytesOf(style))
    BY <1>4, CastMeans
  <2>2. INT(c, b) = INT(value, b)
    <3>1. CASE BytesOf(style) = b
      BY <2>1, <3>1
    <3>2. CASE BytesOf(style) # b
      <4>1. ~style.named
        BY <3>2 DEF BytesOf
      <4>2. c = UNITY_INT(value)
        BY <4>1 DEF Cast
      <4> QED
        BY <4>2, <1>4, CastTwice
    <3> QED
      BY <3>1, <3>2
  <2>3. INT(UINT(c, b), b) = INT(c, b)
    BY <2>1, <1>4, CastTwice
  <2> QED
    BY <2>2, <2>3, <1>6, SMT DEF UnityNumToPtr
<1> HIDE DEF mem, c
<1> DEFINE differ == {k \in 1 .. num : ~(Reads(style, b, value) = Reads(style, b, m["a"][k]))}
<1> DEFINE unequal == Unequal(mem, "quick", "a", num, style, TRUE)
<1>8. differ = unequal
  <2>1. \A k \in 1 .. num : Reads(style, b, value) = Reads(style, b, m["a"][k])
                              <=> INT(value, b) = INT(m["a"][k], b)
    BY <1>4, <1>5, ReadsDiffer
  <2>2. \A k \in 1 .. num : ReadAt(mem, "quick", 1, style) # ReadAt(mem, "a", k, style)
                              <=> INT(value, b) # INT(m["a"][k], b)
    BY <1>6, <1>7 DEF ReadAt
  <2> QED
    BY <2>1, <2>2, Zenon DEF Unequal
<1>9. DecidesOn(result', unequal, mem, "quick", "a", num, style, TRUE)
  BY <1>3, EqualIntArrayIs
<1> HIDE DEF unequal, differ
<1>10. Judges(result', differ, "quick", "a", num)
  BY <1>5, <1>8, <1>9, DecisionIs
<1> QED
  BY <1>2, <1>6, <1>10, SMT DEF ArraysAreCompared, Element, Passed, Judges, differ

(***************************************************************************)
(* EQUAL_ARRAY and EACH_EQUAL of every type, and ARRAY_WITHIN of the       *)
(* signed types, pass exactly for arrays that agree, and name the first    *)
(* element that does not, for arrays of any length.                        *)
(***************************************************************************)
THEOREM ArraysCompared == Spec => []ArraysAreCompared
<1>1. Init => ArraysAreCompared
  BY DEF Init, NoCall, ArraysAreCompared, Decided
<1>2. ArraysAreCompared /\ [Next]_vars => ArraysAreCompared'
  <2> SUFFICES ASSUME ArraysAreCompared, [Next]_vars PROVE ArraysAreCompared'
    OBVIOUS
  <2>1. CASE call' = None /\ result' = None
    BY <2>1, Zenon DEF ArraysAreCompared, Decided
  <2>2. CASE Asserts
    <3>1. CASE EqualIntArray \/ EachEqual \/ NumbersArrayWithin
      BY <3>1, EqualArrayStep, EachEqualStep, ArrayWithinStep
    <3>2. CASE ~(EqualIntArray \/ EachEqual \/ NumbersArrayWithin)
      <4>1. call'.op \notin {"EQUAL_ARRAY", "EACH_EQUAL", "ARRAY_WITHIN"}
        BY <2>2, <3>2, OtherCalls, NumberOps DEF Asserts
      <4> QED
        BY <4>1, Zenon DEF ArraysAreCompared, Decided
    <3> QED
      BY <3>1, <3>2
  <2>3. CASE call' = call /\ result' = result
    BY <2>3, Zenon DEF ArraysAreCompared, Decided, Passed, Element
  <2> QED
    BY <2>1, <2>2, <2>3, LastResult
<1> QED
  BY <1>1, <1>2, PTL DEF Spec
-----------------------------------------------------------------------------
(* Printing numbers.                                                       *)

(* Induction up to a number. *)
LEMMA Upwards ==
  ASSUME NEW n \in Nat, NEW S, 0 \in S, \A k \in 1 .. n : k - 1 \in S => k \in S
  PROVE  0 .. n \subseteq S
<1> DEFINE T == {k \in 0 .. n : k \notin S}
<1> SUFFICES ASSUME T # {} PROVE FALSE
  BY Zenon
<1>1. PICK k \in T : \A m \in T : ~(m < k)
  <2>1. T \subseteq Nat
    BY SMT
  <2> QED
    BY <2>1, LeastNumber
<1>2. k \in 0 .. n /\ k \notin S
  BY <1>1
<1>3. k \in 1 .. n /\ k - 1 \in 0 .. n /\ k - 1 < k
  BY <1>2, SMT
<1>4. k - 1 \in S
  BY <1>1, <1>3, Zenon
<1> QED
  BY <1>2, <1>3, <1>4, Zenon

(* Two loops with the same start and the same turns are the same. *)
SameTurns(f, g, n) ==
  /\ f[0] = g[0]
  /\ \A k \in 1 .. n : f[k - 1] = g[k - 1] => f[k] = g[k]

LEMMA SameLoop ==
  ASSUME NEW n \in Nat, NEW f, NEW g, SameTurns(f, g, n)
  PROVE  \A k \in 0 .. n : f[k] = g[k]
<1> DEFINE S == {k \in 0 .. n : f[k] = g[k]}
<1>1. 0 \in S
  BY SMT DEF SameTurns
<1>2. \A k \in 1 .. n : k - 1 \in S => k \in S
  BY SMT DEF SameTurns
<1>3. 0 .. n \subseteq S
  <2> HIDE DEF S
  <2> QED
    BY <1>1, <1>2, Upwards
<1> QED
  BY <1>3, Zenon

(* What a reader makes of digits, read one after the other. *)
IsReading(v, digits, base, n) ==
  /\ v = [k \in 0 .. n |-> v[k]] /\ v[0] = 0
  /\ \A k \in 1 .. n : v[k] = base * v[k - 1] + digits[k]

LEMMA ReadIs ==
  ASSUME NEW n \in Nat, NEW digits, Len(digits) = n, NEW base, NEW v,
         IsReading(v, digits, base, n)
  PROVE  ReadDigits(digits, base) = v[n]
<1> DEFINE Reading(f) == f = [k \in 0 .. n |-> IF k = 0 THEN 0 ELSE base * f[k - 1] + digits[k]]
<1> DEFINE value == CHOOSE f : Reading(f)
<1>1. Reading(v)
  <2>1. ASSUME NEW k \in 0 .. n PROVE v[k] = IF k = 0 THEN 0 ELSE base * v[k - 1] + digits[k]
    <3>1. CASE k = 0
      BY <3>1 DEF IsReading
    <3>2. CASE k # 0
      <4>1. k \in 1 .. n
        BY <3>2, SMT
      <4> QED
        BY <4>1, <3>2, Zenon DEF IsReading
    <3> QED
      BY <3>1, <3>2
  <2> QED
    BY <2>1, Zenon DEF IsReading
<1>2. Reading(value)
  BY <1>1, Zenon
<1>3. value[0] = 0 /\ \A k \in 1 .. n : value[k] = base * value[k - 1] + digits[k]
  <2> HIDE DEF value
  <2> QED
    BY <1>2, SMT
<1>4. ReadDigits(digits, base) = value[n]
  BY Zenon DEF ReadDigits
<1> HIDE DEF value
<1>5. \A k \in 0 .. n : value[k] = v[k]
  <2>1. value[0] = v[0]
    BY <1>3 DEF IsReading
  <2>2. \A k \in 1 .. n : value[k - 1] = v[k - 1] => value[k] = v[k]
    BY <1>3, Zenon DEF IsReading
  <2>3. SameTurns(value, v, n)
    BY <2>1, <2>2, Zenon DEF SameTurns
  <2> QED
    BY <2>3, SameLoop, Zenon
<1> QED
  BY <1>4, <1>5, SMT

(* The powers of ten that a number of eight bytes may have. *)
IsTens(t) ==
  /\ t \in [0 .. W -> Nat \ {0}] /\ t[0] = 1
  /\ \A k \in 1 .. W : t[k] = 10 * t[k - 1] /\ t[k] >= Pow2[k]

LEMMA TensExist == \E t : IsTens(t)
<1> DEFINE S == Nat \ {0}
<1> DEFINE one == 1
<1> DEFINE step == [k \in Nat |-> [v \in S |-> 10 * v]]
<1>1. W \in Nat /\ W >= 16 /\ Pow2 \in [0 .. W -> Nat \ {0}] /\ Pow2[0] = 1
      /\ \A n \in 1 .. W : Pow2[n] = 2 * Pow2[n - 1]
  BY Pow2Def
<1>2. step \in Steps(S) /\ one \in S
  BY SMT DEF Steps
<1>3. PICK t : IsLoop(t, S, one, step, W)
  <2> HIDE DEF step, S, one
  <2> QED
    BY <1>1, <1>2, LoopExists
<1>4. t \in [0 .. W -> S] /\ t[0] = 1 /\ \A k \in 1 .. W : t[k] = step[k][t[k - 1]]
  BY <1>3, Zenon DEF IsLoop
<1>5. ASSUME NEW k \in 1 .. W PROVE t[k] = 10 * t[k - 1] /\ t[k - 1] \in S /\ k - 1 \in 0 .. W
  <2>1. k \in Nat /\ k - 1 \in 0 .. W
    BY <1>1, SMT
  <2>2. t[k - 1] \in S
    BY <2>1, <1>4, Zenon
  <2>3. step[k][t[k - 1]] = 10 * t[k - 1]
    BY <2>1, <2>2
  <2> QED
    BY <1>4, <2>1, <2>2, <2>3, Zenon
<1> HIDE DEF step
<1> DEFINE U == {k \in 0 .. W : t[k] >= Pow2[k]}
<1>6. 0 \in U
  BY <1>1, <1>4, SMT
<1>7. ASSUME NEW k \in 1 .. W, k - 1 \in U PROVE k \in U
  <2>1. t[k] = 10 * t[k - 1] /\ t[k - 1] \in S /\ k - 1 \in 0 .. W
    BY <1>5
  <2>2. Pow2[k] = 2 * Pow2[k - 1] /\ Pow2[k - 1] \in Nat /\ t[k - 1] >= Pow2[k - 1]
    BY <1>1, <1>7, <2>1
  <2> QED
    BY <2>1, <2>2, SMT
<1>8. 0 .. W \subseteq U
  <2> HIDE DEF U
  <2> QED
    BY <1>1, <1>6, <1>7, Upwards
<1>9. ASSUME NEW k \in 1 .. W PROVE t[k] >= Pow2[k]
  <2>1. k \in 0 .. W
    BY <1>1, SMT
  <2> QED
    BY <1>8, <2>1, Zenon
<1> QED
  BY <1>4, <1>5, <1>9, Zenon DEF IsTens

(* Dividing by the next power of ten takes one digit away. *)
LEMMA Quotients ==
  ASSUME NEW number \in Nat, NEW t, IsTens(t)
  PROVE  /\ number \div t[0] = number
         /\ \A j \in 0 .. W : number \div t[j] \in Nat
         /\ \A j \in 1 .. W : /\ (number \div t[j - 1]) \div 10 = number \div t[j]
                              /\ number \div t[j - 1] = 10 * (number \div t[j]) + ((number \div t[j - 1]) % 10)
                              /\ (number \div t[j - 1]) % 10 \in 0 .. 9
<1>1. W \in Nat /\ t \in [0 .. W -> Nat \ {0}] /\ t[0] = 1 /\ \A k \in 1 .. W : t[k] = 10 * t[k - 1]
  BY Pow2Def DEF IsTens
<1>2. number \div t[0] = number
  BY <1>1, SMT
<1>3. ASSUME NEW j \in 0 .. W PROVE number \div t[j] \in Nat
  <2>1. t[j] \in Nat \ {0}
    BY <1>1
  <2> QED
    BY <2>1, SMT
<1>4. ASSUME NEW j \in 1 .. W
      PROVE  /\ (number \div t[j - 1]) \div 10 = number \div t[j]
             /\ number \div t[j - 1] = 10 * (number \div t[j]) + ((number \div t[j - 1]) % 10)
             /\ (number \div t[j - 1]) % 10 \in 0 .. 9
  <2> DEFINE p == t[j - 1]
  <2>1. j - 1 \in 0 .. W /\ p \in Nat \ {0} /\ t[j] = 10 * p
    BY <1>1, SMT
  <2>2. number \div p \in Nat
    BY <1>3, <2>1
  <2> HIDE DEF p
  <2>3. p * 10 = 10 * p
    BY <2>1, SMT
  <2>4. (number \div p) \div 10 = number \div t[j]
    <3>1. (number \div p) \div 10 = number \div (p * 10)
      <4>1. 10 \in Nat \ {0}
        BY SMT
      <4> QED
        BY <2>1, <4>1, DivDiv, Zenon
    <3> QED
      BY <2>1, <2>3, <3>1, Zenon
  <2> DEFINE q == number \div p
  <2> HIDE DEF q
  <2>5. q \in Nat /\ q = 10 * (q \div 10) + (q % 10) /\ q % 10 \in 0 .. 9
    <3>1. q \in Nat
      BY <2>2 DEF q
    <3>2. 10 \in Nat \ {0} /\ q \in Int /\ 10 - 1 = 9
      BY <3>1, SMT
    <3>3. q = 10 * (q \div 10) + (q % 10) /\ q % 10 \in 0 .. 10 - 1
      BY <3>2, DivMod, Zenon
    <3> QED
      BY <3>1, <3>2, <3>3, Zenon
  <2> QED
    BY <2>4, <2>5 DEF p, q
<1> QED
  BY <1>2, <1>3, <1>4

(* The number has m + 1 digits. *)
IsLast(m, number, t) ==
  /\ m \in 0 .. W - 1 /\ number \div t[m] <= 9
  /\ \A j \in 0 .. m - 1 : number \div t[j] > 9

LEMMA LastExists ==
  ASSUME NEW number \in 0 .. Size(8) - 1, NEW t, IsTens(t)
  PROVE  \E m : IsLast(m, number, t)
<1> DEFINE M == {m \in 0 .. W - 1 : number \div t[m] <= 9}
<1>1. W \in Nat /\ W >= 16 /\ Pow2 \in [0 .. W -> Nat \ {0}] /\ Pow2[W] = 2 * Pow2[W - 1]
  <2>1. W \in Nat /\ W >= 16
    BY Pow2Def
  <2>2. W \in 1 .. W
    BY <2>1, SMT
  <2> QED
    BY <2>1, <2>2, Pow2Def, Zenon
<1>2. number < 2 * Pow2[W - 1] /\ number \in Nat
  <2>1. Size(8) = Pow2[W]
    BY DEF Size, W
  <2> QED
    BY <1>1, <2>1, SMT
<1>3. t[W - 1] \in Nat \ {0} /\ t[W - 1] >= Pow2[W - 1] /\ Pow2[W - 1] \in Nat
  BY <1>1, SMT DEF IsTens
<1>4. number \div t[W - 1] <= 9
  <2> DEFINE p == t[W - 1]
  <2>1. p \in Nat \ {0} /\ number < 2 * p
    BY <1>2, <1>3, SMT
  <2> HIDE DEF p
  <2>2. number \div p <= 9
    BY <1>2, <2>1, SMT
  <2> QED
    BY <2>2 DEF p
<1>5. W - 1 \in M
  BY <1>1, <1>4, SMT
<1>6. M \subseteq Nat
  BY <1>1, SMT
<1>7. PICK m \in M : \A j \in M : ~(j < m)
  <2> HIDE DEF M
  <2> QED
    BY <1>5, <1>6, LeastNumber
<1>8. m \in 0 .. W - 1 /\ number \div t[m] <= 9
  BY <1>7
<1>9. ASSUME NEW j \in 0 .. m - 1 PROVE number \div t[j] > 9
  <2>1. j \in 0 .. W - 1 /\ j < m /\ j \in 0 .. W
    BY <1>1, <1>8, SMT
  <2>2. j \notin M
    BY <1>7, <2>1, Zenon
  <2>3. ~(number \div t[j] <= 9)
    BY <2>1, <2>2, Zenon
  <2>4. number \div t[j] \in Nat
    BY <1>2, <2>1, Quotients
  <2> QED
    BY <2>3, <2>4, SMT
<1> QED
  BY <1>8, <1>9, Zenon DEF IsLast

(* The loop for the divisor stops at the power of ten of the first digit,  *)
(* and the divisor never wraps.                                            *)
LEMMA InitialDivisorIs ==
  ASSUME NEW number \in 0 .. Size(8) - 1, NEW t, IsTens(t), NEW m, IsLast(m, number, t)
  PROVE  InitialDivisor(number) = t[m]
<1> DEFINE Turn(d) == IF number \div d > 9 THEN UNITY_UINT(d * 10) ELSE d
<1> DEFINE Divisor(f) == f = [k \in 0 .. W |-> IF k = 0 THEN 1 ELSE Turn(f[k - 1])]
<1> DEFINE divisor == CHOOSE f : Divisor(f)
<1> DEFINE v == [k \in 0 .. W |-> IF k <= m THEN t[k] ELSE t[m]]
<1>1. /\ W \in Nat /\ m \in 0 .. W - 1 /\ m \in Nat /\ number \div t[m] <= 9
      /\ \A j \in 0 .. m - 1 : number \div t[j] > 9
      /\ t \in [0 .. W -> Nat \ {0}] /\ t[0] = 1 /\ \A k \in 1 .. W : t[k] = 10 * t[k - 1]
  <2>1. W \in Nat
    BY Pow2Def
  <2>2. m \in 0 .. W - 1 /\ m \in Nat
    BY <2>1, SMT DEF IsLast
  <2> QED
    BY <2>1, <2>2, Zenon DEF IsLast, IsTens
<1>2. number \in Nat /\ number < Size(8) /\ Size(8) \in Nat
  BY Sizes, SMT DEF Bytes
<1>3. ASSUME NEW k \in 1 .. m PROVE Turn(t[k - 1]) = t[k]
  <2> DEFINE p == t[k - 1]
  <2>1. k - 1 \in 0 .. m - 1 /\ k \in 1 .. W /\ k - 1 \in 0 .. W
    BY <1>1, SMT
  <2>2. p \in Nat \ {0} /\ t[k] = 10 * p /\ number \div p > 9
    BY <1>1, <2>1
  <2> HIDE DEF p
  <2>3. p * 10 = 10 * p /\ 10 * p <= number /\ 10 * p \in Int
    BY <1>2, <2>2, SMT
  <2>4. 10 * p \in 0 .. Size(8) - 1
    BY <1>2, <2>2, <2>3, SMT
  <2>5. UNITY_UINT(10 * p) = 10 * p
    BY <2>3, <2>4, CastKeeps DEF UNITY_UINT, Bytes
  <2>6. Turn(p) = t[k]
    BY <2>2, <2>3, <2>5, Zenon
  <2> QED
    BY <2>6 DEF p
<1>4. Turn(t[m]) = t[m]
  <2>1. ~(number \div t[m] > 9)
    <3>1. number \div t[m] \in Nat
      <4>1. m \in 0 .. W
        BY <1>1, SMT
      <4> QED
        BY <4>1, <1>2, Quotients, Zenon
    <3> QED
      BY <1>1, <3>1, SMT
  <2> QED
    BY <2>1, Zenon
<1> HIDE DEF Turn
<1>5. v[0] = 1 /\ \A k \in 0 .. W : v[k] = IF k <= m THEN t[k] ELSE t[m]
  BY <1>1, SMT
<1>6. ASSUME NEW k \in 1 .. W PROVE v[k] = Turn(v[k - 1])
  <2>1. k \in 0 .. W /\ k - 1 \in 0 .. W
    BY <1>1, SMT
  <2>2. CASE k <= m
    <3>1. k \in 1 .. m /\ k - 1 <= m
      BY <1>1, <2>1, <2>2, SMT
    <3> HIDE DEF v
    <3> QED
      BY <1>3, <1>5, <2>1, <2>2, <3>1, Zenon
  <2>3. CASE ~(k <= m)
    <3>1. v[k - 1] = t[m]
      <4>1. k - 1 <= m => k - 1 = m
        BY <1>1, <2>3, SMT
      <4> QED
        BY <4>1, <1>5, <2>1, Zenon
    <3> HIDE DEF v
    <3> QED
      BY <1>4, <1>5, <2>1, <2>3, <3>1, Zenon
  <2> QED
    BY <2>2, <2>3
<1>7. Divisor(v)
  <2>1. v = [k \in 0 .. W |-> v[k]]
    BY Zenon
  <2> HIDE DEF v
  <2>2. ASSUME NEW k \in 0 .. W PROVE v[k] = IF k = 0 THEN 1 ELSE Turn(v[k - 1])
    <3>1. CASE k = 0
      BY <1>5, <3>1
    <3>2. CASE k # 0
      <4>1. k \in 1 .. W
        BY <1>1, <3>2, SMT
      <4> QED
        BY <1>6, <3>2, <4>1, Zenon
    <3> QED
      BY <3>1, <3>2
  <2> QED
    BY <2>1, <2>2, Zenon
<1>8. Divisor(divisor)
  <2> HIDE DEF v
  <2> QED
    BY <1>7, Zenon
<1>9. InitialDivisor(number) = divisor[W]
  BY Zenon DEF InitialDivisor, W, Turn
<1> HIDE DEF divisor, v
<1>10. divisor[0] = 1 /\ \A k \in 1 .. W : divisor[k] = Turn(divisor[k - 1])
  BY <1>1, <1>8, SMT
<1>11. SameTurns(divisor, v, W)
  BY <1>5, <1>6, <1>10, Zenon DEF SameTurns
<1>12. divisor[W] = v[W] /\ W \in 0 .. W
  <2>1. W \in 0 .. W /\ W \in Nat
    BY <1>1, SMT
  <2>2. \A k \in 0 .. W : divisor[k] = v[k]
    BY <1>11, <2>1, SameLoop, Zenon
  <2> QED
    BY <2>1, <2>2, Zenon
<1>13. ~(W <= m)
  BY <1>1, SMT
<1> QED
  BY <1>5, <1>9, <1>12, <1>13, Zenon

(* The digits of a number of m + 1 digits. *)
DigitsOf(number, t, m) == [k \in 1 .. m + 1 |-> (number \div t[(m + 1) - k]) % 10]

(* The loop for the digits divides the divisor by ten until it is 0, one   *)
(* turn for every digit.                                                   *)
LEMMA DigitsFromIs ==
  ASSUME NEW number \in 0 .. Size(8) - 1, NEW t, IsTens(t), NEW m, IsLast(m, number, t)
  PROVE  DigitsFrom(number, t[m]) = DigitsOf(number, t, m)
<1> DEFINE initial == t[m]
<1> DEFINE Divisor(f) == f = [k \in 0 .. W |-> IF k = 0 THEN initial ELSE f[k - 1] \div 10]
<1> DEFINE divisor == CHOOSE f : Divisor(f)
<1> DEFINE v == [k \in 0 .. W |-> IF k <= m THEN t[m - k] ELSE 0]
<1> DEFINE Stops(f, n) == f[n] = 0 /\ \A j \in 1 .. n - 1 : f[j] > 0
<1> DEFINE turns == CHOOSE n \in 1 .. W : Stops(divisor, n)
<1>1. /\ W \in Nat /\ m \in 0 .. W - 1 /\ m \in Nat
      /\ t \in [0 .. W -> Nat \ {0}] /\ t[0] = 1 /\ \A k \in 1 .. W : t[k] = 10 * t[k - 1]
  <2>1. W \in Nat
    BY Pow2Def
  <2>2. m \in 0 .. W - 1 /\ m \in Nat
    BY <2>1, SMT DEF IsLast
  <2> QED
    BY <2>1, <2>2, Zenon DEF IsTens
<1>2. v[0] = t[m] /\ \A k \in 0 .. W : v[k] = IF k <= m THEN t[m - k] ELSE 0
  BY <1>1, SMT
<1>3. ASSUME NEW k \in 1 .. W PROVE v[k] = v[k - 1] \div 10
  <2>1. k \in 0 .. W /\ k - 1 \in 0 .. W
    BY <1>1, SMT
  <2>2. CASE k <= m
    <3> DEFINE p == t[m - k]
    <3>1. k - 1 <= m /\ m - k \in 0 .. W /\ m - (k - 1) \in 1 .. W /\ (m - (k - 1)) - 1 = m - k
      BY <1>1, <2>1, <2>2, SMT
    <3>2. p \in Nat /\ t[m - (k - 1)] = 10 * p
      BY <1>1, <3>1
    <3>3. v[k] = p /\ v[k - 1] = t[m - (k - 1)]
      BY <1>2, <2>1, <2>2, <3>1, Zenon
    <3> HIDE DEF p, v
    <3>4. (10 * p) \div 10 = p
      BY <3>2, SMT
    <3> QED
      BY <3>2, <3>3, <3>4, Zenon
  <2>3. CASE k = m + 1
    <3>1. ~(k <= m) /\ k - 1 <= m /\ m - (k - 1) = 0
      BY <1>1, <2>3, SMT
    <3>2. v[k] = 0 /\ v[k - 1] = 1
      BY <1>1, <1>2, <2>1, <3>1, Zenon
    <3> HIDE DEF v
    <3> QED
      BY <3>2, SMT
  <2>4. CASE k > m + 1
    <3>1. ~(k <= m) /\ ~(k - 1 <= m)
      BY <1>1, <2>4, SMT
    <3>2. v[k] = 0 /\ v[k - 1] = 0
      BY <1>2, <2>1, <3>1, Zenon
    <3> HIDE DEF v
    <3> QED
      BY <3>2, SMT
  <2> QED
    BY <1>1, <2>1, <2>2, <2>3, <2>4, SMT
<1>4. Divisor(v)
  <2>1. v = [k \in 0 .. W |-> v[k]]
    BY Zenon
  <2> HIDE DEF v
  <2>2. ASSUME NEW k \in 0 .. W PROVE v[k] = IF k = 0 THEN initial ELSE v[k - 1] \div 10
    <3>1. CASE k = 0
      BY <1>2, <3>1
    <3>2. CASE k # 0
      <4>1. k \in 1 .. W
        BY <1>1, <3>2, SMT
      <4> QED
        BY <1>3, <3>2, <4>1, Zenon
    <3> QED
      BY <3>1, <3>2
  <2> QED
    BY <2>1, <2>2, Zenon
<1>5. Divisor(divisor)
  <2> HIDE DEF v
  <2> QED
    BY <1>4, Zenon
<1>6. DigitsFrom(number, initial) = [k \in 1 .. turns |-> (number \div divisor[k - 1]) % 10]
  BY Zenon DEF DigitsFrom, W
<1> HIDE DEF divisor, v
<1>7. divisor[0] = t[m] /\ \A k \in 1 .. W : divisor[k] = divisor[k - 1] \div 10
  BY <1>1, <1>5, SMT
<1>8. \A k \in 0 .. W : divisor[k] = v[k]
  <2>1. SameTurns(divisor, v, W)
    BY <1>2, <1>3, <1>7, Zenon DEF SameTurns
  <2>2. W \in Nat
    BY <1>1
  <2> QED
    BY <2>1, <2>2, SameLoop, Zenon
<1>9. \A k \in 0 .. m : divisor[k] = t[m - k] /\ divisor[k] > 0
  <2> TAKE k \in 0 .. m
  <2>1. k \in 0 .. W /\ k <= m /\ m - k \in 0 .. W
    BY <1>1, SMT
  <2>2. divisor[k] = t[m - k]
    BY <1>2, <1>8, <2>1, Zenon
  <2>3. t[m - k] \in Nat \ {0}
    BY <1>1, <2>1, Zenon
  <2> QED
    BY <2>2, <2>3, SMT
<1>10. m + 1 \in 1 .. W /\ divisor[m + 1] = 0
  <2>1. m + 1 \in 1 .. W /\ m + 1 \in 0 .. W /\ ~(m + 1 <= m)
    BY <1>1, SMT
  <2> QED
    BY <1>2, <1>8, <2>1, Zenon
<1>11. Stops(divisor, m + 1)
  BY <1>1, <1>9, <1>10, SMT
<1>12. turns \in 1 .. W /\ Stops(divisor, turns)
  <2> HIDE DEF Stops
  <2> QED
    BY <1>10, <1>11, Zenon
<1>13. turns = m + 1
  <2> HIDE DEF turns
  <2>1. ~(turns <= m)
    <3>1. turns <= m => turns \in 0 .. m
      BY <1>1, <1>12, SMT
    <3>2. turns \in 0 .. m => divisor[turns] > 0 /\ divisor[turns] = 0
      BY <1>9, <1>12, Zenon
    <3>3. ~(0 > 0)
      BY SMT
    <3> QED
      BY <3>1, <3>2, <3>3, Zenon
  <2>2. ~(m + 1 < turns)
    <3>1. m + 1 < turns => m + 1 \in 1 .. turns - 1
      BY <1>1, <1>12, SMT
    <3>2. m + 1 \in 1 .. turns - 1 => divisor[m + 1] > 0
      BY <1>12, Zenon
    <3>3. ~(0 > 0)
      BY SMT
    <3> QED
      BY <1>10, <3>1, <3>2, <3>3, Zenon
  <2> QED
    BY <1>1, <1>12, <2>1, <2>2, SMT
<1> HIDE DEF turns
<1>14. ASSUME NEW k \in 1 .. m + 1
       PROVE  (number \div divisor[k - 1]) % 10 = (number \div t[(m + 1) - k]) % 10
  <2>1. k - 1 \in 0 .. m /\ m - (k - 1) = (m + 1) - k
    BY <1>1, SMT
  <2>2. divisor[k - 1] = t[(m + 1) - k]
    BY <1>9, <2>1, Zenon
  <2> QED
    BY <2>2, Zenon
<1> QED
  BY <1>6, <1>13, <1>14, Zenon DEF DigitsOf

(* UnityPrintNumberUnsigned prints the number, without a leading zero.     *)
LEMMA DecimalShows ==
  ASSUME NEW number \in 0 .. Size(8) - 1
  PROVE  LET text == UnityPrintNumberUnsigned(number)
         IN  /\ text.sign = 1 /\ text.base = 10
             /\ ReadDigits(text.digits, 10) = number
             /\ number # 0 => text.digits[1] # 0
<1>1. PICK t : IsTens(t)
  BY TensExist
<1>2. PICK m : IsLast(m, number, t)
  BY <1>1, LastExists
<1>3. /\ W \in Nat /\ m \in 0 .. W - 1 /\ m \in Nat /\ number \div t[m] <= 9
      /\ number \in Nat
  <2>1. W \in Nat
    BY Pow2Def
  <2> QED
    BY <1>2, <2>1, Sizes, SMT DEF IsLast, Bytes
<1> DEFINE digits == [k \in 1 .. m + 1 |-> (number \div t[(m + 1) - k]) % 10]
<1> DEFINE v == [k \in 0 .. m + 1 |-> IF k = 0 THEN 0 ELSE number \div t[(m + 1) - k]]
<1>4. UnityPrintNumberUnsigned(number) = [sign |-> 1, base |-> 10, digits |-> digits]
  <2>1. InitialDivisor(number) = t[m]
    BY <1>1, <1>2, InitialDivisorIs
  <2>2. DigitsFrom(number, t[m]) = digits
    <3>1. DigitsFrom(number, t[m]) = DigitsOf(number, t, m)
      BY <1>1, <1>2, DigitsFromIs
    <3> QED
      BY <3>1, Zenon DEF DigitsOf
  <2> HIDE DEF digits
  <2> QED
    BY <2>1, <2>2, Zenon DEF UnityPrintNumberUnsigned
<1>5. number \div t[m] \in 0 .. 9 /\ (number \div t[m]) % 10 = number \div t[m]
  <2>1. m \in 0 .. W
    BY <1>3, SMT
  <2>2. number \div t[m] \in Nat
    BY <1>1, <1>3, <2>1, Quotients, Zenon
  <2> DEFINE q == number \div t[m]
  <2> HIDE DEF q
  <2>3. q \in 0 .. 9
    BY <1>3, <2>2, SMT DEF q
  <2>4. q % 10 = q
    BY <2>3, SMT
  <2> QED
    BY <2>3, <2>4 DEF q
<1>6. Len(digits) = m + 1
  BY <1>3, SMT
<1>7. IsReading(v, digits, 10, m + 1)
  <2>1. v = [k \in 0 .. m + 1 |-> v[k]] /\ v[0] = 0
    BY <1>3, SMT
  <2>2. ASSUME NEW k \in 1 .. m + 1 PROVE v[k] = 10 * v[k - 1] + digits[k]
    <3>1. k \in 0 .. m + 1 /\ k # 0 /\ k - 1 \in 0 .. m + 1
      BY <1>3, SMT
    <3>2. v[k] = number \div t[(m + 1) - k] /\ digits[k] = (number \div t[(m + 1) - k]) % 10
      BY <3>1, Zenon
    <3>3. CASE k = 1
      <4>1. (m + 1) - k = m /\ k - 1 = 0
        BY <1>3, <3>3, SMT
      <4>2. v[k] = number \div t[m] /\ digits[k] = number \div t[m] /\ v[k - 1] = 0
        BY <1>5, <2>1, <3>2, <4>1, Zenon
      <4> HIDE DEF v, digits
      <4> QED
        BY <1>5, <4>2, SMT
    <3>4. CASE k # 1
      <4> DEFINE j == (m + 1) - (k - 1)
      <4>1. k - 1 # 0 /\ j \in 1 .. W /\ j - 1 = (m + 1) - k
        BY <1>3, <3>1, <3>4, SMT
      <4>2. v[k - 1] = number \div t[j]
        BY <3>1, <4>1, Zenon
      <4> HIDE DEF j, v, digits
      <4>3. number \div t[j - 1] = 10 * (number \div t[j]) + ((number \div t[j - 1]) % 10)
        BY <1>1, <1>3, <4>1, Quotients, Zenon
      <4> QED
        BY <3>2, <4>1, <4>2, <4>3, Zenon
    <3> QED
      BY <3>3, <3>4
  <2> HIDE DEF v, digits
  <2> QED
    BY <2>1, <2>2, Zenon DEF IsReading
<1>8. v[m + 1] = number
  <2>1. m + 1 \in 0 .. m + 1 /\ m + 1 # 0 /\ (m + 1) - (m + 1) = 0
    BY <1>3, SMT
  <2>2. v[m + 1] = number \div t[0]
    BY <2>1, Zenon
  <2> HIDE DEF v
  <2> QED
    BY <1>1, <1>3, <2>2, Quotients, Zenon
<1>9. digits[1] = number \div t[m]
  <2>1. 1 \in 1 .. m + 1 /\ (m + 1) - 1 = m
    BY <1>3, SMT
  <2> QED
    BY <1>5, <2>1, Zenon
<1> HIDE DEF v, digits
<1>10. ReadDigits(digits, 10) = number
  <2>1. m + 1 \in Nat
    BY <1>3, SMT
  <2> QED
    BY <1>6, <1>7, <1>8, <2>1, ReadIs, Zenon
<1>11. number # 0 => number \div t[m] # 0
  <2>1. CASE m = 0
    BY <1>1, <1>3, <2>1, Quotients, Zenon
  <2>2. CASE m # 0
    <3>1. m \in 1 .. W /\ m - 1 \in 0 .. m - 1 /\ m - 1 \in 0 .. W
      BY <1>3, <2>2, SMT
    <3> DEFINE q == number \div t[m - 1]
    <3>2. q > 9 /\ q \in Nat /\ q \div 10 = number \div t[m]
      BY <1>1, <1>2, <1>3, <3>1, Quotients, Zenon DEF IsLast
    <3> HIDE DEF q
    <3>3. q \div 10 # 0
      BY <3>2, SMT
    <3> QED
      BY <3>2, <3>3
  <2> QED
    BY <2>1, <2>2
<1> QED
  BY <1>4, <1>9, <1>10, <1>11, SMT

(* The weights of nibbles: powers of the base that multiply. *)
Nibble == ByteBits \div 2
Weight(j) == Pow2[Nibble * j]

LEMMA Weights ==
  /\ Nibble \in Nat \ {0} /\ Nibble <= W /\ Weight(0) = 1 /\ Weight(1) = Pow2[Nibble]
  /\ \A j \in 0 .. 16 : Weight(j) \in Nat \ {0}
  /\ \A i, j \in 0 .. 16 : i + j <= 16 => Weight(i + j) = Weight(i) * Weight(j)
  /\ \A b \in Bytes : b * 2 \in 0 .. 16 /\ Weight(b * 2) = Size(b)
<1>1. Nibble \in Nat \ {0} /\ ByteBits = 2 * Nibble /\ W = 16 * Nibble
  BY ByteAssumption, SMT DEF Nibble, W, Width
<1>2. W \in Nat /\ Nibble <= W /\ Pow2 \in [0 .. W -> Nat \ {0}] /\ Pow2[0] = 1
  <2>1. W \in Nat /\ Pow2 \in [0 .. W -> Nat \ {0}] /\ Pow2[0] = 1
    BY Pow2Def
  <2>2. Nibble <= W
    BY <1>1, SMT
  <2> QED
    BY <2>1, <2>2, Zenon
<1>3. ASSUME NEW j \in 0 .. 16 PROVE Nibble * j \in 0 .. W /\ Nibble * j \in Nat
  BY <1>1, SMT
<1>4. Weight(0) = 1 /\ Weight(1) = Pow2[Nibble]
  <2>1. Nibble * 0 = 0 /\ Nibble * 1 = Nibble
    BY <1>1, SMT
  <2> QED
    BY <1>2, <2>1, Zenon DEF Weight
<1>5. ASSUME NEW j \in 0 .. 16 PROVE Weight(j) \in Nat \ {0}
  BY <1>2, <1>3, Zenon DEF Weight
<1>6. ASSUME NEW i \in 0 .. 16, NEW j \in 0 .. 16, i + j <= 16
      PROVE  Weight(i + j) = Weight(i) * Weight(j)
  <2> DEFINE a == Nibble * i
  <2> DEFINE b == Nibble * j
  <2>1. Nibble * (i + j) = a + b
    BY <1>1, SMT
  <2>2. a \in Nat /\ b \in Nat
    BY <1>3, Zenon
  <2>3. a + b <= W
    <3>1. i + j \in 0 .. 16
      BY <1>6, SMT
    <3>2. Nibble * (i + j) \in 0 .. W
      BY <1>3, <3>1, Zenon
    <3>3. a + b \in 0 .. W
      BY <2>1, <3>2, Zenon
    <3> HIDE DEF a, b
    <3> QED
      BY <1>2, <2>2, <3>3, SMT
  <2>4. Weight(i + j) = Pow2[a + b] /\ Weight(i) = Pow2[a] /\ Weight(j) = Pow2[b]
    BY <2>1, Zenon DEF Weight
  <2> HIDE DEF a, b
  <2> QED
    BY <2>2, <2>3, <2>4, Pow2Sum, Zenon
<1>7. ASSUME NEW b \in Bytes PROVE b * 2 \in 0 .. 16 /\ Weight(b * 2) = Size(b)
  <2>1. b * 2 \in 0 .. 16 /\ Nibble * (b * 2) = ByteBits * b
    BY <1>1, SMT DEF Bytes
  <2> QED
    BY <2>1, Zenon DEF Weight, Size, Width
<1> QED
  BY <1>1, <1>2, <1>4, <1>5, <1>6, <1>7

(* No power of two is ten. *)
LEMMA NotTen ==
  ASSUME NEW n \in 0 .. W
  PROVE  Pow2[n] # 10
<1>1. W \in Nat /\ Pow2 \in [0 .. W -> Nat \ {0}] /\ Pow2[0] = 1
      /\ \A k \in 1 .. W : Pow2[k] = 2 * Pow2[k - 1]
  BY Pow2Def
<1>2. CASE n = 0
  BY <1>1, <1>2, SMT
<1>3. CASE n = 1
  <2>1. n \in 1 .. W /\ n - 1 = 0
    BY <1>3, SMT
  <2>2. Pow2[n] = 2 * Pow2[n - 1] /\ Pow2[n - 1] = 1
    BY <1>1, <2>1, Zenon
  <2> QED
    BY <2>2, SMT
<1>4. CASE n > 1
  <2>1. n \in 1 .. W /\ n - 1 \in 1 .. W /\ (n - 1) - 1 \in 0 .. W
    BY <1>1, <1>4, SMT
  <2>2. /\ Pow2[n] = 2 * Pow2[n - 1] /\ Pow2[n - 1] = 2 * Pow2[(n - 1) - 1]
        /\ Pow2[(n - 1) - 1] \in Nat \ {0}
    BY <1>1, <2>1, Zenon
  <2> QED
    BY <2>2, SMT
<1> QED
  BY <1>1, <1>2, <1>3, <1>4, SMT

(* A digit is the same when what is above it is taken away. *)
IsAbove(x, u, q, p, c, z) == x = u + (q * (p * c)) * z
SameDigit(x, u, q, p) == (x \div q) % p = (u \div q) % p

LEMMA DigitKept ==
  ASSUME NEW q \in Nat \ {0}, NEW p \in Nat \ {0}, NEW c \in Nat \ {0}, NEW z \in Int,
         NEW u \in Int, NEW x \in Int, IsAbove(x, u, q, p, c, z)
  PROVE  SameDigit(x, u, q, p)
<1> DEFINE d == u \div q
<1> DEFINE r == u % q
<1> DEFINE e == c * z
<1> DEFINE y == p * e
<1>1. u = q * d + r /\ r \in 0 .. q - 1 /\ d \in Int
  BY DivMod
<1>2. e \in Int
  BY SMT
<1>3. (q * (p * c)) * z = q * y
  BY SMT
<1> HIDE DEF d, r, e
<1>4. y \in Int
  BY <1>2, SMT
<1>5. x = q * (d + y) + r /\ d + y \in Int
  <2> HIDE DEF y
  <2>1. q * (d + y) = q * d + q * y
    BY <1>1, <1>4, SMT
  <2> DEFINE qd == q * d
  <2> DEFINE qy == q * y
  <2>2. qd \in Int /\ qy \in Int
    BY <1>1, <1>4, SMT
  <2>3. x = u + qy /\ u = qd + r /\ q * (d + y) = qd + qy
    BY <1>1, <1>3, <2>1, Zenon DEF IsAbove
  <2>4. d + y \in Int
    BY <1>1, <1>4, SMT
  <2> DEFINE product == q * (d + y)
  <2> HIDE DEF qd, qy, product
  <2>5. product = qd + qy
    BY <2>3, Zenon DEF product
  <2>6. x = product + r
    BY <1>1, <2>2, <2>3, <2>5, SMT
  <2> QED
    BY <2>4, <2>6, Zenon DEF product
<1>6. x \div q = d + y
  <2> DEFINE s == d + y
  <2>1. x = q * s + r /\ s \in Int /\ r \in 0 .. q - 1
    BY <1>1, <1>5, Zenon
  <2> HIDE DEF s
  <2>2. x \div q = s
    BY <2>1, DivModIs
  <2> QED
    BY <2>2, Zenon DEF s
<1>7. (d + y) % p = d % p
  BY <1>1, <1>2, ModSame, Zenon
<1> QED
  BY <1>6, <1>7, Zenon DEF d, SameDigit

(* The nibbles of a number, from the one of most weight. *)
NibblesOf(number, n) == [k \in 1 .. n |-> (number \div Weight(n - k)) % Weight(1)]

LEMMA HexIs ==
  ASSUME NEW number, NEW b \in Bytes
  PROVE  UnityPrintNumberHex(number, b * 2) =
            [sign |-> 1, base |-> Weight(1), digits |-> NibblesOf(number, b * 2)]
<1>1. ~(b * 2 > 16)
  BY SMT DEF Bytes
<1>2. Weight(1) = Pow2[ByteBits \div 2]
  BY Weights DEF Nibble
<1> QED
  BY <1>1, <1>2, Zenon DEF UnityPrintNumberHex, NibblesOf, Weight, Nibble

(* They read as the part of the number that b bytes hold. *)
LEMMA NibblesRead ==
  ASSUME NEW number \in Nat, NEW b \in Bytes
  PROVE  ReadDigits(NibblesOf(number, b * 2), Weight(1)) = UINT(number, b)
<1> DEFINE n == b * 2
<1> DEFINE p == Weight(1)
<1> DEFINE u == UINT(number, b)
<1> DEFINE digits == NibblesOf(number, n)
<1> DEFINE v == [k \in 0 .. n |-> u \div Weight(n - k)]
<1>1. n \in 0 .. 16 /\ n \in Nat /\ n >= 1 /\ Weight(n) = Size(b)
  <2>1. n \in 0 .. 16 /\ Weight(n) = Size(b)
    BY Weights, Zenon
  <2>2. n >= 1 /\ n \in Nat
    BY SMT DEF Bytes
  <2> QED
    BY <2>1, <2>2, Zenon
<1>2. u \in 0 .. Size(b) - 1 /\ u \in Nat /\ Size(b) \in Nat \ {0}
  <2>1. Size(b) \in Nat \ {0} /\ number \in Int
    BY Sizes, SMT
  <2>2. u \in 0 .. Size(b) - 1
    BY <2>1, Casts, Zenon
  <2> HIDE DEF u
  <2> QED
    BY <2>1, <2>2, SMT
<1>3. PICK z \in Int : number = u + Size(b) * z
  BY Casts, SMT
<1>4. p \in Nat \ {0}
  BY Weights, SMT
<1> HIDE DEF n, p, u
<1>5. Len(digits) = n
  BY <1>1, SMT DEF NibblesOf
<1>6. v[0] = 0
  <2>1. n - 0 = n /\ 0 \in 0 .. n
    BY <1>1, SMT
  <2>2. v[0] = u \div Size(b)
    BY <1>1, <2>1, Zenon
  <2>3. u \div Size(b) = 0
    BY <1>2, SMT
  <2> QED
    BY <2>2, <2>3, Zenon
<1>7. ASSUME NEW k \in 1 .. n PROVE v[k] = p * v[k - 1] + digits[k]
  <2> DEFINE j == n - k
  <2>1. /\ k \in 0 .. n /\ k - 1 \in 0 .. n /\ n - (k - 1) = j + 1
        /\ j \in 0 .. 16 /\ 1 \in 0 .. 16 /\ j + 1 <= 16 /\ k - 1 \in 0 .. 16
        /\ j + 1 + (k - 1) = n /\ j + 1 \in 0 .. 16 /\ j + 1 + (k - 1) <= 16
    BY <1>1, SMT
  <2>2. v[k] = u \div Weight(j) /\ v[k - 1] = u \div Weight(j + 1)
    BY <2>1, Zenon
  <2>3. digits[k] = (number \div Weight(j)) % p
    BY Zenon DEF NibblesOf, p
  <2> HIDE DEF v, digits, j
  <2> DEFINE w == Weight(j)
  <2> DEFINE c == Weight(k - 1)
  <2>4. w \in Nat \ {0} /\ c \in Nat \ {0} /\ Weight(j + 1) = w * p
    BY <2>1, Weights, Zenon DEF p
  <2>5. Size(b) = Weight(j + 1) * c
    BY <1>1, <2>1, Weights, Zenon
  <2> HIDE DEF w, c
  <2>6. Size(b) = w * (p * c)
    <3>1. (w * p) * c = w * (p * c)
      BY <1>4, <2>4, SMT
    <3> QED
      BY <2>4, <2>5, <3>1, Zenon
  <2>7. (number \div w) % p = (u \div w) % p
    <3>1. IsAbove(number, u, w, p, c, z)
      <4> DEFINE size == Size(b)
      <4>1. number = u + size * z /\ size = w * (p * c)
        BY <1>3, <2>6, Zenon
      <4> HIDE DEF size
      <4> QED
        BY <4>1, Zenon DEF IsAbove
    <3>2. u \in Int /\ number \in Int
      BY <1>2, SMT
    <3>3. w \in Nat \ {0} /\ c \in Nat \ {0} /\ z \in Int
      BY <1>3, <2>4, Zenon
    <3>4. SameDigit(number, u, w, p)
      BY <1>4, <3>1, <3>2, <3>3, DigitKept, Zenon
    <3> QED
      BY <3>4, Zenon DEF SameDigit
  <2>8. (u \div w) \div p = u \div (w * p)
    BY <1>2, <1>4, <2>4, DivDiv, Zenon
  <2> DEFINE q == u \div w
  <2>9. q \in Int
    BY <1>2, <2>4, DivMod, SMT
  <2> HIDE DEF q
  <2>10. q = p * (q \div p) + (q % p)
    BY <1>4, <2>9, DivMod
  <2>11. v[k] = q /\ v[k - 1] = q \div p /\ digits[k] = q % p
    BY <2>2, <2>3, <2>4, <2>7, <2>8, Zenon DEF q, w
  <2> QED
    BY <2>10, <2>11, Zenon
<1>8. IsReading(v, digits, p, n)
  <2>1. v = [k \in 0 .. n |-> v[k]]
    BY Zenon
  <2> HIDE DEF v, digits
  <2> QED
    BY <2>1, <1>6, <1>7, Zenon DEF IsReading
<1>9. v[n] = u
  <2>1. n - n = 0 /\ n \in 0 .. n
    BY <1>1, SMT
  <2>2. v[n] = u \div 1
    BY <2>1, Weights, Zenon
  <2>3. u \div 1 = u
    BY <1>2, SMT
  <2> QED
    BY <2>2, <2>3, Zenon
<1> HIDE DEF v, digits
<1>10. ReadDigits(digits, p) = u
  BY <1>1, <1>5, <1>8, <1>9, ReadIs, Zenon
<1> QED
  BY <1>10, Zenon DEF digits, p, u, n

(* UnityPrintNumberHex prints as many bytes of the number as it is told.   *)
LEMMA HexShows ==
  ASSUME NEW number \in Nat, NEW b \in Bytes
  PROVE  LET text == UnityPrintNumberHex(number, b * 2)
         IN  ReadNumber(text) = UINT(number, b) /\ text.base # 10
<1> DEFINE digits == NibblesOf(number, b * 2)
<1>1. UnityPrintNumberHex(number, b * 2) = [sign |-> 1, base |-> Weight(1), digits |-> digits]
  BY HexIs
<1>2. ReadDigits(digits, Weight(1)) = UINT(number, b) /\ UINT(number, b) \in Int
  BY NibblesRead, Casts, SMT
<1>3. Weight(1) # 10
  <2>1. Nibble \in 0 .. W /\ Weight(1) = Pow2[Nibble]
    BY Weights, Pow2Def, SMT
  <2> QED
    BY <2>1, NotTen
<1> HIDE DEF digits
<1> QED
  BY <1>1, <1>2, <1>3, SMT DEF ReadNumber

(* UnityPrintNumberUnsigned and UnityPrintNumber print their number. *)
LEMMA UnsignedShows ==
  ASSUME NEW style, style.range # "CHAR", NEW x \in 0 .. Size(8) - 1
  PROVE  Shows(UnityPrintNumberUnsigned(x), style, x)
<1> DEFINE text == UnityPrintNumberUnsigned(x)
<1>1. /\ text.sign = 1 /\ text.base = 10 /\ ReadDigits(text.digits, 10) = x
      /\ x # 0 => text.digits[1] # 0
  BY DecimalShows, Zenon
<1>2. x \in Int
  BY Sizes, SMT DEF Bytes
<1> HIDE DEF text
<1>3. ReadNumber(text) = x
  BY <1>1, <1>2, SMT DEF ReadNumber
<1> QED
  BY <1>1, <1>3, Zenon DEF Shows, text

LEMMA SignedShows ==
  ASSUME NEW style, style.range # "CHAR", NEW x \in Int, x \in -Half(8) .. Half(8) - 1
  PROVE  Shows(UnityPrintNumber(x), style, x)
<1>1. 8 \in Bytes /\ Size(8) \in Nat \ {0} /\ Half(8) \in Nat \ {0} /\ Size(8) = 2 * Half(8)
  BY Sizes DEF Bytes
<1>2. CASE ~(x < 0)
  <2>1. x \in 0 .. Size(8) - 1
    BY <1>1, <1>2, SMT
  <2> QED
    BY <1>2, <2>1, UnsignedShows, Zenon DEF UnityPrintNumber
<1>3. CASE x < 0
  <2> DEFINE n == -x
  <2>1. n \in 0 .. Size(8) - 1 /\ n \in Int /\ n # 0 /\ x = (-1) * n
    BY <1>1, <1>3, SMT
  <2> HIDE DEF n
  <2>2. UNITY_UINT(-UNITY_UINT(x)) = n
    <3> DEFINE u == UINT(x, 8)
    <3>1. u \in 0 .. Size(8) - 1 /\ u \in Int
      BY <1>1, Casts
    <3>2. PICK z \in Int : x = u + Size(8) * z
      BY <1>1, Casts
    <3> HIDE DEF u
    <3>3. -u \in Int
      BY <3>1, SMT
    <3>4. -u = n + Size(8) * z
      <4> DEFINE s == Size(8) * z
      <4>1. s \in Int
        BY <1>1, SMT
      <4> HIDE DEF s
      <4>2. x = u + s
        BY <3>2 DEF s
      <4>3. -u = n + s
        BY <2>1, <3>1, <4>1, <4>2, SMT
      <4> QED
        BY <4>3 DEF s
    <3>5. UINT(-u, 8) = UINT(n, 8)
      BY <1>1, <2>1, <3>3, <3>4, CastSame
    <3>6. UINT(n, 8) = n
      BY <1>1, <2>1, CastKeeps
    <3> QED
      BY <3>5, <3>6, Zenon DEF UNITY_UINT, u
  <2> DEFINE positive == UnityPrintNumberUnsigned(n)
  <2> DEFINE text == [positive EXCEPT !.sign = -1]
  <2>3. UnityPrintNumber(x) = text
    BY <1>3, <2>2, Zenon DEF UnityPrintNumber
  <2>4. /\ positive.base = 10 /\ ReadDigits(positive.digits, 10) = n
        /\ n # 0 => positive.digits[1] # 0
    BY <2>1, DecimalShows, Zenon
  <2>5. /\ positive = [sign |-> 1, base |-> 10, digits |-> positive.digits]
    BY DEF UnityPrintNumberUnsigned
  <2> HIDE DEF positive
  <2>6. text.sign = -1 /\ text.base = 10 /\ text.digits = positive.digits
    BY <2>5, SMT
  <2> HIDE DEF text
  <2>7. ReadNumber(text) = (-1) * n
    BY <2>4, <2>6 DEF ReadNumber
  <2>8. text.digits[1] # 0
    BY <2>1, <2>4, <2>6
  <2> QED
    BY <2>1, <2>3, <2>7, <2>8, Zenon DEF Shows
<1> QED
  BY <1>2, <1>3

(* One digit reads as itself. *)
LEMMA OneDigit ==
  ASSUME NEW c \in Int, NEW base \in Int
  PROVE  ReadNumber([sign |-> 1, base |-> base, digits |-> <<c>>]) = c
<1> DEFINE v == [k \in 0 .. 1 |-> IF k = 0 THEN 0 ELSE c]
<1> DEFINE digits == <<c>>
<1>1. v[0] = 0 /\ v[1] = c /\ digits[1] = c /\ Len(digits) = 1
  BY SMT
<1>2. IsReading(v, digits, base, 1)
  <2>1. v = [k \in 0 .. 1 |-> v[k]]
    BY Zenon
  <2> HIDE DEF v, digits
  <2>2. base * 0 + c = c
    BY SMT
  <2>3. ASSUME NEW k \in 1 .. 1 PROVE v[k] = base * v[k - 1] + digits[k]
    <3>1. k = 1 /\ k - 1 = 0
      BY SMT
    <3> QED
      BY <1>1, <2>2, <3>1, Zenon
  <2> QED
    BY <1>1, <2>1, <2>3, Zenon DEF IsReading
<1> HIDE DEF v, digits
<1>3. ReadDigits(digits, base) = c
  <2>1. 1 \in Nat
    OBVIOUS
  <2> QED
    BY <1>1, <1>2, <2>1, ReadIs, Zenon
<1>4. ReadNumber([sign |-> 1, base |-> base, digits |-> digits]) = 1 * c
  BY <1>3 DEF ReadNumber
<1> QED
  BY <1>4, SMT DEF digits

(* c stands for the number x of a style when UnityPrintNumberByStyle is    *)
(* given it.                                                               *)
Stands(c, style, x) ==
  /\ c \in Int /\ c \in -Half(8) .. Half(8) - 1
  /\ style.range = "CHAR" => UINT(c, 1) = UINT(x, 1)
  /\ style.range = "INT" => c = x
  /\ style.range = "UINT" => UNITY_UINT(c) = x
  /\ style.range = "HEX" => UINT(c, style.bytes) = x

LEMMA StyleShows ==
  ASSUME NEW style \in Styles, NEW c, NEW x, Stands(c, style, x)
  PROVE  Shows(UnityPrintNumberByStyle(c, style), style, x)
<1> DEFINE u == UNITY_UINT(c)
<1>1. style.range \in {"INT", "UINT", "HEX", "CHAR"} /\ style.bytes \in Bytes /\ 8 \in Bytes /\ 1 \in Bytes
  BY StyleFacts DEF Bytes
<1>2. c \in Int /\ c \in -Half(8) .. Half(8) - 1
  BY DEF Stands
<1>3. u \in 0 .. Size(8) - 1 /\ u \in Nat
  <2>1. u \in 0 .. Size(8) - 1 /\ u \in Int
    BY <1>1, <1>2, Casts DEF UNITY_UINT
  <2> HIDE DEF u
  <2> QED
    BY <2>1, SMT
<1>4. ASSUME NEW b \in Bytes PROVE UINT(u, b) = UINT(c, b)
  BY <1>2, CastTwice
<1> HIDE DEF u
<1>5. CASE style.range = "CHAR"
  <2> DEFINE text == UnityPrintNumberByStyle(c, style)
  <2>1. UINT(ReadNumber(text), 1) = UINT(c, 1)
    <3>1. CASE c \in Printable
      <4>1. text = [sign |-> 1, base |-> Pow2[ByteBits], digits |-> <<c>>]
        BY <1>5, <3>1 DEF UnityPrintNumberByStyle
      <4>2. Pow2[ByteBits] \in Int
        <5>1. ByteBits \in 0 .. W
          BY ByteAssumption, SMT DEF W, Width
        <5> QED
          BY <5>1, Pow2Def, SMT
      <4> QED
        BY <1>2, <4>1, <4>2, OneDigit
    <3>2. CASE c \notin Printable
      <4>1. text = UnityPrintNumberHex(u, 1 * 2)
        <5>1. 1 * 2 = 2
          BY SMT
        <5> QED
          BY <1>5, <3>2, <5>1, Zenon DEF UnityPrintNumberByStyle, u
      <4>2. ReadNumber(text) = UINT(u, 1)
        BY <1>1, <1>3, <4>1, HexShows, Zenon
      <4>3. UINT(u, 1) = UINT(c, 1)
        BY <1>1, <1>4
      <4>4. UINT(UINT(c, 1), 1) = UINT(c, 1)
        BY <1>1, <1>2, Casts, CastKeeps
      <4> QED
        BY <4>2, <4>3, <4>4, Zenon
    <3> QED
      BY <3>1, <3>2
  <2> QED
    BY <1>5, <2>1, Zenon DEF Shows, Stands
<1>6. CASE style.range = "INT"
  BY <1>2, <1>6, SignedShows DEF UnityPrintNumberByStyle, Stands
<1>7. CASE style.range = "UINT"
  BY <1>3, <1>7, UnsignedShows DEF UnityPrintNumberByStyle, Stands, u
<1>8. CASE style.range = "HEX"
  <2> DEFINE text == UnityPrintNumberByStyle(c, style)
  <2>1. text = UnityPrintNumberHex(u, style.bytes * 2)
    BY <1>8, Zenon DEF UnityPrintNumberByStyle, u
  <2>2. ReadNumber(text) = UINT(u, style.bytes) /\ text.base # 10
    BY <1>1, <1>3, <2>1, HexShows, Zenon
  <2>3. UINT(u, style.bytes) = x
    BY <1>1, <1>4, <1>8 DEF Stands
  <2> HIDE DEF text
  <2> QED
    BY <1>8, <2>2, <2>3, Zenon DEF Shows, text
<1> QED
  BY <1>1, <1>5, <1>6, <1>7, <1>8

(* The casts of the macros, and the elements of arrays but those of four   *)
(* bytes without a sign, stand for the numbers of the style.               *)
LEMMA CastStands ==
  ASSUME NEW style \in Styles, NEW macro, NEW x \in Int
  PROVE  Stands(Cast(macro, style, x), style, Means(style, x))
<1> DEFINE c == Cast(macro, style, x)
<1> DEFINE b == BytesOf(style)
<1>1. /\ c \in Int /\ c \in -Half(8) .. Half(8) - 1 /\ UINT(c, b) = UINT(x, b)
      /\ IsInt(style) => c = INT(x, b)
      /\ (~IsInt(style) /\ ~(macro = "EQUAL" /\ style.range = "HEX")) => UNITY_UINT(c) = UINT(x, b)
  BY CastMeans, Zenon
<1>2. /\ IsInt(style) <=> style.range \in {"INT", "CHAR"}
      /\ style.range = "HEX" => b = style.bytes
  BY StyleFacts DEF IsInt
<1>3. Means(style, x) = IF IsInt(style) THEN INT(x, b) ELSE UINT(x, b)
  BY Zenon DEF Means, Reads
<1> HIDE DEF b, c
<1> QED
  BY <1>1, <1>2, <1>3 DEF Stands, c

LEMMA ElementStands ==
  ASSUME NEW style \in Styles, ~(style.range = "UINT" /\ style.bytes = 4), NEW x \in Int
  PROVE  Stands(Shown(INT(x, style.bytes), style), style, Reads(style, style.bytes, x))
<1> DEFINE b == style.bytes
<1> DEFINE i == INT(x, b)
<1> DEFINE u == UINT(x, b)
<1>1. b \in Bytes /\ 8 \in Bytes /\ style.range \in {"INT", "UINT", "HEX", "CHAR"}
  BY StyleFacts DEF Bytes
<1>2. i \in Int /\ i \in -Half(b) .. Half(b) - 1 /\ u \in Int /\ u \in 0 .. Size(b) - 1
  BY <1>1, Casts
<1>3. UINT(i, b) = u
  BY <1>1, CastTwice
<1>4. /\ Half(b) \in Nat /\ Size(b) = 2 * Half(b) /\ Half(8) \in Nat /\ Size(8) = 2 * Half(8)
      /\ b # 8 => Size(b) <= Half(8)
  BY <1>1, Sizes
<1>5. IsInt(style) <=> style.range \in {"INT", "CHAR"}
  BY DEF IsInt
<1>6. style.range = "UINT" => b \in {1, 2, 8}
  BY <1>1 DEF Bytes
<1> HIDE DEF i, u
<1>7. i \in -Half(8) .. Half(8) - 1
  <2>1. CASE b = 8
    BY <1>2, <2>1
  <2>2. CASE b # 8
    <3> HIDE DEF b
    <3> QED
      BY <1>2, <1>4, <2>2, SMT
  <2> QED
    BY <2>1, <2>2
<1>8. CASE style.range # "UINT"
  <2>1. Shown(i, style) = i
    BY <1>8 DEF Shown
  <2>2. Reads(style, b, x) = IF IsInt(style) THEN i ELSE u
    BY Zenon DEF Reads, i, u
  <2>3. Stands(i, style, Reads(style, b, x))
    BY <1>1, <1>2, <1>3, <1>5, <1>7, <1>8, <2>2 DEF Stands
  <2> QED
    BY <2>1, <2>3, Zenon DEF i
<1>9. CASE style.range = "UINT"
  <2>1. Reads(style, b, x) = u
    BY <1>5, <1>9 DEF Reads, u
  <2>2. CASE b = 8
    <3>1. Shown(i, style) = i /\ UNITY_UINT(i) = u
      BY <1>3, <2>2, SMT DEF Shown, UNITY_UINT, IntWidth
    <3>2. Stands(i, style, u)
      BY <1>2, <1>7, <1>9, <3>1 DEF Stands
    <3> QED
      BY <2>1, <3>1, <3>2, Zenon DEF i
  <2>3. CASE b \in {1, 2}
    <3>1. Shown(i, style) = u
      BY <1>3, <1>9, <2>3, SMT DEF Shown, IntWidth
    <3>2. u \in -Half(8) .. Half(8) - 1 /\ u \in 0 .. Size(8) - 1
      <4>1. b # 8
        BY <2>3, SMT
      <4> HIDE DEF b
      <4> QED
        BY <1>2, <1>4, <4>1, SMT
    <3>3. UNITY_UINT(u) = u
      BY <1>1, <1>2, <3>2, CastKeeps DEF UNITY_UINT
    <3>4. Stands(u, style, u)
      BY <1>2, <1>9, <3>2, <3>3 DEF Stands
    <3> QED
      BY <2>1, <3>1, <3>4, Zenon DEF i
  <2> QED
    BY <1>6, <1>9, <2>2, <2>3
<1> QED
  BY <1>8, <1>9

(* What is reported of two numbers that fail an assertion. *)
Reports(r, c, d, style) ==
  r = Pass \/ r = Fail(0, UnityPrintNumberByStyle(c, style), UnityPrintNumberByStyle(d, style))

LEMMA NumberReports ==
  ASSUME NEW c, NEW d, NEW style, NEW compare, NEW delta
  PROVE  /\ Reports(UnityAssertEqualNumber(c, d, style), c, d, style)
         /\ Reports(UnityAssertGreaterOrLessOrEqualNumber(c, d, compare, style), c, d, style)
         /\ Reports(UnityAssertNumbersWithin(delta, c, d, style), c, d, style)
BY Zenon DEF Reports, UnityAssertEqualNumber, UnityAssertGreaterOrLessOrEqualNumber,
             UnityAssertNumbersWithin

(* Assertions on two numbers report them. *)
LEMMA NumberReportStep ==
  ASSUME NEW ops, NumberCall(ops), "EQUAL_ARRAY" \notin ops,
         Reports(result', Cast(call'.op, call'.style, call'.e), Cast(call'.op, call'.style, call'.a),
                 call'.style)
  PROVE  ReportShowsTheNumbers'
<1>1. PICK op \in ops, style \in Styles, e \in Int, a \in Int, delta \in Int :
            /\ call'.op = op /\ call'.style = style /\ call'.e = e /\ call'.a = a
            /\ call'.delta = delta
  BY NumberArguments
<1> DEFINE c == Cast(op, style, e)
<1> DEFINE d == Cast(op, style, a)
<1>2. Reports(result', c, d, style)
  BY <1>1, Zenon
<1>3. /\ Shows(UnityPrintNumberByStyle(c, style), style, Means(style, e))
      /\ Shows(UnityPrintNumberByStyle(d, style), style, Means(style, a))
  BY CastStands, StyleShows, Zenon
<1> HIDE DEF c, d
<1>4. ASSUME ~(result'.verdict = "pass")
      PROVE  /\ Shows(result'.expected, style, Means(style, e))
             /\ Shows(result'.actual, style, Means(style, a))
  <2>1. result' # Pass
    BY <1>4, VerdictIs, Zenon
  <2>2. result' = Fail(0, UnityPrintNumberByStyle(c, style), UnityPrintNumberByStyle(d, style))
    BY <1>2, <2>1, Zenon DEF Reports
  <2>3. /\ result'.expected = UnityPrintNumberByStyle(c, style)
        /\ result'.actual = UnityPrintNumberByStyle(d, style)
    BY <2>2 DEF Fail
  <2> QED
    BY <1>3, <2>3, Zenon
<1>5. call'.op # "EQUAL_ARRAY"
  BY <1>1
<1> QED
  BY <1>1, <1>4, <1>5, Zenon DEF ReportShowsTheNumbers, Decided, Passed

(* UnityAssertEqualIntArray reports the elements that differ. *)
LEMMA ArrayReportStep ==
  ASSUME EqualIntArray
  PROVE  ReportShowsTheNumbers'
<1>0. PICK style \in Styles, num \in 0 .. Elements, pq \in Pointers :
         \E mem \in Memories(Cells(style.bytes)) :
           call' = [op |-> "EQUAL_ARRAY", style |-> style, mem |-> mem, p |-> pq[1], q |-> pq[2],
                    num |-> num]
  BY DEF EqualIntArray, ArrayCall
<1>1. PICK mem \in Memories(Cells(style.bytes)) :
         call' = [op |-> "EQUAL_ARRAY", style |-> style, mem |-> mem, p |-> pq[1], q |-> pq[2],
                  num |-> num]
  BY <1>0
<1> DEFINE p == pq[1]
<1> DEFINE q == pq[2]
<1>2. /\ call'.op = "EQUAL_ARRAY" /\ call'.style = style /\ call'.mem = mem /\ call'.p = p
      /\ call'.q = q /\ call'.num = num
  BY <1>1
<1>3. result' = UnityAssertEqualIntArray(mem, p, q, num, style, FALSE)
  BY <1>2, Zenon DEF EqualIntArray
<1>4. style.bytes \in Bytes
  BY StyleFacts
<1>5. num \in Nat /\ \A k \in 1 .. num : mem["a"][k] \in Int /\ mem["b"][k] \in Int
  BY <1>1, <1>4, CellsAre
<1>6. p # q /\ Comparable(p, q) => p = "a" /\ q = "b"
  BY PointersAre
<1> HIDE DEF p, q
<1> DEFINE unequal == Unequal(mem, p, q, num, style, FALSE)
<1> DEFINE k == Least(unequal)
<1>7. DecidesOn(result', unequal, mem, p, q, num, style, FALSE)
  BY <1>3, EqualIntArrayIs
<1>8. unequal \subseteq 1 .. num
  BY DEF Unequal
<1>9. unequal # {} => k \in unequal
  <2> HIDE DEF unequal
  <2>1. ASSUME unequal # {} PROVE \E n \in unequal : \A m \in unequal : n <= m
    <3>1. unequal \subseteq Nat
      BY <1>5, <1>8, SMT
    <3>2. PICK n \in unequal : \A m \in unequal : ~(m < n)
      BY <2>1, <3>1, LeastNumber
    <3>3. \A m \in unequal : n <= m
      BY <3>1, <3>2, SMT
    <3> QED
      BY <3>3
  <2> QED
    BY <2>1, Zenon DEF Least
<1> HIDE DEF unequal, k
<1>10. ASSUME result'.element > 0, ~(style.range = "UINT" /\ style.bytes = 4)
       PROVE  /\ Shows(result'.expected, style, Reads(style, style.bytes, mem[p][result'.element]))
              /\ Shows(result'.actual, style, Reads(style, style.bytes, mem[q][result'.element]))
  <2>1. Pointless.element = 0 /\ Pass.element = 0 /\ ~(0 > 0)
    BY SMT DEF Pointless, Fail, Pass, None
  <2>2. result' # Pointless /\ result' # Pass
    BY <1>10, <2>1, Zenon
  <2>3. num # 0 /\ p # q /\ Comparable(p, q) /\ unequal # {}
    BY <1>7, <2>2, Zenon DEF DecidesOn
  <2> DEFINE x == mem[p][k]
  <2> DEFINE y == mem[q][k]
  <2>4. result' = Fail(k, UnityPrintNumberByStyle(Shown(INT(x, style.bytes), style), style),
                          UnityPrintNumberByStyle(Shown(INT(y, style.bytes), style), style))
    BY <1>7, <2>3, Zenon DEF DecidesOn, ReadAt, k
  <2>5. k \in 1 .. num
    BY <1>8, <1>9, <2>3
  <2>6. x \in Int /\ y \in Int
    BY <1>5, <1>6, <2>3, <2>5, Zenon
  <2> HIDE DEF x, y
  <2>7. /\ Shows(UnityPrintNumberByStyle(Shown(INT(x, style.bytes), style), style), style,
                 Reads(style, style.bytes, x))
        /\ Shows(UnityPrintNumberByStyle(Shown(INT(y, style.bytes), style), style), style,
                 Reads(style, style.bytes, y))
    BY <1>10, <2>6, ElementStands, StyleShows, Zenon
  <2>8. /\ result'.element = k
        /\ result'.expected = UnityPrintNumberByStyle(Shown(INT(x, style.bytes), style), style)
        /\ result'.actual = UnityPrintNumberByStyle(Shown(INT(y, style.bytes), style), style)
    BY <2>4 DEF Fail
  <2> QED
    BY <2>7, <2>8, Zenon DEF x, y
<1>11. call'.op \notin {"EQUAL", "WITHIN"} \union DOMAIN Compare
  BY <1>2 DEF Compare
<1> QED
  BY <1>2, <1>10, <1>11, Zenon DEF ReportShowsTheNumbers, Decided, Element

(* The report of every assertion shows its numbers. *)
LEMMA ReportStep ==
  ASSUME Asserts
  PROVE  ReportShowsTheNumbers'
<1>1. CASE EqualNumber
  <2>1. NumberCall({"EQUAL"}) /\ "EQUAL_ARRAY" \notin {"EQUAL"}
    BY <1>1 DEF EqualNumber
  <2>2. call'.op = "EQUAL"
    BY <2>1, NumberArguments
  <2>3. Reports(result', Cast(call'.op, call'.style, call'.e), Cast(call'.op, call'.style, call'.a),
                call'.style)
    BY <1>1, <2>2, NumberReports DEF EqualNumber
  <2> QED
    BY <2>1, <2>3, NumberReportStep
<1>2. CASE CompareNumber
  <2>1. NumberCall(DOMAIN Compare) /\ "EQUAL_ARRAY" \notin DOMAIN Compare
    BY <1>2 DEF CompareNumber, Compare
  <2>2. Reports(result', Cast(call'.op, call'.style, call'.e), Cast(call'.op, call'.style, call'.a),
                call'.style)
    BY <1>2, NumberReports DEF CompareNumber
  <2> QED
    BY <2>1, <2>2, NumberReportStep
<1>3. CASE NumbersWithin
  <2>1. NumberCall({"WITHIN"}) /\ "EQUAL_ARRAY" \notin {"WITHIN"}
    BY <1>3 DEF NumbersWithin
  <2>2. call'.op = "WITHIN"
    BY <2>1, NumberArguments
  <2>3. Reports(result', Cast(call'.op, call'.style, call'.e), Cast(call'.op, call'.style, call'.a),
                call'.style)
    BY <1>3, <2>2, NumberReports DEF NumbersWithin
  <2> QED
    BY <2>1, <2>3, NumberReportStep
<1>4. CASE EqualIntArray
  BY <1>4, ArrayReportStep
<1>5. CASE Bits \/ EachEqual \/ NumbersArrayWithin \/ EqualString \/ EqualStringLen
           \/ EqualStringArray \/ EqualMemory \/ FloatsWithin \/ EqualFloatArray \/ FloatSpecial
  <2>1. Bits => call'.op = "BITS"
    BY SMT DEF Bits, BitsCall
  <2>2. call'.op \in (OtherOps \union {"BITS"}) \ {"EQUAL_ARRAY"}
    BY <1>5, <2>1, OtherCalls DEF OtherOps
  <2>3. call'.op \notin {"EQUAL", "WITHIN"} \union DOMAIN Compare /\ call'.op # "EQUAL_ARRAY"
    BY <2>2 DEF OtherOps, Compare
  <2> QED
    BY <2>3, Zenon DEF ReportShowsTheNumbers, Decided
<1> QED
  BY <1>1, <1>2, <1>3, <1>4, <1>5 DEF Asserts

(***************************************************************************)
(* A failed assertion on two numbers, or on two arrays of any type but the *)
(* unsigned 32-bit ones, reports the two numbers it compared: reading the  *)
(* digits that were printed, in decimal without leading zeros or nibble by *)
(* nibble, gives the numbers of the style again, whatever the width of a   *)
(* byte, the smallest negative number, whose negation wraps, included.     *)
(***************************************************************************)
THEOREM ReportShows == Spec => []ReportShowsTheNumbers
<1>1. Init => ReportShowsTheNumbers
  BY DEF Init, NoCall, ReportShowsTheNumbers, Decided
<1>2. ReportShowsTheNumbers /\ [Next]_vars => ReportShowsTheNumbers'
  <2> SUFFICES ASSUME ReportShowsTheNumbers, [Next]_vars PROVE ReportShowsTheNumbers'
    OBVIOUS
  <2>1. CASE call' = None /\ result' = None
    BY <2>1, Zenon DEF ReportShowsTheNumbers, Decided
  <2>2. CASE Asserts
    BY <2>2, ReportStep
  <2>3. CASE call' = call /\ result' = result
    BY <2>3, Zenon DEF ReportShowsTheNumbers, Decided, Passed, Element
  <2> QED
    BY <2>1, <2>2, <2>3, LastResult
<1> QED
  BY <1>1, <1>2, PTL DEF Spec
-----------------------------------------------------------------------------
(* Assertions on strings and blocks of memory.                             *)

Text == Seq(Nat \ {0})

(* Null is no string of characters. *)
LEMMA NullIsNoText ==
  /\ NullString \notin Text
  /\ \A s \in Strings : IsNull(s) \/ (s \in Text /\ ~IsNull(s))
<1>1. NullString \notin Text
  <2>1. NullString[1] = -1 /\ Len(NullString) = 1
    BY DEF NullString
  <2> QED
    BY <2>1, SMTT(20) DEF Text
<1> QED
  BY <1>1, ArgumentsAssumption DEF Text, IsNull

(* The loop finds a difference exactly if two characters differ: until     *)
(* then one of the strings has not ended.                                  *)
LEMMA StringsDifferIs ==
  ASSUME NEW s \in Text, NEW t \in Text, ~IsNull(s), ~IsNull(t), NEW n \in Nat
  PROVE  StringsDiffer(s, t, n) <=> \E i \in 1 .. n : Char(s, i) # Char(t, i)
<1>1. ASSUME NEW i \in 1 .. n, Char(s, i) # Char(t, i), NEW j \in 1 .. i
      PROVE  Char(s, j) # 0 \/ Char(t, j) # 0
  <2>1. i <= Len(s) \/ i <= Len(t)
    BY <1>1 DEF Char
  <2>2. CASE i <= Len(s)
    BY <2>2, SMT DEF Char, Text
  <2>3. CASE i <= Len(t)
    BY <2>3, SMT DEF Char, Text
  <2> QED
    BY <2>1, <2>2, <2>3
<1> QED
  BY <1>1 DEF StringsDiffer

(* Strings of equal characters up to the longer one's end are equal. *)
LEMMA SameText ==
  ASSUME NEW s \in Text, NEW t \in Text, NEW n \in Nat, Len(s) <= n, Len(t) <= n,
         \A i \in 1 .. n : Char(s, i) = Char(t, i)
  PROVE  s = t
<1>1. ~(Len(s) < Len(t))
  <2> SUFFICES ASSUME Len(s) < Len(t) PROVE FALSE
    OBVIOUS
  <2>1. Len(t) \in 1 .. n /\ Len(t) \in 1 .. Len(t)
    BY SMT DEF Text
  <2>2. t[Len(t)] # 0
    BY <2>1, SMT DEF Text
  <2> QED
    BY <2>1, <2>2, SMT DEF Char, Text
<1>2. ~(Len(t) < Len(s))
  <2> SUFFICES ASSUME Len(t) < Len(s) PROVE FALSE
    OBVIOUS
  <2>1. Len(s) \in 1 .. n /\ Len(s) \in 1 .. Len(s)
    BY SMT DEF Text
  <2>2. s[Len(s)] # 0
    BY <2>1, SMT DEF Text
  <2> QED
    BY <2>1, <2>2, SMT DEF Char, Text
<1>3. Len(s) = Len(t)
  BY <1>1, <1>2, SMT DEF Text
<1>4. \A i \in 1 .. Len(s) : s[i] = t[i]
  BY <1>3, SMT DEF Char, Text
<1> QED
  BY <1>3, <1>4, SeqEqual DEF Text

(* UnityAssertEqualString passes exactly for equal strings. *)
LEMMA EqualStrings ==
  ASSUME NEW s \in Strings, NEW t \in Strings
  PROVE  StringsDiffer(s, t, NoLimit(s, t)) <=> s # t
<1>1. CASE IsNull(s) \/ IsNull(t)
  BY <1>1 DEF StringsDiffer
<1>2. CASE ~IsNull(s) /\ ~IsNull(t)
  <2>1. s \in Text /\ t \in Text
    BY <1>2, NullIsNoText
  <2> DEFINE n == NoLimit(s, t)
  <2>2. n \in Nat /\ Len(s) <= n /\ Len(t) <= n
    BY <2>1, SMT DEF NoLimit, Text
  <2> HIDE DEF n
  <2>3. (\A i \in 1 .. n : Char(s, i) = Char(t, i)) => s = t
    BY <2>1, <2>2, SameText
  <2>4. StringsDiffer(s, t, n) <=> \E i \in 1 .. n : Char(s, i) # Char(t, i)
    BY <1>2, <2>1, <2>2, StringsDifferIs
  <2> QED
    BY <2>3, <2>4 DEF n
<1> QED
  BY <1>1, <1>2

(* The prefix has the first characters. *)
LEMMA PrefixIs ==
  ASSUME NEW s \in Text, NEW n \in Nat
  PROVE  /\ Prefix(s, n) \in Text /\ Len(Prefix(s, n)) <= n
         /\ \A i \in 1 .. n : Char(Prefix(s, n), i) = Char(s, i)
<1>1. CASE Len(s) <= n
  BY <1>1 DEF Prefix
<1>2. CASE ~(Len(s) <= n)
  <2>1. Prefix(s, n) = SubSeq(s, 1, n)
    BY <1>2 DEF Prefix
  <2>2. \A i \in 1 .. n : s[i] \in Nat \ {0}
    BY <1>2, SMT DEF Text
  <2>3. /\ SubSeq(s, 1, n) \in Text
        /\ Len(SubSeq(s, 1, n)) = IF 1 <= n THEN n - 1 + 1 ELSE 0
        /\ \A i \in 1 .. n - 1 + 1 : SubSeq(s, 1, n)[i] = s[1 + i - 1]
    BY <2>2, SubSeqProperties, SMT DEF Text
  <2>4. Len(SubSeq(s, 1, n)) = n /\ \A i \in 1 .. n : SubSeq(s, 1, n)[i] = s[i]
    BY <2>3, SMT
  <2> QED
    BY <1>2, <2>1, <2>3, <2>4, SMT DEF Char, Text
<1> QED
  BY <1>1, <1>2

(* UnityAssertEqualStringLen passes exactly for equal prefixes. *)
LEMMA EqualPrefixes ==
  ASSUME NEW s \in Strings, NEW t \in Strings, NEW n \in Nat
  PROVE  ~StringsDiffer(s, t, n) <=>
            /\ IsNull(s) <=> IsNull(t)
            /\ IsNull(s) \/ Prefix(s, n) = Prefix(t, n)
<1>1. CASE IsNull(s) \/ IsNull(t)
  BY <1>1 DEF StringsDiffer, IsNull
<1>2. CASE ~IsNull(s) /\ ~IsNull(t)
  <2>1. s \in Text /\ t \in Text
    BY <1>2, NullIsNoText
  <2> DEFINE u == Prefix(s, n)
  <2> DEFINE v == Prefix(t, n)
  <2>2. u \in Text /\ Len(u) <= n /\ \A i \in 1 .. n : Char(u, i) = Char(s, i)
    BY <2>1, PrefixIs
  <2>3. v \in Text /\ Len(v) <= n /\ \A i \in 1 .. n : Char(v, i) = Char(t, i)
    BY <2>1, PrefixIs
  <2>4. StringsDiffer(s, t, n) <=> \E i \in 1 .. n : Char(s, i) # Char(t, i)
    BY <1>2, <2>1, StringsDifferIs
  <2> HIDE DEF u, v
  <2>5. (\A i \in 1 .. n : Char(u, i) = Char(v, i)) => u = v
    BY <2>2, <2>3, SameText
  <2>6. ~StringsDiffer(s, t, n) <=> u = v
    BY <2>2, <2>3, <2>4, <2>5
  <2> QED
    BY <1>2, <2>6 DEF u, v
<1> QED
  BY <1>1, <1>2

(* The n bytes after the first i: they are in S, or those of another. *)
FilledFrom(x, i, n, S) == \A k \in 1 .. n : x[i + k] \in S
SameFrom(x, i, y, j, n) == \A k \in 1 .. n : x[i + k] = y[j + k]

(* Two blocks are equal exactly when their bytes are. *)
LEMMA SameBlock ==
  ASSUME NEW S, NEW x, NEW y, NEW i \in Nat, NEW j \in Nat, NEW n \in Nat,
         FilledFrom(x, i, n, S), FilledFrom(y, j, n, S)
  PROVE  SubSeq(x, i + 1, i + n) = SubSeq(y, j + 1, j + n) <=> SameFrom(x, i, y, j, n)
<1>1. ASSUME NEW z, NEW m \in Nat, \A k \in 1 .. n : z[m + k] \in S
      PROVE  /\ SubSeq(z, m + 1, m + n) \in Seq(S) /\ Len(SubSeq(z, m + 1, m + n)) = n
             /\ \A k \in 1 .. n : SubSeq(z, m + 1, m + n)[k] = z[m + k]
  <2>1. \A k \in m + 1 .. m + n : z[k] \in S
    <3> SUFFICES ASSUME NEW k \in m + 1 .. m + n PROVE z[k] \in S
      OBVIOUS
    <3>1. k - m \in 1 .. n /\ m + (k - m) = k
      BY SMT
    <3> QED
      BY <3>1, <1>1
  <2>2. m + 1 \in Int /\ m + n \in Int /\ (m + n) - (m + 1) + 1 = n
    BY SMT
  <2>3. /\ SubSeq(z, m + 1, m + n) \in Seq(S)
        /\ Len(SubSeq(z, m + 1, m + n)) = IF m + 1 <= m + n THEN (m + n) - (m + 1) + 1 ELSE 0
        /\ \A k \in 1 .. (m + n) - (m + 1) + 1 : SubSeq(z, m + 1, m + n)[k] = z[(m + 1) + k - 1]
    BY <2>1, <2>2, SubSeqProperties, SMT
  <2> DEFINE u == SubSeq(z, m + 1, m + n)
  <2> HIDE DEF u
  <2>4. u \in Seq(S) /\ Len(u) = n /\ \A k \in 1 .. n : u[k] = z[(m + 1) + k - 1]
    BY <2>2, <2>3, SMT DEF u
  <2>5. \A k \in 1 .. n : (m + 1) + k - 1 = m + k
    BY SMT
  <2> QED
    BY <2>4, <2>5 DEF u
<1> DEFINE u == SubSeq(x, i + 1, i + n)
<1> DEFINE v == SubSeq(y, j + 1, j + n)
<1>2. u \in Seq(S) /\ Len(u) = n /\ \A k \in 1 .. n : u[k] = x[i + k]
  BY <1>1 DEF FilledFrom
<1>3. v \in Seq(S) /\ Len(v) = n /\ \A k \in 1 .. n : v[k] = y[j + k]
  BY <1>1 DEF FilledFrom
<1> HIDE DEF u, v
<1>4. u = v <=> \A k \in 1 .. n : u[k] = v[k]
  BY <1>2, <1>3, SeqEqual
<1> QED
  BY <1>2, <1>3, <1>4 DEF u, v, SameFrom

(* Byte k of num blocks of length bytes is byte i of a block. *)
LEMMA BlockOf ==
  ASSUME NEW length \in Nat \ {0}, NEW num \in Nat
  PROVE  /\ \A k \in 1 .. num * length : \E block \in 0 .. num - 1, i \in 1 .. length :
               k = block * length + i /\ ((k - 1) % length) + 1 = i
         /\ \A block \in 0 .. num - 1, i \in 1 .. length :
               /\ block * length + i \in 1 .. num * length
               /\ (((block * length + i) - 1) % length) + 1 = i
<1>1. ASSUME NEW k \in 1 .. num * length
      PROVE  \E block \in 0 .. num - 1, i \in 1 .. length :
               k = block * length + i /\ ((k - 1) % length) + 1 = i
  <2> DEFINE q == (k - 1) \div length
  <2> DEFINE r == (k - 1) % length
  <2>1. k - 1 \in Nat /\ k - 1 \in Int /\ k - 1 < num * length /\ k \in Int
    BY SMT
  <2>2. k - 1 = length * q + r /\ r \in 0 .. length - 1 /\ q \in Int
    BY <2>1, DivMod, Zenon
  <2> HIDE DEF q, r
  <2>3. q \in 0 .. num - 1
    <3>1. ~(q < 0)
      BY <2>1, <2>2, ProductGrows, SMT
    <3>2. ~(num <= q)
      <4> SUFFICES ASSUME num <= q PROVE FALSE
        OBVIOUS
      <4>1. length * num <= length * q
        BY <2>2, SMT
      <4> QED
        BY <4>1, <2>1, <2>2, SMT
    <3> QED
      BY <3>1, <3>2, <2>2, SMT
  <2>4. k = q * length + (r + 1) /\ r + 1 \in 1 .. length
    BY <2>1, <2>2, SMT
  <2> QED
    BY <2>3, <2>4, Zenon DEF r
<1>2. ASSUME NEW block \in 0 .. num - 1, NEW i \in 1 .. length
      PROVE  /\ block * length + i \in 1 .. num * length
             /\ (((block * length + i) - 1) % length) + 1 = i
  <2> DEFINE x == (block * length + i) - 1
  <2>1. x = length * block + (i - 1) /\ i - 1 \in 0 .. length - 1 /\ x \in Int /\ block \in Int
    BY SMT
  <2> HIDE DEF x
  <2>2. x % length = i - 1
    BY <2>1, DivModIs
  <2>3. length * block + length <= length * num
    BY ProductGrows, SMT
  <2>4. block * length + i \in 1 .. num * length
    BY <2>3, SMT
  <2> QED
    BY <2>2, <2>4, SMT DEF x
<1> QED
  BY <1>1, <1>2

(* Every byte of num blocks lies in one of them. *)
LEMMA ByteOfBlock ==
  ASSUME NEW length \in Nat \ {0}, NEW num \in Nat, NEW k \in 1 .. num * length
  PROVE  \E block \in 0 .. num - 1, i \in 1 .. length :
           k = block * length + i /\ ((k - 1) % length) + 1 = i
BY BlockOf, Zenon

(* n elements of S. *)
Filled(x, n, S) == \A k \in 1 .. n : x[k] \in S

(* The bytes of x and y are equal, or those of the first element of x and  *)
(* of each of y; the same block by block.                                  *)
BytesMatch(x, y, length, num, each) ==
  \A k \in 1 .. num * length : x[IF each THEN ((k - 1) % length) + 1 ELSE k] = y[k]
BlocksMatch(x, y, length, num, each) ==
  \A block \in 0 .. num - 1 :
     SubSeq(y, block * length + 1, (block + 1) * length) =
       IF each THEN SubSeq(x, 1, length)
       ELSE SubSeq(x, block * length + 1, (block + 1) * length)

(* UnityAssertEqualMemory on two blocks passes exactly when all the bytes  *)
(* are equal, those of each element when every one is compared with one.   *)
LEMMA EqualBlocks ==
  ASSUME NEW S, NEW x, NEW y, NEW length \in Nat \ {0}, NEW num \in Nat \ {0}, NEW each \in BOOLEAN,
         Filled(x, num * length, S), Filled(y, num * length, S)
  PROVE  BytesMatch(x, y, length, num, each) <=> BlocksMatch(x, y, length, num, each)
<1> DEFINE Same(block) ==
      \A i \in 1 .. length : y[block * length + i] = x[IF each THEN i ELSE block * length + i]
<1>1. ASSUME NEW block \in 0 .. num - 1
      PROVE  Same(block) <=>
               SubSeq(y, block * length + 1, (block + 1) * length) =
                 IF each THEN SubSeq(x, 1, length)
                 ELSE SubSeq(x, block * length + 1, (block + 1) * length)
  <2> DEFINE m == block * length
  <2>1. m \in Nat /\ length \in Nat /\ (block + 1) * length = m + length /\ 0 \in Nat
    BY SMT
  <2>2. \A i \in 1 .. length : m + i \in 1 .. num * length
    BY BlockOf
  <2>3. \A i \in 1 .. length : 0 + i \in 1 .. num * length /\ 0 + i = i
    <3>1. length <= num * length
      BY SMT
    <3>2. num * length \in Nat
      BY SMT
    <3> DEFINE n == num * length
    <3> HIDE DEF n
    <3>3. length <= n /\ n \in Nat
      BY <3>1, <3>2 DEF n
    <3>4. \A i \in 1 .. length : 0 + i \in 1 .. n /\ 0 + i = i
      BY <3>3, SMT
    <3> QED
      BY <3>4 DEF n
  <2> HIDE DEF m
  <2>4. FilledFrom(y, m, length, S) /\ FilledFrom(x, m, length, S) /\ FilledFrom(x, 0, length, S)
    BY <2>2, <2>3, Zenon DEF Filled, FilledFrom
  <2>5. CASE each
    <3>1. SubSeq(y, m + 1, m + length) = SubSeq(x, 0 + 1, 0 + length) <=> SameFrom(y, m, x, 0, length)
      BY <2>1, <2>4, SameBlock, Zenon
    <3>2. SameFrom(y, m, x, 0, length) <=> Same(block)
      BY <2>3, <2>5, Zenon DEF SameFrom, m
    <3>3. 0 + 1 = 1 /\ 0 + length = length
      BY SMT
    <3> HIDE DEF Same
    <3> QED
      BY <2>1, <2>5, <3>1, <3>2, <3>3, Zenon DEF m
  <2>6. CASE ~each
    <3>1. SubSeq(y, m + 1, m + length) = SubSeq(x, m + 1, m + length) <=> SameFrom(y, m, x, m, length)
      BY <2>1, <2>4, SameBlock, Zenon
    <3>2. SameFrom(y, m, x, m, length) <=> Same(block)
      BY <2>6, Zenon DEF SameFrom, m
    <3> HIDE DEF Same
    <3> QED
      BY <2>1, <2>6, <3>1, <3>2, Zenon DEF m
  <2> QED
    BY <2>5, <2>6
<1> DEFINE Matches(k) == x[IF each THEN ((k - 1) % length) + 1 ELSE k] = y[k]
<1>2. ASSUME \A k \in 1 .. num * length : Matches(k), NEW block \in 0 .. num - 1
      PROVE  Same(block)
  <2> SUFFICES ASSUME NEW i \in 1 .. length
               PROVE  y[block * length + i] = x[IF each THEN i ELSE block * length + i]
    BY Zenon
  <2>1. /\ block * length + i \in 1 .. num * length
        /\ (((block * length + i) - 1) % length) + 1 = i
    BY BlockOf, SMT
  <2>2. Matches(block * length + i)
    BY <1>2, <2>1, Zenon
  <2> QED
    BY <2>1, <2>2, Zenon
<1>3. ASSUME \A block \in 0 .. num - 1 : Same(block), NEW k \in 1 .. num * length
      PROVE  Matches(k)
  <2>1. PICK block \in 0 .. num - 1, i \in 1 .. length :
          k = block * length + i /\ ((k - 1) % length) + 1 = i
    BY ByteOfBlock, Zenon
  <2>2. y[block * length + i] = x[IF each THEN i ELSE block * length + i]
    BY <1>3, Zenon
  <2> QED
    BY <2>1, <2>2, Zenon
<1>4. (\A k \in 1 .. num * length : Matches(k)) <=> \A block \in 0 .. num - 1 : Same(block)
  BY <1>2, <1>3, Zenon
<1> HIDE DEF Same
<1> QED
  BY <1>1, <1>4, Zenon DEF BytesMatch, BlocksMatch

(* String assertions decide as StringsAreCompared says. *)
LEMMA StringStep ==
  ASSUME EqualString \/ EqualStringLen
  PROVE  StringsAreCompared'
<1>1. CASE EqualString
  <2>1. PICK s \in Strings, t \in Strings : call' = [op |-> "STRING", s |-> s, t |-> t]
    BY <1>1 DEF EqualString, StringCall
  <2>2. call'.op = "STRING" /\ call'.s = s /\ call'.t = t
    BY <2>1
  <2>3. result'.verdict = "pass" <=> s = t
    BY <1>1, <2>2, EqualStrings, VerdictIs DEF EqualString, UnityAssertEqualString
  <2> QED
    BY <2>2, <2>3 DEF StringsAreCompared, Decided, Passed
<1>2. CASE EqualStringLen
  <2>1. PICK s \in Strings, t \in Strings, length \in 0 .. Elements + 1 :
          call' = [op |-> "STRING_LEN", s |-> s, t |-> t, length |-> length]
    BY <1>2 DEF EqualStringLen, StringLenCall
  <2>2. call'.op = "STRING_LEN" /\ call'.s = s /\ call'.t = t /\ call'.length = length
    BY <2>1
  <2>3. length \in Nat
    BY ArgumentsAssumption, SMT
  <2>4. result'.verdict = "pass" <=> ~StringsDiffer(s, t, length)
    BY <1>2, <2>2, VerdictIs DEF EqualStringLen, UnityAssertEqualStringLen
  <2>5. ~StringsDiffer(s, t, length) <=>
            /\ IsNull(s) <=> IsNull(t)
            /\ IsNull(s) \/ Prefix(s, length) = Prefix(t, length)
    BY <2>3, EqualPrefixes
  <2> QED
    BY <2>2, <2>4, <2>5 DEF StringsAreCompared, Decided, Passed
<1> QED
  BY <1>1, <1>2

(* So does the one on arrays of strings. *)
LEMMA StringArrayStep ==
  ASSUME EqualStringArray
  PROVE  StringsAreCompared'
<1>1. PICK mem \in Memories(Strings), pq \in Pointers, num \in 0 .. Elements, each \in BOOLEAN :
        call' = [op |-> "STRING_ARRAY", strings |-> mem, p |-> pq[1], q |-> pq[2], num |-> num,
                 each |-> each]
  BY DEF EqualStringArray, StringArrayCall
<1> DEFINE p == pq[1]
<1> DEFINE q == pq[2]
<1>2. /\ call'.op = "STRING_ARRAY" /\ call'.strings = mem /\ call'.p = p /\ call'.q = q
      /\ call'.num = num /\ call'.each = each
  BY <1>1
<1>3. p # q /\ Comparable(p, q) => p = "a" /\ q = "b"
  BY PointersAre
<1>4. result' = UnityAssertEqualStringArray(mem, p, q, num, each)
  BY <1>2, Zenon DEF EqualStringArray
<1> HIDE DEF p, q
<1>5. ASSUME p # q, Comparable(p, q)
      PROVE  result'.verdict = "pass" <=>
                num > 0 /\ \A k \in 1 .. num : mem[p][IF each THEN 1 ELSE k] = mem[q][k]
  <2>1. p = "a" /\ q = "b" /\ ~UnityIsOneArrayNull(p, q)
    BY <1>3, <1>5 DEF UnityIsOneArrayNull
  <2> DEFINE E(k) == mem[p][IF each THEN 1 ELSE k]
  <2> DEFINE differ == {k \in 1 .. num : StringsDiffer(E(k), mem[q][k], NoLimit(E(k), mem[q][k]))}
  <2>2. result'.verdict = "pass" <=> num # 0 /\ differ = {}
    BY <1>4, <1>5, <2>1, VerdictIs DEF UnityAssertEqualStringArray, Pointless
  <2>3. Elements \in Nat /\ num \in Nat
    BY ArgumentsAssumption, SMT
  <2>4. ASSUME NEW k \in 1 .. num PROVE E(k) \in Strings /\ mem[q][k] \in Strings
    <3>1. mem.a \in [1 .. Elements -> Strings] /\ mem.b \in [1 .. Elements -> Strings]
      BY DEF Memories
    <3>2. k \in 1 .. Elements /\ 1 \in 1 .. Elements
      BY <2>3, SMT
    <3> QED
      BY <2>1, <3>1, <3>2
  <2>5. \A k \in 1 .. num : k \in differ <=> E(k) # mem[q][k]
    BY <2>4, EqualStrings
  <2>6. differ = {} <=> \A k \in 1 .. num : E(k) = mem[q][k]
    BY <2>5, Zenon
  <2> QED
    BY <2>2, <2>3, <2>6, SMT
<1>6. num > 0 <=> num # 0
  BY ArgumentsAssumption, SMT
<1>7. ASSUME p = q PROVE result'.verdict = "pass" <=> num > 0
  BY <1>4, <1>6, <1>7, VerdictIs DEF UnityAssertEqualStringArray, Pointless
<1>8. ASSUME p # q, ~Comparable(p, q) PROVE result'.verdict # "pass"
  <2>1. UnityIsOneArrayNull(p, q)
    BY <1>8 DEF UnityIsOneArrayNull, Comparable
  <2> QED
    BY <1>4, <1>8, <2>1, VerdictIs DEF UnityAssertEqualStringArray, Pointless
<1> DEFINE Equal == \A k \in 1 .. num : mem[p][IF each THEN 1 ELSE k] = mem[q][k]
<1>9. result'.verdict = "pass" <=> num > 0 /\ (p = q \/ (Comparable(p, q) /\ Equal))
  BY <1>5, <1>7, <1>8
<1> QED
  BY <1>2, <1>9 DEF StringsAreCompared, Decided, Passed

(* And the one on memory. *)
LEMMA MemoryStep ==
  ASSUME EqualMemory
  PROVE  StringsAreCompared'
<1>1. PICK x \in [1 .. Elements * Elements -> {0, 1}], y \in [1 .. Elements * Elements -> {0, 1}],
           pq \in Pointers, length \in 0 .. Elements, num \in 0 .. Elements, each \in BOOLEAN :
        call' = [op |-> "MEMORY", bytes |-> [a |-> x, b |-> y], p |-> pq[1], q |-> pq[2],
                 length |-> length, num |-> num, each |-> each]
  BY DEF EqualMemory, MemoryCall
<1> DEFINE p == pq[1]
<1> DEFINE q == pq[2]
<1> DEFINE mem == [a |-> x, b |-> y]
<1>2. /\ call'.op = "MEMORY" /\ call'.bytes = mem /\ call'.p = p /\ call'.q = q
      /\ call'.num = num /\ call'.each = each /\ call'.length = length
  BY <1>1
<1>3. p # q /\ Comparable(p, q) => p = "a" /\ q = "b"
  BY PointersAre
<1>4. result' = UnityAssertEqualMemory(mem, p, q, length, num, each)
  BY <1>2, Zenon DEF EqualMemory
<1>5. mem["a"] = x /\ mem["b"] = y
  OBVIOUS
<1> HIDE DEF p, q, mem
<1> DEFINE Bytewise == BytesMatch(x, y, length, num, each)
<1> DEFINE Blocks == BlocksMatch(x, y, length, num, each)
<1>6. length \in Nat /\ num \in Nat /\ Elements \in Nat /\ length <= Elements /\ num <= Elements
  BY ArgumentsAssumption, SMT
<1>7. ASSUME num > 0, length > 0 PROVE Bytewise <=> Blocks
  <2>1. num \in Nat \ {0} /\ length \in Nat \ {0}
    BY <1>6, <1>7, SMT
  <2>2. num * length <= Elements * Elements /\ num * length \in Nat /\ Elements * Elements \in Nat
    <3>1. num * length <= Elements * length /\ Elements * length <= Elements * Elements
      BY <1>6, SMT
    <3> QED
      BY <3>1, <1>6, SMT
  <2> DEFINE n == num * length
  <2> DEFINE last == Elements * Elements
  <2>3. n <= last /\ n \in Nat /\ last \in Nat /\ x \in [1 .. last -> {0, 1}] /\ y \in [1 .. last -> {0, 1}]
    BY <2>2, Zenon
  <2> HIDE DEF n, last
  <2>4. \A k \in 1 .. n : k \in 1 .. last
    BY <2>3, SMT
  <2> DEFINE S == {0, 1}
  <2>5. Filled(x, num * length, S) /\ Filled(y, num * length, S)
    BY <2>3, <2>4, Zenon DEF n, Filled
  <2> HIDE DEF S
  <2> QED
    BY <2>1, <2>5, EqualBlocks
<1>8. ASSUME p # q, Comparable(p, q)
      PROVE  result'.verdict = "pass" <=> num > 0 /\ length > 0 /\ Blocks
  <2>1. p = "a" /\ q = "b" /\ ~UnityIsOneArrayNull(p, q)
    BY <1>3, <1>8 DEF UnityIsOneArrayNull
  <2> DEFINE differ == {k \in 1 .. num * length :
                          mem[p][IF each THEN ((k - 1) % length) + 1 ELSE k] # mem[q][k]}
  <2>2. result'.verdict = "pass" <=> ~(num = 0 \/ length = 0) /\ differ = {}
    BY <1>4, <1>8, <2>1, VerdictIs, Zenon DEF UnityAssertEqualMemory, Pointless
  <2>3. differ = {} <=> Bytewise
    BY <2>1, <1>5, Zenon DEF BytesMatch
  <2>4. (num > 0 <=> num # 0) /\ (length > 0 <=> length # 0)
    BY <1>6, SMT
  <2> HIDE DEF differ, Bytewise, Blocks
  <2> QED
    BY <1>7, <2>2, <2>3, <2>4, Zenon
<1>9. p # q /\ Comparable(p, q) => mem[p] = x /\ mem[q] = y
  BY <1>3, <1>5
<1> QED
  BY <1>2, <1>8, <1>9, Zenon DEF StringsAreCompared, Decided, Passed, BlocksMatch

(***************************************************************************)
(* Strings, prefixes, arrays of strings and blocks of memory are compared  *)
(* in full and no further, for strings and blocks of any length.           *)
(***************************************************************************)
THEOREM StringsCompared == Spec => []StringsAreCompared
<1>1. Init => StringsAreCompared
  BY DEF Init, NoCall, StringsAreCompared, Decided
<1>2. StringsAreCompared /\ [Next]_vars => StringsAreCompared'
  <2> SUFFICES ASSUME StringsAreCompared, [Next]_vars PROVE StringsAreCompared'
    OBVIOUS
  <2>1. CASE call' = None /\ result' = None
    BY <2>1, Zenon DEF StringsAreCompared, Decided
  <2>2. CASE Asserts
    <3>1. CASE EqualString \/ EqualStringLen \/ EqualStringArray \/ EqualMemory
      BY <3>1, StringStep, StringArrayStep, MemoryStep
    <3>2. CASE ~(EqualString \/ EqualStringLen \/ EqualStringArray \/ EqualMemory)
      <4>1. call'.op \notin {"STRING", "STRING_LEN", "STRING_ARRAY", "MEMORY"}
        BY <2>2, <3>2, OtherCalls, NumberOps DEF Asserts
      <4> QED
        BY <4>1 DEF StringsAreCompared, Decided
    <3> QED
      BY <3>1, <3>2
  <2>3. CASE call' = call /\ result' = result
    BY <2>3, Zenon DEF StringsAreCompared, Decided, Passed
  <2> QED
    BY <2>1, <2>2, <2>3, LastResult
<1> QED
  BY <1>1, <1>2, PTL DEF Spec
-----------------------------------------------------------------------------
(* Assertions on floats.                                                   *)

Finite(n) == [kind |-> "finite", value |-> n]
FloatSet == {NaN, Inf(1), Inf(-1)} \union {Float(n) : n \in -MaxFloat .. MaxFloat}

(* A float is not a number, an infinity, or a number. *)
LEMMA FloatIs ==
  ASSUME NEW x \in FloatSet
  PROVE  \/ x = NaN \/ x = Inf(1) \/ x = Inf(-1)
         \/ \E n \in -MaxFloat .. MaxFloat : x = Finite(n)
<1>1. CASE x \in {NaN, Inf(1), Inf(-1)}
  BY <1>1
<1>2. ASSUME NEW n \in -MaxFloat .. MaxFloat, x = Float(n) PROVE x = Finite(n)
  BY <1>2, ByteAssumption, SMT DEF Float, Finite
<1> QED
  BY <1>1, <1>2 DEF FloatSet

(* The fields of floats. *)
LEMMA FloatFields ==
  /\ NaN.kind = "nan" /\ NaN.value = 0
  /\ \A s : Inf(s).kind = "inf" /\ Inf(s).value = s
  /\ \A n : Finite(n).kind = "finite" /\ Finite(n).value = n
BY DEF NaN, Inf, Finite

(* Two floats are as near as delta allows. *)
Near(delta, e, a) ==
  \/ e = a
  \/ /\ e.kind = "finite" /\ a.kind = "finite"
     /\ Distance(e.value, a.value) <= MaxFloat
     /\ delta.kind # "finite"
          \/ Distance(e.value, a.value) * Precision <= Distance(delta.value, 0)

(* UnityFloatsWithin on two numbers. *)
LEMMA FiniteWithin ==
  ASSUME NEW delta \in FloatSet, NEW m \in -MaxFloat .. MaxFloat, NEW n \in -MaxFloat .. MaxFloat
  PROVE  UnityFloatsWithin(delta, Finite(m), Finite(n)) <=> Near(delta, Finite(m), Finite(n))
<1> DEFINE e == Finite(m)
<1> DEFINE a == Finite(n)
<1> DEFINE diff == Magnitude(Minus(a, e))
<1> DEFINE d == Distance(m, n)
<1>1. MaxFloat \in Nat /\ Precision \in Nat /\ m \in Int /\ n \in Int
  BY ByteAssumption, SMT
<1>2. d \in Nat /\ (m = n => d = 0)
  BY <1>1, SMT DEF Distance
<1>3. Minus(a, e) = Float(n - m)
  BY FloatFields DEF Minus, isnan, isinf
<1>4. d > MaxFloat => diff.kind = "inf"
  <2> SUFFICES ASSUME d > MaxFloat PROVE diff.kind = "inf"
    OBVIOUS
  <2>1. Float(n - m) \in {Inf(1), Inf(-1)}
    BY <1>1, SMT DEF Float, Distance
  <2> QED
    BY <1>3, <2>1, FloatFields, SMT DEF Magnitude, Inf
<1>5. d <= MaxFloat => diff.kind = "finite" /\ diff.value = d
  <2> SUFFICES ASSUME d <= MaxFloat PROVE diff.kind = "finite" /\ diff.value = d
    OBVIOUS
  <2>1. Float(n - m) = Finite(n - m)
    BY <1>1, SMT DEF Float, Distance, Finite
  <2> QED
    BY <1>1, <1>3, <2>1, SMT DEF Magnitude, Distance, Finite
<1>6. delta.kind = "finite" => Magnitude(delta).value = Distance(delta.value, 0) /\ Distance(delta.value, 0) \in Nat
  <2> SUFFICES ASSUME NEW k \in -MaxFloat .. MaxFloat, delta = Finite(k)
               PROVE  Magnitude(delta).value = Distance(delta.value, 0) /\ Distance(delta.value, 0) \in Nat
    BY FloatIs, FloatFields
  <2> QED
    BY <1>1, SMT DEF Finite, Magnitude, Distance
<1>7. delta.kind \in {"nan", "inf", "finite"}
  BY FloatIs, FloatFields, SMT
<1>8. e.kind = "finite" /\ a.kind = "finite" /\ e.value = m /\ a.value = n /\ (e = a <=> m = n)
  BY FloatFields, SMT
<1> DEFINE p == d * Precision
<1>9. p \in Int /\ (d = 0 => p = 0)
  BY <1>1, <1>2, SMT
<1>10. UnityFloatsWithin(delta, e, a) <=>
         ~(\/ diff.kind = "nan" \/ diff.kind = "inf"
           \/ delta.kind = "finite" /\ diff.value * Precision > Magnitude(delta).value)
  BY <1>7, <1>8 DEF UnityFloatsWithin, isnan, isinf
<1>11. Near(delta, e, a) <=>
         \/ m = n
         \/ d <= MaxFloat /\ (delta.kind # "finite" \/ p <= Distance(delta.value, 0))
  BY <1>8 DEF Near
<1> HIDE DEF e, a, diff, d, p
<1>12. CASE d <= MaxFloat
  <2>1. diff.kind = "finite" /\ diff.value * Precision = p
    BY <1>5, <1>12 DEF p
  <2> DEFINE t == Distance(delta.value, 0)
  <2> HIDE DEF t
  <2>2. UnityFloatsWithin(delta, e, a) <=> ~(delta.kind = "finite" /\ p > t)
    BY <1>6, <1>10, <2>1 DEF t
  <2>3. delta.kind = "finite" => t \in Nat
    BY <1>6 DEF t
  <2>4. Near(delta, e, a) <=> m = n \/ delta.kind # "finite" \/ p <= t
    BY <1>11, <1>12 DEF t
  <2>5. UnityFloatsWithin(delta, e, a) <=> Near(delta, e, a)
    BY <1>2, <1>9, <2>2, <2>3, <2>4, SMT
  <2> QED
    BY <2>5 DEF e, a
<1>13. CASE d > MaxFloat
  <2>1. diff.kind = "inf" /\ m # n
    BY <1>1, <1>2, <1>4, <1>13, SMTT(20)
  <2>2. ~(d <= MaxFloat)
    BY <1>1, <1>2, <1>13, SMT
  <2>3. UnityFloatsWithin(delta, e, a) <=> Near(delta, e, a)
    BY <1>10, <1>11, <2>1, <2>2
  <2> QED
    BY <2>3 DEF e, a
<1> QED
  BY <1>1, <1>2, <1>12, <1>13, SMT

(* UnityFloatsWithin on two floats, one of them not a number or infinite. *)
LEMMA SpecialWithin ==
  ASSUME NEW delta \in FloatSet, NEW e \in FloatSet, NEW a \in FloatSet,
         e.kind # "finite" \/ a.kind # "finite"
  PROVE  UnityFloatsWithin(delta, e, a) <=> e = a
<1>1. \A x \in FloatSet : \/ x = NaN /\ x.kind = "nan"
                          \/ x = Inf(1) /\ x.kind = "inf" /\ x.value = 1
                          \/ x = Inf(-1) /\ x.kind = "inf" /\ x.value = -1
                          \/ x.kind = "finite"
  BY FloatIs, FloatFields, SMT
<1>2. Magnitude(NaN).kind = "nan" /\ Magnitude(Inf(1)).kind = "inf" /\ Magnitude(Inf(-1)).kind = "inf"
  BY DEF Magnitude, NaN, Inf
<1>3. CASE e.kind = "nan" \/ a.kind = "nan"
  <2>1. Minus(a, e) = NaN
    BY <1>3 DEF Minus, isnan
  <2> QED
    BY <1>1, <1>2, <1>3, <2>1 DEF UnityFloatsWithin, isnan, isinf
<1>4. CASE e.kind # "nan" /\ a.kind # "nan"
  <2>1. CASE e.kind = "inf" /\ a.kind = "inf"
    <3>1. e = a <=> (e.value < 0 <=> a.value < 0)
      BY <1>1, <2>1, SMT
    <3>2. e # a => Minus(a, e) = a
      BY <2>1 DEF Minus, isnan, isinf
    <3>3. a \in {Inf(1), Inf(-1)}
      BY <1>1, <2>1
    <3>4. e # a => Magnitude(Minus(a, e)).kind = "inf"
      BY <3>2, <3>3, <1>2
    <3> QED
      BY <2>1, <3>1, <3>4 DEF UnityFloatsWithin, isnan, isinf
  <2>2. CASE e.kind = "finite" /\ a.kind = "inf"
    <3>1. Minus(a, e) = a /\ a \in {Inf(1), Inf(-1)} /\ e # a
      BY <1>1, <2>2 DEF Minus, isnan, isinf
    <3>2. Magnitude(Minus(a, e)).kind = "inf"
      BY <3>1, <1>2
    <3> QED
      BY <2>2, <3>1, <3>2 DEF UnityFloatsWithin, isnan, isinf
  <2>3. CASE e.kind = "inf" /\ a.kind = "finite"
    <3>1. Minus(a, e) = Inf(-e.value) /\ e \in {Inf(1), Inf(-1)} /\ e # a
      BY <1>1, <2>3 DEF Minus, isnan, isinf
    <3>2. Minus(a, e) \in {Inf(1), Inf(-1)}
      BY <3>1, FloatFields, SMT
    <3>3. Magnitude(Minus(a, e)).kind = "inf"
      BY <3>2, <1>2
    <3> QED
      BY <2>3, <3>1, <3>3 DEF UnityFloatsWithin, isnan, isinf
  <2> QED
    BY <1>1, <1>4, <2>1, <2>2, <2>3
<1> QED
  BY <1>3, <1>4

(* UnityFloatsWithin decides by Near. *)
LEMMA WithinIsNear ==
  ASSUME NEW delta \in FloatSet, NEW e \in FloatSet, NEW a \in FloatSet
  PROVE  UnityFloatsWithin(delta, e, a) <=> Near(delta, e, a)
<1>1. CASE e.kind = "finite" /\ a.kind = "finite"
  <2>1. PICK m \in -MaxFloat .. MaxFloat : e = Finite(m)
    BY <1>1, FloatIs, FloatFields
  <2>2. PICK n \in -MaxFloat .. MaxFloat : a = Finite(n)
    BY <1>1, FloatIs, FloatFields
  <2> QED
    BY <2>1, <2>2, FiniteWithin
<1>2. CASE ~(e.kind = "finite" /\ a.kind = "finite")
  BY <1>2, SpecialWithin DEF Near
<1> QED
  BY <1>1, <1>2

(* The trait asked for; no float has one that is not known. *)
HasTrait(x, trait) ==
  \/ trait = "INF" /\ x = Inf(1)
  \/ trait = "NEG_INF" /\ x = Inf(-1)
  \/ trait = "NAN" /\ x = NaN
  \/ trait = "DET" /\ x.kind = "finite"

(* UnityAssertFloatSpecial passes exactly when the float has the trait, or *)
(* lacks it if it should, and never for a trait that is not known.         *)
LEMMA SpecialIs ==
  ASSUME NEW x \in FloatSet, NEW should \in BOOLEAN
  PROVE  /\ \A trait \in Traits \ {"INVALID"} :
              IF HasTrait(x, trait) <=> should
              THEN UnityAssertFloatSpecial(x, trait, should) = Pass
              ELSE UnityAssertFloatSpecial(x, trait, should) = Pointless
         /\ UnityAssertFloatSpecial(x, "INVALID", should) = Pointless
<1>1. \/ x = NaN /\ x.kind = "nan" /\ x.value = 0
      \/ x = Inf(1) /\ x.kind = "inf" /\ x.value = 1
      \/ x = Inf(-1) /\ x.kind = "inf" /\ x.value = -1
      \/ x.kind = "finite"
  BY FloatIs, FloatFields
<1>2. x # Inf(1) \/ x # Inf(-1)
  BY FloatFields, SMT
<1>3. NaN.kind = "nan" /\ Inf(1).kind = "inf" /\ Inf(-1).kind = "inf" /\ Inf(1).value = 1 /\ Inf(-1).value = -1
  BY FloatFields
<1>4. UnityAssertFloatSpecial(x, "INF", should) =
         IF (isinf(x) /\ x.value > 0) # should THEN Pointless ELSE Pass
  BY DEF UnityAssertFloatSpecial, Pointless
<1>5. UnityAssertFloatSpecial(x, "NEG_INF", should) =
         IF (isinf(x) /\ x.value < 0) # should THEN Pointless ELSE Pass
  BY DEF UnityAssertFloatSpecial, Pointless
<1>6. UnityAssertFloatSpecial(x, "NAN", should) = IF isnan(x) # should THEN Pointless ELSE Pass
  BY DEF UnityAssertFloatSpecial, Pointless
<1>7. UnityAssertFloatSpecial(x, "DET", should) =
         IF (~isinf(x) /\ ~isnan(x)) # should THEN Pointless ELSE Pass
  BY DEF UnityAssertFloatSpecial, Pointless
<1>8. UnityAssertFloatSpecial(x, "INVALID", should) = Pointless
  BY DEF UnityAssertFloatSpecial, Pointless
<1>9. /\ HasTrait(x, "INF") <=> (isinf(x) /\ x.value > 0)
      /\ HasTrait(x, "NEG_INF") <=> (isinf(x) /\ x.value < 0)
      /\ HasTrait(x, "NAN") <=> isnan(x)
      /\ HasTrait(x, "DET") <=> (~isinf(x) /\ ~isnan(x))
  BY <1>1, <1>2, <1>3, SMT DEF HasTrait, isinf, isnan
<1> DEFINE Decides(trait) ==
      IF HasTrait(x, trait) <=> should
      THEN UnityAssertFloatSpecial(x, trait, should) = Pass
      ELSE UnityAssertFloatSpecial(x, trait, should) = Pointless
<1>10. Decides("INF")
  BY <1>4, <1>9
<1>11. Decides("NEG_INF")
  BY <1>5, <1>9
<1>12. Decides("NAN")
  BY <1>6, <1>9 DEF isnan
<1>13. Decides("DET")
  BY <1>7, <1>9
<1> HIDE DEF Decides
<1>14. \A trait \in Traits \ {"INVALID"} : Decides(trait)
  BY <1>10, <1>11, <1>12, <1>13 DEF Traits
<1> QED
  BY <1>8, <1>14 DEF Decides

(* Every float has exactly one trait. *)
LEMMA OneTrait ==
  ASSUME NEW x \in FloatSet
  PROVE  Cardinality({t \in Traits \ {"INVALID"} :
                        UnityAssertFloatSpecial(x, t, TRUE) = Pass}) = 1
<1> DEFINE Has == {t \in Traits \ {"INVALID"} : UnityAssertFloatSpecial(x, t, TRUE) = Pass}
<1>1. Pass # Pointless
  BY VerdictIs, SMT DEF Pointless
<1>2. Has = {t \in Traits \ {"INVALID"} : HasTrait(x, t)}
  BY <1>1, SpecialIs
<1>3. \/ x = NaN /\ x.kind = "nan"
      \/ x = Inf(1) /\ x.kind = "inf" /\ x.value = 1
      \/ x = Inf(-1) /\ x.kind = "inf" /\ x.value = -1
      \/ x.kind = "finite"
  BY FloatIs, FloatFields
<1>4. NaN.kind = "nan" /\ Inf(1).kind = "inf" /\ Inf(-1).kind = "inf" /\ Inf(1).value = 1 /\ Inf(-1).value = -1
  BY FloatFields
<1>5. \E u \in Traits \ {"INVALID"} : \A t \in Traits \ {"INVALID"} : HasTrait(x, t) <=> t = u
  <2>1. CASE x = NaN /\ x.kind = "nan"
    <3>1. \A t \in Traits \ {"INVALID"} : HasTrait(x, t) <=> t = "NAN"
      BY <1>4, <2>1 DEF HasTrait, Traits
    <3> QED
      BY <3>1 DEF Traits
  <2>2. CASE x = Inf(1) /\ x.kind = "inf" /\ x.value = 1
    <3>1. \A t \in Traits \ {"INVALID"} : HasTrait(x, t) <=> t = "INF"
      BY <1>4, <2>2, SMT DEF HasTrait, Traits
    <3> QED
      BY <3>1 DEF Traits
  <2>3. CASE x = Inf(-1) /\ x.kind = "inf" /\ x.value = -1
    <3>1. \A t \in Traits \ {"INVALID"} : HasTrait(x, t) <=> t = "NEG_INF"
      BY <1>4, <2>3, SMT DEF HasTrait, Traits
    <3> QED
      BY <3>1 DEF Traits
  <2>4. CASE x.kind = "finite"
    <3>1. \A t \in Traits \ {"INVALID"} : HasTrait(x, t) <=> t = "DET"
      BY <1>4, <2>4 DEF HasTrait, Traits
    <3> QED
      BY <3>1 DEF Traits
  <2> QED
    BY <1>3, <2>1, <2>2, <2>3, <2>4
<1>6. \E u : Has = {u}
  BY <1>2, <1>5, Zenon
<1> HIDE DEF Has
<1>7. Cardinality(Has) = 1
  BY <1>6, FS_Singleton
<1> QED
  BY <1>7 DEF Has

(* Assertions on floats decide as FloatsAreCompared says. *)
LEMMA FloatStep ==
  ASSUME FloatsWithin \/ FloatSpecial
  PROVE  FloatsAreCompared'
<1>1. Floats \subseteq FloatSet
  BY ArgumentsAssumption DEF FloatSet
<1>2. CASE FloatsWithin
  <2>1. PICK d \in Floats, x \in Floats, y \in Floats :
          call' = [op |-> "FLOAT_WITHIN", tolerance |-> d, x |-> x, y |-> y]
    BY <1>2 DEF FloatsWithin, FloatCall
  <2>2. call'.op = "FLOAT_WITHIN" /\ call'.tolerance = d /\ call'.x = x /\ call'.y = y
    BY <2>1
  <2>3. result'.verdict = "pass" <=> UnityFloatsWithin(d, x, y)
    BY <1>2, <2>2, VerdictIs DEF FloatsWithin, UnityAssertFloatsWithin
  <2>4. result'.verdict = "pass" <=> Near(d, x, y)
    BY <1>1, <2>3, WithinIsNear
  <2> QED
    BY <2>2, <2>4 DEF FloatsAreCompared, Decided, Passed, Near
<1>3. CASE FloatSpecial
  <2>1. PICK x \in Floats, trait \in Traits, should \in BOOLEAN :
          call' = [op |-> "FLOAT_IS", x |-> x, trait |-> trait, should |-> should]
    BY <1>3 DEF FloatSpecial, TraitCall
  <2>2. call'.op = "FLOAT_IS" /\ call'.x = x /\ call'.trait = trait /\ call'.should = should
    BY <2>1
  <2>3. x \in FloatSet
    BY <1>1
  <2>4. result' = UnityAssertFloatSpecial(x, trait, should)
    BY <1>3, <2>2, Zenon DEF FloatSpecial
  <2>5. Cardinality({t \in Traits \ {"INVALID"} : UnityAssertFloatSpecial(x, t, TRUE) = Pass}) = 1
    BY <2>3, OneTrait
  <2>6. Pass.verdict = "pass" /\ Pointless.verdict = "fail" /\ Pass # Pointless
    BY VerdictIs, SMT DEF Pointless
  <2>7. trait = "INVALID" => result'.verdict # "pass"
    BY <2>3, <2>4, <2>6, SpecialIs
  <2>8. trait # "INVALID" =>
          (result'.verdict = "pass" <=> (UnityAssertFloatSpecial(x, trait, TRUE) = Pass <=> should))
    <3> SUFFICES ASSUME trait # "INVALID"
                 PROVE  result'.verdict = "pass" <=> (UnityAssertFloatSpecial(x, trait, TRUE) = Pass <=> should)
      OBVIOUS
    <3>1. UnityAssertFloatSpecial(x, trait, TRUE) = Pass <=> HasTrait(x, trait)
      BY <2>3, <2>6, SpecialIs
    <3>2. result'.verdict = "pass" <=> (HasTrait(x, trait) <=> should)
      BY <2>3, <2>4, <2>6, SpecialIs
    <3> QED
      BY <3>1, <3>2
  <2> QED
    BY <2>2, <2>5, <2>7, <2>8, Zenon DEF FloatsAreCompared, Decided, Passed
<1> QED
  BY <1>2, <1>3

(* So does the one on arrays of floats. *)
LEMMA FloatArrayStep ==
  ASSUME EqualFloatArray
  PROVE  FloatsAreCompared'
<1>1. PICK mem \in Memories(FloatCells), pq \in Pointers, num \in 0 .. Elements, each \in BOOLEAN :
        call' = [op |-> "FLOAT_ARRAY", floats |-> mem, p |-> pq[1], q |-> pq[2], num |-> num,
                 each |-> each]
  BY DEF EqualFloatArray, FloatArrayCall
<1> DEFINE p == pq[1]
<1> DEFINE q == pq[2]
<1>2. /\ call'.op = "FLOAT_ARRAY" /\ call'.floats = mem /\ call'.p = p /\ call'.q = q
      /\ call'.num = num /\ call'.each = each
  BY <1>1
<1>3. p # q /\ Comparable(p, q) => p = "a" /\ q = "b"
  BY PointersAre
<1>4. result' = UnityAssertEqualFloatArray(mem, p, q, num, each)
  BY <1>2, Zenon DEF EqualFloatArray
<1> HIDE DEF p, q
<1> DEFINE E(k) == mem[p][IF each THEN 1 ELSE k]
<1>5. ASSUME p # q, Comparable(p, q)
      PROVE  result'.verdict = "pass" <=> num > 0 /\ \A k \in 1 .. num : Near(E(k), E(k), mem[q][k])
  <2>1. p = "a" /\ q = "b" /\ ~UnityIsOneArrayNull(p, q)
    BY <1>3, <1>5 DEF UnityIsOneArrayNull
  <2> DEFINE differ == {k \in 1 .. num : ~UnityFloatsWithin(E(k), E(k), mem[q][k])}
  <2>2. result'.verdict = "pass" <=> num # 0 /\ differ = {}
    BY <1>4, <1>5, <2>1, VerdictIs DEF UnityAssertEqualFloatArray, Pointless
  <2>3. Elements \in Nat /\ num \in Nat /\ FloatCells \subseteq FloatSet
    BY ArgumentsAssumption, SMT DEF FloatSet
  <2>4. ASSUME NEW k \in 1 .. num PROVE E(k) \in FloatSet /\ mem[q][k] \in FloatSet
    <3>1. mem.a \in [1 .. Elements -> FloatCells] /\ mem.b \in [1 .. Elements -> FloatCells]
      BY DEF Memories
    <3>2. k \in 1 .. Elements /\ 1 \in 1 .. Elements
      BY <2>3, SMT
    <3>3. mem[p][1] \in FloatCells /\ mem[p][k] \in FloatCells /\ mem[q][k] \in FloatCells
      BY <2>1, <3>1, <3>2
    <3> QED
      BY <2>3, <3>3
  <2>5. \A k \in 1 .. num : k \in differ <=> ~Near(E(k), E(k), mem[q][k])
    BY <2>4, WithinIsNear
  <2>6. differ = {} <=> \A k \in 1 .. num : Near(E(k), E(k), mem[q][k])
    BY <2>5, Zenon
  <2> QED
    BY <2>2, <2>3, <2>6, SMT
<1> QED
  BY <1>2, <1>5, Zenon DEF FloatsAreCompared, Decided, Passed, Near

(***************************************************************************)
(* Floats are within delta of each other exactly when they are the same or *)
(* near enough, overflow, infinities and NaN included, and every float has *)
(* exactly one trait.                                                      *)
(***************************************************************************)
THEOREM FloatsCompared == Spec => []FloatsAreCompared
<1>1. Init => FloatsAreCompared
  BY DEF Init, NoCall, FloatsAreCompared, Decided
<1>2. FloatsAreCompared /\ [Next]_vars => FloatsAreCompared'
  <2> SUFFICES ASSUME FloatsAreCompared, [Next]_vars PROVE FloatsAreCompared'
    OBVIOUS
  <2>1. CASE call' = None /\ result' = None
    BY <2>1, Zenon DEF FloatsAreCompared, Decided
  <2>2. CASE Asserts
    <3>1. CASE FloatsWithin \/ FloatSpecial \/ EqualFloatArray
      BY <3>1, FloatStep, FloatArrayStep
    <3>2. CASE ~(FloatsWithin \/ FloatSpecial \/ EqualFloatArray)
      <4>1. call'.op \notin {"FLOAT_WITHIN", "FLOAT_ARRAY", "FLOAT_IS"}
        BY <2>2, <3>2, OtherCalls, NumberOps DEF Asserts
      <4> QED
        BY <4>1 DEF FloatsAreCompared, Decided
    <3> QED
      BY <3>1, <3>2
  <2>3. CASE call' = call /\ result' = result
    BY <2>3, Zenon DEF FloatsAreCompared, Decided, Passed
  <2> QED
    BY <2>1, <2>2, <2>3, LastResult
<1> QED
  BY <1>1, <1>2, PTL DEF Spec
-----------------------------------------------------------------------------
(* The runner.                                                             *)

InTest == {"setUp", "Func", "protect", "tearDown", "conclude"}

(* The lines with a verdict. *)
Count(lines, word) == Cardinality({k \in 1 .. Len(lines) : lines[k][2] \in {word}})

(* Unity's fields have their types. *)
RunnerTypes ==
  /\ pc \in {"main", "ended", "exited"} \union InTest
  /\ Unity \in [NumberOfTests : Nat, TestFailures : Nat, TestIgnores : Nat,
                CurrentTestFailed : BOOLEAN, CurrentTestIgnored : BOOLEAN,
                AbortFrame : {Stale, "first", "second"}]
  /\ verdicts \in Seq(Nat \X {"PASS", "FAIL", "IGNORE"})

(* Where a longjmp goes, and which flags may be set there. *)
RunnerControl ==
  /\ pc \in {"setUp", "Func", "protect"} => Unity.AbortFrame = "first" /\ teardowns = 0
  /\ pc = "tearDown" => Unity.AbortFrame = "second"
  /\ pc \in {"tearDown", "conclude"} => teardowns = 1
  /\ teardowns \in {0, 1}
  /\ pc \in {"main", "setUp", "Func", "ended"} => ~FailedOrIgnored
  /\ ~(Unity.CurrentTestFailed /\ Unity.CurrentTestIgnored)

(* What has been counted: the test that runs is counted as a failure or    *)
(* ignored only when it is concluded, its line is printed at once.         *)
RunnerCounts ==
  /\ Len(verdicts) <= MaxTests
  /\ \A k \in 1 .. Len(verdicts) : verdicts[k][1] = k
  /\ pc \in {"main", "ended"} => Unity.NumberOfTests = Len(verdicts)
  /\ pc \in InTest => /\ Unity.NumberOfTests = Len(verdicts) + (IF FailedOrIgnored THEN 0 ELSE 1)
                      /\ Unity.NumberOfTests <= MaxTests
  /\ Count(verdicts, "FAIL") = Unity.TestFailures + (IF Unity.CurrentTestFailed THEN 1 ELSE 0)
  /\ Count(verdicts, "IGNORE") = Unity.TestIgnores + (IF Unity.CurrentTestIgnored THEN 1 ELSE 0)
  /\ pc = "ended" => status = Unity.TestFailures

RunnerInv == RunnerTypes /\ RunnerControl /\ (MaxTests < CounterSize => RunnerCounts)

Word == {"PASS", "FAIL", "IGNORE"}
Lines == Seq(Nat \X Word)

(* A line more is counted under its word. *)
LEMMA CountAppend ==
  ASSUME NEW lines \in Lines, NEW word, NEW n \in Nat, NEW w \in Word
  PROVE  LET longer == Append(lines, <<n, w>>)
         IN  /\ longer \in Lines /\ Len(longer) = Len(lines) + 1
             /\ \A k \in 1 .. Len(lines) : longer[k] = lines[k]
             /\ longer[Len(lines) + 1] = <<n, w>>
             /\ Count(longer, word) = Count(lines, word) + (IF w = word THEN 1 ELSE 0)
             /\ Count(lines, word) \in Nat /\ Count(lines, word) <= Len(lines)
<1> DEFINE longer == Append(lines, <<n, w>>)
<1> DEFINE S == {k \in 1 .. Len(lines) : lines[k][2] \in {word}}
<1> DEFINE T == {k \in 1 .. Len(longer) : longer[k][2] \in {word}}
<1> DEFINE m == Len(lines)
<1>1. /\ longer \in Lines /\ Len(longer) = m + 1 /\ m \in Nat
      /\ \A k \in 1 .. m : longer[k] = lines[k]
      /\ longer[m + 1] = <<n, w>>
  BY SMT DEF Lines
<1> HIDE DEF longer, m
<1>2. S = {k \in 1 .. m : lines[k][2] \in {word}} /\ T = {k \in 1 .. m + 1 : longer[k][2] \in {word}}
  BY <1>1 DEF m
<1>3. IsFiniteSet(1 .. m) /\ Cardinality(1 .. m) = m
  BY <1>1, FS_Interval, SMTT(20)
<1>4. S \subseteq 1 .. m
  BY <1>2
<1>5. IsFiniteSet(S) /\ Cardinality(S) \in Nat /\ Cardinality(S) <= m
  BY <1>3, <1>4, FS_Subset, FS_CardinalityType
<1>6. m + 1 \notin S
  BY <1>1, <1>4, SMT
<1>7. w = word => T = S \cup {m + 1}
  BY <1>1, <1>2, SMT
<1>8. w # word => T = S
  BY <1>1, <1>2, SMT
<1>9. Cardinality(S \cup {m + 1}) = Cardinality(S) + 1
  BY <1>5, <1>6, FS_AddElement
<1>10. Cardinality(T) = Cardinality(S) + (IF w = word THEN 1 ELSE 0)
  <2> HIDE DEF S, T
  <2>1. CASE w = word
    BY <1>7, <1>9, <2>1
  <2>2. CASE w # word
    BY <1>5, <1>8, <2>2, SMT
  <2> QED
    BY <2>1, <2>2
<1>11. Count(longer, word) = Cardinality(T) /\ Count(lines, word) = Cardinality(S)
  BY DEF Count
<1> HIDE DEF S, T
<1> QED
  BY <1>1, <1>5, <1>10, <1>11 DEF m, longer

(* UnityBegin makes it true. *)
LEMMA RunnerStarts ==
  ASSUME Init
  PROVE  RunnerInv
<1>1. verdicts = <<>> /\ Len(verdicts) = 0 /\ pc = "main" /\ teardowns = 0
  BY DEF Init
<1>2. RunnerTypes
  BY <1>1, SMT DEF Init, RunnerTypes
<1>3. RunnerControl
  BY <1>1 DEF Init, RunnerControl, FailedOrIgnored
<1>4. Count(verdicts, "FAIL") = 0 /\ Count(verdicts, "IGNORE") = 0
  <2>1. \A word : {k \in 1 .. Len(verdicts) : verdicts[k][2] \in {word}} = {}
    BY <1>1, SMT
  <2> QED
    BY <2>1, FS_EmptySet DEF Count
<1>5. RunnerCounts
  BY <1>1, <1>4, CounterAssumption, SMT DEF Init, RunnerCounts, InTest
<1> QED
  BY <1>2, <1>3, <1>5 DEF RunnerInv

(* A step that prints no verdict and leaves what is counted alone. *)
Quiet == UNCHANGED <<Unity, verdicts, status>>

(* A step that prints one: the flag of the test is set with the line. *)
Prints ==
  /\ ~FailedOrIgnored /\ pc \in {"setUp", "Func", "tearDown"}
  /\ \/ Unity' = [Unity EXCEPT !.CurrentTestFailed = TRUE] /\ Report("FAIL")
     \/ Unity' = [Unity EXCEPT !.CurrentTestIgnored = TRUE] /\ Report("IGNORE")
  /\ TEST_ABORT
  /\ UNCHANGED <<teardowns, status>>

(* One that prints none: it returns, goes on or leaves by longjmp. *)
GoesOn ==
  /\ Quiet
  /\ UNCHANGED teardowns
  /\ \/ pc' = pc
     \/ pc \in {"setUp", "Func", "tearDown"} /\ (TEST_ABORT \/ pc' = "exited")
     \/ pc = "setUp" /\ pc' = "Func"
     \/ pc = "Func" /\ pc' = "protect"
     \/ pc = "tearDown" /\ pc' = "conclude"

(* Every step is one of the six. *)
LEMMA RunnerActions ==
  ASSUME [Next]_vars
  PROVE  RUN_TEST \/ ProtectTearDown \/ UnityConcludeTest \/ UnityEnd \/ Prints \/ GoesOn
<1>1. CASE FunctionReturns \/ ConditionHolds \/ AssertionHolds \/ TEST_PASS \/ CodeExits
  BY <1>1 DEF FunctionReturns, ConditionHolds, AssertionHolds, TEST_PASS, CodeExits, GoesOn, Quiet, MayCall
<1>2. CASE UnityFail
  BY <1>2 DEF UnityFail, Prints, GoesOn, Quiet, MayCall
<1>3. CASE UnityIgnore
  BY <1>3 DEF UnityIgnore, Prints, GoesOn, Quiet, MayCall
<1>4. CASE Assertion
  BY <1>4 DEF Assertion, Prints, GoesOn, Quiet, MayCall
<1>5. CASE UNCHANGED vars
  BY <1>5 DEF vars, GoesOn, Quiet
<1> QED
  BY <1>1, <1>2, <1>3, <1>4, <1>5 DEF Next, Step, Over

(* Control: each disjunct of the six keeps the types and the frames. *)
LEMMA ControlStep ==
  ASSUME RunnerTypes, RunnerControl, [Next]_vars
  PROVE  RunnerTypes' /\ RunnerControl'
<1> USE DEF RunnerTypes, RunnerControl, FailedOrIgnored, InTest
<1>1. \A word \in Word : Report(word) => verdicts' \in Lines
  BY SMT DEF Report, Lines, Word
<1>2. CASE RUN_TEST
  <2>1. (Unity.NumberOfTests + 1) % CounterSize \in Nat
    BY CounterAssumption, SMT
  <2> QED
    BY <1>2, <2>1 DEF RUN_TEST
<1>3. CASE ProtectTearDown
  BY <1>3 DEF ProtectTearDown
<1>4. CASE UnityConcludeTest
  <2>1. (Unity.TestIgnores + 1) % CounterSize \in Nat /\ (Unity.TestFailures + 1) % CounterSize \in Nat
    BY CounterAssumption, SMT
  <2>2. verdicts' \in Lines
    BY <1>1, <1>4 DEF UnityConcludeTest, Word, Lines
  <2> QED
    BY <1>4, <2>1, <2>2 DEF UnityConcludeTest, Lines, Word
<1>5. CASE UnityEnd
  BY <1>5 DEF UnityEnd
<1>6. CASE Prints
  <2>1. verdicts' \in Lines
    BY <1>1, <1>6 DEF Prints, Word
  <2> QED
    BY <1>6, <2>1 DEF Prints, TEST_ABORT, Lines, Word
<1>7. CASE GoesOn
  BY <1>7 DEF GoesOn, Quiet, TEST_ABORT
<1> QED
  BY <1>2, <1>3, <1>4, <1>5, <1>6, <1>7, RunnerActions

(* A counter that has not reached its size does not wrap. *)
LEMMA NoWrap ==
  ASSUME NEW n \in Nat, n < CounterSize
  PROVE  n % CounterSize = n
BY DivModIs, CounterAssumption, SMT

(* What is counted: a line more for the test that runs, and none of it     *)
(* changed when the test is concluded.                                     *)
LEMMA CountsStep ==
  ASSUME RunnerTypes, RunnerControl, RunnerCounts, MaxTests < CounterSize, [Next]_vars
  PROVE  RunnerCounts'
<1> DEFINE len == Len(verdicts)
<1> DEFINE fails == Count(verdicts, "FAIL")
<1> DEFINE ignores == Count(verdicts, "IGNORE")
<1>1. /\ verdicts \in Lines /\ len \in Nat /\ len <= MaxTests
      /\ fails \in Nat /\ ignores \in Nat /\ fails <= len /\ ignores <= len
      /\ Unity.NumberOfTests \in Nat /\ Unity.TestFailures \in Nat /\ Unity.TestIgnores \in Nat
      /\ Unity.CurrentTestFailed \in BOOLEAN /\ Unity.CurrentTestIgnored \in BOOLEAN
  <2>1. verdicts \in Lines /\ "PASS" \in Word /\ 0 \in Nat
    BY DEF RunnerTypes, Lines, Word
  <2>2. fails \in Nat /\ ignores \in Nat /\ fails <= len /\ ignores <= len
    BY <2>1, CountAppend
  <2> QED
    BY <2>1, <2>2, SMTT(20) DEF RunnerTypes, RunnerCounts, Lines
<1>2. MaxTests \in Nat /\ CounterSize \in Nat \ {0}
  BY CounterAssumption
<1>3. CASE RUN_TEST
  <2>1. Unity.NumberOfTests = len /\ len + 1 <= MaxTests
    BY <1>1, <1>2, <1>3, SMT DEF RUN_TEST, RunnerCounts
  <2>2. (Unity.NumberOfTests + 1) % CounterSize = len + 1
    BY <1>1, <1>2, <2>1, NoWrap, SMT
  <2>3. ~Unity.CurrentTestFailed /\ ~Unity.CurrentTestIgnored
    BY <1>3 DEF RUN_TEST, RunnerControl, FailedOrIgnored
  <2>4. /\ verdicts' = verdicts /\ pc' = "setUp"
        /\ Unity'.NumberOfTests = len + 1
        /\ Unity'.TestFailures = Unity.TestFailures /\ Unity'.TestIgnores = Unity.TestIgnores
        /\ Unity'.CurrentTestFailed = Unity.CurrentTestFailed
        /\ Unity'.CurrentTestIgnored = Unity.CurrentTestIgnored
    BY <1>3, <2>2 DEF RUN_TEST, RunnerTypes
  <2> QED
    BY <1>1, <1>2, <2>1, <2>3, <2>4 DEF RunnerCounts, InTest, FailedOrIgnored
<1>4. CASE ProtectTearDown
  <2>1. /\ verdicts' = verdicts /\ pc' = "tearDown" /\ pc = "protect"
        /\ Unity'.NumberOfTests = Unity.NumberOfTests
        /\ Unity'.TestFailures = Unity.TestFailures /\ Unity'.TestIgnores = Unity.TestIgnores
        /\ Unity'.CurrentTestFailed = Unity.CurrentTestFailed
        /\ Unity'.CurrentTestIgnored = Unity.CurrentTestIgnored
    BY <1>4 DEF ProtectTearDown, RunnerTypes
  <2> QED
    BY <1>1, <2>1 DEF RunnerCounts, InTest, FailedOrIgnored
<1>5. CASE UnityConcludeTest
  <2>1. /\ pc' = "main" /\ pc = "conclude"
        /\ Unity'.NumberOfTests = Unity.NumberOfTests
        /\ Unity'.TestIgnores = IF Unity.CurrentTestIgnored THEN (Unity.TestIgnores + 1) % CounterSize
                                ELSE Unity.TestIgnores
        /\ Unity'.TestFailures = IF ~Unity.CurrentTestIgnored /\ Unity.CurrentTestFailed
                                 THEN (Unity.TestFailures + 1) % CounterSize ELSE Unity.TestFailures
        /\ ~Unity'.CurrentTestFailed /\ ~Unity'.CurrentTestIgnored
        /\ ~(Unity.CurrentTestFailed /\ Unity.CurrentTestIgnored)
    BY <1>5 DEF UnityConcludeTest, RunnerTypes, RunnerControl
  <2>2. Unity.CurrentTestIgnored => Unity'.TestIgnores = ignores
    <3>1. Unity.CurrentTestIgnored => ignores = Unity.TestIgnores + 1
      BY DEF RunnerCounts
    <3>2. ignores % CounterSize = ignores
      BY <1>1, <1>2, NoWrap, SMT
    <3> QED
      BY <2>1, <3>1, <3>2
  <2>3. Unity.CurrentTestFailed => Unity'.TestFailures = fails
    <3>1. Unity.CurrentTestFailed => fails = Unity.TestFailures + 1
      BY DEF RunnerCounts
    <3>2. fails % CounterSize = fails
      BY <1>1, <1>2, NoWrap, SMTT(20)
    <3> QED
      BY <2>1, <3>1, <3>2
  <2>4. Unity'.TestFailures = fails /\ Unity'.TestIgnores = ignores
    BY <1>1, <2>1, <2>2, <2>3, SMT DEF RunnerCounts
  <2>5. CASE FailedOrIgnored
    <3>1. verdicts' = verdicts
      BY <1>5, <2>5 DEF UnityConcludeTest
    <3> QED
      BY <1>1, <2>1, <2>4, <2>5, <3>1, SMT DEF RunnerCounts, InTest, FailedOrIgnored
  <2>6. CASE ~FailedOrIgnored
    <3>1. verdicts' = Append(verdicts, <<Unity.NumberOfTests, "PASS">>)
      BY <1>5, <2>6 DEF UnityConcludeTest, Report
    <3>2. "PASS" \in Word
      BY DEF Word
    <3>3. /\ Len(verdicts') = len + 1
          /\ \A k \in 1 .. len : verdicts'[k] = verdicts[k]
          /\ verdicts'[len + 1] = <<Unity.NumberOfTests, "PASS">>
          /\ Count(verdicts', "FAIL") = fails /\ Count(verdicts', "IGNORE") = ignores
      BY <1>1, <3>1, <3>2, CountAppend, SMT
    <3>4. Unity.NumberOfTests = len + 1 /\ len + 1 <= MaxTests
      BY <1>1, <2>1, <2>6 DEF RunnerCounts, InTest
    <3>5. \A k \in 1 .. len + 1 : verdicts'[k][1] = k
      BY <1>1, <3>3, <3>4, SMT DEF RunnerCounts
    <3> HIDE DEF len, fails, ignores
    <3> QED
      BY <1>1, <2>1, <2>4, <3>3, <3>4, <3>5, SMT DEF RunnerCounts, InTest, FailedOrIgnored
  <2> QED
    BY <2>5, <2>6
<1>6. CASE UnityEnd
  <2>1. verdicts' = verdicts /\ Unity' = Unity /\ pc = "main" /\ pc' = "ended" /\ status' = Unity.TestFailures
    BY <1>6 DEF UnityEnd
  <2> QED
    BY <1>1, <2>1 DEF RunnerCounts, InTest, FailedOrIgnored
<1>7. CASE Prints
  <2> DEFINE Sets(word) ==
        /\ Unity'.NumberOfTests = Unity.NumberOfTests
        /\ Unity'.TestFailures = Unity.TestFailures /\ Unity'.TestIgnores = Unity.TestIgnores
        /\ Unity'.CurrentTestFailed <=> word = "FAIL"
        /\ Unity'.CurrentTestIgnored <=> word = "IGNORE"
        /\ verdicts' = Append(verdicts, <<Unity.NumberOfTests, word>>)
  <2>1. PICK word \in {"FAIL", "IGNORE"} : Sets(word)
    <3>1. CASE Unity' = [Unity EXCEPT !.CurrentTestFailed = TRUE] /\ Report("FAIL")
      <4>1. Sets("FAIL")
        BY <1>7, <3>1 DEF Prints, Report, FailedOrIgnored, RunnerTypes
      <4> QED
        BY <4>1
    <3>2. CASE Unity' = [Unity EXCEPT !.CurrentTestIgnored = TRUE] /\ Report("IGNORE")
      <4>1. Sets("IGNORE")
        BY <1>7, <3>2 DEF Prints, Report, FailedOrIgnored, RunnerTypes
      <4> QED
        BY <4>1
    <3> QED
      BY <1>7, <3>1, <3>2 DEF Prints
  <2>2. /\ pc' \in InTest /\ pc \in InTest
        /\ ~Unity.CurrentTestFailed /\ ~Unity.CurrentTestIgnored
    BY <1>7 DEF Prints, TEST_ABORT, RunnerTypes, RunnerControl, InTest, FailedOrIgnored
  <2>3. word \in Word
    BY DEF Word
  <2>4. /\ Len(verdicts') = len + 1
        /\ \A k \in 1 .. len : verdicts'[k] = verdicts[k]
        /\ verdicts'[len + 1] = <<Unity.NumberOfTests, word>>
        /\ Count(verdicts', "FAIL") = fails + (IF word = "FAIL" THEN 1 ELSE 0)
        /\ Count(verdicts', "IGNORE") = ignores + (IF word = "IGNORE" THEN 1 ELSE 0)
    BY <1>1, <2>1, <2>3, CountAppend, SMT
  <2>5. Unity.NumberOfTests = len + 1 /\ len + 1 <= MaxTests
    BY <1>1, <2>2 DEF RunnerCounts, FailedOrIgnored
  <2>6. \A k \in 1 .. len + 1 : verdicts'[k][1] = k
    BY <1>1, <2>4, <2>5, SMT DEF RunnerCounts
  <2>7. fails = Unity.TestFailures /\ ignores = Unity.TestIgnores
    BY <1>1, <2>2, SMT DEF RunnerCounts
  <2>8. pc' \notin {"main", "ended"}
    BY <2>2 DEF InTest
  <2> HIDE DEF len, fails, ignores
  <2> QED
    BY <1>1, <2>1, <2>2, <2>4, <2>5, <2>6, <2>7, <2>8, SMT DEF RunnerCounts, FailedOrIgnored
<1>8. CASE GoesOn
  <2>1. verdicts' = verdicts /\ Unity' = Unity /\ status' = status
    BY <1>8 DEF GoesOn, Quiet
  <2>2. pc' = pc \/ (pc \in InTest /\ pc' \in InTest) \/ pc' = "exited"
    BY <1>8 DEF GoesOn, TEST_ABORT, InTest, RunnerControl, RunnerTypes
  <2>3. "main" \notin InTest /\ "ended" \notin InTest /\ "exited" \notin InTest
    BY DEF InTest
  <2> QED
    BY <2>1, <2>2, <2>3 DEF RunnerCounts, FailedOrIgnored
<1> QED
  BY <1>3, <1>4, <1>5, <1>6, <1>7, <1>8, RunnerActions

(***************************************************************************)
(* The runner's inductive invariant holds in every state of every suite.   *)
(***************************************************************************)
THEOREM RunnerInvariant == Spec => []RunnerInv
<1>1. Init => RunnerInv
  BY RunnerStarts
<1>2. RunnerInv /\ [Next]_vars => RunnerInv'
  BY ControlStep, CountsStep DEF RunnerInv
<1> QED
  BY <1>1, <1>2, PTL DEF Spec

(***************************************************************************)
(* The summary of UnityEnd is what was printed, for every suite of fewer   *)
(* tests than the counters hold, whatever setUp, the tests and tearDown    *)
(* call: one verdict per test, its failures and ignored tests counted as   *)
(* printed, the exit status the number of FAIL lines.                      *)
(***************************************************************************)
THEOREM SummaryHolds == Spec => []SummaryIsTheOutput
<1>1. RunnerInv => SummaryIsTheOutput
  <2> SUFFICES ASSUME RunnerInv, pc \in {"main", "ended"}, MaxTests < CounterSize
               PROVE  /\ Unity.NumberOfTests = Len(verdicts)
                      /\ \A k \in 1 .. Len(verdicts) : verdicts[k][1] = k
                      /\ Unity.TestFailures = Cardinality(Verdicts({"FAIL"}))
                      /\ Unity.TestIgnores = Cardinality(Verdicts({"IGNORE"}))
                      /\ pc = "ended" => status = Cardinality(Verdicts({"FAIL"}))
    BY DEF SummaryIsTheOutput
  <2>1. RunnerCounts /\ ~FailedOrIgnored /\ Unity.TestFailures \in Nat /\ Unity.TestIgnores \in Nat
    BY DEF RunnerInv, RunnerControl, RunnerTypes
  <2>2. \A word : Cardinality(Verdicts({word})) = Count(verdicts, word)
    BY DEF Verdicts, Count
  <2> QED
    BY <2>1, <2>2, SMT DEF RunnerCounts, FailedOrIgnored
<1> QED
  BY <1>1, RunnerInvariant, PTL

(***************************************************************************)
(* No test goes on after its verdict, and none starts with one: in setUp   *)
(* and in the test itself neither flag is set and no line bears its        *)
(* number.                                                                 *)
(***************************************************************************)
THEOREM VerdictStops == Spec => []VerdictStopsTheTest
<1>1. RunnerInv => VerdictStopsTheTest
  <2> SUFFICES ASSUME RunnerInv, pc \in {"setUp", "Func"}
               PROVE  /\ ~FailedOrIgnored
                      /\ MaxTests < CounterSize =>
                            \A k \in 1 .. Len(verdicts) : verdicts[k][1] # Unity.NumberOfTests
    BY DEF VerdictStopsTheTest
  <2>1. ~FailedOrIgnored /\ pc \in InTest /\ Len(verdicts) \in Nat
    BY SMT DEF RunnerInv, RunnerControl, RunnerTypes, InTest
  <2>2. ASSUME MaxTests < CounterSize
        PROVE  \A k \in 1 .. Len(verdicts) : verdicts[k][1] # Unity.NumberOfTests
    <3>1. RunnerCounts
      BY <2>2 DEF RunnerInv
    <3> QED
      BY <2>1, <3>1, SMT DEF RunnerCounts
  <2> QED
    BY <2>1, <2>2
<1> QED
  BY <1>1, RunnerInvariant, PTL

(***************************************************************************)
(* tearDown is entered once for each test, whichever function leaves by    *)
(* longjmp, and every longjmp finds its frame.                             *)
(***************************************************************************)
THEOREM TearDownRunsOnce == Spec => []TearDownOnce
<1>1. RunnerInv => TearDownOnce
  BY DEF RunnerInv, RunnerControl, RunnerTypes, InTest, TearDownOnce
<1> QED
  BY <1>1, RunnerInvariant, PTL
=============================================================================
