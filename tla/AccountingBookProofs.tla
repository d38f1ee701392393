------------------------ MODULE AccountingBookProofs ------------------------
(***************************************************************************)
(* Theorems about the accounting book, for any number of vertices, wallets *)
(* and handlers and any size of its buffers.  First its inductive          *)
(* invariant, what its operators compute (ancestors and sums of spice) and *)
(* the steps that keep the invariant; then the theorems: the invariants,   *)
(* the ledger it implements, the storage it settles and the funds of what  *)
(* it references.                                                          *)
(***************************************************************************)
EXTENDS BookLedger, SequenceTheorems, FiniteSetTheorems, WellFoundedInduction, TLAPS

(* The provers to try on a leaf, with their time limits in seconds. *)
USE ZenonT(5), SMTT(20)

(* The lock ab.mux has one holder. *)
Holds(th) == thread[th].at \in {"scan", "parents", "send", "panic"}
OneHolder == \A th, u \in Thread : Holds(th) /\ Holds(u) => th = u

(* What is memorised or published is signed. *)
RepliesSigned ==
  /\ \A i \in 1..Len(members) : IsSigned(members[i].vrx)
  /\ \A i \in 1..Len(pub) : IsSigned(pub[i].vrx)

(* The leaves still to be scanned are leaves, those found valid are in the  *)
(* DAG.                                                                     *)
ScansLeaves(th) ==
  thread[th].at = "scan" =>
    /\ thread[th].todo \subseteq Leaves
    /\ \A i \in 1..Len(thread[th].valid) :
         thread[th].valid[i] \in dag /\ thread[th].valid[i] \notin thread[th].todo

(* A vertex being added is signed, and the parents the handler has looked   *)
(* at are in the DAG.                                                       *)
SawParents(th) ==
  thread[th].at \in {"add", "parents"} =>
    LET v == signed[thread[th].m.vrx]
    IN  /\ IsSigned(thread[th].m.vrx)
        /\ \/ thread[th].todo = <<v.left, v.right>>
           \/ /\ thread[th].at = "parents"
              /\ thread[th].todo = <<v.right>> /\ v.left \in dag
           \/ /\ thread[th].at = "parents"
              /\ thread[th].todo = <<>> /\ v.left \in dag /\ v.right \in dag

ThreadOK(th) == ScansLeaves(th) /\ SawParents(th)

(* Nothing works on a DAG that is not loaded. *)
StartsEmpty ==
  /\ ~ dagLoaded => /\ \A th \in Thread : thread[th] = Idle
                    /\ members = <<>> /\ pub = <<>>
  /\ loader = "none" => /\ ~ dagLoaded
                        /\ dag = {} /\ edges = {} /\ stored = {}
                        /\ \A t \in Trx : trxsToVertx[t] = NoVertex

BookInv ==
  /\ ShapeOK
  /\ TrxIndexed /\ StoredOnce /\ EdgesAreParents
  /\ OneHolder /\ RepliesSigned /\ StartsEmpty
  /\ \A th \in Thread : ThreadOK(th)

(* NewAccountingBook makes an empty book. *)
LEMMA InitHolds ==
  ASSUME Init
  PROVE  BookInv
<1>1. ShapeOK
  <2>1. /\ <<>> \in Seq(Memory) /\ <<>> \in Seq(Nat) /\ Len(<<>>) = 0
    BY EmptySeq
  <2>2. ReplierTypeOK /\ truncateSignal \in Seq(Nat) /\ Len(truncateSignal) <= InitialThroughput
    BY <2>1, BookAssumption, ReplierAssumption DEF Init, ReplierTypeOK, ReplierInit
  <2>3. /\ signed \in [Vertex -> VertexRecord \cup {NoVertex}] /\ trxsToVertx \in [Trx -> Hash]
        /\ thread \in [Thread -> ThreadState] /\ truncator \in TruncatorState
    BY DEF Init, Hash, ThreadState, TruncatorState
  <2> QED
    BY <2>2, <2>3, BookAssumption DEF Init, ShapeOK
<1>2. TrxIndexed /\ StoredOnce /\ EdgesAreParents
  BY DEF Init, TrxIndexed, StoredOnce, EdgesAreParents
<1>3. \A th \in Thread : thread[th] = Idle
  BY DEF Init
<1>4. OneHolder /\ StartsEmpty /\ \A th \in Thread : ThreadOK(th)
  BY <1>3 DEF Init, ReplierInit, OneHolder, Holds, StartsEmpty, ThreadOK, ScansLeaves, SawParents, Idle
<1>5. RepliesSigned
  <2>1. members = <<>> /\ pub = <<>>
    BY DEF Init, ReplierInit
  <2>2. Len(members) = 0 /\ Len(pub) = 0
    BY <2>1
  <2> QED
    BY <2>2 DEF RepliesSigned
<1> QED
  BY <1>1, <1>2, <1>4, <1>5 DEF BookInv

(* A book in which no call is under way promises nothing of its threads.    *)
LEMMA AllIdle ==
  ASSUME \A th \in Thread : thread'[th] = Idle
  PROVE  OneHolder' /\ \A th \in Thread : ThreadOK(th)'
<1>1. \A th \in Thread : thread'[th].at = "idle"
  BY DEF Idle
<1>2. OneHolder'
  BY <1>1 DEF OneHolder, Holds
<1>3. \A th \in Thread : ThreadOK(th)'
  BY <1>1 DEF ThreadOK, ScansLeaves, SawParents
<1> QED
  BY <1>2, <1>3

-----------------------------------------------------------------------------
(* Numbers *)

(* Vertices can be counted. *)
LEMMA CountsVertices ==
  ASSUME NEW S \in SUBSET Vertex
  PROVE  Cardinality(S) \in Nat
BY BookAssumption, FS_Subset, FS_CardinalityType

(* The larger of two numbers, as updateWeightAndThroughput and calcNewWeight *)
(* take it, is one of them.                                                 *)
LEMMA MaxOfTwo ==
  ASSUME NEW a \in Nat, NEW b \in Nat
  PROVE  Max({a, b}) \in {a, b}
<1>1. \E x \in {a, b} : \A y \in {a, b} : x >= y
  <2>1. CASE a >= b
    BY <2>1
  <2>2. CASE ~ (a >= b)
    BY <2>2
  <2> QED
    BY <2>1, <2>2
<1> QED
  BY <1>1 DEF Max

-----------------------------------------------------------------------------
(* Ancestors *)

(* Every set of numbers that is not empty has a least element. *)
LEMMA LeastNumber ==
  ASSUME NEW T, T \subseteq Nat, T # {}
  PROVE  \E n \in T : \A m \in T : ~(m < n)
<1>1. PICK n \in T : \A m \in T : ~ (<<m, n>> \in OpToRel(<, Nat))
  BY NatLessThanWellFounded, WFMin
<1> QED
  BY <1>1 DEF OpToRel

(* f: what a walk from h along E has visited after 0, 1, .. n rounds. *)
IsWalk(f, E, h, n) ==
  f = [k \in 0..n |-> IF k = 0
                      THEN ParentsIn(E, h)
                      ELSE UNION {{x} \cup ParentsIn(E, x) : x \in f[k - 1]}]

(* A walk of any number of rounds is well defined. *)
LEMMA WalkExists ==
  ASSUME NEW E, NEW h
  PROVE  \A n \in Nat : \E f : IsWalk(f, E, h, n)
<1> DEFINE T == {n \in Nat : ~ \E f : IsWalk(f, E, h, n)}
<1> SUFFICES ASSUME T # {} PROVE FALSE
  OBVIOUS
<1>1. PICK n \in T : \A m \in T : ~(m < n)
  BY LeastNumber
<1>2. n # 0
  <2>1. IsWalk([k \in 0..0 |-> ParentsIn(E, h)], E, h, 0)
    BY DEF IsWalk
  <2> QED
    BY <2>1
<1>3. n - 1 \in Nat /\ n - 1 \notin T
  BY <1>1, <1>2
<1>4. PICK f : IsWalk(f, E, h, n - 1)
  BY <1>3
<1> DEFINE Up(S) == UNION {{x} \cup ParentsIn(E, x) : x \in S}
           g == [k \in 0..n |-> IF k < n THEN f[k] ELSE Up(f[n - 1])]
<1>5. g = [k \in 0..n |-> IF k = 0 THEN ParentsIn(E, h) ELSE Up(g[k - 1])]
  <2>1. ASSUME NEW k \in 0..(n - 1)
        PROVE  f[k] = IF k = 0 THEN ParentsIn(E, h) ELSE Up(f[k - 1])
    BY <1>3, <1>4 DEF IsWalk
  <2> HIDE DEF Up
  <2> QED
    BY <1>2, <1>3, <2>1
<1> QED
  BY <1>5 DEF IsWalk

(* Parents are vertices. *)
LEMMA ParentsInVertex ==
  ASSUME NEW E, E \subseteq Vertex \X Vertex, NEW x
  PROVE  ParentsIn(E, x) \subseteq Vertex
BY DEF ParentsIn

(* The walk that finds the ancestors, as long as there are vertices. *)
LEMMA AncestorsWalk ==
  ASSUME NEW E, NEW h
  PROVE  /\ Cardinality(Vertex) \in Nat
         /\ \E f : /\ AncestorsIn(E, h) = f[Cardinality(Vertex)]
                   /\ f[0] = ParentsIn(E, h)
                   /\ \A k \in 1..Cardinality(Vertex) :
                        f[k] = UNION {{x} \cup ParentsIn(E, x) : x \in f[k - 1]}
<1> DEFINE N == Cardinality(Vertex)
           f == CHOOSE g : IsWalk(g, E, h, N)
<1>1. N \in Nat
  BY BookAssumption, FS_CardinalityType
<1>2. IsWalk(f, E, h, N)
  BY <1>1, WalkExists
<1>3. AncestorsIn(E, h) = f[N]
  BY DEF AncestorsIn, IsWalk
<1> HIDE DEF f, N
<1>4. \A k \in 0..N : f[k] = IF k = 0 THEN ParentsIn(E, h)
                             ELSE UNION {{x} \cup ParentsIn(E, x) : x \in f[k - 1]}
  BY <1>2 DEF IsWalk
<1>5. 0 \in 0..N /\ \A k \in 1..N : k \in 0..N /\ k # 0
  BY <1>1
<1>6. f[0] = ParentsIn(E, h)
  BY <1>4, <1>5
<1>7. \A k \in 1..N : f[k] = UNION {{x} \cup ParentsIn(E, x) : x \in f[k - 1]}
  BY <1>4, <1>5
<1> QED
  BY <1>1, <1>3, <1>6, <1>7 DEF N

(* A walk over the ancestors ends with all of them: no parent of one is left *)
(* out.                                                                      *)
LEMMA AncestorsClosed ==
  ASSUME NEW E, E \subseteq Vertex \X Vertex, NEW h
  PROVE  /\ AncestorsIn(E, h) \subseteq Vertex
         /\ \A x \in AncestorsIn(E, h) : ParentsIn(E, x) \subseteq AncestorsIn(E, h)
<1>1. PICK N, f : /\ N = Cardinality(Vertex) /\ N \in Nat
                  /\ AncestorsIn(E, h) = f[N]
                  /\ f[0] = ParentsIn(E, h)
                  /\ \A k \in 1..N : f[k] = UNION {{x} \cup ParentsIn(E, x) : x \in f[k - 1]}
  BY AncestorsWalk
<1> DEFINE Closed(S) == \A x \in S : ParentsIn(E, x) \subseteq S
           Good(k) == f[k] \subseteq Vertex /\ (Closed(f[k]) \/ Cardinality(f[k]) >= k)
<1>2. Good(0)
  <2>1. f[0] \subseteq Vertex
    BY <1>1, ParentsInVertex
  <2>2. Cardinality(f[0]) \in Nat
    BY <2>1, BookAssumption, FS_Subset, FS_CardinalityType
  <2> QED
    BY <2>1, <2>2
<1>3. ASSUME NEW k \in 1..N, Good(k - 1) PROVE Good(k)
  <2>1. f[k - 1] \subseteq f[k] /\ f[k] \subseteq Vertex
    BY <1>1, <1>3, ParentsInVertex
  <2>2. \A x \in f[k - 1] : ParentsIn(E, x) \subseteq f[k]
    BY <1>1
  <2>3. CASE Closed(f[k - 1])
    <3>1. f[k] \subseteq f[k - 1]
      BY <1>1, <2>3
    <3>2. f[k] = f[k - 1]
      BY <2>1, <3>1
    <3>3. Closed(f[k])
      BY <2>3, <3>2
    <3> QED
      BY <2>1, <3>3
  <2>4. CASE ~ Closed(f[k - 1])
    <3>1. PICK y : y \in f[k] /\ y \notin f[k - 1]
      BY <2>2, <2>4
    <3>2. IsFiniteSet(f[k]) /\ IsFiniteSet(f[k - 1])
      BY <2>1, BookAssumption, FS_Subset
    <3>3. Cardinality(f[k - 1] \cup {y}) = Cardinality(f[k - 1]) + 1
      BY <3>1, <3>2, FS_AddElement
    <3>4. Cardinality(f[k - 1] \cup {y}) <= Cardinality(f[k])
      BY <2>1, <3>1, <3>2, BookAssumption, FS_Subset
    <3>5. Cardinality(f[k]) \in Nat /\ Cardinality(f[k - 1]) \in Nat /\ Cardinality(f[k - 1]) >= k - 1
      BY <1>3, <2>4, <3>2, FS_CardinalityType
    <3>6. Cardinality(f[k]) >= k
      BY <3>3, <3>4, <3>5
    <3> QED
      BY <2>1, <3>6
  <2> QED
    BY <2>3, <2>4
<1>4. Good(N)
  <2> HIDE DEF Good
  <2> SUFFICES ASSUME ~ Good(N) PROVE FALSE
    OBVIOUS
  <2> DEFINE T == {k \in 0..N : ~ Good(k)}
  <2>1. T \subseteq Nat /\ T # {}
    BY <1>1
  <2>2. PICK k \in T : \A m \in T : ~(m < k)
    BY <2>1, LeastNumber
  <2>3. k \in 1..N
    BY <1>1, <1>2, <2>2
  <2>4. Good(k - 1)
    BY <1>1, <2>2, <2>3
  <2> QED
    BY <1>3, <2>2, <2>3, <2>4
<1>5. Closed(f[N])
  <2>1. CASE Cardinality(f[N]) >= N
    <3>1. f[N] \subseteq Vertex /\ Cardinality(f[N]) <= Cardinality(Vertex) /\ Cardinality(f[N]) \in Nat
      BY <1>4, BookAssumption, FS_Subset, FS_CardinalityType
    <3>2. Cardinality(f[N]) = Cardinality(Vertex)
      BY <1>1, <2>1, <3>1
    <3>3. f[N] = Vertex
      BY <3>1, <3>2, BookAssumption, FS_Subset
    <3> QED
      BY <3>3, ParentsInVertex
  <2> QED
    BY <1>4, <2>1
<1> QED
  BY <1>1, <1>4, <1>5

(* Edges into a vertex without children lead to no ancestor of another one. *)
LEMMA AncestorsSame ==
  ASSUME NEW E, NEW F, NEW x, NEW h, h # x,
         \A e \in E \cup F : e[1] # x,
         \A y : y # x => ParentsIn(E, y) = ParentsIn(F, y)
  PROVE  AncestorsIn(E, h) = AncestorsIn(F, h) /\ x \notin AncestorsIn(E, h)
<1> DEFINE N == Cardinality(Vertex)
<1>1. N \in Nat
  BY AncestorsWalk
<1>2. PICK f : /\ AncestorsIn(E, h) = f[N]
               /\ f[0] = ParentsIn(E, h)
               /\ \A k \in 1..N : f[k] = UNION {{y} \cup ParentsIn(E, y) : y \in f[k - 1]}
  BY AncestorsWalk
<1>3. PICK g : /\ AncestorsIn(F, h) = g[N]
               /\ g[0] = ParentsIn(F, h)
               /\ \A k \in 1..N : g[k] = UNION {{y} \cup ParentsIn(F, y) : y \in g[k - 1]}
  BY AncestorsWalk
<1> DEFINE Bad(k) == ~ (f[k] = g[k] /\ x \notin f[k])
           T == {k \in 0..N : Bad(k)}
<1>4. \A y : x \notin ParentsIn(E, y)
  BY DEF ParentsIn
<1>5. ~ Bad(0)
  BY <1>2, <1>3, <1>4
<1>6. ASSUME NEW k \in 1..N, ~ Bad(k - 1) PROVE ~ Bad(k)
  <2>1. f[k - 1] = g[k - 1] /\ \A y \in f[k - 1] : y # x
    BY <1>6
  <2>2. f[k] = UNION {{y} \cup ParentsIn(E, y) : y \in f[k - 1]}
    BY <1>2
  <2>3. g[k] = UNION {{y} \cup ParentsIn(F, y) : y \in f[k - 1]}
    BY <1>3, <2>1
  <2>4. f[k] = g[k]
    BY <2>1, <2>2, <2>3
  <2>5. x \notin f[k]
    BY <1>4, <2>1, <2>2
  <2> QED
    BY <2>4, <2>5
<1> HIDE DEF Bad, N
<1>7. ~ Bad(N)
  <2> SUFFICES ASSUME Bad(N) PROVE FALSE
    OBVIOUS
  <2>1. T \subseteq Nat /\ T # {}
    BY <1>1
  <2>2. PICK k \in T : \A m \in T : ~(m < k)
    BY <2>1, LeastNumber
  <2>3. k \in 1..N
    BY <1>1, <1>5, <2>2
  <2>4. ~ Bad(k - 1)
    BY <1>1, <2>2, <2>3
  <2> QED
    BY <1>6, <2>2, <2>3, <2>4
<1> QED
  BY <1>2, <1>3, <1>7 DEF Bad, N

-----------------------------------------------------------------------------
(* Sums *)

(* f is the sum of the numbers g over every set of D. *)
Some(s) == CHOOSE x \in s : TRUE
IsSum(f, g, D) ==
  f = [s \in D |-> IF s = {} THEN 0 ELSE g[Some(s)] + f[s \ {Some(s)}]]

(* The subsets of S with n elements at most. *)
UpTo(S, n) == {s \in SUBSET S : Cardinality(s) <= n}

(* A set without one of its elements has one element less. *)
LEMMA OneLess ==
  ASSUME NEW S, IsFiniteSet(S), NEW s \in SUBSET S, s # {}
  PROVE  /\ Some(s) \in s /\ s \ {Some(s)} \in SUBSET S
         /\ Cardinality(s) \in Nat /\ Cardinality(s) # 0
         /\ Cardinality(s \ {Some(s)}) = Cardinality(s) - 1
<1>1. IsFiniteSet(s)
  BY FS_Subset
<1>2. Some(s) \in s
  BY DEF Some
<1> QED
  BY <1>1, <1>2, FS_RemoveElement, FS_CardinalityType, FS_EmptySet

(* Sums are defined over the subsets of a finite set. *)
LEMMA SumExists ==
  ASSUME NEW S, IsFiniteSet(S), NEW g
  PROVE  \E f : IsSum(f, g, SUBSET S)
<1>1. \A n \in Nat : \E f : IsSum(f, g, UpTo(S, n))
  <2> DEFINE T == {n \in Nat : ~ \E f : IsSum(f, g, UpTo(S, n))}
  <2> SUFFICES ASSUME T # {} PROVE FALSE
    OBVIOUS
  <2>1. PICK n \in T : \A m \in T : ~(m < n)
    BY LeastNumber
  <2>2. PICK f : n # 0 => IsSum(f, g, UpTo(S, n - 1))
    BY <2>1
  <2> DEFINE e == [s \in UpTo(S, n) |-> IF s = {} THEN 0
                                        ELSE IF Cardinality(s) < n THEN f[s]
                                        ELSE g[Some(s)] + f[s \ {Some(s)}]]
  <2>3. ASSUME NEW s \in UpTo(S, n), s # {}
        PROVE  e[s] = g[Some(s)] + e[s \ {Some(s)}]
    <3> DEFINE r == s \ {Some(s)}
    <3>1. /\ r \in SUBSET S /\ Cardinality(s) \in Nat /\ Cardinality(s) # 0
          /\ Cardinality(r) = Cardinality(s) - 1 /\ Cardinality(s) <= n /\ n \in Nat
      BY <2>3, OneLess DEF UpTo
    <3> HIDE DEF r
    <3>2. r \in UpTo(S, n) /\ r \in UpTo(S, n - 1) /\ n # 0 /\ n - 1 \in Nat
      BY <3>1 DEF UpTo
    <3>3. f = [u \in UpTo(S, n - 1) |-> IF u = {} THEN 0 ELSE g[Some(u)] + f[u \ {Some(u)}]]
      BY <2>2, <3>2 DEF IsSum
    <3>4. e[r] = f[r]
      <4>1. f[r] = IF r = {} THEN 0 ELSE g[Some(r)] + f[r \ {Some(r)}]
        BY <3>2, <3>3
      <4> QED
        BY <3>1, <3>2, <4>1
    <3>5. CASE Cardinality(s) < n
      <4>1. s \in UpTo(S, n - 1)
        BY <3>1, <3>5 DEF UpTo
      <4>2. f[s] = g[Some(s)] + f[r]
        BY <2>3, <3>3, <4>1 DEF r
      <4> QED
        BY <2>3, <3>4, <3>5, <4>2 DEF r
    <3>6. CASE ~ (Cardinality(s) < n)
      BY <2>3, <3>4, <3>6 DEF r
    <3> QED
      BY <3>5, <3>6
  <2>4. \A s \in UpTo(S, n) : e[s] = IF s = {} THEN 0 ELSE g[Some(s)] + e[s \ {Some(s)}]
    BY <2>3
  <2>5. e = [s \in UpTo(S, n) |-> e[s]]
    OBVIOUS
  <2> HIDE DEF e
  <2>6. e = [s \in UpTo(S, n) |-> IF s = {} THEN 0 ELSE g[Some(s)] + e[s \ {Some(s)}]]
    BY <2>4, <2>5
  <2> QED
    BY <2>1, <2>6 DEF IsSum
<1>2. Cardinality(S) \in Nat /\ UpTo(S, Cardinality(S)) = SUBSET S
  <2>1. \A s \in SUBSET S : Cardinality(s) <= Cardinality(S)
    BY FS_Subset
  <2> QED
    BY <2>1, FS_CardinalityType DEF UpTo
<1> QED
  BY <1>1, <1>2

(* A sum of natural numbers is one. *)
LEMMA SumIsNatural ==
  ASSUME NEW S, IsFiniteSet(S), NEW g, \A x \in S : g[x] \in Nat, NEW f, IsSum(f, g, SUBSET S)
  PROVE  f[S] \in Nat /\ f[{}] = 0
<1>0. \A s \in SUBSET S : f[s] = IF s = {} THEN 0 ELSE g[Some(s)] + f[s \ {Some(s)}]
  BY DEF IsSum
<1>a. f[{}] = 0 /\ 0 \in Nat
  BY <1>0
<1> DEFINE Bad(s) == f[s] \notin Nat
           T == {n \in Nat : \E s \in SUBSET S : Cardinality(s) = n /\ Bad(s)}
<1>1. CASE T = {}
  <2>1. \A s \in SUBSET S : Cardinality(s) \in Nat
    BY FS_Subset, FS_CardinalityType
  <2> QED
    BY <1>0, <1>1, <2>1
<1>2. CASE T # {}
  <2>2. PICK n \in T : \A m \in T : ~(m < n)
    BY <1>2, LeastNumber
  <2>3. PICK s \in SUBSET S : Bad(s) /\ Cardinality(s) = n
    BY <2>2
  <2>4. s # {}
    BY <1>a, <2>3
  <2> DEFINE r == s \ {Some(s)}
  <2>5. /\ r \in SUBSET S /\ Some(s) \in S
        /\ Cardinality(s) \in Nat /\ Cardinality(s) # 0 /\ Cardinality(r) = Cardinality(s) - 1
    BY <2>4, OneLess
  <2>6. f[r] \in Nat
    <3>1. Cardinality(r) \in Nat /\ Cardinality(r) < n
      BY <2>3, <2>5, OneLess
    <3> HIDE DEF Bad
    <3>2. ~ Bad(r)
      BY <2>2, <2>5, <3>1
    <3> QED
      BY <3>2 DEF Bad
  <2>7. f[s] = g[Some(s)] + f[r]
    BY <1>0, <2>4
  <2> QED
    BY <2>3, <2>5, <2>6, <2>7
<1> QED
  BY <1>1, <1>2

SumOf(g, S) == (CHOOSE f : IsSum(f, g, SUBSET S))[S]

(* Issued and Received, of the vertices sig. *)
IssuedIn(sig, a, S) ==
  MapThenSumSet(LAMBDA h : IF sig[h].trx.issuer = a THEN sig[h].trx.spice ELSE 0, S)
ReceivedIn(sig, a, S) ==
  MapThenSumSet(LAMBDA h : IF sig[h].trx.receiver = a THEN sig[h].trx.spice ELSE 0, S)

(* What an address issued in S is a sum over S. *)
LEMMA IssuedIsSum ==
  ASSUME NEW sig, NEW a, NEW S, NEW g,
         \A x \in S : g[x] = IF sig[x].trx.issuer = a THEN sig[x].trx.spice ELSE 0
  PROVE  IssuedIn(sig, a, S) = SumOf(g, S)
<1> DEFINE E(f) == [s \in SUBSET S |->
                      IF s = {} THEN 0
                      ELSE (IF sig[Some(s)].trx.issuer = a THEN sig[Some(s)].trx.spice ELSE 0)
                           + f[s \ {Some(s)}]]
<1>1. IssuedIn(sig, a, S) = (CHOOSE f : f = E(f))[S]
  BY DEF IssuedIn, MapThenSumSet, MapThenFoldSet, Some
<1>2. ASSUME NEW f PROVE (f = E(f)) <=> IsSum(f, g, SUBSET S)
  <2>1. \A s \in SUBSET S : s # {} => Some(s) \in S
    BY DEF Some
  <2>2. E(f) = [s \in SUBSET S |-> IF s = {} THEN 0 ELSE g[Some(s)] + f[s \ {Some(s)}]]
    BY <2>1
  <2> HIDE DEF E
  <2> QED
    BY <2>2 DEF IsSum
<1> HIDE DEF E
<1>3. (CHOOSE f : f = E(f)) = (CHOOSE f : IsSum(f, g, SUBSET S))
  BY <1>2
<1> QED
  BY <1>1, <1>3 DEF SumOf

(* What an address received in S is a sum over S. *)
LEMMA ReceivedIsSum ==
  ASSUME NEW sig, NEW a, NEW S, NEW g,
         \A x \in S : g[x] = IF sig[x].trx.receiver = a THEN sig[x].trx.spice ELSE 0
  PROVE  ReceivedIn(sig, a, S) = SumOf(g, S)
<1> DEFINE E(f) == [s \in SUBSET S |->
                      IF s = {} THEN 0
                      ELSE (IF sig[Some(s)].trx.receiver = a THEN sig[Some(s)].trx.spice ELSE 0)
                           + f[s \ {Some(s)}]]
<1>1. ReceivedIn(sig, a, S) = (CHOOSE f : f = E(f))[S]
  BY DEF ReceivedIn, MapThenSumSet, MapThenFoldSet, Some
<1>2. ASSUME NEW f PROVE (f = E(f)) <=> IsSum(f, g, SUBSET S)
  <2>1. \A s \in SUBSET S : s # {} => Some(s) \in S
    BY DEF Some
  <2>2. E(f) = [s \in SUBSET S |-> IF s = {} THEN 0 ELSE g[Some(s)] + f[s \ {Some(s)}]]
    BY <2>1
  <2> HIDE DEF E
  <2> QED
    BY <2>2 DEF IsSum
<1> HIDE DEF E
<1>3. (CHOOSE f : f = E(f)) = (CHOOSE f : IsSum(f, g, SUBSET S))
  BY <1>2
<1> QED
  BY <1>1, <1>3 DEF SumOf

(* What wallets issued and received in signed vertices is a number, nothing *)
(* for no vertex, and does not change as long as the vertices stay.         *)
LEMMA SumsAreNaturals ==
  ASSUME NEW sig, NEW a, NEW S, IsFiniteSet(S), \A x \in S : sig[x].trx.spice \in Nat
  PROVE  /\ IssuedIn(sig, a, S) \in Nat /\ ReceivedIn(sig, a, S) \in Nat
         /\ S = {} => IssuedIn(sig, a, S) = 0 /\ ReceivedIn(sig, a, S) = 0
<1>1. ASSUME NEW g, \A x \in S : g[x] \in Nat
      PROVE  SumOf(g, S) \in Nat /\ (S = {} => SumOf(g, S) = 0)
  <2> DEFINE f == CHOOSE f : IsSum(f, g, SUBSET S)
  <2>1. IsSum(f, g, SUBSET S)
    BY SumExists
  <2> HIDE DEF f
  <2>2. f[S] \in Nat /\ f[{}] = 0
    BY <1>1, <2>1, SumIsNatural
  <2> QED
    BY <2>2 DEF SumOf, f
<1> DEFINE out == [x \in S |-> IF sig[x].trx.issuer = a THEN sig[x].trx.spice ELSE 0]
           in == [x \in S |-> IF sig[x].trx.receiver = a THEN sig[x].trx.spice ELSE 0]
<1>2. IssuedIn(sig, a, S) = SumOf(out, S)
  BY IssuedIsSum
<1>3. ReceivedIn(sig, a, S) = SumOf(in, S)
  BY ReceivedIsSum
<1>4. \A x \in S : out[x] \in Nat /\ in[x] \in Nat
  OBVIOUS
<1> HIDE DEF out, in
<1> QED
  BY <1>1, <1>2, <1>3, <1>4

(* The sums over S depend on the vertices of S only. *)
LEMMA SumsStay ==
  ASSUME NEW sig, NEW sig2, NEW a, NEW S, \A x \in S : sig2[x] = sig[x]
  PROVE  IssuedIn(sig2, a, S) = IssuedIn(sig, a, S) /\ ReceivedIn(sig2, a, S) = ReceivedIn(sig, a, S)
<1> DEFINE out == [x \in S |-> IF sig[x].trx.issuer = a THEN sig[x].trx.spice ELSE 0]
           in == [x \in S |-> IF sig[x].trx.receiver = a THEN sig[x].trx.spice ELSE 0]
<1>1. IssuedIn(sig, a, S) = SumOf(out, S) /\ IssuedIn(sig2, a, S) = SumOf(out, S)
  BY IssuedIsSum
<1>2. ReceivedIn(sig, a, S) = SumOf(in, S) /\ ReceivedIn(sig2, a, S) = SumOf(in, S)
  BY ReceivedIsSum
<1> QED
  BY <1>1, <1>2

(* The sums of the book are those over its signed vertices. *)
LEMMA IssuedNow ==
  ASSUME NEW a, NEW S
  PROVE  /\ Issued(a, S) = IssuedIn(signed, a, S) /\ Received(a, S) = ReceivedIn(signed, a, S)
BY DEF Issued, Received, IssuedIn, ReceivedIn, TrxOf

(* And so are they after a step. *)
LEMMA IssuedNext ==
  ASSUME NEW a, NEW S
  PROVE  /\ Issued(a, S)' = IssuedIn(signed', a, S) /\ Received(a, S)' = ReceivedIn(signed', a, S)
BY DEF Issued, Received, IssuedIn, ReceivedIn, TrxOf, MapThenSumSet, MapThenFoldSet

-----------------------------------------------------------------------------
(* Threads *)

(* The fields of a thread's state by what the thread is doing. *)
LEMMA StateFields ==
  ASSUME NEW s \in ThreadState
  PROVE  /\ s.at \in {"idle", "create", "scan", "add", "parents", "send", "panic"}
         /\ s.at = "idle" => s = Idle
         /\ s.at = "create" => s.trx \in Trx
         /\ s.at = "scan" => s \in [at : {"scan"}, trx : Trx, todo : SUBSET Vertex,
                                    valid : Seq(Vertex), err : BOOLEAN,
                                    stopped : BOOLEAN]
         /\ s.at \in {"add", "parents"} => s \in [at : {"add", "parents"}, m : Memory, todo : Seq(Hash)]
         /\ s.at = "send" => s.weight \in Nat
BY DEF ThreadState, Idle

(* A step that moves one thread and leaves the DAG and the storage alone    *)
(* keeps what concerns them, if the thread got the lock when it was free.   *)
LEMMA MovesThread ==
  ASSUME BookInv, NEW th \in Thread, NEW s \in ThreadState,
         Goto(th, s), UNCHANGED <<signed, dagVars, stored, dagLoaded>>,
         ThreadOK(th)', Holds(th)' => Holds(th) \/ ~ Locked
  PROVE  /\ thread' \in [Thread -> ThreadState]
         /\ TrxIndexed' /\ StoredOnce' /\ EdgesAreParents' /\ OneHolder'
         /\ \A u \in Thread : ThreadOK(u)'
<1>1. thread \in [Thread -> ThreadState]
  BY DEF BookInv, ShapeOK
<1>2. thread'[th] = s /\ \A u \in Thread \ {th} : thread'[u] = thread[u]
  BY <1>1 DEF Goto
<1>3. thread' \in [Thread -> ThreadState]
  BY <1>1 DEF Goto
<1>4. TrxIndexed' /\ StoredOnce' /\ EdgesAreParents'
  BY DEF BookInv, TrxIndexed, StoredOnce, EdgesAreParents, dagVars, TrxOf, IsSigned, ParentHashes
<1>5. OneHolder'
  BY <1>2 DEF BookInv, OneHolder, Holds, Locked
<1>6. ASSUME NEW u \in Thread PROVE ThreadOK(u)'
  <2>1. CASE u = th
    BY <2>1
  <2>2. CASE u # th
    BY <2>2, <1>2
    DEF BookInv, ThreadOK, ScansLeaves, SawParents, dagVars, IsSigned, Leaves, IsLeaf
  <2> QED
    BY <2>1, <2>2
<1> QED
  BY <1>3, <1>4, <1>5, <1>6

(* The same for a step that changes nothing but the thread. *)
LEMMA MovesOnlyThread ==
  ASSUME BookInv, dagLoaded, NEW th \in Thread, NEW s \in ThreadState, Goto(th, s),
         UNCHANGED <<signed, dagVars, storageVars, counterVars, startVars,
                     truncateVars, replierVars>>,
         ThreadOK(th)', Holds(th)' => Holds(th) \/ ~ Locked
  PROVE  BookInv'
<1>1. UNCHANGED <<signed, dagVars, stored, dagLoaded>>
  BY DEF storageVars, startVars
<1>2. /\ thread' \in [Thread -> ThreadState]
      /\ TrxIndexed' /\ StoredOnce' /\ EdgesAreParents' /\ OneHolder'
      /\ \A u \in Thread : ThreadOK(u)'
  BY <1>1, MovesThread
<1>3. ShapeOK'
  BY <1>2 DEF BookInv, ShapeOK, ReplierTypeOK, dagVars, storageVars, counterVars, startVars,
              truncateVars, replierVars
<1>4. RepliesSigned' /\ StartsEmpty'
  BY DEF BookInv, RepliesSigned, StartsEmpty, IsSigned, dagVars, storageVars, startVars, replierVars
<1> QED
  BY <1>2, <1>3, <1>4 DEF BookInv

(* Only a loaded DAG has threads at work. *)
LEMMA WorksOnLoaded ==
  ASSUME BookInv, NEW th \in Thread, thread[th].at # "idle"
  PROVE  dagLoaded
BY DEF BookInv, StartsEmpty, Idle

(* A thread that neither scans nor looks at parents has nothing to keep. *)
LEMMA RestingThread ==
  ASSUME BookInv, NEW th \in Thread, NEW s, s.at \in {"idle", "create", "send", "panic"}, Goto(th, s)
  PROVE  ThreadOK(th)' /\ (s.at = "idle" => ~ Holds(th)')
BY DEF BookInv, ShapeOK, Goto, ThreadOK, ScansLeaves, SawParents, Holds

(* What a thread that looks at parents knows. *)
LEMMA LooksAtParents ==
  ASSUME BookInv, NEW th \in Thread, thread[th].at \in {"add", "parents"}
  PROVE  /\ dagLoaded
         /\ thread[th] \in [at : {"add", "parents"}, m : Memory, todo : Seq(Hash)]
         /\ IsSigned(thread[th].m.vrx)
         /\ signed[thread[th].m.vrx] \in VertexRecord
<1>1. thread[th] \in ThreadState
  BY DEF BookInv, ShapeOK
<1>2. thread[th] \in [at : {"add", "parents"}, m : Memory, todo : Seq(Hash)]
  BY <1>1, StateFields
<1>3. IsSigned(thread[th].m.vrx)
  BY DEF BookInv, ThreadOK, SawParents
<1>4. thread[th].m.vrx \in Vertex
  BY <1>2 DEF Memory
<1>5. signed[thread[th].m.vrx] \in VertexRecord
  BY <1>3, <1>4 DEF BookInv, ShapeOK, IsSigned
<1> QED
  BY <1>2, <1>3, <1>5, WorksOnLoaded

(* The lock holder's step does not concern the other threads: none of them  *)
(* scans leaves or looks at parents.                                        *)
LEMMA HolderMoves ==
  ASSUME BookInv, NEW th \in Thread, Holds(th), NEW s \in ThreadState, Goto(th, s),
         \A h \in Vertex : IsSigned(h) => signed'[h] = signed[h]
  PROVE  /\ thread' \in [Thread -> ThreadState] /\ thread'[th] = s
         /\ OneHolder'
         /\ \A u \in Thread \ {th} : ThreadOK(u)'
<1>1. thread' \in [Thread -> ThreadState] /\ thread'[th] = s
      /\ \A u \in Thread \ {th} : thread'[u] = thread[u]
  BY DEF BookInv, ShapeOK, Goto
<1>2. OneHolder'
  BY <1>1 DEF BookInv, OneHolder, Holds
<1>3. ASSUME NEW u \in Thread \ {th} PROVE ThreadOK(u)'
  <2>1. thread'[u] = thread[u] /\ ~ Holds(u) /\ SawParents(u)
    BY <1>1 DEF BookInv, OneHolder, ThreadOK
  <2>2. ScansLeaves(u)'
    BY <2>1 DEF Holds, ScansLeaves
  <2>3. CASE thread[u].at = "add"
    <3>1. thread[u] \in [at : {"add", "parents"}, m : Memory, todo : Seq(Hash)]
      BY <2>3, LooksAtParents
    <3>2. thread[u].m.vrx \in Vertex /\ IsSigned(thread[u].m.vrx)
      BY <2>1, <2>3, <3>1 DEF Memory, SawParents
    <3>3. signed'[thread[u].m.vrx] = signed[thread[u].m.vrx]
      BY <3>2
    <3> QED
      BY <2>1, <2>2, <2>3, <3>2, <3>3 DEF ThreadOK, SawParents, IsSigned
  <2>4. CASE thread[u].at # "add"
    BY <2>1, <2>2, <2>4 DEF ThreadOK, SawParents, Holds
  <2> QED
    BY <2>3, <2>4
<1> QED
  BY <1>1, <1>2, <1>3

-----------------------------------------------------------------------------
(* The steps of CreateLeaf that leave the DAG alone *)

(* A request passes the checks of CreateLeaf. *)
LEMMA CreateLeafKeeps ==
  ASSUME BookInv, NEW th \in Handler, NEW t \in Trx, CreateLeaf(th, t)
  PROVE  BookInv'
<1> DEFINE s == [at |-> "create", trx |-> t]
<1>1. th \in Thread /\ s \in ThreadState
  BY DEF Thread, ThreadState
<1>2. thread'[th] = s
  BY <1>1 DEF BookInv, ShapeOK, CreateLeaf, Goto
<1>3. ThreadOK(th)' /\ ~ Holds(th)'
  BY <1>2 DEF ThreadOK, ScansLeaves, SawParents, Holds
<1> QED
  BY <1>1, <1>3, MovesOnlyThread DEF CreateLeaf

(* CreateLeaf takes the lock and starts over the leaves. *)
LEMMA CreateLeafLockKeeps ==
  ASSUME BookInv, NEW th \in Thread, CreateLeafLock(th)
  PROVE  BookInv'
<1> DEFINE s == Scan(thread[th].trx, Leaves, <<>>, FALSE, FALSE)
<1>1. thread[th] \in ThreadState /\ dag \subseteq Vertex
  BY DEF BookInv, ShapeOK
<1>2. thread[th].at = "create" /\ thread[th].trx \in Trx
  BY <1>1, StateFields DEF CreateLeafLock
<1>3. Leaves \subseteq Vertex /\ <<>> \in Seq(Vertex)
  BY <1>1 DEF Leaves
<1>4. s \in ThreadState
  BY <1>2, <1>3 DEF ThreadState, Scan
<1>5. thread'[th] = s
  BY DEF BookInv, ShapeOK, CreateLeafLock, Goto
<1>6. Leaves' = Leaves
  BY DEF CreateLeafLock, dagVars, Leaves, IsLeaf
<1>7. ThreadOK(th)'
  BY <1>5, <1>6 DEF ThreadOK, ScansLeaves, SawParents, Scan
<1> QED
  BY <1>2, <1>4, <1>7, MovesOnlyThread, WorksOnLoaded DEF CreateLeafLock

(* getValidLeaves comes to a valid leaf. *)
LEMMA ScanValidLeafKeeps ==
  ASSUME BookInv, NEW th \in Thread, NEW h \in Vertex, ScanValidLeaf(th, h)
  PROVE  BookInv'
<1> DEFINE s == Scan(thread[th].trx, thread[th].todo \ {h}, Append(thread[th].valid, h), FALSE,
                     thread[th].stopped)
<1>1. thread[th] \in ThreadState /\ thread[th].at = "scan" /\ h \in thread[th].todo
  BY DEF BookInv, ShapeOK, ScanValidLeaf, Scanning
<1>2. thread[th] \in [at : {"scan"}, trx : Trx, todo : SUBSET Vertex,
                      valid : Seq(Vertex), err : BOOLEAN,
                                    stopped : BOOLEAN]
  BY <1>1, StateFields
<1>3. /\ s.at = "scan" /\ s.todo = thread[th].todo \ {h}
      /\ s.valid = Append(thread[th].valid, h)
      /\ s \in [at : {"scan"}, trx : Trx, todo : SUBSET Vertex, valid : Seq(Vertex), err : BOOLEAN,
                                    stopped : BOOLEAN]
  BY <1>2 DEF Scan
<1>4. s \in ThreadState
  BY <1>3 DEF ThreadState
<1>5. thread'[th] = s
  BY DEF BookInv, ShapeOK, ScanValidLeaf, Goto
<1>6. UNCHANGED <<dag, Leaves>>
  BY DEF ScanValidLeaf, dagVars, Leaves, IsLeaf
<1>7. ScansLeaves(th)'
  <2>1. ScansLeaves(th)
    BY DEF BookInv, ThreadOK
  <2>2. h \in dag /\ h \notin s.todo /\ s.todo \subseteq Leaves
    BY <1>1, <1>3, <2>1 DEF ScansLeaves, Leaves
  <2>3. ASSUME NEW i \in 1..Len(s.valid) PROVE s.valid[i] \in dag /\ s.valid[i] \notin s.todo
    <3> DEFINE found == thread[th].valid
    <3>1. found \in Seq(Vertex) /\ s.valid = Append(found, h) /\ s.todo \subseteq thread[th].todo
      BY <1>2, <1>3
    <3>2. \A j \in 1..Len(found) : found[j] \in dag /\ found[j] \notin thread[th].todo
      BY <1>1, <2>1 DEF ScansLeaves
    <3> HIDE DEF s, found
    <3>3. CASE i = Len(found) + 1
      BY <2>2, <3>1, <3>3
    <3>4. CASE i \in 1..Len(found)
      BY <3>1, <3>2, <3>4
    <3> QED
      BY <3>1, <3>3, <3>4
  <2> QED
    BY <1>5, <1>6, <2>2, <2>3 DEF ScansLeaves
<1>8. ThreadOK(th)' /\ Holds(th)
  BY <1>1, <1>3, <1>5, <1>7 DEF ThreadOK, SawParents, Holds
<1> HIDE DEF s
<1> QED
  BY <1>1, <1>4, <1>8, MovesOnlyThread, WorksOnLoaded DEF ScanValidLeaf, s

(* CreateLeaf returns an error or panics. *)
LEMMA CreateLeafEndsKeeps ==
  ASSUME BookInv, NEW th \in Thread, CreateLeafFails(th) \/ CreateLeafPanics(th)
  PROVE  BookInv'
<1>1. thread[th].at = "scan" /\ Holds(th)
  BY DEF CreateLeafFails, CreateLeafPanics, ScanDone, Holds
<1>2. CASE CreateLeafFails(th)
  <2>1. Idle \in ThreadState /\ Idle.at = "idle"
    BY DEF ThreadState, Idle
  <2>2. Goto(th, Idle)
    BY <1>2 DEF CreateLeafFails
  <2>3. ThreadOK(th)' /\ dagLoaded
    BY <1>1, <2>1, <2>2, RestingThread, WorksOnLoaded
  <2> QED
    BY <1>1, <1>2, <2>1, <2>2, <2>3, MovesOnlyThread DEF CreateLeafFails
<1>3. CASE CreateLeafPanics(th)
  <2>1. [at |-> "panic"] \in ThreadState /\ [at |-> "panic"].at = "panic"
    BY DEF ThreadState
  <2>2. Goto(th, [at |-> "panic"])
    BY <1>3 DEF CreateLeafPanics
  <2>3. ThreadOK(th)' /\ dagLoaded
    BY <1>1, <2>1, <2>2, RestingThread, WorksOnLoaded
  <2> QED
    BY <1>1, <1>3, <2>1, <2>2, <2>3, MovesOnlyThread DEF CreateLeafPanics
<1> QED
  BY <1>2, <1>3

-----------------------------------------------------------------------------
(* The steps of AddLeaf that leave the DAG alone *)

(* A handler or the subscriber starts on a signed vertex. *)
LEMMA StartsAdding ==
  ASSUME BookInv, NEW th \in Thread, NEW m \in Memory, IsSigned(m.vrx),
         Goto(th, Adding(m)), UNCHANGED signed
  PROVE  Adding(m) \in ThreadState /\ ThreadOK(th)' /\ ~ Holds(th)'
<1> DEFINE v == signed[m.vrx]
           s == Adding(m)
<1>1. v \in VertexRecord
  BY DEF BookInv, ShapeOK, IsSigned, Memory
<1>2. v.left \in Hash /\ v.right \in Hash
  BY <1>1 DEF VertexRecord
<1>3. <<v.left, v.right>> \in Seq(Hash)
  BY <1>2
<1>4. s.at = "add" /\ s.m = m /\ s.todo = <<v.left, v.right>>
  BY DEF Adding
<1>5. s \in ThreadState
  BY <1>3 DEF Adding, ThreadState
<1>6. thread'[th] = s
  BY DEF BookInv, ShapeOK, Goto
<1> HIDE DEF s
<1>7. ScansLeaves(th)' /\ ~ Holds(th)'
  BY <1>4, <1>6 DEF ScansLeaves, Holds
<1>8. SawParents(th)'
  BY <1>4, <1>6 DEF SawParents, IsSigned
<1> QED
  BY <1>5, <1>7, <1>8 DEF ThreadOK, s

(* A gossiped vertex passes the checks of AddLeaf. *)
LEMMA AddLeafKeeps ==
  ASSUME BookInv, NEW th \in Handler, NEW h \in SignedVertices, AddLeaf(th, h)
  PROVE  BookInv'
<1>1. th \in Thread
  BY DEF Thread
<1>2. newMemory(h) \in Memory /\ newMemory(h).vrx = h
  BY ReplierAssumption DEF newMemory, Memory, SignedVertices
<1>3. IsSigned(newMemory(h).vrx) /\ UNCHANGED signed
  BY <1>2 DEF SignedVertices, AddLeaf
<1>4. Goto(th, Adding(newMemory(h)))
  BY DEF AddLeaf
<1>5. Adding(newMemory(h)) \in ThreadState /\ ThreadOK(th)' /\ ~ Holds(th)'
  BY <1>1, <1>2, <1>3, <1>4, StartsAdding
<1> QED
  BY <1>1, <1>4, <1>5, MovesOnlyThread DEF AddLeaf

(* addLeafMemorized takes the lock. *)
LEMMA AddLeafLockKeeps ==
  ASSUME BookInv, NEW th \in Thread, AddLeafLock(th)
  PROVE  BookInv'
<1> DEFINE r == thread[th]
           s == [r EXCEPT !.at = "parents"]
<1>1. r.at = "add" /\ ~ Locked /\ Goto(th, s) /\ UNCHANGED <<signed, dagVars>>
  BY DEF AddLeafLock
<1>2. dagLoaded /\ r \in [at : {"add", "parents"}, m : Memory, todo : Seq(Hash)]
  BY <1>1, LooksAtParents
<1>3. /\ s \in [at : {"add", "parents"}, m : Memory, todo : Seq(Hash)]
      /\ s.at = "parents" /\ s.m = r.m /\ s.todo = r.todo
  BY <1>2
<1>4. s \in ThreadState
  BY <1>3 DEF ThreadState
<1>5. thread'[th] = s
  BY <1>1 DEF BookInv, ShapeOK, Goto
<1>6. SawParents(th)
  BY DEF BookInv, ThreadOK
<1>7. ThreadOK(th)'
  <2> HIDE DEF s
  <2> QED
    BY <1>1, <1>3, <1>5, <1>6 DEF ThreadOK, ScansLeaves, SawParents, IsSigned, dagVars
<1> HIDE DEF s
<1> QED
  BY <1>1, <1>2, <1>4, <1>7, MovesOnlyThread DEF AddLeafLock, s

(* addLeafMemorized returns an error. *)
LEMMA AddLeafEndsKeeps ==
  ASSUME BookInv, NEW th \in Thread, NEW p \in Hash, RefuseLeaf(th, p) \/ AddLeafFails(th)
  PROVE  BookInv'
<1>1. thread[th].at = "parents"
  BY DEF RefuseLeaf, NextParent, AddLeafFails, ParentsDone
<1>2. Idle \in ThreadState /\ Idle.at = "idle"
  BY DEF ThreadState, Idle
<1>3. Goto(th, Idle)
  BY DEF RefuseLeaf, AddLeafFails
<1>4. ThreadOK(th)' /\ ~ Holds(th)'
  BY <1>2, <1>3, RestingThread
<1>5. dagLoaded
  BY <1>1, WorksOnLoaded
<1> QED
  BY <1>2, <1>3, <1>4, <1>5, MovesOnlyThread DEF RefuseLeaf, AddLeafFails

(* Head and tail of the parents of a vertex. *)
LEMMA ShortTails ==
  ASSUME NEW a, NEW b
  PROVE  /\ Head(<<a, b>>) = a /\ Tail(<<a, b>>) = <<b>>
         /\ Head(<<a>>) = a /\ Tail(<<a>>) = <<>>
OBVIOUS

(* A thread that goes on to the next parent. *)
LEMMA GoesOn ==
  ASSUME BookInv, NEW th \in Thread, NEW p \in dag, NextParent(th, p),
         Goto(th, [thread[th] EXCEPT !.todo = Tail(@)]), UNCHANGED <<signed, dagVars>>
  PROVE  /\ [thread[th] EXCEPT !.todo = Tail(@)] \in ThreadState
         /\ dagLoaded /\ ThreadOK(th)' /\ Holds(th)
<1> DEFINE r == thread[th]
           s == [r EXCEPT !.todo = Tail(@)]
           v == signed[r.m.vrx]
<1>1. r.at = "parents" /\ r.todo # <<>> /\ p = Head(r.todo)
  BY DEF NextParent
<1>2. /\ dagLoaded /\ IsSigned(r.m.vrx)
      /\ r \in [at : {"add", "parents"}, m : Memory, todo : Seq(Hash)]
  BY <1>1, LooksAtParents
<1>3. /\ s \in [at : {"add", "parents"}, m : Memory, todo : Seq(Hash)]
      /\ s.at = "parents" /\ s.m = r.m /\ s.todo = Tail(r.todo)
  <2>1. Tail(r.todo) \in Seq(Hash)
    BY <1>1, <1>2, HeadTailProperties
  <2> HIDE DEF r
  <2> QED
    BY <1>1, <1>2, <2>1
<1>4. thread'[th] = s
  BY DEF BookInv, ShapeOK, Goto
<1>5. \/ r.todo = <<v.left, v.right>>
      \/ r.todo = <<v.right>> /\ v.left \in dag
  BY <1>1 DEF BookInv, ThreadOK, SawParents
<1>6. \/ s.todo = <<v.right>> /\ v.left \in dag
      \/ s.todo = <<>> /\ v.left \in dag /\ v.right \in dag
  <2> HIDE DEF s, r, v
  <2>1. CASE r.todo = <<v.left, v.right>>
    <3>1. Head(r.todo) = v.left /\ Tail(r.todo) = <<v.right>>
      BY <2>1, ShortTails
    <3> QED
      BY <1>1, <1>3, <3>1
  <2>2. CASE r.todo = <<v.right>> /\ v.left \in dag
    <3>1. Head(r.todo) = v.right /\ Tail(r.todo) = <<>>
      BY <2>2, ShortTails
    <3> QED
      BY <1>1, <1>3, <2>2, <3>1
  <2> QED
    BY <1>5, <2>1, <2>2
<1>7. s \in ThreadState
  BY <1>3 DEF ThreadState
<1> HIDE DEF s
<1>8. ThreadOK(th)'
  BY <1>2, <1>3, <1>4, <1>6 DEF ThreadOK, ScansLeaves, SawParents, IsSigned, dagVars
<1> QED
  BY <1>1, <1>2, <1>7, <1>8 DEF Holds, s

(* addLeafMemorized passes a parent that has children. *)
LEMMA PassParentKeeps ==
  ASSUME BookInv, NEW th \in Thread, NEW p \in Hash, PassParent(th, p)
  PROVE  BookInv'
<1> DEFINE s == [thread[th] EXCEPT !.todo = Tail(@)]
<1>1. p \in dag /\ NextParent(th, p) /\ Goto(th, s) /\ UNCHANGED <<signed, dagVars>>
  BY DEF PassParent
<1>2. s \in ThreadState /\ dagLoaded /\ ThreadOK(th)' /\ Holds(th)
  BY <1>1, GoesOn
<1> HIDE DEF s
<1> QED
  BY <1>1, <1>2, MovesOnlyThread DEF PassParent

(* The counters stay numbers. *)
LEMMA CountersStayNumbers ==
  ASSUME ShapeOK, NEW w \in Nat, NEW D \in SUBSET Vertex,
         UpdateWeightAndThroughput(w, Cardinality(D))
  PROVE  /\ weight' \in Nat /\ throughput' \in Nat
         /\ loader' \in {"none", "unlocked", "weighed", "counted", "done"}
         /\ loader' = "none" => loader = "none"
<1>1. Cardinality(D) \in Nat
  BY CountsVertices
<1>2. weight \in Nat /\ throughput \in Nat
  BY DEF ShapeOK
<1>3. weight' \in Nat
  BY <1>2, MaxOfTwo DEF UpdateWeightAndThroughput
<1>4. throughput' \in Nat
  BY <1>1, <1>2 DEF UpdateWeightAndThroughput
<1> QED
  BY <1>3, <1>4 DEF UpdateWeightAndThroughput, ShapeOK

(* addLeafMemorized validates a parent that is a leaf. *)
LEMMA AcceptParentKeeps ==
  ASSUME BookInv, NEW th \in Thread, NEW p \in Hash, AcceptParent(th, p)
  PROVE  BookInv'
<1> DEFINE s == [thread[th] EXCEPT !.todo = Tail(@)]
<1>1. /\ p \in dag /\ p \in Leaves /\ NextParent(th, p) /\ Goto(th, s)
      /\ UNCHANGED <<signed, dagVars, stored, dagLoaded>>
  BY DEF AcceptParent, Leaves, storageVars
<1>2. s \in ThreadState /\ dagLoaded /\ ThreadOK(th)' /\ Holds(th)
  BY <1>1, GoesOn
<1> HIDE DEF s
<1>3. /\ thread' \in [Thread -> ThreadState]
      /\ TrxIndexed' /\ StoredOnce' /\ EdgesAreParents' /\ OneHolder'
      /\ \A u \in Thread : ThreadOK(u)'
  BY <1>1, <1>2, MovesThread
<1>4. signed[p].weight \in Nat
  BY <1>1 DEF BookInv, ShapeOK, TrxIndexed, IsSigned, VertexRecord
<1>5. /\ weight' \in Nat /\ throughput' \in Nat
      /\ loader' \in {"none", "unlocked", "weighed", "counted", "done"}
      /\ loader' = "none" => loader = "none"
  <2>1. Leaves \in SUBSET Vertex /\ ShapeOK
    BY DEF BookInv, ShapeOK, Leaves
  <2> QED
    BY <1>4, <2>1, CountersStayNumbers DEF AcceptParent
<1>6. ShapeOK'
  BY <1>3, <1>5 DEF BookInv, ShapeOK, ReplierTypeOK, AcceptParent, dagVars, storageVars,
                    truncateVars, replierVars
<1>7. RepliesSigned' /\ StartsEmpty'
  BY <1>1, <1>2, <1>5 DEF BookInv, RepliesSigned, StartsEmpty, IsSigned, AcceptParent, dagVars, replierVars
<1> QED
  BY <1>3, <1>6, <1>7 DEF BookInv

-----------------------------------------------------------------------------
(* The last step under the lock *)

(* The weight of the new vertex goes to the truncation loop. *)
LEMMA SendSignalKeeps ==
  ASSUME BookInv, NEW th \in Thread, SendSignal(th)
  PROVE  BookInv'
<1>1. thread[th].at = "send" /\ thread[th].weight \in Nat
  BY StateFields DEF BookInv, ShapeOK, SendSignal
<1>2. dagLoaded
  BY <1>1, WorksOnLoaded
<1>3. Idle \in ThreadState /\ Idle.at = "idle" /\ Goto(th, Idle)
  BY DEF ThreadState, Idle, SendSignal
<1>4. UNCHANGED <<signed, dagVars, stored, dagLoaded>>
  BY DEF SendSignal, storageVars, startVars
<1>5. ThreadOK(th)' /\ ~ Holds(th)'
  BY <1>3, RestingThread
<1>6. /\ thread' \in [Thread -> ThreadState]
      /\ TrxIndexed' /\ StoredOnce' /\ EdgesAreParents' /\ OneHolder'
      /\ \A u \in Thread : ThreadOK(u)'
  BY <1>3, <1>4, <1>5, MovesThread
<1>7. truncateSignal' \in Seq(Nat) /\ Len(truncateSignal') <= InitialThroughput
  <2>1. truncateSignal \in Seq(Nat) /\ Len(truncateSignal) < InitialThroughput
    BY DEF BookInv, ShapeOK, SendSignal
  <2>2. truncateSignal' = Append(truncateSignal, thread[th].weight)
    BY DEF SendSignal
  <2>3. InitialThroughput \in Nat
    BY BookAssumption
  <2>4. Len(truncateSignal') = Len(truncateSignal) + 1 /\ Len(truncateSignal) \in Nat
    BY <1>1, <2>1, <2>2
  <2> QED
    BY <1>1, <2>1, <2>2, <2>3, <2>4
<1>8. ShapeOK'
  BY <1>6, <1>7 DEF BookInv, ShapeOK, ReplierTypeOK, SendSignal, dagVars, storageVars,
                    counterVars, startVars, truncateVars, replierVars
<1>9. RepliesSigned' /\ StartsEmpty'
  BY <1>2 DEF BookInv, RepliesSigned, StartsEmpty, IsSigned, SendSignal, dagVars, storageVars,
              startVars, replierVars
<1> QED
  BY <1>6, <1>8, <1>9 DEF BookInv

-----------------------------------------------------------------------------
(* The replier buffer *)

(* The comparison function orders nothing: the sort leaves the first first. *)
LEMMA FirstIndexIsOne ==
  ASSUME NEW ms \in Seq(Memory), ms # <<>>
  PROVE  FirstIndex(ms) = 1
<1>1. DOMAIN ms = 1..Len(ms) /\ Len(ms) \in Nat \ {0}
  BY EmptySeq, LenProperties
<1>2. \A i \in DOMAIN ms : ms[i] \in Memory
  BY <1>1
<1>3. \A i, j \in DOMAIN ms : ~ Before(ms[j], ms[i])
  BY <1>2, ReplierAssumption DEF Before, Memory
<1>4. {i \in DOMAIN ms : \A j \in DOMAIN ms : ~ Before(ms[j], ms[i])} = 1..Len(ms)
  BY <1>1, <1>3
<1>5. Min(1..Len(ms)) = 1
  BY <1>1 DEF Min
<1> QED
  BY <1>4, <1>5 DEF FirstIndex

(* Removing the first memory leaves the others in their order. *)
LEMMA WithoutFirst ==
  ASSUME NEW ms \in Seq(Memory), ms # <<>>
  PROVE  /\ Without(ms, 1) \in Seq(Memory)
         /\ Len(Without(ms, 1)) = Len(ms) - 1
         /\ \A i \in 1..(Len(ms) - 1) : Without(ms, 1)[i] = ms[i + 1]
<1> DEFINE rest == SubSeq(ms, 2, Len(ms))
<1>1. Len(ms) \in Nat \ {0} /\ \A i \in 1..Len(ms) : ms[i] \in Memory
  BY EmptySeq, ElementOfSeq
<1>2. /\ rest \in Seq(Memory) /\ Len(rest) = Len(ms) - 1
      /\ \A i \in 1..(Len(ms) - 1) : rest[i] = ms[i + 1]
  <2>1. \A i \in 2..Len(ms) : ms[i] \in Memory
    BY <1>1
  <2>2. /\ rest \in Seq(Memory) /\ Len(rest) = IF 2 <= Len(ms) THEN Len(ms) - 2 + 1 ELSE 0
        /\ \A i \in 1..(Len(ms) - 2 + 1) : rest[i] = ms[2 + i - 1]
    BY <1>1, <2>1, SubSeqProperties
  <2> HIDE DEF rest
  <2>3. Len(rest) = Len(ms) - 1
    <3>1. CASE Len(ms) = 1
      BY <2>2, <3>1
    <3>2. CASE 2 <= Len(ms)
      BY <1>1, <2>2, <3>2
    <3> QED
      BY <1>1, <3>1, <3>2
  <2>4. ASSUME NEW i \in 1..(Len(ms) - 1) PROVE rest[i] = ms[i + 1]
    <3>1. Len(ms) - 2 + 1 = Len(ms) - 1 /\ 2 + i - 1 = i + 1
      BY <1>1
    <3> QED
      BY <2>2, <3>1
  <2> QED
    BY <2>2, <2>3, <2>4
<1>3. SubSeq(ms, 1, 0) = <<>>
  BY SubSeqEmpty
<1>4. Without(ms, 1) = <<>> \o rest
  BY <1>3 DEF Without
<1> HIDE DEF rest
<1>5. <<>> \o rest = rest
  BY <1>2, ConcatEmptySeq
<1> QED
  BY <1>2, <1>4, <1>5

(* The sequences of memories that a publication and an insertion leave. *)
LEMMA Publishes ==
  ASSUME ReplierTypeOK, RepliesSigned, CanPublish
  PROVE  /\ Published \in Seq(Memory) /\ Len(Published) <= MaxArraySize + 1
         /\ \A i \in 1..Len(Published) : IsSigned(Published[i].vrx)
<1> DEFINE m == members[1]
<1>1. members \in Seq(Memory) /\ members # <<>> /\ pub \in Seq(Memory) /\ Len(pub) <= MaxArraySize
  BY DEF ReplierTypeOK, CanPublish
<1>2. FirstIndex(members) = 1 /\ 1 \in 1..Len(members)
  BY <1>1, FirstIndexIsOne, EmptySeq
<1>3. m \in Memory /\ IsSigned(m.vrx)
  BY <1>1, <1>2, ElementOfSeq DEF RepliesSigned
<1>4. Published = Append(pub, m)
  BY <1>2 DEF Published
<1> HIDE DEF m
<1>5. /\ Append(pub, m) \in Seq(Memory)
      /\ Len(Append(pub, m)) = Len(pub) + 1 /\ Len(pub) \in Nat
      /\ \A i \in 1..Len(pub) : Append(pub, m)[i] = pub[i]
      /\ Append(pub, m)[Len(pub) + 1] = m
  BY <1>1, <1>3
<1>6. Len(Published) <= MaxArraySize + 1
  BY <1>1, <1>4, <1>5, ReplierAssumption
<1>7. ASSUME NEW i \in 1..Len(Published) PROVE IsSigned(Published[i].vrx)
  <2>1. CASE i = Len(pub) + 1
    BY <1>3, <1>4, <1>5, <2>1
  <2>2. CASE i \in 1..Len(pub)
    BY <1>4, <1>5, <2>2 DEF RepliesSigned
  <2> QED
    BY <1>4, <1>5, <2>1, <2>2
<1> QED
  BY <1>4, <1>5, <1>6, <1>7

(* Memories that are signed and fit into the buffer. *)
Fits(ms) ==
  /\ ms \in Seq(Memory) /\ Len(ms) <= MaxArraySize
  /\ \A i \in 1..Len(ms) : IsSigned(ms[i].vrx)

(* What getNext leaves fits the buffer. *)
LEMMA FitsWithoutFirst ==
  ASSUME NEW ms, Fits(ms), ms # <<>>
  PROVE  Fits(Without(ms, 1)) /\ Len(Without(ms, 1)) = Len(ms) - 1
<1>1. /\ Without(ms, 1) \in Seq(Memory)
      /\ Len(Without(ms, 1)) = Len(ms) - 1
      /\ \A i \in 1..(Len(ms) - 1) : Without(ms, 1)[i] = ms[i + 1]
  BY WithoutFirst DEF Fits
<1>2. Len(ms) \in Nat \ {0}
  BY EmptySeq DEF Fits
<1>3. ASSUME NEW i \in 1..Len(Without(ms, 1)) PROVE IsSigned(Without(ms, 1)[i].vrx)
  <2>1. i + 1 \in 1..Len(ms) /\ Without(ms, 1)[i] = ms[i + 1]
    BY <1>1, <1>2
  <2> QED
    BY <2>1 DEF Fits
<1>4. Len(Without(ms, 1)) <= MaxArraySize
  BY <1>1, <1>2, ReplierAssumption DEF Fits
<1> QED
  BY <1>1, <1>3, <1>4 DEF Fits

(* What a torn insert leaves fits the buffer. *)
LEMMA FitsFront ==
  ASSUME NEW ms, Fits(ms), ms # <<>>
  PROVE  Fits(Front(ms))
<1> DEFINE n == Len(ms) - 1
<1>1. Len(ms) \in Nat \ {0} /\ \A i \in 1..Len(ms) : ms[i] \in Memory
  BY EmptySeq, ElementOfSeq DEF Fits
<1>2. n \in Nat /\ \A i \in 1..n : ms[i] \in Memory
  BY <1>1
<1>3. Front(ms) = SubSeq(ms, 1, n)
  BY DEF Front
<1>4. /\ Front(ms) \in Seq(Memory)
      /\ Len(Front(ms)) = IF 1 <= n THEN n - 1 + 1 ELSE 0
      /\ \A i \in 1..(n - 1 + 1) : Front(ms)[i] = ms[1 + i - 1]
  <2> HIDE DEF n
  <2> QED
    BY <1>2, <1>3, SubSeqProperties
<1>5. Len(Front(ms)) = n
  <2> HIDE DEF n
  <2>1. CASE n = 0
    BY <1>4, <2>1
  <2>2. CASE 1 <= n
    BY <1>2, <1>4, <2>2
  <2> QED
    BY <1>2, <2>1, <2>2
<1>6. Len(Front(ms)) <= MaxArraySize
  BY <1>1, <1>5, ReplierAssumption DEF Fits
<1>7. ASSUME NEW i \in 1..Len(Front(ms)) PROVE IsSigned(Front(ms)[i].vrx)
  <2>1. i \in 1..(n - 1 + 1) /\ 1 + i - 1 = i /\ i \in 1..Len(ms)
    BY <1>1, <1>5
  <2>2. Front(ms)[i] = ms[i]
    BY <1>4, <2>1
  <2> QED
    BY <2>1, <2>2 DEF Fits
<1> QED
  BY <1>4, <1>6, <1>7 DEF Fits

(* What insert leaves fits a buffer that had room. *)
LEMMA FitsAppended ==
  ASSUME NEW ms, Fits(ms), Len(ms) < MaxArraySize, NEW m \in Memory, IsSigned(m.vrx)
  PROVE  Fits(Append(ms, m))
<1>1. /\ Append(ms, m) \in Seq(Memory)
      /\ Len(Append(ms, m)) = Len(ms) + 1 /\ Len(ms) \in Nat
      /\ \A i \in 1..Len(ms) : Append(ms, m)[i] = ms[i]
      /\ Append(ms, m)[Len(ms) + 1] = m
  BY DEF Fits
<1>2. Len(Append(ms, m)) <= MaxArraySize
  BY <1>1, ReplierAssumption
<1>3. ASSUME NEW i \in 1..Len(Append(ms, m)) PROVE IsSigned(Append(ms, m)[i].vrx)
  <2>1. CASE i = Len(ms) + 1
    BY <1>1, <2>1
  <2>2. CASE i \in 1..Len(ms)
    BY <1>1, <2>2 DEF Fits
  <2> QED
    BY <1>1, <2>1, <2>2
<1> QED
  BY <1>1, <1>2, <1>3 DEF Fits

(* insert, alone or against a tick, leaves a buffer that fits. *)
LEMMA InsertFits ==
  ASSUME ReplierTypeOK, RepliesSigned, NEW m \in Memory, IsSigned(m.vrx), Insert(m), UNCHANGED signed
  PROVE  ReplierTypeOK' /\ RepliesSigned'
<1> DEFINE again == Again(m)
<1>1. Fits(members)
  BY DEF Fits, ReplierTypeOK, RepliesSigned
<1>2. Len(members) < MaxArraySize /\ m.repeated <= MaxRepeats
  BY DEF Insert, InsertAlone, InsertRacesTick, CanInsert
<1>3. again \in Memory /\ IsSigned(again.vrx)
  <2>1. m.repeated + 1 \in 0..(MaxRepeats + 1)
    BY <1>2, ReplierAssumption DEF Memory
  <2> QED
    BY <2>1 DEF Again, Memory
<1> HIDE DEF again
<1>4. Fits(Append(members, again))
  BY <1>1, <1>2, <1>3, FitsAppended
<1>5. CASE InsertAlone(m)
  <2>1. Fits(members') /\ pub' = pub
    BY <1>4, <1>5 DEF InsertAlone, again
  <2> QED
    BY <2>1 DEF Fits, ReplierTypeOK, RepliesSigned, IsSigned
<1>6. CASE InsertRacesTick(m)
  <2>1. members # <<>> /\ CanPublish /\ pub' = Published
    BY <1>6 DEF InsertRacesTick, CanPublish
  <2>2. members \in Seq(Memory) /\ FirstIndex(members) = 1
    BY <2>1, FirstIndexIsOne DEF ReplierTypeOK
  <2>3. Fits(Without(members, 1)) /\ Len(Without(members, 1)) = Len(members) - 1
    BY <1>1, <2>1, FitsWithoutFirst
  <2>4. Len(Without(members, 1)) < MaxArraySize
    BY <1>2, <2>2, <2>3, LenProperties, ReplierAssumption
  <2>5. Fits(Append(Without(members, 1), again))
    BY <1>3, <2>3, <2>4, FitsAppended
  <2>6. Fits(Front(members))
    BY <1>1, <2>1, FitsFront
  <2>7. Fits(members')
    BY <1>4, <1>6, <2>2, <2>3, <2>5, <2>6 DEF InsertRacesTick, again
  <2>8. /\ pub' \in Seq(Memory) /\ Len(pub') <= MaxArraySize + 1
        /\ \A i \in 1..Len(pub') : IsSigned(pub'[i].vrx)
    BY <2>1, Publishes
  <2> QED
    BY <2>7, <2>8 DEF Fits, ReplierTypeOK, RepliesSigned, IsSigned
<1> QED
  BY <1>5, <1>6 DEF Insert

(* A tick of the replier publishes a memory. *)
LEMMA ReplierTickKeeps ==
  ASSUME BookInv, ReplierTick
  PROVE  BookInv'
<1>1. members # <<>> /\ CanPublish /\ pub' = Published
  BY DEF ReplierTick, Tick, CanPublish
<1>2. dagLoaded
  BY <1>1 DEF BookInv, StartsEmpty
<1>3. ReplierTypeOK /\ RepliesSigned /\ members \in Seq(Memory)
  BY DEF BookInv, ShapeOK, ReplierTypeOK
<1>4. FirstIndex(members) = 1
  BY <1>1, <1>3, FirstIndexIsOne
<1>5. Fits(members)
  BY <1>3 DEF Fits, ReplierTypeOK, RepliesSigned
<1>6. Fits(Without(members, 1))
  BY <1>1, <1>5, FitsWithoutFirst
<1>7. Fits(members')
  BY <1>4, <1>6 DEF ReplierTick, Tick
<1>8. /\ pub' \in Seq(Memory) /\ Len(pub') <= MaxArraySize + 1
      /\ \A i \in 1..Len(pub') : IsSigned(pub'[i].vrx)
  BY <1>1, <1>3, Publishes
<1>9. ReplierTypeOK' /\ RepliesSigned'
  BY <1>7, <1>8 DEF Fits, ReplierTypeOK, RepliesSigned, IsSigned, ReplierTick
<1>10. UNCHANGED <<signed, dagVars, storageVars, counterVars, startVars, thread, truncateVars>>
  BY DEF ReplierTick
<1>11. ShapeOK' /\ StartsEmpty'
  BY <1>2, <1>9, <1>10 DEF BookInv, ShapeOK, StartsEmpty, dagVars, storageVars, counterVars,
                           startVars, truncateVars
<1>12. TrxIndexed' /\ StoredOnce' /\ EdgesAreParents' /\ OneHolder'
  BY <1>10 DEF BookInv, TrxIndexed, StoredOnce, EdgesAreParents, OneHolder, Holds, dagVars,
               storageVars, startVars, TrxOf, IsSigned, ParentHashes
<1>13. \A th \in Thread : ThreadOK(th)'
  BY <1>10 DEF BookInv, ThreadOK, ScansLeaves, SawParents, dagVars, IsSigned, Leaves, IsLeaf
<1> QED
  BY <1>9, <1>11, <1>12, <1>13 DEF BookInv

(* A vertex with a missing parent is memorised. *)
LEMMA MemorizeLeafKeeps ==
  ASSUME BookInv, NEW th \in Thread, NEW p \in Hash, MemorizeLeaf(th, p)
  PROVE  BookInv'
<1>1. thread[th].at = "parents"
  BY DEF MemorizeLeaf, NextParent
<1>2. dagLoaded /\ thread[th].m \in Memory /\ IsSigned(thread[th].m.vrx)
  BY <1>1, LooksAtParents
<1>3. Idle \in ThreadState /\ Idle.at = "idle" /\ Goto(th, Idle)
  BY DEF ThreadState, Idle, MemorizeLeaf
<1>4. UNCHANGED <<signed, dagVars, stored, dagLoaded>>
  BY DEF MemorizeLeaf, storageVars, startVars
<1>5. ThreadOK(th)' /\ ~ Holds(th)'
  BY <1>3, RestingThread
<1>6. /\ thread' \in [Thread -> ThreadState]
      /\ TrxIndexed' /\ StoredOnce' /\ EdgesAreParents' /\ OneHolder'
      /\ \A u \in Thread : ThreadOK(u)'
  BY <1>3, <1>4, <1>5, MovesThread
<1>7. ReplierTypeOK' /\ RepliesSigned'
  BY <1>2, <1>4, InsertFits DEF BookInv, ShapeOK, MemorizeLeaf
<1>8. ShapeOK' /\ StartsEmpty'
  BY <1>2, <1>6, <1>7 DEF BookInv, ShapeOK, StartsEmpty, MemorizeLeaf, dagVars, storageVars,
                          counterVars, startVars, truncateVars
<1> QED
  BY <1>6, <1>7, <1>8 DEF BookInv

(* runLeafSubscriber replays a memory. *)
LEMMA ReplayLeafKeeps ==
  ASSUME BookInv, ReplayLeaf
  PROVE  BookInv'
<1> DEFINE m == Head(pub)
           s == IF PassesChecks(m.vrx) THEN Adding(m) ELSE Idle
<1>1. pub # <<>> /\ pub \in Seq(Memory) /\ Subscriber \in Thread
  BY DEF BookInv, ShapeOK, ReplierTypeOK, ReplayLeaf, Thread
<1>2. dagLoaded
  BY <1>1 DEF BookInv, StartsEmpty
<1>3. /\ m \in Memory /\ Tail(pub) \in Seq(Memory) /\ Len(Tail(pub)) = Len(pub) - 1
      /\ \A i \in 1..Len(Tail(pub)) : Tail(pub)[i] = pub[i + 1]
      /\ Len(pub) \in Nat \ {0}
  BY <1>1, HeadTailProperties, EmptySeq
<1>4. \A i \in 1..Len(pub) : IsSigned(pub[i].vrx)
  BY DEF BookInv, RepliesSigned
<1>5. IsSigned(m.vrx)
  <2>1. m = pub[1] /\ 1 \in 1..Len(pub)
    BY <1>1, <1>3
  <2> QED
    BY <1>4, <2>1
<1>6. UNCHANGED <<signed, dagVars, stored, dagLoaded>> /\ Goto(Subscriber, s)
  BY DEF ReplayLeaf, storageVars, startVars
<1>7. s \in ThreadState /\ ThreadOK(Subscriber)' /\ ~ Holds(Subscriber)'
  <2>1. CASE PassesChecks(m.vrx)
    <3> HIDE DEF m
    <3> QED
      BY <1>1, <1>3, <1>5, <1>6, <2>1, StartsAdding
  <2>2. CASE ~ PassesChecks(m.vrx)
    <3>1. Idle \in ThreadState /\ Idle.at = "idle" /\ s = Idle
      BY <2>2 DEF ThreadState, Idle
    <3> HIDE DEF s
    <3> QED
      BY <1>1, <1>6, <3>1, RestingThread
  <2> QED
    BY <2>1, <2>2
<1> HIDE DEF m, s
<1>8. /\ thread' \in [Thread -> ThreadState]
      /\ TrxIndexed' /\ StoredOnce' /\ EdgesAreParents' /\ OneHolder'
      /\ \A u \in Thread : ThreadOK(u)'
  BY <1>1, <1>6, <1>7, MovesThread
<1>9. ReplierTypeOK' /\ RepliesSigned'
  <2>1. pub' = Tail(pub) /\ members' = members /\ signed' = signed
    BY DEF ReplayLeaf
  <2>2. Len(pub') <= MaxArraySize + 1
    BY <1>3, <2>1, ReplierAssumption DEF BookInv, ShapeOK, ReplierTypeOK
  <2>3. ASSUME NEW i \in 1..Len(pub') PROVE IsSigned(pub'[i].vrx)
    <3>1. i + 1 \in 1..Len(pub) /\ pub'[i] = pub[i + 1]
      BY <1>3, <2>1
    <3> QED
      BY <1>4, <3>1
  <2> QED
    BY <1>3, <2>1, <2>2, <2>3 DEF BookInv, ShapeOK, ReplierTypeOK, RepliesSigned, IsSigned
<1>10. ShapeOK' /\ StartsEmpty'
  BY <1>2, <1>8, <1>9 DEF BookInv, ShapeOK, StartsEmpty, ReplayLeaf, dagVars, storageVars,
                          counterVars, startVars, truncateVars
<1> QED
  BY <1>8, <1>9, <1>10 DEF BookInv


-----------------------------------------------------------------------------
(* A vertex enters the DAG *)

(* A vertex enters the DAG below two vertices of the DAG. *)
LEMMA AddsVertex ==
  ASSUME BookInv, dagLoaded, NEW th \in Thread, NEW h \in Vertex \ (dag \cup stored),
         NEW v \in VertexRecord, trxsToVertx[v.trx] = NoVertex, v.left \in dag, v.right \in dag,
         signed'[h] = v, \A g \in Vertex : IsSigned(g) => signed'[g] = signed[g],
         AddToDag(th, h, v), UNCHANGED <<stored, dagLoaded>>
  PROVE  /\ TrxIndexed' /\ StoredOnce' /\ EdgesAreParents'
         /\ dag' \subseteq Vertex /\ edges' \subseteq Vertex \X Vertex
         /\ trxsToVertx' \in [Trx -> Hash]
<1>1. /\ dag' = dag \cup {h}
      /\ edges' = edges \cup {<<v.left, h>>, <<v.right, h>>}
      /\ trxsToVertx' = [trxsToVertx EXCEPT ![v.trx] = h]
  BY DEF AddToDag
<1>2. /\ dag \subseteq Vertex /\ edges \subseteq Vertex \X Vertex
      /\ trxsToVertx \in [Trx -> Hash] /\ stored \subseteq Vertex
      /\ v.trx \in Trx /\ v # NoVertex /\ h # NoVertex
  BY BookAssumption, ZeroHashAssumption DEF BookInv, ShapeOK, VertexRecord
<1>3. \A g \in dag \cup stored : IsSigned(g) /\ trxsToVertx[TrxOf(g)] = g /\ signed'[g] = signed[g]
  BY <1>2 DEF BookInv, TrxIndexed
<1>4. \A t \in Trx : trxsToVertx'[t] = IF t = v.trx THEN h ELSE trxsToVertx[t]
  BY <1>1, <1>2
<1>5. TrxIndexed'
  <2>1. ASSUME NEW g \in dag' \cup stored' PROVE IsSigned(g)' /\ trxsToVertx'[TrxOf(g)'] = g
    <3>1. CASE g = h
      BY <1>2, <1>4, <3>1 DEF IsSigned, TrxOf
    <3>2. CASE g \in dag \cup stored
      <4>1. IsSigned(g) /\ trxsToVertx[TrxOf(g)] = g /\ signed'[g] = signed[g] /\ g \in Vertex
        BY <1>2, <1>3, <3>2
      <4>2. signed[g] \in VertexRecord
        BY <4>1 DEF BookInv, ShapeOK, IsSigned
      <4>3. TrxOf(g) \in Trx /\ TrxOf(g) # v.trx
        BY <4>1, <4>2, BookAssumption DEF TrxOf, VertexRecord
      <4> QED
        BY <1>4, <4>1, <4>3 DEF IsSigned, TrxOf
    <3> QED
      BY <1>1, <3>1, <3>2
  <2>2. ASSUME NEW t \in Trx, trxsToVertx'[t] # NoVertex
        PROVE  trxsToVertx'[t] \in dag' \cup stored' /\ signed'[trxsToVertx'[t]].trx = t
    <3>1. CASE t = v.trx
      BY <1>1, <1>4, <3>1
    <3>2. CASE t # v.trx
      <4>1. trxsToVertx[t] # NoVertex /\ trxsToVertx'[t] = trxsToVertx[t]
        BY <1>4, <2>2, <3>2
      <4>2. trxsToVertx[t] \in dag \cup stored /\ TrxOf(trxsToVertx[t]) = t
        BY <4>1 DEF BookInv, TrxIndexed
      <4> QED
        BY <1>1, <1>3, <4>1, <4>2 DEF TrxOf
    <3> QED
      BY <3>1, <3>2
  <2> QED
    BY <2>1, <2>2 DEF TrxIndexed, TrxOf
<1>6. StoredOnce'
  BY <1>1 DEF BookInv, StoredOnce
<1>7. EdgesAreParents'
  <2>1. /\ edges = {e \in dag \X dag : e[1] \in ParentHashes(e[2])}
        /\ \A g \in dag : ParentHashes(g) \subseteq dag \cup stored \cup {NoVertex}
    BY DEF BookInv, EdgesAreParents
  <2>2. \A g \in dag : ParentHashes(g)' = ParentHashes(g) /\ h \notin ParentHashes(g)
    BY <1>2, <1>3, <2>1 DEF ParentHashes
  <2>3. ParentHashes(h)' = {v.left, v.right} /\ h \notin {v.left, v.right}
    BY DEF ParentHashes
  <2>4. edges' = {e \in dag' \X dag' : e[1] \in ParentHashes(e[2])'}
    BY <1>1, <2>1, <2>2, <2>3
  <2>5. \A g \in dag' : ParentHashes(g)' \subseteq dag' \cup stored' \cup {NoVertex}
    BY <1>1, <2>1, <2>2, <2>3
  <2> QED
    BY <2>4, <2>5 DEF EdgesAreParents
<1>8. trxsToVertx' \in [Trx -> Hash]
  BY <1>1, <1>2 DEF Hash
<1>9. edges' \subseteq Vertex \X Vertex
  BY <1>1, <1>2
<1> QED
  BY <1>1, <1>2, <1>5, <1>6, <1>7, <1>8, <1>9

(* The new vertex is sent to the truncation loop. *)
LEMMA SendsNext ==
  ASSUME BookInv, NEW th \in Thread, Holds(th), NEW h \in Vertex \ dag, NEW v \in VertexRecord,
         AddToDag(th, h, v), \A g \in Vertex : IsSigned(g) => signed'[g] = signed[g]
  PROVE  /\ thread' \in [Thread -> ThreadState] /\ OneHolder'
         /\ \A u \in Thread : ThreadOK(u)'
<1> DEFINE s == [at |-> "send", weight |-> v.weight]
<1>1. s \in ThreadState /\ s.at = "send" /\ Goto(th, s)
  BY DEF ThreadState, VertexRecord, AddToDag
<1> HIDE DEF s
<1>2. /\ thread' \in [Thread -> ThreadState] /\ OneHolder'
      /\ \A u \in Thread \ {th} : ThreadOK(u)'
  BY <1>1, HolderMoves
<1>3. ThreadOK(th)'
  BY <1>1, RestingThread
<1> QED
  BY <1>2, <1>3

(* addLeafMemorized adds the vertex below its parents. *)
LEMMA AddVertexKeeps ==
  ASSUME BookInv, NEW th \in Thread, AddVertex(th)
  PROVE  BookInv'
<1> DEFINE h == thread[th].m.vrx
           v == signed[h]
<1>1. thread[th].at = "parents" /\ thread[th].todo = <<>> /\ Holds(th) /\ AddToDag(th, h, v)
  BY DEF AddVertex, ParentsDone, Holds
<1>2. dagLoaded /\ IsSigned(h) /\ v \in VertexRecord /\ thread[th].m \in Memory
  BY <1>1, LooksAtParents
<1>3. h \in Vertex /\ v.trx \in Trx
  BY <1>2 DEF Memory, VertexRecord
<1>4. v.left \in dag /\ v.right \in dag
  <2>1. <<v.left, v.right>> # <<>> /\ <<v.right>> # <<>>
    OBVIOUS
  <2>2. \/ thread[th].todo = <<v.left, v.right>>
        \/ thread[th].todo = <<v.right>>
        \/ v.left \in dag /\ v.right \in dag
    BY <1>1 DEF BookInv, ThreadOK, SawParents
  <2> HIDE DEF v
  <2> QED
    BY <1>1, <2>1, <2>2
<1>5. trxsToVertx[v.trx] = NoVertex
  BY DEF AddVertex, saveTrxInVertexFails, TrxOf
<1>6. h \notin dag \cup stored
  BY <1>3, <1>5, BookAssumption DEF BookInv, TrxIndexed, TrxOf
<1>7. UNCHANGED <<signed, stored, dagLoaded>>
  BY DEF AddVertex, storageVars, startVars
<1> HIDE DEF h
<1>8. /\ TrxIndexed' /\ StoredOnce' /\ EdgesAreParents'
      /\ dag' \subseteq Vertex /\ edges' \subseteq Vertex \X Vertex
      /\ trxsToVertx' \in [Trx -> Hash]
  BY <1>1, <1>2, <1>3, <1>4, <1>5, <1>6, <1>7, AddsVertex
<1>9. /\ thread' \in [Thread -> ThreadState] /\ OneHolder'
      /\ \A u \in Thread : ThreadOK(u)'
  BY <1>1, <1>2, <1>3, <1>6, <1>7, SendsNext
<1>10. ShapeOK'
  BY <1>8, <1>9 DEF BookInv, ShapeOK, ReplierTypeOK, AddVertex, storageVars, counterVars,
                    startVars, truncateVars, replierVars
<1>11. RepliesSigned' /\ StartsEmpty'
  BY <1>2 DEF BookInv, RepliesSigned, StartsEmpty, IsSigned, AddVertex, startVars, replierVars
<1> QED
  BY <1>8, <1>9, <1>10, <1>11 DEF BookInv

(* Signing takes a hash no vertex has. *)
LEMMA SignsNew ==
  ASSUME BookInv, SomeUnsigned, NEW v \in VertexRecord, Sign(v)
  PROVE  /\ NewHash \in Vertex /\ ~ IsSigned(NewHash) /\ NewHash \notin dag \cup stored
         /\ signed' \in [Vertex -> VertexRecord \cup {NoVertex}]
         /\ signed'[NewHash] = v
         /\ \A g \in Vertex : IsSigned(g) => signed'[g] = signed[g] /\ IsSigned(g)'
         /\ (members' = members /\ pub' = pub) => RepliesSigned'
<1> DEFINE h == NewHash
<1>1. h \in Vertex /\ ~ IsSigned(h)
  BY DEF NewHash, SomeUnsigned
<1>2. h \notin dag \cup stored
  BY <1>1 DEF BookInv, TrxIndexed
<1>3. signed' = [signed EXCEPT ![h] = v] /\ signed \in [Vertex -> VertexRecord \cup {NoVertex}]
  BY DEF Sign, BookInv, ShapeOK
<1> HIDE DEF h
<1>4. signed' \in [Vertex -> VertexRecord \cup {NoVertex}] /\ signed'[h] = v
  BY <1>1, <1>3
<1>5. \A g \in Vertex : IsSigned(g) => signed'[g] = signed[g] /\ IsSigned(g)'
  BY <1>1, <1>3 DEF IsSigned
<1>6. ASSUME members' = members, pub' = pub PROVE RepliesSigned'
  <2>1. /\ \A i \in 1..Len(members) : members[i] \in Memory
        /\ \A i \in 1..Len(pub) : pub[i] \in Memory
    BY ElementOfSeq DEF BookInv, ShapeOK, ReplierTypeOK
  <2>2. \A m \in Memory : IsSigned(m.vrx) => IsSigned(m.vrx)'
    BY <1>5 DEF Memory
  <2> QED
    BY <1>6, <2>1, <2>2 DEF BookInv, RepliesSigned
<1> QED
  BY <1>1, <1>2, <1>4, <1>5, <1>6 DEF h

(* CreateLeaf signs a tip and adds it below the valid leaves. *)
LEMMA CreateTipKeeps ==
  ASSUME BookInv, NEW th \in Thread, CreateTip(th)
  PROVE  BookInv'
<1> DEFINE t == thread[th].trx
           valid == thread[th].valid
           l == Head(valid)
           r == Last(valid)
           v == NewVertex(t, l, r, calcNewWeight(l, r), Self)
           h == NewHash
<1>1. /\ thread[th].at = "scan" /\ valid # <<>> /\ Holds(th)
      /\ trxsToVertx[t] = NoVertex /\ SomeUnsigned
      /\ Sign(v) /\ AddToDag(th, h, v)
  BY DEF CreateTip, ScanDone, Holds, saveTrxInVertexFails
<1>2. dagLoaded /\ UNCHANGED <<stored, dagLoaded>>
  BY <1>1, WorksOnLoaded DEF CreateTip, storageVars, startVars
<1>3. t \in Trx /\ valid \in Seq(Vertex)
  BY <1>1, StateFields DEF BookInv, ShapeOK
<1>4. l \in dag /\ r \in dag
  <2>1. \A i \in 1..Len(valid) : valid[i] \in dag
    BY <1>1 DEF BookInv, ThreadOK, ScansLeaves
  <2>2. Len(valid) \in Nat \ {0} /\ l = valid[1] /\ r = valid[Len(valid)]
    BY <1>1, <1>3, EmptySeq DEF Last
  <2> HIDE DEF l, r
  <2> QED
    BY <2>1, <2>2
<1> HIDE DEF l, r
<1>5. /\ l \in Vertex /\ signed[l] \in VertexRecord
      /\ r \in Vertex /\ signed[r] \in VertexRecord
  BY <1>4 DEF BookInv, ShapeOK, TrxIndexed, IsSigned
<1>6. calcNewWeight(l, r) \in Nat
  <2>1. signed[l].weight \in Nat /\ signed[r].weight \in Nat
    BY <1>5 DEF VertexRecord
  <2>2. Max({signed[l].weight, signed[r].weight}) \in Nat
    BY <2>1, MaxOfTwo
  <2> QED
    BY <2>2 DEF calcNewWeight
<1>7. v \in VertexRecord /\ v.trx = t /\ v.left = l /\ v.right = r
  BY <1>3, <1>5, <1>6, BookAssumption DEF NewVertex, VertexRecord, Hash
<1> HIDE DEF v, h, t
<1>8. /\ h \in Vertex /\ h \notin dag \cup stored
      /\ signed' \in [Vertex -> VertexRecord \cup {NoVertex}] /\ signed'[h] = v
      /\ \A g \in Vertex : IsSigned(g) => signed'[g] = signed[g]
      /\ (members' = members /\ pub' = pub) => RepliesSigned'
  BY <1>1, <1>7, SignsNew DEF h
<1>9. /\ TrxIndexed' /\ StoredOnce' /\ EdgesAreParents'
      /\ dag' \subseteq Vertex /\ edges' \subseteq Vertex \X Vertex
      /\ trxsToVertx' \in [Trx -> Hash]
  BY <1>1, <1>2, <1>4, <1>7, <1>8, AddsVertex
<1>10. /\ thread' \in [Thread -> ThreadState] /\ OneHolder'
       /\ \A u \in Thread : ThreadOK(u)'
  BY <1>1, <1>7, <1>8, SendsNext
<1>11. ShapeOK'
  BY <1>8, <1>9, <1>10 DEF BookInv, ShapeOK, ReplierTypeOK, CreateTip, storageVars, counterVars,
                           startVars, truncateVars, replierVars
<1>12. RepliesSigned' /\ StartsEmpty'
  <2>1. members' = members /\ pub' = pub /\ loader' = loader
    BY DEF CreateTip, startVars, replierVars
  <2>2. loader # "none"
    BY <1>2 DEF BookInv, StartsEmpty
  <2>3. StartsEmpty'
    BY <1>2, <2>1, <2>2 DEF StartsEmpty
  <2> QED
    BY <1>8, <2>1, <2>3
<1> QED
  BY <1>9, <1>10, <1>11, <1>12 DEF BookInv

-----------------------------------------------------------------------------
(* A leaf is rejected *)

(* A leaf is rejected: its transaction leaves the index, and no vertex has  *)
(* it as a parent.                                                          *)
LEMMA RejectsLeaf ==
  ASSUME BookInv, dagLoaded, NEW h \in Leaves, Reject(h), UNCHANGED <<signed, stored, dagLoaded>>
  PROVE  /\ TrxIndexed' /\ StoredOnce' /\ EdgesAreParents'
         /\ dag' \subseteq Vertex /\ edges' \subseteq Vertex \X Vertex
         /\ trxsToVertx' \in [Trx -> Hash]
         /\ Leaves \ {h} \subseteq Leaves'
<1>1. /\ dag' = dag \ {h}
      /\ edges' = {e \in edges : e[1] # h /\ e[2] # h}
      /\ trxsToVertx' = [trxsToVertx EXCEPT ![TrxOf(h)] = NoVertex]
  BY DEF Reject, EdgesWithout
<1>2. /\ h \in dag /\ dag \subseteq Vertex /\ edges \subseteq Vertex \X Vertex
      /\ trxsToVertx \in [Trx -> Hash] /\ stored \subseteq Vertex
      /\ signed \in [Vertex -> VertexRecord \cup {NoVertex}]
  BY DEF BookInv, ShapeOK, Leaves
<1>3. \A g \in dag \cup stored : IsSigned(g) /\ TrxOf(g) \in Trx /\ trxsToVertx[TrxOf(g)] = g
  BY <1>2 DEF BookInv, TrxIndexed, IsSigned, TrxOf, VertexRecord
<1>4. h \notin stored
  BY <1>2 DEF BookInv, StoredOnce
<1>5. \A g \in Vertex : TrxOf(g)' = TrxOf(g) /\ IsSigned(g)' = IsSigned(g) /\ ParentHashes(g)' = ParentHashes(g)
  BY DEF TrxOf, IsSigned, ParentHashes
<1>6. \A t \in Trx : trxsToVertx'[t] = IF t = TrxOf(h) THEN NoVertex ELSE trxsToVertx[t]
  BY <1>1, <1>2, <1>3
<1>7. TrxIndexed'
  <2>1. ASSUME NEW g \in dag' \cup stored' PROVE IsSigned(g)' /\ trxsToVertx'[TrxOf(g)'] = g
    <3>1. g \in dag \cup stored /\ g # h /\ g \in Vertex
      BY <1>1, <1>2, <1>4
    <3>2. TrxOf(g) # TrxOf(h)
      BY <1>2, <1>3, <3>1
    <3> QED
      BY <1>3, <1>5, <1>6, <3>1, <3>2
  <2>2. ASSUME NEW t \in Trx, trxsToVertx'[t] # NoVertex
        PROVE  trxsToVertx'[t] \in dag' \cup stored' /\ signed'[trxsToVertx'[t]].trx = t
    <3>1. t # TrxOf(h) /\ trxsToVertx'[t] = trxsToVertx[t] /\ trxsToVertx[t] # NoVertex
      BY <1>6, <2>2
    <3>2. trxsToVertx[t] \in dag \cup stored /\ TrxOf(trxsToVertx[t]) = t
      BY <3>1 DEF BookInv, TrxIndexed
    <3> QED
      BY <1>1, <3>1, <3>2 DEF TrxOf
  <2> QED
    BY <2>1, <2>2 DEF TrxIndexed, TrxOf
<1>8. StoredOnce'
  BY <1>1 DEF BookInv, StoredOnce
<1>9. EdgesAreParents'
  <2>1. /\ edges = {e \in dag \X dag : e[1] \in ParentHashes(e[2])}
        /\ \A g \in dag : ParentHashes(g) \subseteq dag \cup stored \cup {NoVertex}
    BY DEF BookInv, EdgesAreParents
  <2>2. edges' = {e \in dag' \X dag' : e[1] \in ParentHashes(e[2])'}
    BY <1>1, <1>2, <1>5, <2>1
  <2>3. \A g \in dag : h \notin ParentHashes(g)
    <3>1. ASSUME NEW g \in dag, h \in ParentHashes(g) PROVE FALSE
      <4>1. <<h, g>> \in edges
        BY <1>2, <2>1, <3>1
      <4> QED
        BY <4>1 DEF Leaves, IsLeaf
    <3> QED
      BY <3>1
  <2>4. \A g \in dag' : ParentHashes(g)' \subseteq dag' \cup stored' \cup {NoVertex}
    BY <1>1, <1>2, <1>5, <2>1, <2>3
  <2> QED
    BY <2>2, <2>4 DEF EdgesAreParents
<1>10. Leaves \ {h} \subseteq Leaves'
  BY <1>1 DEF Leaves, IsLeaf
<1>11. trxsToVertx' \in [Trx -> Hash]
  BY <1>1, <1>2 DEF Hash
<1> QED
  BY <1>1, <1>2, <1>7, <1>8, <1>9, <1>10, <1>11

(* addLeafMemorized removes an invalid parent from the DAG. *)
LEMMA RejectParentKeeps ==
  ASSUME BookInv, NEW th \in Thread, NEW p \in Hash, RejectParent(th, p)
  PROVE  BookInv'
<1>1. thread[th].at = "parents" /\ Holds(th) /\ p \in Leaves /\ Reject(p)
  BY DEF RejectParent, NextParent, Holds
<1>2. dagLoaded
  BY <1>1, WorksOnLoaded
<1>3. UNCHANGED <<signed, stored, dagLoaded>>
  BY DEF RejectParent, storageVars, startVars
<1>4. /\ TrxIndexed' /\ StoredOnce' /\ EdgesAreParents'
      /\ dag' \subseteq Vertex /\ edges' \subseteq Vertex \X Vertex
      /\ trxsToVertx' \in [Trx -> Hash]
  BY <1>1, <1>2, <1>3, RejectsLeaf
<1>5. Idle \in ThreadState /\ Idle.at = "idle" /\ Goto(th, Idle)
  BY DEF ThreadState, Idle, RejectParent
<1>6. /\ thread' \in [Thread -> ThreadState] /\ OneHolder'
      /\ \A u \in Thread \ {th} : ThreadOK(u)'
  BY <1>1, <1>3, <1>5, HolderMoves
<1>7. ThreadOK(th)'
  BY <1>5, RestingThread
<1>8. ShapeOK'
  BY <1>4, <1>6 DEF BookInv, ShapeOK, ReplierTypeOK, RejectParent, storageVars, counterVars,
                    startVars, truncateVars, replierVars
<1>9. RepliesSigned' /\ StartsEmpty'
  BY <1>2 DEF BookInv, RepliesSigned, StartsEmpty, IsSigned, RejectParent, startVars, replierVars
<1> QED
  BY <1>4, <1>6, <1>7, <1>8, <1>9 DEF BookInv

(* getValidLeaves removes an invalid leaf from the DAG. *)
LEMMA ScanInvalidLeafKeeps ==
  ASSUME BookInv, NEW th \in Thread, NEW h \in Vertex, ScanInvalidLeaf(th, h)
  PROVE  BookInv'
<1> DEFINE r == thread[th]
<1>0. PICK stopped \in {r.stopped, r.stopped \/ WalksAncestors(h)} :
        Goto(th, Scan(r.trx, r.todo \ {h}, r.valid, TRUE, stopped))
  BY DEF ScanInvalidLeaf
<1> DEFINE s == Scan(r.trx, r.todo \ {h}, r.valid, TRUE, stopped)
           D == {g \in dag' : \A e \in edges' : e[1] # g}
<1>1. r.at = "scan" /\ h \in r.todo /\ Holds(th) /\ Reject(h) /\ Goto(th, s)
  BY <1>0 DEF ScanInvalidLeaf, Scanning, Holds
<1>2. dagLoaded
  BY <1>1, WorksOnLoaded
<1>3. UNCHANGED <<signed, stored, dagLoaded>>
  BY DEF ScanInvalidLeaf, storageVars
<1>4. /\ r.todo \subseteq Leaves
      /\ \A i \in 1..Len(r.valid) : r.valid[i] \in dag /\ r.valid[i] \notin r.todo
  BY <1>1 DEF BookInv, ThreadOK, ScansLeaves
<1>5. /\ TrxIndexed' /\ StoredOnce' /\ EdgesAreParents'
      /\ dag' \subseteq Vertex /\ edges' \subseteq Vertex \X Vertex
      /\ trxsToVertx' \in [Trx -> Hash]
      /\ Leaves \ {h} \subseteq Leaves'
  BY <1>1, <1>2, <1>3, <1>4, RejectsLeaf
<1>6. r \in [at : {"scan"}, trx : Trx, todo : SUBSET Vertex, valid : Seq(Vertex), err : BOOLEAN,
                                    stopped : BOOLEAN]
  BY <1>1, StateFields DEF BookInv, ShapeOK
<1>7. /\ s \in [at : {"scan"}, trx : Trx, todo : SUBSET Vertex, valid : Seq(Vertex), err : BOOLEAN,
                                    stopped : BOOLEAN]
      /\ s.at = "scan" /\ s.todo = r.todo \ {h} /\ s.valid = r.valid
  BY <1>6 DEF Scan
<1>8. s \in ThreadState
  BY <1>7 DEF ThreadState
<1> HIDE DEF s
<1>9. /\ thread' \in [Thread -> ThreadState] /\ OneHolder' /\ thread'[th] = s
      /\ \A u \in Thread \ {th} : ThreadOK(u)'
  BY <1>1, <1>3, <1>8, HolderMoves
<1>10. ThreadOK(th)'
  <2>1. s.todo \subseteq Leaves'
    BY <1>4, <1>5, <1>7
  <2>2. \A i \in 1..Len(s.valid) : s.valid[i] \in dag' /\ s.valid[i] \notin s.todo
    BY <1>1, <1>4, <1>7 DEF Reject
  <2> QED
    BY <1>7, <1>9, <2>1, <2>2 DEF ThreadOK, ScansLeaves, SawParents
<1>11. /\ weight' \in Nat /\ throughput' \in Nat
       /\ loader' \in {"none", "unlocked", "weighed", "counted", "done"}
       /\ loader' = "none" => loader = "none"
  <2>1. signed[h].weight \in Nat
    BY <1>1, <1>4 DEF BookInv, ShapeOK, TrxIndexed, IsSigned, VertexRecord, Leaves
  <2>2. D \in SUBSET Vertex /\ UpdateWeightAndThroughput(signed[h].weight, Cardinality(D))
    BY <1>5 DEF ScanInvalidLeaf
  <2>3. ShapeOK
    BY DEF BookInv
  <2> HIDE DEF D
  <2> QED
    BY <2>1, <2>2, <2>3, CountersStayNumbers
<1>12. ShapeOK'
  BY <1>5, <1>9, <1>11 DEF BookInv, ShapeOK, ReplierTypeOK, ScanInvalidLeaf, storageVars,
                           truncateVars, replierVars
<1>13. RepliesSigned' /\ StartsEmpty'
  <2>1. UNCHANGED <<signed, members, pub, dagLoaded>>
    BY DEF ScanInvalidLeaf, replierVars
  <2>2. RepliesSigned'
    BY <2>1 DEF BookInv, RepliesSigned, IsSigned
  <2>3. StartsEmpty'
    BY <1>2, <1>3, <1>11, <2>1 DEF BookInv, StartsEmpty
  <2> QED
    BY <2>2, <2>3
<1> QED
  BY <1>5, <1>9, <1>10, <1>12, <1>13 DEF BookInv

-----------------------------------------------------------------------------
(* The truncation loop, the trusted nodes, the deferred steps of LoadDag *)

(* A step that leaves the threads, the DAG and the storage alone. *)
LEMMA LeavesBookAlone ==
  ASSUME BookInv, ShapeOK', UNCHANGED <<signed, dagVars, stored, dagLoaded, thread, replierVars>>,
         loader' = "none" => loader = "none"
  PROVE  BookInv'
<1>1. TrxIndexed' /\ StoredOnce' /\ EdgesAreParents' /\ OneHolder'
  BY DEF BookInv, TrxIndexed, StoredOnce, EdgesAreParents, OneHolder, Holds, dagVars,
         TrxOf, IsSigned, ParentHashes
<1>2. RepliesSigned' /\ StartsEmpty'
  BY DEF BookInv, RepliesSigned, StartsEmpty, IsSigned, dagVars, replierVars
<1>3. \A th \in Thread : ThreadOK(th)'
  BY DEF BookInv, ThreadOK, ScansLeaves, SawParents, dagVars, IsSigned, Leaves, IsLeaf
<1> QED
  BY <1>1, <1>2, <1>3 DEF BookInv

(* The weight the truncation loop works with is a number. *)
LEMMA TruncatorWeight ==
  ASSUME BookInv, truncator.at = "locking"
  PROVE  truncator.weight \in Nat
BY DEF BookInv, ShapeOK, TruncatorState, Waiting, Fatal

(* runTruncate takes a signal, or truncate ends early. *)
LEMMA TruncatorWaitsKeeps ==
  ASSUME BookInv, IgnoreSignal \/ HeedSignal \/ TruncateFails
  PROVE  BookInv'
<1>1. ShapeOK
  BY DEF BookInv
<1>2. CASE IgnoreSignal \/ HeedSignal
  <2>1. /\ truncateSignal \in Seq(Nat) /\ truncateSignal # <<>> /\ truncateSignal' = Tail(truncateSignal)
        /\ Len(truncateSignal) <= InitialThroughput
    BY <1>1, <1>2 DEF ShapeOK, IgnoreSignal, HeedSignal
  <2>2. Head(truncateSignal) \in Nat /\ truncateSignal' \in Seq(Nat)
        /\ Len(truncateSignal') = Len(truncateSignal) - 1 /\ Len(truncateSignal) \in Nat \ {0}
    BY <2>1, HeadTailProperties, EmptySeq
  <2>3. Len(truncateSignal') <= InitialThroughput
    BY <2>1, <2>2, BookAssumption
  <2>4. truncator' \in TruncatorState
    BY <1>1, <1>2, <2>2 DEF ShapeOK, IgnoreSignal, HeedSignal, TruncatorState
  <2>5. ShapeOK'
    BY <1>1, <1>2, <2>2, <2>3, <2>4
    DEF ShapeOK, ReplierTypeOK, IgnoreSignal, HeedSignal, dagVars, storageVars, counterVars,
        startVars, replierVars
  <2> QED
    BY <1>2, <2>5, LeavesBookAlone DEF IgnoreSignal, HeedSignal, storageVars, startVars
<1>3. CASE TruncateFails
  <2>1. truncator.weight \in Nat /\ nextWeightTruncate \in Nat
    BY <1>1, <1>3, TruncatorWeight DEF TruncateFails, ShapeOK
  <2>2. truncator' \in TruncatorState /\ nextWeightTruncate' \in Nat
    BY <1>3, <2>1 DEF TruncateFails, TruncatorState
  <2>3. ShapeOK'
    BY <1>1, <1>3, <2>2
    DEF ShapeOK, ReplierTypeOK, TruncateFails, dagVars, storageVars, counterVars, startVars, replierVars
  <2> QED
    BY <1>3, <2>3, LeavesBookAlone DEF TruncateFails, storageVars, startVars
<1> QED
  BY <1>2, <1>3

(* truncate moves the ancestors of a vertex to the storage. *)
LEMMA TruncateBelowKeeps ==
  ASSUME BookInv, NEW h \in Vertex, NEW top \in Vertex, TruncateBelow(h, top)
  PROVE  BookInv'
<1> DEFINE gone == Ancestors(top)
<1>1. /\ truncator.at = "locking" /\ ~ Locked /\ h \in Leaves
      /\ stored' = stored \cup gone /\ dag' = dag \ gone
      /\ edges' = {e \in edges : e[1] \notin gone /\ e[2] \notin gone}
      /\ UNCHANGED <<signed, trxsToVertx, thread, dagLoaded, loader, replierVars>>
  BY DEF TruncateBelow, MoveToStorage, EdgesWithout, startVars
<1>2. gone \subseteq dag
  BY DEF Ancestors
<1> HIDE DEF gone
<1>3. dag \subseteq Vertex /\ edges \subseteq Vertex \X Vertex /\ stored \subseteq Vertex
  BY DEF BookInv, ShapeOK
<1>4. loader # "none"
  BY <1>1 DEF BookInv, StartsEmpty, Leaves
<1>5. TrxIndexed' /\ StoredOnce'
  BY <1>1, <1>2 DEF BookInv, TrxIndexed, StoredOnce, IsSigned, TrxOf
<1>6. EdgesAreParents'
  <2>1. SUFFICES ASSUME dagLoaded'
                 PROVE  /\ edges' = {e \in dag' \X dag' : e[1] \in ParentHashes(e[2])'}
                        /\ \A g \in dag' : ParentHashes(g)' \subseteq dag' \cup stored' \cup {NoVertex}
    BY DEF EdgesAreParents
  <2>2. /\ edges = {e \in dag \X dag : e[1] \in ParentHashes(e[2])}
        /\ \A g \in dag : ParentHashes(g) \subseteq dag \cup stored \cup {NoVertex}
    BY <1>1, <2>1 DEF BookInv, EdgesAreParents
  <2>3. \A g \in Vertex : ParentHashes(g)' = ParentHashes(g)
    BY <1>1 DEF ParentHashes
  <2> QED
    BY <1>1, <1>2, <1>3, <2>2, <2>3
<1>7. ASSUME NEW th \in Thread PROVE ThreadOK(th)'
  <2>1. thread'[th] = thread[th] /\ thread[th].at \notin {"scan", "parents"} /\ SawParents(th)
    BY <1>1 DEF Locked, BookInv, ThreadOK
  <2> QED
    BY <1>1, <2>1 DEF ThreadOK, ScansLeaves, SawParents, IsSigned
<1>8. OneHolder' /\ RepliesSigned' /\ StartsEmpty'
  BY <1>1, <1>4 DEF BookInv, OneHolder, Holds, RepliesSigned, StartsEmpty, IsSigned, replierVars
<1>9. ShapeOK'
  <2>1. truncator.weight \in Nat /\ nextWeightTruncate \in Nat
    BY <1>1, TruncatorWeight DEF BookInv, ShapeOK
  <2>2. truncator' \in TruncatorState /\ nextWeightTruncate' \in Nat
    BY <2>1 DEF TruncateBelow, TruncatorState
  <2>3. dag' \subseteq Vertex /\ edges' \subseteq Vertex \X Vertex /\ stored' \subseteq Vertex
    BY <1>1, <1>2, <1>3
  <2> QED
    BY <1>1, <2>2, <2>3 DEF BookInv, ShapeOK, ReplierTypeOK, TruncateBelow, counterVars, startVars,
                            replierVars
<1> QED
  BY <1>5, <1>6, <1>7, <1>8, <1>9 DEF BookInv

(* The operator trusts a node, or trusts it no more. *)
LEMMA TrustKeeps ==
  ASSUME BookInv, NEW n \in Trustable, AddTrustedNode(n) \/ RemoveTrustedNode(n)
  PROVE  BookInv'
<1>1. n \in Address
  BY BookAssumption
<1>2. ShapeOK'
  BY <1>1 DEF BookInv, ShapeOK, ReplierTypeOK, AddTrustedNode, RemoveTrustedNode, dagVars,
              counterVars, startVars, truncateVars, replierVars
<1> QED
  BY <1>2, LeavesBookAlone DEF AddTrustedNode, RemoveTrustedNode, startVars

(* The deferred calls of LoadDag touch only the counters. *)
LEMMA DeferredKeeps ==
  ASSUME BookInv, DeferredWeight \/ DeferredCount \/ DeferredReset
  PROVE  BookInv'
<1>1. ShapeOK /\ weight \in Nat /\ throughput \in Nat /\ InitialThroughput \in Nat
  BY BookAssumption DEF BookInv, ShapeOK
<1>2. Cardinality(Leaves) \in Nat
  <2>1. Leaves \in SUBSET Vertex
    BY DEF BookInv, ShapeOK, Leaves
  <2> QED
    BY <2>1, CountsVertices
<1>3. Max({weight, InitialThroughput}) \in Nat
  BY <1>1, MaxOfTwo
<1>4. weight' \in Nat /\ throughput' \in Nat /\ loader' \in {"weighed", "counted", "done"}
  BY <1>1, <1>2, <1>3 DEF DeferredWeight, DeferredCount, DeferredReset
<1>5. UNCHANGED <<signed, dagVars, storageVars, dagLoaded, genesisAddress, thread, truncateVars, replierVars>>
  BY DEF DeferredWeight, DeferredCount, DeferredReset
<1>6. ShapeOK'
  BY <1>1, <1>4, <1>5 DEF ShapeOK, ReplierTypeOK, dagVars, storageVars, truncateVars, replierVars
<1> QED
  BY <1>4, <1>5, <1>6, LeavesBookAlone DEF storageVars

-----------------------------------------------------------------------------
(* The other nodes and the startup *)

(* Some hash is free as long as nothing is signed. *)
LEMMA FirstIsUnsigned ==
  ASSUME SignedVertices = {}
  PROVE  SomeUnsigned
BY BookAssumption DEF SignedVertices, SomeUnsigned

(* A vertex is signed somewhere else: this node's book stays as it is. *)
LEMMA SignsElsewhere ==
  ASSUME BookInv, SomeUnsigned, NEW v \in VertexRecord, Sign(v),
         UNCHANGED <<dagVars, storageVars, counterVars, startVars, thread, truncateVars, replierVars>>
  PROVE  BookInv'
<1>1. /\ signed' \in [Vertex -> VertexRecord \cup {NoVertex}]
      /\ \A g \in Vertex : IsSigned(g) => signed'[g] = signed[g] /\ IsSigned(g)'
      /\ RepliesSigned'
  BY SignsNew DEF replierVars
<1>2. dag \subseteq Vertex /\ stored \subseteq Vertex /\ edges \subseteq Vertex \X Vertex
  BY DEF BookInv, ShapeOK
<1>3. /\ UNCHANGED <<dag, edges, trxsToVertx, stored, thread, dagLoaded, loader, members, pub>>
  BY DEF dagVars, storageVars, startVars, replierVars
<1>4. \A g \in dag \cup stored : IsSigned(g) /\ IsSigned(g)' /\ signed'[g] = signed[g]
  BY <1>1, <1>2 DEF BookInv, TrxIndexed
<1>5. TrxIndexed'
  <2>1. \A g \in dag \cup stored : trxsToVertx[TrxOf(g)'] = g
    BY <1>4 DEF BookInv, TrxIndexed, TrxOf
  <2>2. \A t \in Trx : trxsToVertx[t] # NoVertex =>
          trxsToVertx[t] \in dag \cup stored /\ signed'[trxsToVertx[t]].trx = t
    BY <1>4 DEF BookInv, TrxIndexed, TrxOf
  <2> QED
    BY <1>3, <1>4, <2>1, <2>2 DEF TrxIndexed, TrxOf
<1>6. StoredOnce' /\ StartsEmpty' /\ OneHolder'
  BY <1>3 DEF BookInv, StoredOnce, StartsEmpty, OneHolder, Holds
<1>7. EdgesAreParents'
  <2>1. \A g \in dag : ParentHashes(g)' = ParentHashes(g)
    BY <1>4 DEF ParentHashes
  <2>2. {e \in dag \X dag : e[1] \in ParentHashes(e[2])'} = {e \in dag \X dag : e[1] \in ParentHashes(e[2])}
    BY <2>1
  <2> QED
    BY <1>3, <2>1, <2>2 DEF BookInv, EdgesAreParents
<1>8. ASSUME NEW th \in Thread PROVE ThreadOK(th)'
  <2>1. ScansLeaves(th)'
    BY <1>3 DEF BookInv, ThreadOK, ScansLeaves, Leaves, IsLeaf
  <2>2. SawParents(th)'
    <3>1. SUFFICES ASSUME thread[th].at \in {"add", "parents"} PROVE SawParents(th)'
      BY <1>3 DEF SawParents
    <3>2. thread[th].m \in Memory /\ IsSigned(thread[th].m.vrx) /\ SawParents(th)
      BY <3>1, LooksAtParents DEF BookInv, ThreadOK
    <3>3. thread[th].m.vrx \in Vertex
      BY <3>2 DEF Memory
    <3>4. signed'[thread[th].m.vrx] = signed[thread[th].m.vrx] /\ IsSigned(thread[th].m.vrx)'
      BY <1>1, <3>2, <3>3
    <3> QED
      BY <1>3, <3>2, <3>4 DEF SawParents, IsSigned
  <2> QED
    BY <2>1, <2>2 DEF ThreadOK
<1>9. ShapeOK'
  BY <1>1 DEF BookInv, ShapeOK, ReplierTypeOK, dagVars, storageVars, counterVars, startVars,
              truncateVars, replierVars
<1> QED
  BY <1>1, <1>5, <1>6, <1>7, <1>8, <1>9 DEF BookInv

(* PeerCreateGenesis and PeerCreateLeaf sign a vertex elsewhere. *)
LEMMA NetworkKeeps ==
  ASSUME BookInv, Network
  PROVE  BookInv'
<1>1. CASE \E n \in Peer, t \in Trx : PeerCreateGenesis(n, t)
  <2>1. PICK n \in Peer, t \in Trx : PeerCreateGenesis(n, t)
    BY <1>1
  <2> DEFINE v == NewVertex(t, NoVertex, NoVertex, 0, n)
  <2>2. v \in VertexRecord
    BY BookAssumption DEF NewVertex, VertexRecord, Hash
  <2>3. Sign(v) /\ SomeUnsigned
    BY <2>1, FirstIsUnsigned DEF PeerCreateGenesis
  <2> HIDE DEF v
  <2> QED
    BY <2>1, <2>2, <2>3, SignsElsewhere DEF PeerCreateGenesis
<1>2. CASE PeersMaySign /\ \E n \in Peer, t \in Trx, l, r \in SignedVertices : PeerCreateLeaf(n, t, l, r)
  <2>1. PICK n \in Peer, t \in Trx, l \in SignedVertices, r \in SignedVertices : PeerCreateLeaf(n, t, l, r)
    BY <1>2
  <2> DEFINE v == NewVertex(t, l, r, calcNewWeight(l, r), n)
  <2>2. l \in Vertex /\ signed[l] \in VertexRecord /\ r \in Vertex /\ signed[r] \in VertexRecord
    BY DEF SignedVertices, IsSigned, BookInv, ShapeOK
  <2>3. signed[l].weight \in Nat /\ signed[r].weight \in Nat
    BY <2>2 DEF VertexRecord
  <2>4. Max({signed[l].weight, signed[r].weight}) \in Nat
    BY <2>3, MaxOfTwo
  <2>5. v \in VertexRecord
    BY <2>2, <2>4, BookAssumption DEF NewVertex, VertexRecord, Hash, calcNewWeight
  <2>6. Sign(v) /\ SomeUnsigned
    BY <1>2, <2>1 DEF PeerCreateLeaf, PeersMaySign
  <2> HIDE DEF v
  <2> QED
    BY <2>1, <2>5, <2>6, SignsElsewhere DEF PeerCreateLeaf
<1> QED
  BY <1>1, <1>2 DEF Network

(* The genesis vertex is the first one of an empty book. *)
LEMMA CreateGenesisKeeps ==
  ASSUME BookInv, NEW t \in Trx, CreateGenesis(t)
  PROVE  BookInv'
<1> DEFINE v == NewVertex(t, NoVertex, NoVertex, 0, Self)
           h == NewHash
<1>1. /\ loader = "none" /\ SomeUnsigned /\ Sign(v)
      /\ dag' = dag \cup {h} /\ trxsToVertx' = [trxsToVertx EXCEPT ![t] = h]
      /\ dagLoaded' = TRUE /\ loader' = "done"
      /\ UNCHANGED <<edges, stored, thread, members, pub>>
  BY FirstIsUnsigned DEF CreateGenesis, storageVars, replierVars
<1>2. /\ dag = {} /\ edges = {} /\ stored = {} /\ ~ dagLoaded
      /\ \A u \in Trx : trxsToVertx[u] = NoVertex
      /\ \A th \in Thread : thread[th] = Idle
  BY <1>1 DEF BookInv, StartsEmpty
<1>3. v \in VertexRecord /\ v.trx = t /\ v.left = NoVertex /\ v.right = NoVertex /\ v # NoVertex
  BY BookAssumption, ZeroHashAssumption DEF NewVertex, VertexRecord, Hash
<1>4. Cardinality(Leaves \cup {h}) \in Nat
  <2>1. Leaves \cup {h} \in SUBSET Vertex
    BY <1>1, <1>2 DEF Leaves, SomeUnsigned, NewHash
  <2> HIDE DEF h
  <2> QED
    BY <2>1, CountsVertices
<1>5. weight' \in Nat /\ throughput' \in Nat
  <2>1. weight \in Nat /\ InitialThroughput \in Nat
    BY BookAssumption DEF BookInv, ShapeOK
  <2>2. Max({weight, InitialThroughput}) \in Nat
    BY <2>1, MaxOfTwo
  <2> QED
    BY <1>4, <2>1, <2>2 DEF CreateGenesis
<1> HIDE DEF v, h
<1>6. /\ h \in Vertex /\ h # NoVertex /\ signed'[h] = v /\ RepliesSigned'
      /\ signed' \in [Vertex -> VertexRecord \cup {NoVertex}]
  BY <1>1, <1>3, SignsNew, BookAssumption DEF h
<1>7. trxsToVertx' \in [Trx -> Hash] /\ \A u \in Trx : trxsToVertx'[u] = IF u = t THEN h ELSE NoVertex
  BY <1>1, <1>2, <1>6 DEF BookInv, ShapeOK, Hash
<1>8. TrxIndexed' /\ StoredOnce'
  BY <1>1, <1>2, <1>3, <1>6, <1>7 DEF TrxIndexed, StoredOnce, IsSigned, TrxOf
<1>9. EdgesAreParents'
  BY <1>1, <1>2, <1>3, <1>6 DEF EdgesAreParents, ParentHashes
<1>10. OneHolder' /\ \A th \in Thread : ThreadOK(th)'
  BY <1>1, <1>2, AllIdle
<1>11. StartsEmpty'
  BY <1>1 DEF StartsEmpty
<1>12. ShapeOK'
  BY <1>1, <1>2, <1>5, <1>6, <1>7, BookAssumption
  DEF BookInv, ShapeOK, ReplierTypeOK, CreateGenesis, storageVars, truncateVars, replierVars
<1> QED
  BY <1>6, <1>8, <1>9, <1>10, <1>11, <1>12 DEF BookInv

(* What a stream leaves in an empty book, whether LoadDag succeeds or not. *)
LEMMA StreamIndexed ==
  ASSUME BookInv, loader = "none", NEW S \in SUBSET SignedVertices, ReceiveStream(S)
  PROVE  /\ TrxIndexed' /\ StoredOnce' /\ OneHolder' /\ RepliesSigned'
         /\ \A th \in Thread : ThreadOK(th)' /\ thread'[th] = Idle
         /\ trxsToVertx' \in [Trx -> Hash] /\ dag' \subseteq Vertex
         /\ members' = members /\ pub' = pub
<1>1. /\ dag = {} /\ stored = {} /\ \A t \in Trx : trxsToVertx[t] = NoVertex
      /\ \A th \in Thread : thread[th] = Idle
  BY DEF BookInv, StartsEmpty
<1>2. /\ DistinctTrxs(S) /\ dag' = S
      /\ trxsToVertx' = [t \in Trx |-> IF \E h \in S : TrxOf(h) = t
                                       THEN CHOOSE h \in S : TrxOf(h) = t
                                       ELSE trxsToVertx[t]]
      /\ UNCHANGED <<signed, stored, thread, members, pub>>
  BY DEF ReceiveStream, Streamable, storageVars, replierVars
<1>3. S \subseteq Vertex /\ \A h \in S : IsSigned(h) /\ signed[h] \in VertexRecord /\ TrxOf(h) \in Trx
  <2>1. S \subseteq Vertex /\ \A h \in S : IsSigned(h) /\ signed[h] \in VertexRecord
    BY DEF SignedVertices, IsSigned, BookInv, ShapeOK
  <2> QED
    BY <2>1 DEF TrxOf, VertexRecord
<1>4. \A t \in Trx : IF \E h \in S : TrxOf(h) = t
                     THEN trxsToVertx'[t] \in S /\ TrxOf(trxsToVertx'[t]) = t
                     ELSE trxsToVertx'[t] = NoVertex
  BY <1>1, <1>2
<1>5. trxsToVertx' \in [Trx -> Hash]
  BY <1>1, <1>2, <1>3 DEF Hash
<1>6. \A h \in S : trxsToVertx'[TrxOf(h)] = h
  BY <1>2, <1>3, <1>4 DEF DistinctTrxs
<1>7. TrxIndexed'
  <2>1. \A h \in Vertex : IsSigned(h)' = IsSigned(h)
    BY <1>2 DEF IsSigned
  <2>2. \A t \in Trx : trxsToVertx'[t] # NoVertex =>
          trxsToVertx'[t] \in S /\ signed[trxsToVertx'[t]].trx = t
    BY <1>4 DEF TrxOf
  <2> QED
    BY <1>1, <1>2, <1>3, <1>6, <2>1, <2>2 DEF TrxIndexed, TrxOf
<1>8. OneHolder' /\ \A th \in Thread : ThreadOK(th)' /\ thread'[th] = Idle
  BY <1>1, <1>2, AllIdle
<1>9. StoredOnce' /\ RepliesSigned'
  BY <1>1, <1>2 DEF StoredOnce, RepliesSigned, IsSigned, BookInv
<1> QED
  BY <1>2, <1>3, <1>5, <1>7, <1>8, <1>9

(* LoadDag: every parent of a vertex of the stream is in the stream. *)
LEMMA LoadDagKeeps ==
  ASSUME BookInv, loader = "none", NEW S \in SUBSET SignedVertices, LoadDag(S)
  PROVE  BookInv'
<1>1. /\ S # {} /\ \A h \in S : ParentHashes(h) \subseteq S \cup {NoVertex}
      /\ ReceiveStream(S) /\ dag' = S /\ edges' = ParentEdges(S)
      /\ dagLoaded' = TRUE /\ loader' = "unlocked" /\ signed' = signed
  BY DEF LoadDag, MissesParent, ReceiveStream
<1>2. /\ TrxIndexed' /\ StoredOnce' /\ OneHolder' /\ RepliesSigned'
      /\ \A th \in Thread : ThreadOK(th)'
      /\ trxsToVertx' \in [Trx -> Hash] /\ dag' \subseteq Vertex
  BY <1>1, StreamIndexed
<1>3. S \subseteq Vertex /\ \A h \in S : signed[h] \in VertexRecord
  BY DEF SignedVertices, IsSigned, BookInv, ShapeOK
<1>4. edges' = {e \in S \X S : e[1] \in ParentHashes(e[2])}
  <2>1. \A h \in S : ParentHashes(h) \ {NoVertex} = ParentHashes(h) \cap S
    BY <1>1, <1>3, BookAssumption
  <2>2. ParentEdges(S) = UNION {{<<p, h>> : p \in ParentHashes(h) \cap S} : h \in S}
    BY <2>1 DEF ParentEdges
  <2> QED
    BY <1>1, <2>2
<1>5. EdgesAreParents'
  <2>1. \A h \in Vertex : ParentHashes(h)' = ParentHashes(h)
    BY <1>1 DEF ParentHashes
  <2>2. {e \in S \X S : e[1] \in ParentHashes(e[2])'} = {e \in S \X S : e[1] \in ParentHashes(e[2])}
    BY <1>3, <2>1
  <2> QED
    BY <1>1, <1>3, <1>4, <2>1, <2>2 DEF EdgesAreParents
<1>6. StartsEmpty'
  BY <1>1 DEF StartsEmpty
<1>7. nextWeightTruncate' \in Nat
  <2>1. PICK h \in S : nextWeightTruncate' = nextWeightTruncate + signed[h].weight
    BY DEF LoadDag
  <2>2. signed[h].weight \in Nat /\ nextWeightTruncate \in Nat
    BY <1>3 DEF VertexRecord, BookInv, ShapeOK
  <2> QED
    BY <2>1, <2>2
<1>8. genesisAddress' \in Address
  <2>1. PICK h \in S : genesisAddress' = TrxOf(h).issuer
    BY DEF LoadDag
  <2>2. signed[h].trx \in TrxRecord
    BY <1>3, BookAssumption DEF VertexRecord
  <2> QED
    BY <2>1, <2>2 DEF TrxOf, TrxRecord
<1>9. edges' \subseteq Vertex \X Vertex
  BY <1>3, <1>4
<1>10. ShapeOK'
  BY <1>1, <1>2, <1>7, <1>8, <1>9 DEF BookInv, ShapeOK, ReplierTypeOK, ReceiveStream, storageVars,
                                    counterVars, replierVars
<1> QED
  BY <1>2, <1>5, <1>6, <1>10 DEF BookInv

(* LoadDag that fails leaves vertices and some edges, and the DAG not loaded. *)
LEMMA LoadDagFailsKeeps ==
  ASSUME BookInv, loader = "none", NEW S \in SUBSET SignedVertices, LoadDagFails(S)
  PROVE  BookInv'
<1>1. /\ ReceiveStream(S) /\ loader' = "unlocked" /\ ~ dagLoaded /\ UNCHANGED dagLoaded
      /\ members = <<>> /\ pub = <<>>
  BY DEF LoadDagFails, ReceiveStream, BookInv, StartsEmpty
<1>2. /\ TrxIndexed' /\ StoredOnce' /\ OneHolder' /\ RepliesSigned'
      /\ \A th \in Thread : ThreadOK(th)' /\ thread'[th] = Idle
      /\ trxsToVertx' \in [Trx -> Hash] /\ dag' \subseteq Vertex
      /\ members' = members /\ pub' = pub
  BY <1>1, StreamIndexed
<1>3. S \subseteq Vertex
  BY DEF SignedVertices
<1>4. edges' \subseteq Vertex \X Vertex
  <2>1. CASE S = {} /\ UNCHANGED edges
    BY <2>1 DEF BookInv, ShapeOK
  <2>2. ASSUME NEW h \in S, NEW done \in SUBSET {g \in S : ~ MissesParent(g, S)},
               edges' = ParentEdges(done) \cup {<<p, h>> : p \in {signed[h].left} \cap S}
        PROVE  edges' \subseteq Vertex \X Vertex
    <3>1. \A g \in done : g \in Vertex /\ ParentHashes(g) \ {NoVertex} \subseteq Vertex
      BY <1>3 DEF MissesParent
    <3>2. ParentEdges(done) \subseteq Vertex \X Vertex
      BY <3>1 DEF ParentEdges
    <3> QED
      BY <1>3, <2>2, <3>2
  <2> QED
    BY <2>1, <2>2 DEF LoadDagFails
<1>5. EdgesAreParents' /\ StartsEmpty'
  BY <1>1, <1>2 DEF EdgesAreParents, StartsEmpty
<1>6. ShapeOK'
  BY <1>1, <1>2, <1>4 DEF BookInv, ShapeOK, ReplierTypeOK, LoadDagFails, ReceiveStream, storageVars,
                          counterVars, replierVars
<1> QED
  BY <1>2, <1>5, <1>6 DEF BookInv

-----------------------------------------------------------------------------
(* Every step *)

(* Every step of a handler or of the subscriber keeps the invariant. *)
LEMMA ThreadStepKeeps ==
  ASSUME BookInv, NEW th \in Thread, ThreadStep(th)
  PROVE  BookInv'
<1>1. CASE CreateLeafStep(th)
  BY <1>1, CreateLeafLockKeeps, ScanValidLeafKeeps, ScanInvalidLeafKeeps, CreateLeafEndsKeeps,
     CreateTipKeeps DEF CreateLeafStep
<1>2. CASE AddLeafStep(th)
  <2>1. CASE AddLeafLock(th) \/ AddVertex(th)
    BY <2>1, AddLeafLockKeeps, AddVertexKeeps
  <2>2. CASE AddLeafFails(th)
    <3>1. NoVertex \in Hash
      BY DEF Hash
    <3> QED
      BY <2>2, <3>1, AddLeafEndsKeeps
  <2>3. ASSUME NEW p \in Hash,
               \/ MemorizeLeaf(th, p) \/ RefuseLeaf(th, p)
               \/ RejectParent(th, p) \/ AcceptParent(th, p) \/ PassParent(th, p)
        PROVE  BookInv'
    BY <2>3, MemorizeLeafKeeps, AddLeafEndsKeeps, RejectParentKeeps, AcceptParentKeeps, PassParentKeeps
  <2> QED
    BY <1>2, <2>1, <2>2, <2>3 DEF AddLeafStep
<1>3. CASE SendSignal(th)
  BY <1>3, SendSignalKeeps
<1> QED
  BY <1>1, <1>2, <1>3 DEF ThreadStep

(* Every step keeps the invariant. *)
LEMMA NextKeeps ==
  ASSUME BookInv, [Next]_vars
  PROVE  BookInv'
<1>1. CASE Start
  BY <1>1, CreateGenesisKeeps, LoadDagKeeps, LoadDagFailsKeeps, DeferredKeeps DEF Start
<1>2. CASE Network
  BY <1>2, NetworkKeeps
<1>3. CASE \E th \in Handler, t \in Trx : CreateLeaf(th, t)
  BY <1>3, CreateLeafKeeps DEF Thread
<1>4. CASE \E th \in Handler, h \in SignedVertices : AddLeaf(th, h)
  BY <1>4, AddLeafKeeps DEF Thread
<1>5. CASE \E th \in Thread : ThreadStep(th)
  BY <1>5, ThreadStepKeeps
<1>6. CASE ReplayLeaf
  BY <1>6, ReplayLeafKeeps
<1>7. CASE ReplierTick
  BY <1>7, ReplierTickKeeps
<1>8. CASE TruncatorStep
  BY <1>8, TruncatorWaitsKeeps, TruncateBelowKeeps DEF TruncatorStep
<1>9. CASE \E n \in Trustable : AddTrustedNode(n) \/ RemoveTrustedNode(n)
  BY <1>9, TrustKeeps
<1>10. CASE UNCHANGED vars
  <2>1. ShapeOK'
    BY <1>10 DEF BookInv, ShapeOK, ReplierTypeOK, vars, dagVars, storageVars, counterVars, startVars,
                 truncateVars, replierVars
  <2> QED
    BY <1>10, <2>1, LeavesBookAlone DEF vars, storageVars, startVars
<1> QED
  BY <1>1, <1>2, <1>3, <1>4, <1>5, <1>6, <1>7, <1>8, <1>9, <1>10 DEF Next

-----------------------------------------------------------------------------
(* What steps leave alone *)

(* Handlers and subscriber work on a loaded DAG, and store nothing. *)
LEMMA ThreadWorks ==
  ASSUME BookInv, NEW th \in Thread, ThreadStep(th)
  PROVE  dagLoaded /\ UNCHANGED <<dagLoaded, genesisAddress, stored, funds, trusted>>
<1>1. thread[th].at # "idle"
  BY DEF ThreadStep, CreateLeafStep, AddLeafStep, CreateLeafLock, ScanValidLeaf, ScanInvalidLeaf,
         Scanning, ScanDone, CreateLeafFails, CreateTip, CreateLeafPanics, AddLeafLock, NextParent,
         MemorizeLeaf, RefuseLeaf, RejectParent, AcceptParent, PassParent, ParentsDone,
         AddLeafFails, AddVertex, SendSignal
<1>2. UNCHANGED <<dagLoaded, genesisAddress, stored, funds, trusted>>
  BY DEF ThreadStep, CreateLeafStep, AddLeafStep, CreateLeafLock, ScanValidLeaf, ScanInvalidLeaf,
         CreateLeafFails, CreateTip, CreateLeafPanics, AddLeafLock, MemorizeLeaf, RefuseLeaf,
         RejectParent, AcceptParent, PassParent, AddLeafFails, AddVertex, SendSignal,
         startVars, storageVars
<1> QED
  BY <1>1, <1>2, WorksOnLoaded

(* The steps of the others, and those that concern neither vertices nor     *)
(* start-up.                                                                *)
Aside ==
  \/ ReplierTick \/ IgnoreSignal \/ HeedSignal \/ TruncateFails
  \/ \E n \in Trustable : AddTrustedNode(n) \/ RemoveTrustedNode(n)
  \/ UNCHANGED vars

(* They leave graph, storage, handlers and start-up as they are. *)
LEMMA AsideChangesNothing ==
  ASSUME Aside
  PROVE  UNCHANGED <<signed, dag, edges, stored, funds, thread, dagLoaded, genesisAddress, loader>>
BY DEF Aside, ReplierTick, IgnoreSignal, HeedSignal, TruncateFails, AddTrustedNode, RemoveTrustedNode,
       vars, dagVars, storageVars, startVars

(* A vertex signed by another node is no genesis of this one. *)
LEMMA NetworkSignsOthers ==
  ASSUME BookInv, Network
  PROVE  /\ UNCHANGED <<dag, edges, stored, funds, trusted, thread, dagLoaded, genesisAddress, loader>>
         /\ \A g \in Vertex : IsSigned(g) => signed'[g] = signed[g]
         /\ \A g \in Vertex : signed'[g] = signed[g]
              \/ signed'[g].left # NoVertex \/ signed'[g].trx.issuer # Self
<1>1. PICK v : /\ SomeUnsigned /\ Sign(v)
               /\ v.left # NoVertex \/ v.trx.issuer # Self
               /\ UNCHANGED <<dagVars, storageVars, startVars, thread>>
  <2>1. ASSUME NEW n \in Peer, NEW t \in Trx, PeerCreateGenesis(n, t)
        PROVE  /\ SomeUnsigned /\ Sign(NewVertex(t, NoVertex, NoVertex, 0, n))
               /\ NewVertex(t, NoVertex, NoVertex, 0, n).trx.issuer # Self
               /\ UNCHANGED <<dagVars, storageVars, startVars, thread>>
    BY <2>1, FirstIsUnsigned, BookAssumption DEF PeerCreateGenesis, NewVertex
  <2>2. ASSUME NEW n \in Peer, NEW t \in Trx, NEW l \in SignedVertices, NEW r \in SignedVertices,
               PeersMaySign, PeerCreateLeaf(n, t, l, r)
        PROVE  /\ SomeUnsigned /\ Sign(NewVertex(t, l, r, calcNewWeight(l, r), n))
               /\ NewVertex(t, l, r, calcNewWeight(l, r), n).left # NoVertex
               /\ UNCHANGED <<dagVars, storageVars, startVars, thread>>
    BY <2>2, BookAssumption DEF PeerCreateLeaf, PeersMaySign, NewVertex, SignedVertices
  <2> QED
    BY <2>1, <2>2 DEF Network
<1>2. PICK x : x \in Vertex /\ ~ IsSigned(x) /\ signed' = [signed EXCEPT ![x] = v]
  BY <1>1 DEF SomeUnsigned, NewHash, Sign
<1>3. \A g \in Vertex : signed'[g] = IF g = x THEN v ELSE signed[g]
  BY <1>2 DEF BookInv, ShapeOK
<1> QED
  BY <1>1, <1>2, <1>3 DEF dagVars, storageVars, startVars

(* Only a book with a loaded DAG signals and truncates. *)
SignalsWhenLoaded ==
  ~ dagLoaded => truncateSignal = <<>> /\ truncator.at # "locking"

(* The storage does not change but by a truncation. *)
LEMMA OnlyTruncationStores ==
  ASSUME BookInv, [Next]_vars
  PROVE  stored' = stored \/ \E h, top \in Vertex : TruncateBelow(h, top)
<1>1. CASE Start
  BY <1>1 DEF Start, CreateGenesis, LoadDag, LoadDagFails, ReceiveStream, DeferredWeight, DeferredCount,
              DeferredReset, storageVars
<1>2. CASE Network
  BY <1>2 DEF Network, PeerCreateGenesis, PeerCreateLeaf, storageVars
<1>3. CASE \/ \E th \in Handler, t \in Trx : CreateLeaf(th, t)
           \/ \E th \in Handler, h \in SignedVertices : AddLeaf(th, h)
           \/ ReplayLeaf
  BY <1>3 DEF CreateLeaf, AddLeaf, ReplayLeaf, storageVars
<1>4. ASSUME NEW th \in Thread, ThreadStep(th) PROVE stored' = stored
  BY <1>4, ThreadWorks
<1>5. CASE Aside
  BY <1>5, AsideChangesNothing
<1> QED
  BY <1>1, <1>2, <1>3, <1>4, <1>5 DEF Next, TruncatorStep, Aside

(* A book whose DAG is not loaded stays without signals. *)
LEMMA SignalsStayLoaded ==
  ASSUME BookInv, SignalsWhenLoaded, [Next]_vars
  PROVE  SignalsWhenLoaded'
<1> SUFFICES ASSUME ~ dagLoaded'
             PROVE  truncateSignal' = <<>> /\ truncator'.at # "locking"
  BY DEF SignalsWhenLoaded
<1> DEFINE Quiet == dagLoaded' = dagLoaded /\ truncateSignal' = truncateSignal /\ truncator' = truncator
<1>1. CASE Start
  <2>1. ASSUME NEW t \in Trx, CreateGenesis(t) PROVE FALSE
    BY <2>1 DEF CreateGenesis
  <2>2. ASSUME NEW S, LoadDag(S) PROVE FALSE
    BY <2>2 DEF LoadDag
  <2>3. ASSUME NEW S, LoadDagFails(S) PROVE Quiet
    BY <2>3 DEF LoadDagFails, ReceiveStream
  <2>4. CASE DeferredWeight \/ DeferredCount \/ DeferredReset
    BY <2>4 DEF DeferredWeight, DeferredCount, DeferredReset, truncateVars, SignalsWhenLoaded
  <2>5. CASE Quiet
    BY <2>5 DEF SignalsWhenLoaded
  <2> QED
    BY <1>1, <2>1, <2>2, <2>3, <2>4, <2>5 DEF Start
<1>2. CASE Network
  <2>1. Quiet
    BY <1>2 DEF Network, PeerCreateGenesis, PeerCreateLeaf, truncateVars, startVars
  <2> QED
    BY <2>1 DEF SignalsWhenLoaded
<1>3. CASE \/ \E th \in Handler, t \in Trx : CreateLeaf(th, t)
           \/ \E th \in Handler, h \in SignedVertices : AddLeaf(th, h)
  <2>1. Quiet
    BY <1>3 DEF CreateLeaf, AddLeaf, truncateVars, startVars
  <2> QED
    BY <2>1 DEF SignalsWhenLoaded
<1>4. ASSUME NEW th \in Thread, ThreadStep(th) PROVE FALSE
  BY <1>4, ThreadWorks
<1>5. CASE ReplayLeaf \/ ReplierTick
  <2>1. Quiet
    BY <1>5 DEF ReplayLeaf, ReplierTick, truncateVars, startVars
  <2> QED
    BY <2>1 DEF SignalsWhenLoaded
<1>6. CASE TruncatorStep
  <2>1. dagLoaded' = dagLoaded /\ (truncateSignal # <<>> \/ truncator.at = "locking")
    BY <1>6 DEF TruncatorStep, IgnoreSignal, HeedSignal, TruncateFails, TruncateBelow, startVars
  <2> QED
    BY <2>1 DEF SignalsWhenLoaded
<1>7. CASE \E n \in Trustable : AddTrustedNode(n) \/ RemoveTrustedNode(n)
  <2>1. Quiet
    BY <1>7 DEF AddTrustedNode, RemoveTrustedNode, truncateVars, startVars
  <2> QED
    BY <2>1 DEF SignalsWhenLoaded
<1>8. CASE UNCHANGED vars
  <2>1. Quiet
    BY <1>8 DEF vars, truncateVars, startVars
  <2> QED
    BY <2>1 DEF SignalsWhenLoaded
<1> QED
  BY <1>1, <1>2, <1>3, <1>4, <1>5, <1>6, <1>7, <1>8 DEF Next
-----------------------------------------------------------------------------
(* Safety *)

(* The inductive invariant of the accounting book holds throughout. *)
THEOREM BookSafe == Spec => []BookInv
<1>1. Init => BookInv
  BY InitHolds
<1>2. BookInv /\ [Next]_vars => BookInv'
  BY NextKeeps
<1> QED
  BY <1>1, <1>2, PTL DEF Spec

(* Every variable but the stored funds keeps its type; the buffer of the    *)
(* replier, its channel and truncateSignal never exceed their capacities.   *)
THEOREM ShapeCorrect == Spec => []ShapeOK
<1>1. BookInv => ShapeOK
  BY DEF BookInv
<1> QED
  BY <1>1, BookSafe, PTL

(* A transaction is in one vertex of the DAG and the storage, and the index *)
(* that CreateLeaf and addLeafMemorized consult knows it.                   *)
THEOREM TrxUnique == Spec => []TrxIndexed
<1>1. BookInv => TrxIndexed
  BY DEF BookInv
<1> QED
  BY <1>1, BookSafe, PTL

(* A truncation never stores a vertex a second time. *)
THEOREM NeverStoredTwice == Spec => []StoredOnce
<1>1. BookInv => StoredOnce
  BY DEF BookInv
<1> QED
  BY <1>1, BookSafe, PTL

(* The graph the node walks to validate funds is the one its peers signed,  *)
(* cut at what it has in the storage.                                       *)
THEOREM GraphIsSigned == Spec => []EdgesAreParents
<1>1. BookInv => EdgesAreParents
  BY DEF BookInv
<1> QED
  BY <1>1, BookSafe, PTL

(* ab.mux excludes: at no time are two goroutines between its Lock and its  *)
(* Unlock.                                                                  *)
THEOREM MutualExclusion == Spec => []OneHolder
<1>1. BookInv => OneHolder
  BY DEF BookInv
<1> QED
  BY <1>1, BookSafe, PTL

-----------------------------------------------------------------------------
(* The accounting book implements the ledger *)

(* A step that leaves the signed, the DAG and the storage alone does not    *)
(* concern the ledger.                                                      *)
LEMMA LedgerStutters ==
  ASSUME UNCHANGED <<signed, dag, stored>>
  PROVE  UNCHANGED L!ledgerVars
BY DEF L!ledgerVars

(* No step changes a signed vertex. *)
LEMMA SignedStays ==
  ASSUME BookInv, SomeUnsigned, NEW v \in VertexRecord, Sign(v)
  PROVE  L!KeepSignatures
<1>1. \A g \in Vertex : IsSigned(g) => signed'[g] = signed[g]
  BY SignsNew
<1> QED
  BY <1>1 DEF L!KeepSignatures, L!IsSigned, IsSigned

(* Another node signs a vertex. *)
LEMMA NetworkSigns ==
  ASSUME BookInv, Network
  PROVE  L!Next
<1>1. UNCHANGED <<dag, stored>>
  BY DEF Network, PeerCreateGenesis, PeerCreateLeaf, dagVars, storageVars
<1>2. L!KeepSignatures
  <2>1. CASE \E n \in Peer, t \in Trx : PeerCreateGenesis(n, t)
    <3>1. PICK n \in Peer, t \in Trx : PeerCreateGenesis(n, t)
      BY <2>1
    <3> DEFINE v == NewVertex(t, NoVertex, NoVertex, 0, n)
    <3>2. v \in VertexRecord
      BY BookAssumption DEF NewVertex, VertexRecord, Hash
    <3>3. Sign(v) /\ SomeUnsigned
      BY <3>1, FirstIsUnsigned DEF PeerCreateGenesis
    <3> HIDE DEF v
    <3> QED
      BY <3>2, <3>3, SignedStays
  <2>2. CASE PeersMaySign /\ \E n \in Peer, t \in Trx, l, r \in SignedVertices : PeerCreateLeaf(n, t, l, r)
    <3>1. PICK n \in Peer, t \in Trx, l \in SignedVertices, r \in SignedVertices : PeerCreateLeaf(n, t, l, r)
      BY <2>2
    <3> DEFINE v == NewVertex(t, l, r, calcNewWeight(l, r), n)
    <3>2. l \in Vertex /\ signed[l] \in VertexRecord /\ r \in Vertex /\ signed[r] \in VertexRecord
      BY DEF SignedVertices, IsSigned, BookInv, ShapeOK
    <3>3. signed[l].weight \in Nat /\ signed[r].weight \in Nat
      BY <3>2 DEF VertexRecord
    <3>4. Max({signed[l].weight, signed[r].weight}) \in Nat
      BY <3>3, MaxOfTwo
    <3>5. v \in VertexRecord
      BY <3>2, <3>4, BookAssumption DEF NewVertex, VertexRecord, Hash, calcNewWeight
    <3>6. Sign(v) /\ SomeUnsigned
      BY <2>2, <3>1 DEF PeerCreateLeaf, PeersMaySign
    <3> HIDE DEF v
    <3> QED
      BY <3>5, <3>6, SignedStays
  <2> QED
    BY <2>1, <2>2 DEF Network
<1>3. L!SignElsewhere
  BY <1>1 DEF L!SignElsewhere
<1> QED
  BY <1>2, <1>3 DEF L!Next

(* Two vertices a book holds have different transactions. *)
LEMMA HeldAreDistinct ==
  ASSUME BookInv'
  PROVE  \A h \in dag' \cup stored' :
           /\ h \in Vertex /\ L!IsSigned(h)'
           /\ \A g \in dag' \cup stored' : L!TrxIn(g)' = L!TrxIn(h)' => g = h
<1>1. dag' \cup stored' \subseteq Vertex
  BY DEF BookInv, ShapeOK
<1>2. \A h \in dag' \cup stored' : L!IsSigned(h)' /\ trxsToVertx'[L!TrxIn(h)'] = h
  BY DEF BookInv, TrxIndexed, TrxOf, IsSigned, L!IsSigned, L!TrxIn
<1> QED
  BY <1>1, <1>2

(* CreateGenesis and LoadDag, whether it fails or not, open an empty book. *)
LEMMA StartOpens ==
  ASSUME BookInv, BookInv', L!KeepSignatures, dag = {}, stored = {}, stored' = stored
  PROVE  L!Next
<1>1. L!Open
  BY HeldAreDistinct DEF L!Open
<1> QED
  BY <1>1 DEF L!Next

(* A vertex the book did not hold enters it below parents it holds. *)
LEMMA AddingTakes ==
  ASSUME BookInv, BookInv', L!KeepSignatures, NEW h \in Vertex, h \notin dag \cup stored,
         dag' = dag \cup {h}, stored' = stored,
         signed'[h].left \in dag, signed'[h].right \in dag
  PROVE  L!Next
<1>1. \A g \in dag \cup stored : L!IsSigned(g) /\ g \in Vertex
  BY DEF BookInv, ShapeOK, TrxIndexed, IsSigned, L!IsSigned
<1>2. \A g \in dag \cup stored : signed'[g] = signed[g]
  BY <1>1 DEF L!KeepSignatures
<1>3. L!IsSigned(h)' /\ \A g \in dag \cup stored : L!TrxIn(g)' # L!TrxIn(h)'
  BY HeldAreDistinct
<1>4. \A g \in dag \cup stored : L!TrxIn(g) # L!TrxIn(h)'
  BY <1>2, <1>3 DEF L!TrxIn
<1>5. L!Parents(h)' \subseteq dag \cup stored
  BY DEF L!Parents
<1>6. L!Take(h)
  BY <1>3, <1>4, <1>5 DEF L!Take
<1> QED
  BY <1>6 DEF L!Next

(* A leaf of the DAG is given up. *)
LEMMA RejectDrops ==
  ASSUME BookInv, dagLoaded, NEW h \in Leaves, Reject(h), UNCHANGED <<signed, stored>>
  PROVE  L!Next
<1>1. h \in dag /\ h \notin stored /\ dag \subseteq Vertex
  BY DEF Leaves, BookInv, StoredOnce, ShapeOK
<1>2. dag' = dag \ {h}
  BY DEF Reject
<1>3. ASSUME NEW g \in dag, h \in L!Parents(g) PROVE FALSE
  <2>1. h \in ParentHashes(g)
    BY <1>3 DEF L!Parents, ParentHashes
  <2>2. <<h, g>> \in edges
    BY <1>1, <2>1 DEF BookInv, EdgesAreParents
  <2> QED
    BY <2>2 DEF Leaves, IsLeaf
<1>4. (dag \cup stored) \ stored \subseteq dag /\ dag' \cup stored' = (dag \cup stored) \ {h}
  BY <1>1, <1>2
<1>5. L!Drop(h)
  BY <1>1, <1>3, <1>4 DEF L!Drop
<1>6. L!KeepSignatures
  BY DEF L!KeepSignatures
<1> QED
  BY <1>1, <1>5, <1>6 DEF L!Next

(* truncate settles what it moves to the storage. *)
LEMMA TruncateSettles ==
  ASSUME NEW h \in Vertex, NEW top \in Vertex, TruncateBelow(h, top)
  PROVE  L!Next
<1> DEFINE gone == Ancestors(top)
<1>1. stored' = stored \cup gone /\ dag' = dag \ gone /\ signed' = signed
  BY DEF TruncateBelow, MoveToStorage
<1>2. gone \subseteq dag
  BY DEF Ancestors
<1> HIDE DEF gone
<1>3. L!Settle
  BY <1>1, <1>2 DEF L!Settle
<1>4. L!KeepSignatures
  BY <1>1 DEF L!KeepSignatures
<1> QED
  BY <1>3, <1>4 DEF L!Next

-----------------------------------------------------------------------------
(* The startup and the goroutines *)

(* The startup opens the ledger. *)
LEMMA StartImplements ==
  ASSUME BookInv, BookInv', Start
  PROVE  L!Next \/ UNCHANGED L!ledgerVars
<1>1. CASE \E t \in Trx : CreateGenesis(t)
  <2>1. PICK t \in Trx : CreateGenesis(t)
    BY <1>1
  <2> DEFINE v == NewVertex(t, NoVertex, NoVertex, 0, Self)
  <2>2. /\ loader = "none" /\ SomeUnsigned /\ Sign(v) /\ stored' = stored
    BY <2>1, FirstIsUnsigned DEF CreateGenesis, storageVars
  <2>3. v \in VertexRecord
    BY BookAssumption DEF NewVertex, VertexRecord, Hash
  <2> HIDE DEF v
  <2>4. L!KeepSignatures
    BY <2>2, <2>3, SignedStays
  <2>5. dag = {} /\ stored = {}
    BY <2>2 DEF BookInv, StartsEmpty
  <2> QED
    BY <2>2, <2>4, <2>5, StartOpens
<1>2. CASE loader = "none" /\ \E S \in SUBSET SignedVertices : LoadDag(S) \/ LoadDagFails(S)
  <2>1. signed' = signed /\ stored' = stored
    BY <1>2 DEF LoadDag, LoadDagFails, ReceiveStream, storageVars
  <2>2. L!KeepSignatures
    BY <2>1 DEF L!KeepSignatures
  <2>3. dag = {} /\ stored = {}
    BY <1>2 DEF BookInv, StartsEmpty
  <2> QED
    BY <2>1, <2>2, <2>3, StartOpens
<1>3. CASE DeferredWeight \/ DeferredCount \/ DeferredReset
  BY <1>3, LedgerStutters DEF DeferredWeight, DeferredCount, DeferredReset, dagVars, storageVars
<1> QED
  BY <1>1, <1>2, <1>3 DEF Start

(* CreateTip takes the vertex it signs, below two leaves it found valid. *)
LEMMA CreateTipTakes ==
  ASSUME BookInv, BookInv', NEW th \in Thread, CreateTip(th)
  PROVE  L!Next
<1> DEFINE t == thread[th].trx
           valid == thread[th].valid
           l == Head(valid)
           r == Last(valid)
           v == NewVertex(t, l, r, calcNewWeight(l, r), Self)
           h == NewHash
<1>1. /\ thread[th].at = "scan" /\ valid # <<>> /\ SomeUnsigned
      /\ Sign(v) /\ AddToDag(th, h, v) /\ stored' = stored
  BY DEF CreateTip, ScanDone, storageVars
<1>2. t \in Trx /\ valid \in Seq(Vertex)
  BY <1>1, StateFields DEF BookInv, ShapeOK
<1>3. l \in dag /\ r \in dag
  <2>1. \A i \in 1..Len(valid) : valid[i] \in dag
    BY <1>1 DEF BookInv, ThreadOK, ScansLeaves
  <2>2. Len(valid) \in Nat \ {0}
    BY <1>1, <1>2, EmptySeq
  <2>3. l = valid[1] /\ r = valid[Len(valid)]
    BY DEF Last
  <2> HIDE DEF l, r
  <2> QED
    BY <2>1, <2>2, <2>3
<1> HIDE DEF l, r
<1>4. /\ l \in Vertex /\ signed[l] \in VertexRecord
      /\ r \in Vertex /\ signed[r] \in VertexRecord
  BY <1>3 DEF BookInv, ShapeOK, TrxIndexed, IsSigned
<1>5. calcNewWeight(l, r) \in Nat
  <2>1. signed[l].weight \in Nat /\ signed[r].weight \in Nat
    BY <1>4 DEF VertexRecord
  <2>2. Max({signed[l].weight, signed[r].weight}) \in Nat
    BY <2>1, MaxOfTwo
  <2> QED
    BY <2>2 DEF calcNewWeight
<1>6. v \in VertexRecord /\ v.left = l /\ v.right = r
  BY <1>2, <1>4, <1>5, BookAssumption DEF NewVertex, VertexRecord, Hash
<1> HIDE DEF v, h
<1>7. h \in Vertex /\ h \notin dag \cup stored /\ signed'[h] = v
  BY <1>1, <1>6, SignsNew DEF h
<1>8. dag' = dag \cup {h}
  BY <1>1 DEF AddToDag
<1>9. L!KeepSignatures
  BY <1>1, <1>6, SignedStays
<1> QED
  BY <1>1, <1>3, <1>6, <1>7, <1>8, <1>9, AddingTakes

(* AddVertex takes the vertex whose parents it found in the DAG. *)
LEMMA AddVertexTakes ==
  ASSUME BookInv, BookInv', NEW th \in Thread, AddVertex(th)
  PROVE  L!Next
<1> DEFINE h == thread[th].m.vrx
           v == signed[h]
<1>1. thread[th].at = "parents" /\ thread[th].todo = <<>> /\ AddToDag(th, h, v)
  BY DEF AddVertex, ParentsDone
<1>2. IsSigned(h) /\ v \in VertexRecord /\ thread[th].m \in Memory
  BY <1>1, LooksAtParents
<1>3. h \in Vertex /\ v.trx \in Trx
  BY <1>2 DEF Memory, VertexRecord
<1>4. v.left \in dag /\ v.right \in dag
  <2>1. <<v.left, v.right>> # <<>> /\ <<v.right>> # <<>>
    OBVIOUS
  <2>2. \/ thread[th].todo = <<v.left, v.right>>
        \/ thread[th].todo = <<v.right>>
        \/ v.left \in dag /\ v.right \in dag
    BY <1>1 DEF BookInv, ThreadOK, SawParents
  <2> HIDE DEF v
  <2> QED
    BY <1>1, <2>1, <2>2
<1>5. trxsToVertx[v.trx] = NoVertex
  BY DEF AddVertex, saveTrxInVertexFails, TrxOf
<1>6. h \notin dag \cup stored
  BY <1>3, <1>5, BookAssumption DEF BookInv, TrxIndexed, TrxOf
<1>7. dag' = dag \cup {h} /\ UNCHANGED <<signed, stored>>
  BY <1>1 DEF AddVertex, AddToDag, storageVars
<1>8. L!KeepSignatures
  BY <1>7 DEF L!KeepSignatures
<1> HIDE DEF h
<1> QED
  BY <1>3, <1>4, <1>6, <1>7, <1>8, AddingTakes

(* The steps of handlers and of the subscriber are steps of the ledger. *)
LEMMA ThreadImplements ==
  ASSUME BookInv, BookInv', NEW th \in Thread, ThreadStep(th)
  PROVE  L!Next \/ UNCHANGED L!ledgerVars
<1>1. CASE \/ CreateLeafLock(th) \/ CreateLeafFails(th) \/ CreateLeafPanics(th)
           \/ AddLeafLock(th) \/ AddLeafFails(th) \/ SendSignal(th)
  BY <1>1, LedgerStutters DEF CreateLeafLock, CreateLeafFails, CreateLeafPanics, AddLeafLock,
                              AddLeafFails, SendSignal, dagVars, storageVars
<1>2. ASSUME NEW h \in Vertex, ScanValidLeaf(th, h) PROVE UNCHANGED L!ledgerVars
  BY <1>2, LedgerStutters DEF ScanValidLeaf, dagVars, storageVars
<1>3. ASSUME NEW h \in Vertex, ScanInvalidLeaf(th, h) PROVE L!Next
  <2>1. thread[th].at = "scan" /\ h \in thread[th].todo /\ Reject(h) /\ UNCHANGED <<signed, stored>>
    BY <1>3 DEF ScanInvalidLeaf, Scanning, storageVars
  <2>2. h \in Leaves /\ dagLoaded
    BY <2>1, WorksOnLoaded DEF BookInv, ThreadOK, ScansLeaves
  <2> QED
    BY <2>1, <2>2, RejectDrops
<1>4. ASSUME NEW p \in Hash, MemorizeLeaf(th, p) \/ RefuseLeaf(th, p) \/ AcceptParent(th, p) \/ PassParent(th, p)
      PROVE  UNCHANGED L!ledgerVars
  BY <1>4, LedgerStutters DEF MemorizeLeaf, RefuseLeaf, AcceptParent, PassParent, dagVars, storageVars
<1>5. ASSUME NEW p \in Hash, RejectParent(th, p) PROVE L!Next
  <2>1. thread[th].at = "parents" /\ p \in Leaves /\ Reject(p) /\ UNCHANGED <<signed, stored>>
    BY <1>5 DEF RejectParent, NextParent, storageVars
  <2> QED
    BY <2>1, WorksOnLoaded, RejectDrops
<1> QED
  BY <1>1, <1>2, <1>3, <1>4, <1>5, CreateTipTakes, AddVertexTakes
  DEF ThreadStep, CreateLeafStep, AddLeafStep

(* Every step of the accounting book is a step of the ledger or none. *)
LEMMA NextImplements ==
  ASSUME BookInv, BookInv', [Next]_vars
  PROVE  L!Next \/ UNCHANGED L!ledgerVars
<1>1. CASE Start
  BY <1>1, StartImplements
<1>2. CASE Network
  BY <1>2, NetworkSigns
<1>3. CASE \/ \E th \in Handler, t \in Trx : CreateLeaf(th, t)
           \/ \E th \in Handler, h \in SignedVertices : AddLeaf(th, h)
  BY <1>3, LedgerStutters DEF CreateLeaf, AddLeaf, dagVars, storageVars
<1>4. CASE \E th \in Thread : ThreadStep(th)
  BY <1>4, ThreadImplements
<1>5. CASE ReplayLeaf \/ ReplierTick
  BY <1>5, LedgerStutters DEF ReplayLeaf, ReplierTick, dagVars, storageVars
<1>6. CASE TruncatorStep
  <2>1. CASE IgnoreSignal \/ HeedSignal \/ TruncateFails
    BY <2>1, LedgerStutters DEF IgnoreSignal, HeedSignal, TruncateFails, dagVars, storageVars
  <2>2. CASE \E h, top \in Vertex : TruncateBelow(h, top)
    BY <2>2, TruncateSettles
  <2> QED
    BY <1>6, <2>1, <2>2 DEF TruncatorStep
<1>7. CASE \E n \in Trustable : AddTrustedNode(n) \/ RemoveTrustedNode(n)
  BY <1>7, LedgerStutters DEF AddTrustedNode, RemoveTrustedNode, dagVars
<1>8. CASE UNCHANGED vars
  BY <1>8, LedgerStutters DEF vars, dagVars, storageVars
<1> QED
  BY <1>1, <1>2, <1>3, <1>4, <1>5, <1>6, <1>7, <1>8 DEF Next

(* The accounting book, with its locks, its replays, its truncation and any *)
(* number of handlers, is a ledger: seen from its servers, vertices are     *)
(* taken in one step, below parents that are held, each transaction once,  *)
(* and what is settled stays.                                               *)
THEOREM BookImplementsLedger == Spec => ImplementsLedger
<1>1. Init => L!Init
  BY DEF Init, L!Init
<1>2. BookInv /\ BookInv' /\ [Next]_vars => [L!Next]_(L!ledgerVars)
  BY NextImplements
<1> QED
  BY <1>1, <1>2, BookSafe, PTL DEF Spec, ImplementsLedger, L!Spec

(* A node that has been running goes on as a ledger: nothing but the steps *)
(* of a ledger follows from whatever it holds.                              *)
THEOREM BookStepsOfLedger == Spec => StepsOfLedger
<1>1. BookInv /\ BookInv' /\ [Next]_vars => [L!Next]_(L!ledgerVars)
  BY NextImplements
<1> QED
  BY <1>1, BookSafe, PTL DEF Spec, StepsOfLedger

-----------------------------------------------------------------------------
(* The storage is closed under parents *)

(* A truncation takes a vertex only with its parents, unless they are in    *)
(* the storage.                                                             *)
LEMMA TruncationStoresParents ==
  ASSUME BookInv, dagLoaded, StorageIsClosed, NEW h \in Vertex, NEW top \in Vertex, TruncateBelow(h, top)
  PROVE  StorageIsClosed'
<1>1. edges \subseteq Vertex \X Vertex /\ dag \subseteq Vertex /\ IsFiniteSet(Vertex)
  BY BookAssumption DEF BookInv, ShapeOK
<1>2. stored' = stored \cup Ancestors(top) /\ signed' = signed
  BY DEF TruncateBelow, MoveToStorage
<1>3. \A x \in AncestorsIn(edges, top) : ParentsIn(edges, x) \subseteq AncestorsIn(edges, top)
  BY <1>1, AncestorsClosed
<1>4. ASSUME NEW x \in Ancestors(top), NEW p \in ParentHashes(x) PROVE p \in stored' \cup {NoVertex}
  <2>1. x \in dag /\ p \in dag \cup stored \cup {NoVertex}
    BY <1>4 DEF BookInv, EdgesAreParents, Ancestors
  <2>2. CASE p \in dag
    <3>1. <<p, x>> \in edges
      BY <2>1, <2>2, <1>4 DEF BookInv, EdgesAreParents
    <3>2. p \in ParentsIn(edges, x)
      BY <3>1 DEF ParentsIn
    <3>3. p \in Ancestors(top)
      BY <1>3, <1>4, <2>2, <3>2 DEF Ancestors
    <3> QED
      BY <1>2, <3>3
  <2> QED
    BY <1>2, <2>1, <2>2
<1>5. ASSUME NEW x \in stored' PROVE ParentHashes(x)' \subseteq stored' \cup {NoVertex}
  <2>1. ParentHashes(x)' = ParentHashes(x)
    BY <1>2 DEF ParentHashes
  <2>2. CASE x \in stored
    BY <1>2, <2>1, <2>2 DEF StorageIsClosed
  <2>3. CASE x \in Ancestors(top)
    BY <1>4, <2>1, <2>3
  <2> QED
    BY <1>2, <2>2, <2>3
<1> QED
  BY <1>5 DEF StorageIsClosed

(* Every step keeps the storage closed. *)
LEMMA StorageStaysClosed ==
  ASSUME BookInv, BookInv', SignalsWhenLoaded, StorageIsClosed, [Next]_vars
  PROVE  StorageIsClosed'
<1>1. CASE stored' = stored
  <2>1. L!KeepSignatures \/ signed' = signed
    BY NextImplements DEF L!Next, L!ledgerVars
  <2>2. \A h \in stored : h \in Vertex /\ IsSigned(h)
    BY DEF BookInv, ShapeOK, TrxIndexed
  <2>3. \A h \in stored : signed'[h] = signed[h]
    BY <2>1, <2>2 DEF L!KeepSignatures, L!IsSigned, IsSigned
  <2>4. \A h \in stored : ParentHashes(h)' = ParentHashes(h)
    BY <2>3 DEF ParentHashes
  <2> QED
    BY <1>1, <2>4 DEF StorageIsClosed
<1>2. ASSUME NEW h \in Vertex, NEW top \in Vertex, TruncateBelow(h, top) PROVE StorageIsClosed'
  <2>1. dagLoaded
    BY <1>2 DEF SignalsWhenLoaded, TruncateBelow
  <2> QED
    BY <1>2, <2>1, TruncationStoresParents
<1> QED
  BY <1>1, <1>2, OnlyTruncationStores

(* Whatever is truncated, by leaves of any shape of the DAG and however     *)
(* often, a truncation that runs to its end leaves no vertex in the storage *)
(* without its ancestry: what is stored refers to nothing that a later      *)
(* validation could still reject.                                           *)
THEOREM StorageClosed == Spec => []StorageIsClosed
<1>1. Init => StorageIsClosed /\ SignalsWhenLoaded
  BY DEF Init, StorageIsClosed, SignalsWhenLoaded, Waiting
<1>2. BookInv /\ BookInv' /\ StorageIsClosed /\ SignalsWhenLoaded /\ [Next]_vars
        => StorageIsClosed' /\ SignalsWhenLoaded'
  BY StorageStaysClosed, SignalsStayLoaded
<1> QED
  BY <1>1, <1>2, BookSafe, PTL DEF Spec

-----------------------------------------------------------------------------
(* What is referenced is funded *)

(* Validated, or a root, or of a kind that is not validated by funds. *)
Covered(h) ==
  stored = {} => \/ IsRoot(h) \/ ~ IsSpiceTransfer(TrxOf(h)) \/ signed[h].signer \in Trustable
                 \/ HasSufficientFunds(h)

(* What a handler has found valid, and the parents it has looked at. *)
Seen(th) ==
  {g \in dag :
     \/ thread[th].at = "scan" /\ \E i \in 1..Len(thread[th].valid) : g = thread[th].valid[i]
     \/ /\ thread[th].at = "parents"
        /\ \/ /\ thread[th].todo = <<signed[thread[th].m.vrx].right>>
              /\ g = signed[thread[th].m.vrx].left
           \/ thread[th].todo = <<>> /\ g \in ParentHashes(thread[th].m.vrx)}

AllCovered ==
  /\ \A h \in dag : IsLeaf(h) \/ Covered(h)
  /\ \A th \in Thread : \A g \in Seen(th) : Covered(g)

FoundedHere == dagLoaded /\ genesisAddress = Self

(* Only this node calls its own wallet the issuer of a genesis, when it     *)
(* starts.                                                                  *)
StartedWell ==
  /\ trusted \subseteq Trustable
  /\ funds \in [Address -> Nat]
  /\ loader = "none" => \A h \in SignedVertices : signed[h].left = NoVertex => TrxOf(h).issuer # Self

CoverInv == StartedWell /\ (FoundedHere => AllCovered)

(* The signed vertices of the DAG and what is stored for good stay. *)
Keeps == /\ \A g \in dag : signed'[g] = signed[g]
         /\ stored' = stored /\ funds' = funds

(* The graph changes around one vertex without children, or not at all. *)
ChangesAt(x) ==
  /\ \A e \in edges \cup edges' : e[1] # x
  /\ \A y : y # x => ParentsIn(edges, y) = ParentsIn(edges', y)
  /\ dag \ {x} = dag' \ {x}

(* A vertex stays covered while leaves come and go. *)
LEMMA CoveredStays ==
  ASSUME BookInv, Keeps, NEW h \in dag,
         \/ dag' = dag /\ edges' = edges
         \/ \E x : x # h /\ ChangesAt(x),
         Covered(h)
  PROVE  Covered(h)'
<1>1. AncestorsIn(edges', h) = AncestorsIn(edges, h)
      /\ dag' \cap AncestorsIn(edges', h) = dag \cap AncestorsIn(edges, h)
      /\ ParentsIn(edges', h) = ParentsIn(edges, h)
  <2>1. CASE dag' = dag /\ edges' = edges
    BY <2>1
  <2>2. ASSUME NEW x, x # h, ChangesAt(x)
        PROVE  /\ AncestorsIn(edges', h) = AncestorsIn(edges, h)
               /\ dag' \cap AncestorsIn(edges', h) = dag \cap AncestorsIn(edges, h)
               /\ ParentsIn(edges', h) = ParentsIn(edges, h)
    <3>1. PICK E, F : E = edges /\ F = edges'
      OBVIOUS
    <3>2. /\ h # x /\ \A e \in E \cup F : e[1] # x
          /\ \A y : y # x => ParentsIn(E, y) = ParentsIn(F, y)
      BY <2>2, <3>1 DEF ChangesAt
    <3>3. AncestorsIn(E, h) = AncestorsIn(F, h) /\ x \notin AncestorsIn(E, h)
      BY <3>2, AncestorsSame
    <3> QED
      BY <2>2, <3>1, <3>2, <3>3 DEF ChangesAt
  <2> QED
    BY <2>1, <2>2
<1>2. IsRoot(h)' <=> IsRoot(h)
  <2>1. (IsRoot(h) <=> ParentsIn(edges, h) = {}) /\ (IsRoot(h)' <=> ParentsIn(edges', h) = {})
    BY DEF IsRoot, ParentsIn
  <2> QED
    BY <1>1, <2>1
<1>3. signed'[h] = signed[h] /\ stored' = stored
  BY DEF Keeps
<1>4. HasSufficientFunds(h)' <=> HasSufficientFunds(h)
  <2>1. PICK S, a : S = Ancestors(h) \cup {h} /\ a = TrxOf(h).issuer
    OBVIOUS
  <2>2. (Ancestors(h) \cup {h})' = S /\ (TrxOf(h).issuer)' = a /\ funds' = funds
    BY <1>1, <1>3, <2>1 DEF Ancestors, TrxOf, Keeps
  <2>3. \A g \in S : signed'[g] = signed[g]
    BY <2>1 DEF Ancestors, Keeps
  <2>4. PICK sig, sig2 : sig = signed /\ sig2 = signed'
    OBVIOUS
  <2>5. IssuedIn(sig2, a, S) = IssuedIn(sig, a, S) /\ ReceivedIn(sig2, a, S) = ReceivedIn(sig, a, S)
    BY <2>3, <2>4, SumsStay
  <2>6. Issued(a, S)' = Issued(a, S) /\ Received(a, S)' = Received(a, S)
    BY <2>4, <2>5, IssuedNow, IssuedNext
  <2>7. HasSufficientFunds(h) <=> funds[a] + Received(a, S) >= Issued(a, S)
    BY <2>1 DEF HasSufficientFunds
  <2>8. HasSufficientFunds(h)' <=> funds'[a] + Received(a, S)' >= Issued(a, S)'
    BY <2>2 DEF HasSufficientFunds
  <2> QED
    BY <2>2, <2>6, <2>7, <2>8
<1> QED
  BY <1>2, <1>3, <1>4 DEF Covered, TrxOf

(* A leaf that validateLeaf accepts is covered. *)
LEMMA ValidIsCovered ==
  ASSUME StartedWell, NEW h, validateLeaf(h)
  PROVE  Covered(h)
BY DEF StartedWell, validateLeaf, Covered

(* A step keeps all covered if whatever gets a child, and whatever a handler *)
(* comes to see, is covered.                                                *)
LEMMA AllStayCovered ==
  ASSUME BookInv, AllCovered, Keeps,
         \/ dag' = dag /\ edges' = edges
         \/ \E x : x \notin dag \cap dag' /\ ChangesAt(x),
         \A h \in dag' : IsLeaf(h)' \/ (h \in dag /\ Covered(h)),
         \A th \in Thread : \A g \in Seen(th)' : g \in dag /\ Covered(g)
  PROVE  AllCovered'
<1>1. ASSUME NEW h \in dag \cap dag', Covered(h) PROVE Covered(h)'
  <2>1. \/ dag' = dag /\ edges' = edges
        \/ \E x : x # h /\ ChangesAt(x)
    BY <1>1
  <2> QED
    BY <1>1, <2>1, CoveredStays
<1>2. \A th \in Thread : Seen(th)' \subseteq dag'
  BY DEF Seen
<1> QED
  BY <1>1, <1>2 DEF AllCovered

(* A handler that does not move sees what it saw. *)
LEMMA SightStays ==
  ASSUME BookInv, NEW th \in Thread, thread'[th] = thread[th],
         dag' = dag \/ ~ Holds(th), \A g \in Vertex : IsSigned(g) => signed'[g] = signed[g]
  PROVE  Seen(th)' \subseteq Seen(th)
<1>1. CASE thread[th].at = "parents"
  <2>1. PICK h \in Vertex : h = thread[th].m.vrx /\ IsSigned(h)
    BY <1>1, LooksAtParents DEF Memory
  <2>2. signed'[h] = signed[h] /\ thread'[th].m.vrx = h /\ dag' = dag
    BY <1>1, <2>1 DEF Holds
  <2> QED
    BY <1>1, <2>1, <2>2 DEF Seen, ParentHashes
<1>2. CASE thread[th].at # "parents"
  BY <1>2 DEF Seen, Holds
<1> QED
  BY <1>1, <1>2

(* A handler that neither scans nor looks at parents sees nothing. *)
LEMMA SeesNothing ==
  ASSUME NEW th \in Thread, thread'[th].at \notin {"scan", "parents"}
  PROVE  Seen(th)' = {}
BY DEF Seen

(* A step that leaves the graph alone keeps all covered if what the handler *)
(* that moves comes to see is covered.                                      *)
LEMMA MovesCovered ==
  ASSUME BookInv, AllCovered, UNCHANGED <<dag, edges, stored, funds>>, 
         \A g \in Vertex : IsSigned(g) => signed'[g] = signed[g],
         NEW th \in Thread, \A u \in Thread \ {th} : thread'[u] = thread[u],
         \A g \in Seen(th)' : g \in Seen(th) \/ (g \in dag /\ Covered(g))
  PROVE  AllCovered'
<1>1. Keeps
  BY DEF BookInv, ShapeOK, TrxIndexed, Keeps
<1>2. \A h \in dag' : IsLeaf(h)' \/ (h \in dag /\ Covered(h))
  BY DEF AllCovered, IsLeaf
<1>3. \A u \in Thread : \A g \in Seen(u)' : g \in dag /\ Covered(g)
  <2>1. \A u \in Thread : \A g \in Seen(u) : g \in dag /\ Covered(g)
    BY DEF AllCovered, Seen
  <2>2. \A u \in Thread \ {th} : Seen(u)' \subseteq Seen(u)
    BY SightStays
  <2> QED
    BY <2>1, <2>2
<1> QED
  BY <1>1, <1>2, <1>3, AllStayCovered

(* The steps of a handler that leave the graph alone. *)
Rests(th) ==
  \/ \E t \in Trx : CreateLeaf(th, t)
  \/ \E h \in SignedVertices : AddLeaf(th, h)
  \/ CreateLeafLock(th) \/ CreateLeafFails(th) \/ CreateLeafPanics(th)
  \/ AddLeafLock(th) \/ AddLeafFails(th) \/ SendSignal(th)
  \/ \E p \in Hash : MemorizeLeaf(th, p) \/ RefuseLeaf(th, p)

(* They leave everything covered. *)
LEMMA RestsCovered ==
  ASSUME BookInv, AllCovered, NEW th \in Thread, Rests(th)
  PROVE  AllCovered'
<1>1. UNCHANGED <<signed, dag, edges, stored, funds>>
  BY DEF Rests, CreateLeaf, AddLeaf, CreateLeafLock, CreateLeafFails, CreateLeafPanics, AddLeafLock,
         AddLeafFails, SendSignal, MemorizeLeaf, RefuseLeaf, dagVars, storageVars
<1>2. PICK s : Goto(th, s) /\ (s.at \notin {"scan", "parents"}
                               \/ (CreateLeafLock(th) /\ s = Scan(thread[th].trx, Leaves, <<>>, FALSE, FALSE))
                               \/ (AddLeafLock(th) /\ s = [thread[th] EXCEPT !.at = "parents"]))
  <2>1. /\ Idle.at = "idle" /\ [at |-> "panic"].at = "panic"
        /\ \A t : [at |-> "create", trx |-> t].at = "create"
        /\ \A m : Adding(m).at = "add"
    BY DEF Idle, Adding
  <2>2. CASE CreateLeafLock(th) \/ AddLeafLock(th)
    BY <2>2 DEF CreateLeafLock, AddLeafLock
  <2>3. CASE \E t \in Trx : CreateLeaf(th, t)
    BY <2>1, <2>3 DEF CreateLeaf
  <2>4. CASE \E h \in SignedVertices : AddLeaf(th, h)
    BY <2>1, <2>4 DEF AddLeaf
  <2>5. CASE CreateLeafPanics(th)
    BY <2>1, <2>5 DEF CreateLeafPanics
  <2>6. CASE \/ CreateLeafFails(th) \/ AddLeafFails(th) \/ SendSignal(th)
             \/ \E p \in Hash : MemorizeLeaf(th, p) \/ RefuseLeaf(th, p)
    BY <2>1, <2>6 DEF CreateLeafFails, AddLeafFails, SendSignal, MemorizeLeaf, RefuseLeaf
  <2> QED
    BY <2>2, <2>3, <2>4, <2>5, <2>6 DEF Rests
<1>3. thread'[th] = s /\ \A u \in Thread \ {th} : thread'[u] = thread[u]
  BY <1>2 DEF BookInv, ShapeOK, Goto
<1>4. Seen(th)' = {}
  <2>1. CASE s.at \notin {"scan", "parents"}
    BY <1>3, <2>1, SeesNothing
  <2>2. CASE s = Scan(thread[th].trx, Leaves, <<>>, FALSE, FALSE)
    <3>1. s.at = "scan" /\ Len(s.valid) = 0
      BY <2>2 DEF Scan
    <3> QED
      BY <1>3, <3>1 DEF Seen
  <2>3. CASE AddLeafLock(th) /\ s = [thread[th] EXCEPT !.at = "parents"]
    <3>1. thread[th].at = "add" /\ thread[th] \in [at : {"add", "parents"}, m : Memory, todo : Seq(Hash)]
      BY <2>3, LooksAtParents DEF AddLeafLock
    <3>2. s.at = "parents" /\ s.m = thread[th].m /\ s.todo = thread[th].todo
      BY <2>3, <3>1
    <3>3. PICK l, r : l = signed[thread[th].m.vrx].left /\ r = signed[thread[th].m.vrx].right
      OBVIOUS
    <3>4. s.todo = <<l, r>>
      BY <3>1, <3>2, <3>3 DEF BookInv, ThreadOK, SawParents
    <3>5. s.todo # <<r>> /\ s.todo # <<>>
      BY <3>4
    <3> QED
      BY <1>1, <1>3, <3>2, <3>3, <3>5 DEF Seen
  <2> QED
    BY <1>2, <2>1, <2>2, <2>3
<1> QED
  BY <1>1, <1>3, <1>4, MovesCovered

(* getValidLeaves finds a valid leaf. *)
LEMMA ScanValidLeafCovered ==
  ASSUME BookInv, StartedWell, AllCovered, NEW th \in Thread, NEW h \in Vertex, ScanValidLeaf(th, h)
  PROVE  AllCovered'
<1>1. UNCHANGED <<signed, dag, edges, stored, funds>>
  BY DEF ScanValidLeaf, dagVars, storageVars
<1>2. PICK s, found : /\ found = thread[th].valid /\ s.at = "scan" /\ s.valid = Append(found, h)
                      /\ Goto(th, s)
  BY DEF ScanValidLeaf, Scan
<1>3. thread[th].at = "scan" /\ h \in dag /\ Covered(h)
  BY ValidIsCovered DEF ScanValidLeaf, Scanning, BookInv, ThreadOK, ScansLeaves, Leaves
<1>4. found \in Seq(Vertex)
  BY <1>2, <1>3, StateFields DEF BookInv, ShapeOK
<1>5. thread'[th] = s /\ \A u \in Thread \ {th} : thread'[u] = thread[u]
  BY <1>2 DEF BookInv, ShapeOK, Goto
<1>6. ASSUME NEW g \in Seen(th)' PROVE g \in Seen(th) \/ g = h
  <2>1. PICK i \in 1..Len(s.valid) : g = s.valid[i] /\ g \in dag
    BY <1>1, <1>2, <1>5 DEF Seen
  <2>2. CASE i = Len(found) + 1
    BY <1>2, <1>4, <2>1, <2>2
  <2>3. CASE i \in 1..Len(found)
    <3>1. g = found[i]
      BY <1>2, <1>4, <2>1, <2>3
    <3> QED
      BY <1>2, <1>3, <2>1, <2>3, <3>1 DEF Seen
  <2> QED
    BY <1>2, <1>4, <2>1, <2>2, <2>3
<1> QED
  BY <1>1, <1>3, <1>5, <1>6, MovesCovered

(* addLeafMemorized accepts a parent, because it is valid or because it has *)
(* children already.                                                        *)
LEMMA ParentCovered ==
  ASSUME BookInv, StartedWell, AllCovered, NEW th \in Thread, NEW p \in Hash,
         AcceptParent(th, p) \/ PassParent(th, p)
  PROVE  AllCovered'
<1>1. UNCHANGED <<signed, dag, edges, stored, funds>>
  BY DEF AcceptParent, PassParent, dagVars, storageVars
<1>2. /\ thread[th].at = "parents" /\ thread[th].todo # <<>> /\ p = Head(thread[th].todo)
      /\ Goto(th, [thread[th] EXCEPT !.todo = Tail(@)])
  BY DEF AcceptParent, PassParent, NextParent
<1>3. p \in dag /\ Covered(p)
  BY ValidIsCovered DEF AcceptParent, PassParent, Leaves, AllCovered
<1>4. PICK s : s = [thread[th] EXCEPT !.todo = Tail(@)]
  OBVIOUS
<1>5. thread'[th] = s /\ \A u \in Thread \ {th} : thread'[u] = thread[u]
  BY <1>2, <1>4 DEF BookInv, ShapeOK, Goto
<1>6. thread[th] \in [at : {"add", "parents"}, m : Memory, todo : Seq(Hash)]
  BY <1>2, LooksAtParents
<1>7. s.at = "parents" /\ s.m = thread[th].m /\ s.todo = Tail(thread[th].todo)
  BY <1>2, <1>4, <1>6
<1>8. PICK l, r : l = signed[thread[th].m.vrx].left /\ r = signed[thread[th].m.vrx].right
  OBVIOUS
<1>9. \/ thread[th].todo = <<l, r>>
      \/ thread[th].todo = <<r>>
  BY <1>2, <1>8 DEF BookInv, ThreadOK, SawParents
<1>10. ASSUME NEW g \in Seen(th)' PROVE g \in Seen(th) \/ g = p
  <2>1. g \in dag /\ ((s.todo = <<r>> /\ g = l) \/ (s.todo = <<>> /\ g \in {l, r}))
    BY <1>1, <1>5, <1>7, <1>8 DEF Seen, ParentHashes
  <2>2. CASE thread[th].todo = <<l, r>>
    BY <1>2, <1>7, <2>1, <2>2
  <2>3. CASE thread[th].todo = <<r>>
    <3>1. p = r /\ s.todo = <<>> /\ s.todo # <<r>>
      BY <1>2, <1>7, <2>3
    <3>2. l \in dag => l \in Seen(th)
      BY <1>2, <1>8, <2>3 DEF Seen
    <3> QED
      BY <2>1, <3>1, <3>2
  <2> QED
    BY <1>9, <2>2, <2>3
<1> QED
  BY <1>1, <1>3, <1>5, <1>10, MovesCovered

(* A leaf is rejected by the handler that holds the lock. *)
LEMMA RejectCovered ==
  ASSUME BookInv, dagLoaded, AllCovered, NEW th \in Thread, Holds(th), NEW x \in Leaves, Reject(x),
         UNCHANGED <<signed, stored, funds>>,
         \A u \in Thread \ {th} : thread'[u] = thread[u], Seen(th)' \subseteq Seen(th)
  PROVE  AllCovered'
<1>1. /\ dag' = dag \ {x} /\ edges' = {e \in edges : e[1] # x /\ e[2] # x}
      /\ x \in dag /\ \A e \in edges : e[1] # x
  BY DEF Reject, EdgesWithout, Leaves, IsLeaf
<1>2. ChangesAt(x) /\ x \notin dag'
  <2>1. ASSUME NEW y, y # x PROVE ParentsIn(edges, y) = ParentsIn(edges', y)
    BY <1>1, <2>1 DEF ParentsIn
  <2> QED
    BY <1>1, <2>1 DEF ChangesAt
<1>3. \A h \in dag' : IsLeaf(h)' \/ (h \in dag /\ Covered(h))
  BY <1>1 DEF AllCovered, IsLeaf
<1>4. \A u \in Thread : Seen(u)' \subseteq Seen(u)
  <2>1. \A u \in Thread \ {th} : ~ Holds(u)
    BY DEF BookInv, OneHolder
  <2> QED
    BY <2>1, SightStays
<1>5. \A u \in Thread : \A g \in Seen(u)' : g \in dag /\ Covered(g)
  BY <1>4 DEF AllCovered, Seen
<1>6. Keeps
  BY DEF Keeps
<1> QED
  BY <1>2, <1>3, <1>5, <1>6, AllStayCovered

(* A vertex enters the DAG below covered parents. *)
LEMMA GrowthCovered ==
  ASSUME BookInv, dagLoaded, AllCovered, NEW th \in Thread, Holds(th), NEW x \in Vertex \ dag,
         NEW l \in dag, NEW r \in dag, Covered(l), Covered(r),
         dag' = dag \cup {x}, edges' = edges \cup {<<l, x>>, <<r, x>>}, UNCHANGED <<stored, funds>>,
         \A g \in Vertex : IsSigned(g) => signed'[g] = signed[g],
         \A u \in Thread \ {th} : thread'[u] = thread[u], Seen(th)' = {}
  PROVE  AllCovered'
<1>1. edges \subseteq dag \X dag
  BY DEF BookInv, EdgesAreParents
<1>2. \A e \in edges \cup edges' : e[1] # x
  BY <1>1
<1>3. ChangesAt(x)
  <2>1. ASSUME NEW y, y # x PROVE ParentsIn(edges, y) = ParentsIn(edges', y)
    BY <2>1 DEF ParentsIn
  <2> QED
    BY <1>2, <2>1 DEF ChangesAt
<1>4. ASSUME NEW h \in dag' PROVE IsLeaf(h)' \/ (h \in dag /\ Covered(h))
  <2>1. CASE h = x
    BY <1>2, <2>1 DEF IsLeaf
  <2>2. CASE h \in dag /\ h \notin {l, r}
    BY <2>2 DEF AllCovered, IsLeaf
  <2> QED
    BY <2>1, <2>2
<1>5. \A u \in Thread : \A g \in Seen(u)' : g \in dag /\ Covered(g)
  <2>1. \A u \in Thread \ {th} : Seen(u)' \subseteq Seen(u)
    BY SightStays DEF BookInv, OneHolder
  <2>2. \A u \in Thread : Seen(u)' \subseteq Seen(u)
    BY <2>1, Zenon
  <2>3. \A u \in Thread : Seen(u) \subseteq dag
    BY Zenon DEF Seen
  <2>4. \A u \in Thread : \A g \in Seen(u) : Covered(g)
    BY Zenon DEF AllCovered
  <2> QED
    BY <2>2, <2>3, <2>4, Zenon
<1>6. Keeps
  BY DEF BookInv, ShapeOK, TrxIndexed, Keeps
<1> QED
  BY <1>3, <1>4, <1>5, <1>6, AllStayCovered

(* Invalid leaves and parents. *)
LEMMA RemovalCovered ==
  ASSUME BookInv, AllCovered, NEW th \in Thread,
         \/ \E p \in Hash : RejectParent(th, p)
         \/ \E h \in Vertex : ScanInvalidLeaf(th, h)
  PROVE  AllCovered'
<1>1. ASSUME NEW p \in Hash, RejectParent(th, p) PROVE AllCovered'
  <2>1. /\ thread[th].at = "parents" /\ Holds(th) /\ p \in Leaves /\ Reject(p) /\ Goto(th, Idle)
        /\ UNCHANGED <<signed, stored, funds>>
    BY <1>1 DEF RejectParent, NextParent, Holds, storageVars
  <2>2. thread'[th].at = "idle" /\ \A u \in Thread \ {th} : thread'[u] = thread[u]
    BY <2>1 DEF BookInv, ShapeOK, Goto, Idle
  <2>3. Seen(th)' \subseteq Seen(th)
    BY <2>2, SeesNothing
  <2>4. dagLoaded
    BY <2>1, WorksOnLoaded
  <2> QED
    BY <2>1, <2>2, <2>3, <2>4, RejectCovered
<1>2. ASSUME NEW h \in Vertex, ScanInvalidLeaf(th, h) PROVE AllCovered'
  <2>1. /\ thread[th].at = "scan" /\ Holds(th) /\ h \in Leaves /\ Reject(h)
        /\ UNCHANGED <<signed, stored, funds>>
    BY <1>2 DEF ScanInvalidLeaf, Scanning, Holds, storageVars, BookInv, ThreadOK, ScansLeaves
  <2>2. PICK s : Goto(th, s) /\ s.at = "scan" /\ s.valid = thread[th].valid
    <3>1. PICK b : Goto(th, Scan(thread[th].trx, thread[th].todo \ {h}, thread[th].valid, TRUE, b))
      BY <1>2, Zenon DEF ScanInvalidLeaf
    <3> DEFINE s == Scan(thread[th].trx, thread[th].todo \ {h}, thread[th].valid, TRUE, b)
    <3>2. s.at = "scan" /\ s.valid = thread[th].valid
      BY Zenon DEF Scan
    <3> QED
      BY <3>1, <3>2, Zenon
  <2>3. thread'[th] = s /\ \A u \in Thread \ {th} : thread'[u] = thread[u]
    BY <2>2 DEF BookInv, ShapeOK, Goto
  <2>4. Seen(th)' \subseteq Seen(th)
    BY <2>1, <2>2, <2>3 DEF Seen, Reject
  <2>5. dagLoaded
    BY <2>1, WorksOnLoaded
  <2> QED
    BY <2>1, <2>3, <2>4, <2>5, RejectCovered
<1> QED
  BY <1>1, <1>2

(* CreateLeaf builds on leaves it found valid. *)
LEMMA CreateTipCovered ==
  ASSUME BookInv, AllCovered, NEW th \in Thread, CreateTip(th)
  PROVE  AllCovered'
<1>1. PICK valid, l, r, v, x :
        /\ valid = thread[th].valid /\ l = Head(valid) /\ r = Last(valid)
        /\ v = NewVertex(thread[th].trx, l, r, calcNewWeight(l, r), Self) /\ x = NewHash
        /\ Sign(v) /\ AddToDag(th, x, v)
        /\ thread[th].at = "scan" /\ valid # <<>> /\ SomeUnsigned /\ UNCHANGED <<stored, funds>>
  BY DEF CreateTip, ScanDone, storageVars
<1>2. valid \in Seq(Vertex) /\ Holds(th) /\ dagLoaded
  BY <1>1, StateFields, WorksOnLoaded DEF BookInv, ShapeOK, Holds
<1>3. \A i \in 1..Len(valid) : valid[i] \in dag /\ Covered(valid[i])
  <2>1. \A i \in 1..Len(valid) : valid[i] \in dag
    BY <1>1 DEF BookInv, ThreadOK, ScansLeaves
  <2>2. \A i \in 1..Len(valid) : valid[i] \in Seen(th)
    BY <1>1, <2>1 DEF Seen
  <2> QED
    BY <2>1, <2>2 DEF AllCovered
<1>4. l \in dag /\ Covered(l) /\ r \in dag /\ Covered(r)
  <2>1. Len(valid) \in Nat \ {0} /\ l = valid[1] /\ r = valid[Len(valid)]
    BY <1>1, <1>2, EmptySeq DEF Last
  <2> QED
    BY <1>3, <2>1
<1>5. v.left = l /\ v.right = r
  BY <1>1 DEF NewVertex
<1>6. x \in Vertex /\ x \notin dag /\ \A g \in Vertex : IsSigned(g) => signed'[g] = signed[g]
  BY <1>1 DEF SomeUnsigned, NewHash, Sign, BookInv, ShapeOK, TrxIndexed
<1>7. /\ dag' = dag \cup {x} /\ edges' = edges \cup {<<l, x>>, <<r, x>>}
      /\ Goto(th, [at |-> "send", weight |-> v.weight])
  BY <1>1, <1>5, <1>6 DEF AddToDag
<1>8. thread'[th].at = "send" /\ \A u \in Thread \ {th} : thread'[u] = thread[u]
  BY <1>7 DEF BookInv, ShapeOK, Goto
<1>9. Seen(th)' = {}
  BY <1>8, SeesNothing
<1> QED
  BY <1>1, <1>2, <1>4, <1>6, <1>7, <1>8, <1>9, GrowthCovered

(* addLeafMemorized builds on parents it accepted. *)
LEMMA AddVertexCovered ==
  ASSUME BookInv, AllCovered, NEW th \in Thread, AddVertex(th)
  PROVE  AllCovered'
<1>1. PICK v, x : /\ x = thread[th].m.vrx /\ v = signed[x] /\ AddToDag(th, x, v)
                  /\ thread[th].at = "parents" /\ thread[th].todo = <<>>
                  /\ trxsToVertx[v.trx] = NoVertex /\ UNCHANGED <<signed, stored, funds>>
  BY DEF AddVertex, ParentsDone, saveTrxInVertexFails, TrxOf, storageVars
<1>2. dagLoaded /\ Holds(th) /\ x \in Vertex /\ v \in VertexRecord
  BY <1>1, LooksAtParents DEF Holds, Memory
<1>3. v.left \in dag /\ v.right \in dag
  <2>1. PICK l, r : l = v.left /\ r = v.right
    OBVIOUS
  <2>2. <<l, r>> # <<>> /\ <<r>> # <<>>
    OBVIOUS
  <2>3. \/ thread[th].todo = <<l, r>>
        \/ thread[th].todo = <<r>>
        \/ l \in dag /\ r \in dag
    BY <1>1, <2>1 DEF BookInv, ThreadOK, SawParents
  <2> QED
    BY <1>1, <2>1, <2>2, <2>3
<1>4. Covered(v.left) /\ Covered(v.right)
  <2>1. v.left \in Seen(th) /\ v.right \in Seen(th)
    BY <1>1, <1>3 DEF Seen, ParentHashes
  <2> QED
    BY <2>1 DEF AllCovered
<1>5. x \notin dag
  BY <1>1, <1>2, BookAssumption DEF BookInv, TrxIndexed, TrxOf
<1>6. /\ dag' = dag \cup {x} /\ edges' = edges \cup {<<v.left, x>>, <<v.right, x>>}
      /\ Goto(th, [at |-> "send", weight |-> v.weight])
  BY <1>1, <1>5 DEF AddToDag
<1>7. thread'[th].at = "send" /\ \A u \in Thread \ {th} : thread'[u] = thread[u]
  BY <1>6 DEF BookInv, ShapeOK, Goto
<1>8. Seen(th)' = {}
  BY <1>7, SeesNothing
<1>9. PICK l \in dag, r \in dag : l = v.left /\ r = v.right /\ Covered(l) /\ Covered(r)
  BY <1>3, <1>4
<1> QED
  BY <1>1, <1>2, <1>5, <1>6, <1>7, <1>8, <1>9, GrowthCovered

(* Every step of a handler and of the subscriber. *)
LEMMA ThreadCovered ==
  ASSUME BookInv, StartedWell, AllCovered, NEW th \in Thread, ThreadStep(th)
  PROVE  AllCovered'
<1>1. CASE CreateLeafStep(th)
  BY <1>1, RestsCovered, ScanValidLeafCovered, RemovalCovered, CreateTipCovered
  DEF CreateLeafStep, Rests
<1>2. CASE AddLeafStep(th)
  BY <1>2, RestsCovered, ParentCovered, RemovalCovered, AddVertexCovered DEF AddLeafStep, Rests
<1>3. CASE SendSignal(th)
  BY <1>3, RestsCovered DEF Rests
<1> QED
  BY <1>1, <1>2, <1>3 DEF ThreadStep

(* What a truncation settles for a wallet is a number, and what it had when *)
(* there is nothing to settle.                                              *)
LEMMA SettledIsNatural ==
  ASSUME BookInv, StartedWell, NEW a \in Address, NEW S \in SUBSET dag
  PROVE  SettledFunds(a, S) \in Nat /\ (S = {} => SettledFunds(a, S) = funds[a])
<1>1. IsFiniteSet(S) /\ \A x \in S : signed[x].trx.spice \in Nat
  <2>1. S \subseteq Vertex /\ \A x \in S : signed[x] \in VertexRecord
    BY DEF BookInv, ShapeOK, TrxIndexed, IsSigned
  <2>2. \A x \in S : signed[x].trx \in TrxRecord
    BY <2>1, BookAssumption DEF VertexRecord
  <2> QED
    BY <2>1, <2>2, BookAssumption, FS_Subset DEF TrxRecord
<1>2. PICK R, sig : R = {h \in S : TrxOf(h).receiver # a} /\ sig = signed
  OBVIOUS
<1>3. R \subseteq S /\ IsFiniteSet(R) /\ \A x \in R : sig[x].trx.spice \in Nat
  BY <1>1, <1>2, FS_Subset
<1>4. IssuedIn(sig, a, R) \in Nat /\ (R = {} => IssuedIn(sig, a, R) = 0)
  BY <1>3, SumsAreNaturals
<1>5. ReceivedIn(sig, a, S) \in Nat /\ (S = {} => ReceivedIn(sig, a, S) = 0)
  BY <1>1, <1>2, SumsAreNaturals
<1>6. SettledOut(a, S) = IssuedIn(sig, a, R) /\ Received(a, S) = ReceivedIn(sig, a, S)
  <2>1. Issued(a, R) = IssuedIn(sig, a, R) /\ Received(a, S) = ReceivedIn(sig, a, S)
    BY <1>2, IssuedNow
  <2> QED
    BY <1>2, <2>1 DEF SettledOut
<1>7. funds[a] \in Nat
  BY DEF StartedWell
<1> QED
  BY <1>3, <1>4, <1>5, <1>6, <1>7 DEF SettledFunds

(* A truncation stores natural numbers, and what stays in the DAG stays      *)
(* covered.                                                                  *)
LEMMA TruncationCovered ==
  ASSUME BookInv, StartedWell, NEW h \in Vertex, NEW top \in Vertex, TruncateBelow(h, top)
  PROVE  funds' \in [Address -> Nat] /\ (AllCovered => AllCovered')
<1>1. PICK gone : /\ gone = Ancestors(top) /\ gone \in SUBSET dag /\ MoveToStorage(gone)
                  /\ UNCHANGED <<signed, thread>> /\ ~ Locked
  BY DEF TruncateBelow, Ancestors
<1>2. /\ stored' = stored \cup gone /\ dag' = dag \ gone
      /\ edges' = {e \in edges : e[1] \notin gone /\ e[2] \notin gone}
      /\ funds' = [a \in Address |-> SettledFunds(a, gone)]
  BY <1>1 DEF MoveToStorage, EdgesWithout
<1>3. \A a \in Address : SettledFunds(a, gone) \in Nat /\ (gone = {} => SettledFunds(a, gone) = funds[a])
  BY <1>1, SettledIsNatural
<1>4. funds' \in [Address -> Nat]
  BY <1>2, <1>3
<1>5. \A th \in Thread : Seen(th)' = {}
  BY <1>1 DEF Seen, Locked
<1>6. CASE gone # {}
  <2>1. stored' # {}
    BY <1>2, <1>6
  <2>2. \A g \in dag' : Covered(g)'
    BY <2>1 DEF Covered
  <2> QED
    BY <1>4, <1>5, <2>2 DEF AllCovered
<1>7. CASE gone = {}
  <2>1. UNCHANGED <<stored, dag, edges>>
    BY <1>2, <1>7
  <2>2. funds' = funds
    BY <1>2, <1>3, <1>7 DEF StartedWell
  <2>3. Keeps
    BY <1>1, <2>1, <2>2 DEF Keeps
  <2>4. AllCovered => \A g \in dag' : IsLeaf(g)' \/ (g \in dag /\ Covered(g))
    BY <2>1 DEF AllCovered, IsLeaf
  <2> QED
    BY <1>4, <1>5, <2>1, <2>3, <2>4, AllStayCovered
<1> QED
  BY <1>6, <1>7

(* How a node starts. *)
LEMMA StartStaysWell ==
  ASSUME BookInv, BookInv', StartedWell, [Next]_vars
  PROVE  StartedWell'
<1>1. CASE Start
  BY <1>1 DEF Start, CreateGenesis, LoadDag, LoadDagFails, ReceiveStream, DeferredWeight, DeferredCount,
              DeferredReset, storageVars, StartedWell
<1>2. CASE Network
  <2>1. \A g \in SignedVertices' : g \in Vertex
    BY DEF SignedVertices
  <2>2. loader' = "none" =>
          \A g \in SignedVertices' : signed'[g].left = NoVertex => signed'[g].trx.issuer # Self
    BY <1>2, <2>1, NetworkSignsOthers DEF StartedWell, SignedVertices, IsSigned, TrxOf
  <2> QED
    BY <1>2, <2>2, NetworkSignsOthers DEF StartedWell, TrxOf
<1>3. CASE \/ \E th \in Handler, t \in Trx : CreateLeaf(th, t)
           \/ \E th \in Handler, h \in SignedVertices : AddLeaf(th, h)
           \/ ReplayLeaf
  BY <1>3 DEF CreateLeaf, AddLeaf, ReplayLeaf, startVars, storageVars, StartedWell, SignedVertices,
              IsSigned, TrxOf
<1>4. ASSUME NEW th \in Thread, ThreadStep(th) PROVE StartedWell'
  <2>1. dagLoaded' /\ UNCHANGED <<funds, trusted>>
    BY <1>4, ThreadWorks
  <2>2. loader' # "none"
    BY <2>1 DEF BookInv, StartsEmpty
  <2> QED
    BY <2>1, <2>2 DEF StartedWell
<1>5. CASE Aside
  <2>1. trusted' \subseteq Trustable
    BY <1>5 DEF Aside, ReplierTick, IgnoreSignal, HeedSignal, TruncateFails, AddTrustedNode,
                RemoveTrustedNode, vars, storageVars, StartedWell
  <2> QED
    BY <1>5, <2>1, AsideChangesNothing DEF StartedWell, SignedVertices, IsSigned, TrxOf
<1>6. ASSUME NEW h \in Vertex, NEW top \in Vertex, TruncateBelow(h, top) PROVE StartedWell'
  <2>1. funds' \in [Address -> Nat]
    BY <1>6, TruncationCovered
  <2>2. UNCHANGED <<signed, trusted, loader>>
    BY <1>6 DEF TruncateBelow, startVars, counterVars
  <2> QED
    BY <2>1, <2>2 DEF StartedWell, SignedVertices, IsSigned, TrxOf
<1> QED
  BY <1>1, <1>2, <1>3, <1>4, <1>5, <1>6 DEF Next, TruncatorStep, Aside

(* A step of another that leaves graph and threads alone keeps all covered. *)
LEMMA QuietCovered ==
  ASSUME BookInv, AllCovered, UNCHANGED <<dag, edges, stored, funds, thread>>,
         \A g \in Vertex : IsSigned(g) => signed'[g] = signed[g]
  PROVE  AllCovered'
<1>1. Subscriber \in Thread /\ \A u \in Thread : thread'[u] = thread[u]
  BY DEF Thread
<1>2. Seen(Subscriber)' \subseteq Seen(Subscriber)
  BY <1>1, SightStays
<1> QED
  BY <1>1, <1>2, MovesCovered

(* A node that founds the DAG starts with its genesis alone; what another   *)
(* streams is not founded here.                                             *)
LEMMA StartCovered ==
  ASSUME BookInv, BookInv', CoverInv, Start
  PROVE  FoundedHere' => AllCovered'
<1>1. ASSUME NEW t \in Trx, CreateGenesis(t) PROVE AllCovered'
  <2>1. /\ loader = "none" /\ dag' = dag \cup {NewHash} /\ edges' = edges /\ thread' = thread
    BY <1>1 DEF CreateGenesis
  <2>2. dag' = {NewHash} /\ edges' = {} /\ \A th \in Thread : thread'[th] = Idle
    BY <2>1 DEF BookInv, StartsEmpty
  <2>3. \A h \in dag' : IsLeaf(h)'
    BY <2>2 DEF IsLeaf
  <2>4. \A th \in Thread : Seen(th)' = {}
    BY <2>2, SeesNothing DEF Idle
  <2> QED
    BY <2>3, <2>4 DEF AllCovered
<1>2. ASSUME NEW S \in SUBSET SignedVertices, loader = "none", LoadDag(S) PROVE genesisAddress' # Self
  BY <1>2 DEF LoadDag, CoverInv, StartedWell
<1>3. ASSUME NEW S \in SUBSET SignedVertices, loader = "none", LoadDagFails(S) PROVE ~ dagLoaded'
  BY <1>3 DEF LoadDagFails, ReceiveStream, BookInv, StartsEmpty
<1>4. CASE DeferredWeight \/ DeferredCount \/ DeferredReset
  <2>1. UNCHANGED <<signed, dag, edges, stored, funds, thread, dagLoaded, genesisAddress>>
    BY <1>4 DEF DeferredWeight, DeferredCount, DeferredReset, dagVars, storageVars
  <2> QED
    BY <2>1, QuietCovered DEF CoverInv, FoundedHere
<1> QED
  BY <1>1, <1>2, <1>3, <1>4 DEF Start, FoundedHere

(* Every step keeps what a founder's handlers rely on covered. *)
LEMMA CoverStays ==
  ASSUME BookInv, BookInv', CoverInv, [Next]_vars
  PROVE  CoverInv'
<1>1. StartedWell /\ StartedWell' /\ (FoundedHere => AllCovered)
  BY StartStaysWell DEF CoverInv
<1>2. CASE Start
  BY <1>1, <1>2, StartCovered DEF CoverInv
<1>3. CASE Network \/ Aside
  <2>1. /\ UNCHANGED <<dag, edges, stored, funds, thread, dagLoaded, genesisAddress>>
        /\ \A g \in Vertex : IsSigned(g) => signed'[g] = signed[g]
    BY <1>3, NetworkSignsOthers, AsideChangesNothing
  <2> QED
    BY <1>1, <2>1, QuietCovered DEF CoverInv, FoundedHere
<1>4. ASSUME NEW th \in Handler,
             (\E t \in Trx : CreateLeaf(th, t)) \/ (\E h \in SignedVertices : AddLeaf(th, h))
      PROVE  CoverInv'
  <2>1. UNCHANGED <<dagLoaded, genesisAddress>>
    BY <1>4 DEF CreateLeaf, AddLeaf, startVars
  <2>2. th \in Thread /\ Rests(th)
    BY <1>4 DEF Thread, Rests, SignedVertices
  <2> QED
    BY <1>1, <2>1, <2>2, RestsCovered DEF CoverInv, FoundedHere
<1>5. CASE ReplayLeaf
  <2>1. UNCHANGED <<signed, dag, edges, stored, funds, dagLoaded, genesisAddress>>
    BY <1>5 DEF ReplayLeaf, dagVars, storageVars, startVars
  <2>2. PICK s : Goto(Subscriber, s) /\ s.at \notin {"scan", "parents"}
    BY <1>5 DEF ReplayLeaf, Adding, Idle
  <2>3. Subscriber \in Thread
    BY DEF Thread
  <2>4. thread'[Subscriber] = s /\ \A u \in Thread \ {Subscriber} : thread'[u] = thread[u]
    BY <2>2, <2>3 DEF Goto, BookInv, ShapeOK
  <2>5. Seen(Subscriber)' = {}
    BY <2>2, <2>3, <2>4, SeesNothing
  <2> QED
    BY <1>1, <2>1, <2>3, <2>4, <2>5, MovesCovered DEF CoverInv, FoundedHere
<1>6. ASSUME NEW th \in Thread, ThreadStep(th) PROVE CoverInv'
  BY <1>1, <1>6, ThreadWorks, ThreadCovered DEF CoverInv, FoundedHere
<1>7. ASSUME NEW h \in Vertex, NEW top \in Vertex, TruncateBelow(h, top) PROVE CoverInv'
  <2>1. UNCHANGED <<dagLoaded, genesisAddress>>
    BY <1>7 DEF TruncateBelow, startVars
  <2> QED
    BY <1>1, <1>7, <2>1, TruncationCovered DEF CoverInv, FoundedHere
<1> QED
  BY <1>2, <1>3, <1>4, <1>5, <1>6, <1>7 DEF Next, TruncatorStep, Aside

(* What handlers have seen and what they built on is covered, always. *)
THEOREM CoverHolds == Spec => []CoverInv
<1>1. Init => CoverInv
  BY DEF Init, CoverInv, StartedWell, SignedVertices, IsSigned, FoundedHere
<1>2. BookInv /\ BookInv' /\ CoverInv /\ [Next]_vars => CoverInv'
  BY CoverStays
<1> QED
  BY <1>1, <1>2, BookSafe, PTL DEF Spec

(* In the book of a node that founded the DAG, as long as nothing is        *)
(* truncated, a transfer that was given a child and whose signer was never  *)
(* trusted is covered by the funds of its ancestry: whatever the            *)
(* interleaving of handlers, subscriber and truncation, no leaf is built    *)
(* upon before validateLeaf has accepted it.                                *)
THEOREM ReferencedFunded == Spec => [](FoundedHere => ReferencedAreFunded)
<1>1. CoverInv => (FoundedHere => ReferencedAreFunded)
  BY DEF CoverInv, AllCovered, Covered, ReferencedAreFunded
<1> QED
  BY <1>1, CoverHolds, PTL

(* Every variable keeps its type: the stored funds of an address stay a     *)
(* natural number, since each truncation stores sums of naturals and a      *)
(* difference only where it is not negative.                                *)
THEOREM BookTypeCorrect == Spec => []TypeOK
<1>1. BookInv /\ CoverInv => TypeOK
  BY DEF BookInv, CoverInv, StartedWell, TypeOK
<1> QED
  BY <1>1, BookSafe, CoverHolds, PTL

=============================================================================
