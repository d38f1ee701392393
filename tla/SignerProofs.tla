---------------------------- MODULE SignerProofs ----------------------------
(***************************************************************************)
(* Theorems about the keys and signatures of the C client, for any number  *)
(* of signers, keys, signatures, files and messages.                       *)
(***************************************************************************)
EXTENDS Signer, FiniteSetTheorems, WellFoundedInduction, TLAPS

(* The provers to try on a leaf, with their time limits in seconds. *)
USE ZenonT(5), SMTT(20)

(* Every set of numbers that is not empty has a least element. *)
LEMMA LeastNumber ==
  ASSUME NEW T, T \subseteq Nat, T # {}
  PROVE  \E n \in T : \A m \in T : ~(m < n)
<1>1. PICK n \in T : \A m \in T : ~ (<<m, n>> \in OpToRel(<, Nat))
  BY NatLessThanWellFounded, WFMin
<1> QED
  BY <1>1 DEF OpToRel

-----------------------------------------------------------------------------
(* Allocation *)

(* While there is room for one more block, one is free. *)
LEMMA SomeUnused ==
  ASSUME NEW used, used \subseteq Blocks, Cardinality(used) + 1 <= MaxBlocks
  PROVE  Blocks \ used # {} /\ IsFiniteSet(used) /\ Cardinality(used) \in Nat
<1>1. IsFiniteSet(Blocks) /\ Cardinality(Blocks) = MaxBlocks
  BY FS_Interval, SignerAssumption DEF Blocks
<1>2. IsFiniteSet(used) /\ Cardinality(used) \in Nat
  BY <1>1, FS_Subset, FS_CardinalityType
<1>3. used # Blocks
  BY <1>1, <1>2, SignerAssumption
<1> QED
  BY <1>2, <1>3

(* The allocator gives a block that is not in use. *)
LEMMA FreshOne ==
  ASSUME DOMAIN heap \subseteq Blocks, HasRoom(1)
  PROVE  Fresh(1) \in Blocks \ DOMAIN heap /\ \A c \in Blocks \ DOMAIN heap : ~ (c < Fresh(1))
<1> DEFINE unused == Blocks \ DOMAIN heap
           Below(b) == {c \in unused : c < b}
<1>1. unused # {} /\ unused \subseteq Nat /\ unused \subseteq Blocks /\ IsFiniteSet(Blocks)
  <2>1. Blocks \subseteq Nat /\ IsFiniteSet(Blocks)
    BY FS_Interval, SignerAssumption DEF Blocks
  <2>2. PICK used : used = DOMAIN heap
    OBVIOUS
  <2>3. used \subseteq Blocks /\ Cardinality(used) + 1 <= MaxBlocks
    BY <2>2 DEF HasRoom
  <2>4. Blocks \ used # {}
    BY <2>3, SomeUnused
  <2> QED
    BY <2>1, <2>2, <2>4
<1>2. PICK b \in unused : \A c \in unused : ~ (c < b)
  BY <1>1, LeastNumber
<1>3. Cardinality(Below(b)) = 0
  <2>1. Below(b) = {}
    BY <1>2
  <2> QED
    BY <2>1, FS_EmptySet
<1>4. Fresh(1) \in unused /\ Cardinality(Below(Fresh(1))) = 0
  <2> HIDE DEF unused, Below
  <2>1. Fresh(1) = CHOOSE x \in unused : Cardinality(Below(x)) = 0
    BY DEF Fresh, unused, Below
  <2> QED
    BY <1>2, <1>3, <2>1
<1>5. Below(Fresh(1)) = {}
  <2>1. IsFiniteSet(Below(Fresh(1)))
    BY <1>1, FS_Subset
  <2> QED
    BY <1>4, <2>1, FS_EmptySet
<1> QED
  BY <1>4, <1>5

(* Two allocations give two blocks. *)
LEMMA FreshTwo ==
  ASSUME DOMAIN heap \subseteq Blocks, HasRoom(2)
  PROVE  /\ Fresh(1) \in Blocks \ DOMAIN heap
         /\ Fresh(2) \in Blocks \ DOMAIN heap
         /\ Fresh(1) # Fresh(2)
<1> DEFINE unused == Blocks \ DOMAIN heap
           Below(b) == {c \in unused : c < b}
<1>1. IsFiniteSet(Blocks) /\ Cardinality(Blocks) = MaxBlocks /\ Blocks \subseteq Nat
  BY FS_Interval, SignerAssumption DEF Blocks
<1>2. IsFiniteSet(DOMAIN heap) /\ Cardinality(DOMAIN heap) \in Nat
  BY <1>1, FS_Subset, FS_CardinalityType
<1>3. HasRoom(1)
  BY <1>2, SignerAssumption DEF HasRoom
<1>4. PICK a : a = Fresh(1) /\ a \in unused /\ \A c \in unused : ~ (c < a)
  BY <1>3, FreshOne
<1>5. unused \ {a} # {}
  <2>1. Cardinality(DOMAIN heap \cup {a}) = Cardinality(DOMAIN heap) + 1
    BY <1>2, <1>4, FS_AddElement
  <2>2. DOMAIN heap \cup {a} # Blocks
    BY <1>1, <1>2, <2>1, SignerAssumption DEF HasRoom
  <2> QED
    BY <1>4, <2>2
<1>6. PICK b \in unused \ {a} : \A c \in unused \ {a} : ~ (c < b)
  <2>1. unused \ {a} \subseteq Nat
    BY <1>1
  <2> QED
    BY <1>5, <2>1, LeastNumber
<1>7. Below(b) = {a} /\ Below(a) = {}
  <2>1. a \in Nat /\ b \in Nat /\ a < b
    BY <1>1, <1>4, <1>6
  <2>2. \A c \in unused : c < b <=> c = a
    BY <1>4, <1>6, <2>1
  <2> QED
    BY <1>4, <2>2
<1>8. Cardinality(Below(b)) = 1 /\ Cardinality(Below(a)) = 0
  BY <1>7, FS_Singleton, FS_EmptySet
<1>9. Fresh(2) \in unused /\ Cardinality(Below(Fresh(2))) = 1
  <2>0. b \in unused
    BY <1>6
  <2> HIDE DEF unused, Below
  <2>1. Fresh(2) = CHOOSE x \in unused : Cardinality(Below(x)) = 1
    BY DEF Fresh, unused, Below
  <2> QED
    BY <1>8, <2>0, <2>1
<1>10. Fresh(2) # a
  BY <1>8, <1>9
<1> QED
  BY <1>4, <1>9, <1>10

-----------------------------------------------------------------------------
(* The inductive invariant *)

Dirty == Messages \cup {"corrupted"}
Keys == [kind : {"evp", "raw"}, key : Int]
Digests == [kind : {"digest"}, of : Dirty]
Signed == [kind : {"sig"}, key : Int, of : Dirty]

NoPointer == {Null, Wild}

(* The pointers of the program by the type of variable that holds them, the *)
(* variables of each type, and the kind of block they are to.               *)
Tags == {"signer", "raw", "pkey", "digest", "signature"}

PtrOf(signers, raws, pkeys, sigs) ==
  [t \in Tags |-> CASE t = "signer" -> signers
                    [] t = "raw" -> raws
                    [] t = "pkey" -> pkeys
                    [] t = "digest" -> [g \in Sigs |-> sigs[g].digest]
                    [] t = "signature" -> [g \in Sigs |-> sigs[g].signature]]

Ptr == PtrOf(evpkey, buffer, pkey, sig)

Dom ==
  [t \in Tags |-> CASE t = "signer" -> Signers
                    [] t = "raw" -> RawKeys
                    [] t = "pkey" -> PKeys
                    [] t = "digest" -> Sigs
                    [] t = "signature" -> Sigs]

Kind ==
  [t \in Tags |-> CASE t = "signer" -> "evp"
                    [] t = "raw" -> "raw"
                    [] t = "pkey" -> "evp"
                    [] t = "digest" -> "digest"
                    [] t = "signature" -> "sig"]

(* Pointers are to live blocks of their kind, no two to the same one, and   *)
(* the live blocks without one are those in lost.                           *)
Points(P, h) ==
  \A t \in Tags : \A x \in Dom[t] : P[t][x] \notin NoPointer => P[t][x] \in DOMAIN h /\ h[P[t][x]].kind = Kind[t]

Apart(P) ==
  \A t, u \in Tags : \A x \in Dom[t], y \in Dom[u] :
     P[t][x] = P[u][y] /\ P[t][x] \notin NoPointer => t = u /\ x = y

Owned(P, h, lost) ==
  /\ \A b \in DOMAIN h : b \notin lost => \E t \in Tags : \E x \in Dom[t] : P[t][x] = b
  /\ \A b \in lost : b \in DOMAIN h /\ \A t \in Tags : \A x \in Dom[t] : P[t][x] # b

Sane(P, h, lost) == Points(P, h) /\ Apart(P) /\ Owned(P, h, lost)

(* What a signature was made from, and what its two blocks hold. *)
MadeFrom(d, z, from) ==
  \/ \E m \in Messages : from = {<<z.key, m>>} /\ d.of = m /\ z.of = m
  \/ from = {} /\ (d.of = "corrupted" \/ z.of = "corrupted")

HeapOK(h) == DOMAIN h \subseteq Blocks /\ \A b \in DOMAIN h : h[b] \in Keys \cup Digests \cup Signed

Fields ==
  /\ evpkey \in [Signers -> Int] /\ pkey \in [PKeys -> Int] /\ buffer \in [RawKeys -> Int]
  /\ sig \in [Sigs -> [digest : Int, signature : Int]]
  /\ file \in [Files -> Int] /\ keys \in Int
  /\ made = [g \in Sigs |-> made[g]]

Initialised == (\A s \in Signers : evpkey[s] # Wild) /\ (\A p \in PKeys : pkey[p] # Wild)

Signatures ==
  \A g \in Sigs : sig[g] # NoSignature =>
    /\ sig[g].digest \in DOMAIN heap /\ sig[g].signature \in DOMAIN heap
    /\ MadeFrom(heap[sig[g].digest], heap[sig[g].signature], made[g])

Sound == HeapOK(heap) /\ Fields /\ Initialised /\ Sane(Ptr, heap, leaked) /\ Signatures

SignerInv == (pc = "running" => Sound) /\ VerdictIsRight

(* A block is neither the null pointer nor a wild one. *)
LEMMA BlocksAreNoSpecial ==
  ASSUME NEW b \in Blocks PROVE b \notin NoPointer /\ b \in Int
BY SignerAssumption DEF Blocks, NoPointer, Null, Wild

(* The pointers of the program, by the kind of variable that holds them. *)
LEMMA PtrAt ==
  ASSUME NEW e, NEW r, NEW p, NEW s
  PROVE  /\ PtrOf(e, r, p, s)["signer"] = e /\ PtrOf(e, r, p, s)["raw"] = r /\ PtrOf(e, r, p, s)["pkey"] = p
         /\ \A g \in Sigs : /\ PtrOf(e, r, p, s)["digest"][g] = s[g].digest
                             /\ PtrOf(e, r, p, s)["signature"][g] = s[g].signature
<1>1. PtrOf(e, r, p, s)["signer"] = e /\ PtrOf(e, r, p, s)["raw"] = r /\ PtrOf(e, r, p, s)["pkey"] = p
  BY DEF PtrOf, Tags
<1>2. PtrOf(e, r, p, s)["digest"] = [g \in Sigs |-> s[g].digest]
  BY DEF PtrOf, Tags
<1>3. PtrOf(e, r, p, s)["signature"] = [g \in Sigs |-> s[g].signature]
  BY DEF PtrOf, Tags
<1> QED
  BY <1>1, <1>2, <1>3

(* The variables and the contents of each kind. *)
LEMMA TagAt ==
  /\ Dom["signer"] = Signers /\ Dom["raw"] = RawKeys /\ Dom["pkey"] = PKeys
  /\ Dom["digest"] = Sigs /\ Dom["signature"] = Sigs
  /\ Kind["signer"] = "evp" /\ Kind["raw"] = "raw" /\ Kind["pkey"] = "evp"
  /\ Kind["digest"] = "digest" /\ Kind["signature"] = "sig"
BY DEF Dom, Kind, Tags

-----------------------------------------------------------------------------
(* Pointers that change *)

(* P2 is P with the pointer of variable x of type t set to v. *)
SetTo(P, P2, t, x, v) ==
  \A u \in Tags : \A y \in Dom[u] : P2[u][y] = IF u = t /\ y = x THEN v ELSE P[u][y]

Set(P, t, x, v) == [u \in Tags |-> [y \in Dom[u] |-> IF u = t /\ y = x THEN v ELSE P[u][y]]]

(* Setting one pointer leaves the others. *)
LEMMA SetSets == ASSUME NEW P, NEW t, NEW x, NEW v PROVE SetTo(P, Set(P, t, x, v), t, x, v)
BY DEF SetTo, Set

(* A block that has just been allocated: what the variable pointed to before *)
(* is lost.                                                                  *)
LEMMA Gains ==
  ASSUME NEW P, NEW P2, NEW h, NEW h2, NEW lost, NEW lost2, NEW t \in Tags, NEW x \in Dom[t], NEW b,
         Sane(P, h, lost), SetTo(P, P2, t, x, b), b \notin DOMAIN h, b \notin NoPointer,
         lost2 = lost \cup ({P[t][x]} \ NoPointer),
         DOMAIN h2 = DOMAIN h \cup {b}, h2[b].kind = Kind[t], \A c \in DOMAIN h : h2[c].kind = h[c].kind,
         NoPointer \cap DOMAIN h = {}
  PROVE  Sane(P2, h2, lost2)
<1>1. P2[t][x] = b /\ \A u \in Tags : \A y \in Dom[u] : (u = t /\ y = x) \/ P2[u][y] = P[u][y]
  BY DEF SetTo
<1>2. \A u \in Tags : \A y \in Dom[u] : P[u][y] # b
  BY DEF Sane, Points
<1>3. Points(P2, h2)
  BY <1>1 DEF Sane, Points
<1>4. Apart(P2)
  <2>1. ASSUME NEW u \in Tags, NEW w \in Tags, NEW y \in Dom[u], NEW z \in Dom[w],
               P2[u][y] = P2[w][z], P2[u][y] \notin NoPointer
        PROVE  u = w /\ y = z
    <3>0. /\ (u = t /\ y = x /\ P2[u][y] = b) \/ (P2[u][y] = P[u][y] /\ P2[u][y] # b)
          /\ (w = t /\ z = x /\ P2[w][z] = b) \/ (P2[w][z] = P[w][z] /\ P2[w][z] # b)
      BY <1>1, <1>2
    <3>1. CASE P2[u][y] = b
      BY <2>1, <3>0, <3>1
    <3>2. CASE P2[u][y] # b
      <4>1. P[u][y] = P[w][z] /\ P[u][y] \notin NoPointer
        BY <2>1, <3>0, <3>2
      <4> QED
        BY <4>1 DEF Sane, Apart
    <3> QED
      BY <3>1, <3>2
  <2> QED
    BY <2>1 DEF Apart
<1>5. Owned(P2, h2, lost2)
  <2>1. ASSUME NEW c \in DOMAIN h, c \notin lost2
        PROVE  \E u \in Tags : \E y \in Dom[u] : P2[u][y] = c
    <3>1. PICK u \in Tags : \E y \in Dom[u] : P[u][y] = c
      BY <2>1 DEF Sane, Owned
    <3>2. PICK y \in Dom[u] : P[u][y] = c
      BY <3>1
    <3>3. ~ (u = t /\ y = x)
      BY <2>1, <3>2
    <3> QED
      BY <1>1, <3>2, <3>3
  <2>2. ASSUME NEW c \in lost2
        PROVE  c \in DOMAIN h2 /\ \A u \in Tags : \A y \in Dom[u] : P2[u][y] # c
    <3>1. CASE c \in lost
      <4>1. c \in DOMAIN h /\ c # b /\ \A u \in Tags : \A y \in Dom[u] : P[u][y] # c
        BY <3>1 DEF Sane, Owned
      <4> QED
        BY <1>1, <4>1
    <3>2. CASE c \notin lost
      <4>1. c = P[t][x] /\ c \notin NoPointer
        BY <2>2, <3>2
      <4>2. c \in DOMAIN h /\ c # b
        BY <4>1 DEF Sane, Points
      <4>3. ASSUME NEW u \in Tags, NEW y \in Dom[u], P2[u][y] = c PROVE FALSE
        <5>1. ~ (u = t /\ y = x) /\ P[u][y] = P[t][x]
          BY <1>1, <4>1, <4>2, <4>3
        <5> QED
          BY <4>1, <5>1 DEF Sane, Apart
      <4> QED
        BY <4>2, <4>3
    <3> QED
      BY <3>1, <3>2
  <2> QED
    BY <1>1, <2>1, <2>2 DEF Owned
<1> QED
  BY <1>3, <1>4, <1>5 DEF Sane

(* The pointer of x is given up, and its block is freed or lost. *)
LEMMA Loses ==
  ASSUME NEW P, NEW P2, NEW h, NEW h2, NEW lost, NEW lost2,
         NEW t \in Tags, NEW x \in Dom[t], NEW v \in NoPointer,
         Sane(P, h, lost), SetTo(P, P2, t, x, v),
         \/ DOMAIN h2 = DOMAIN h \ {P[t][x]} /\ lost2 = lost
         \/ DOMAIN h2 = DOMAIN h /\ lost2 = lost \cup ({P[t][x]} \ NoPointer),
         \A c \in DOMAIN h2 : h2[c].kind = h[c].kind,
         NoPointer \cap DOMAIN h = {}
  PROVE  Sane(P2, h2, lost2)
<1>1. P2[t][x] = v /\ \A u \in Tags : \A y \in Dom[u] : (u = t /\ y = x) \/ P2[u][y] = P[u][y]
  BY DEF SetTo
<1>2. ASSUME NEW u \in Tags, NEW y \in Dom[u], P2[u][y] \notin NoPointer
      PROVE  /\ P2[u][y] = P[u][y]
             /\ P2[u][y] \in DOMAIN h2 /\ h2[P2[u][y]].kind = Kind[u]
  <2>1. ~ (u = t /\ y = x) /\ P2[u][y] = P[u][y]
    BY <1>1, <1>2
  <2>2. P[u][y] # P[t][x] /\ P[u][y] \in DOMAIN h /\ h[P[u][y]].kind = Kind[u]
    BY <1>2, <2>1 DEF Sane, Points, Apart
  <2> QED
    BY <2>1, <2>2
<1>3. Points(P2, h2)
  BY <1>2 DEF Points
<1>4. Apart(P2)
  BY <1>2 DEF Sane, Apart
<1>5. Owned(P2, h2, lost2)
  <2>1. ASSUME NEW c \in DOMAIN h2, c \notin lost2
        PROVE  \E u \in Tags : \E y \in Dom[u] : P2[u][y] = c
    <3>0. c \in DOMAIN h /\ c \notin lost /\ c # P[t][x]
      BY <2>1
    <3>1. PICK u \in Tags : \E y \in Dom[u] : P[u][y] = c
      BY <3>0 DEF Sane, Owned
    <3>2. PICK y \in Dom[u] : P[u][y] = c
      BY <3>1
    <3>3. ~ (u = t /\ y = x)
      BY <3>0, <3>2
    <3> QED
      BY <1>1, <3>2, <3>3
  <2>2. ASSUME NEW c \in lost2
        PROVE  c \in DOMAIN h2 /\ \A u \in Tags : \A y \in Dom[u] : P2[u][y] # c
    <3>1. c \notin NoPointer /\ c \in DOMAIN h
      <4>1. lost \subseteq DOMAIN h
        BY DEF Sane, Owned
      <4>2. P[t][x] \notin NoPointer => P[t][x] \in DOMAIN h
        BY DEF Sane, Points
      <4> QED
        BY <2>2, <4>1, <4>2
    <3>2. CASE c \in lost
      <4>1. \A u \in Tags : \A y \in Dom[u] : P[u][y] # c
        BY <3>2 DEF Sane, Owned
      <4> QED
        BY <1>1, <3>1, <4>1
    <3>3. CASE c \notin lost
      <4>1. c = P[t][x] /\ DOMAIN h2 = DOMAIN h
        BY <2>2, <3>3
      <4>2. ASSUME NEW u \in Tags, NEW y \in Dom[u], P2[u][y] = c PROVE FALSE
        <5>1. ~ (u = t /\ y = x) /\ P[u][y] = P[t][x]
          BY <1>1, <3>1, <4>1, <4>2
        <5> QED
          BY <3>1, <4>1, <5>1 DEF Sane, Apart
      <4> QED
        BY <3>1, <4>1, <4>2
    <3> QED
      BY <3>2, <3>3
  <2> QED
    BY <2>1, <2>2 DEF Owned
<1> QED
  BY <1>3, <1>4, <1>5 DEF Sane

(* The blocks change, their kinds do not. *)
LEMMA SameKinds ==
  ASSUME NEW P, NEW h, NEW h2, NEW lost, Sane(P, h, lost),
         DOMAIN h2 = DOMAIN h, \A c \in DOMAIN h : h2[c].kind = h[c].kind
  PROVE  Sane(P, h2, lost)
BY DEF Sane, Points, Apart, Owned

(* The pointers as fields of the program's variables, and after a step. *)
LEMMA PtrNow ==
  /\ Ptr["signer"] = evpkey /\ Ptr["raw"] = buffer /\ Ptr["pkey"] = pkey
  /\ \A g \in Sigs : Ptr["digest"][g] = sig[g].digest /\ Ptr["signature"][g] = sig[g].signature
BY PtrAt DEF Ptr

(* The pointers after a step. *)
LEMMA PtrNext ==
  /\ Ptr'["signer"] = evpkey' /\ Ptr'["raw"] = buffer' /\ Ptr'["pkey"] = pkey'
  /\ \A g \in Sigs : Ptr'["digest"][g] = sig'[g].digest /\ Ptr'["signature"][g] = sig'[g].signature
BY PtrAt DEF Ptr

(* An assignment to one variable sets one pointer. *)
LEMMA SetByTag ==
  ASSUME NEW P, NEW P2, NEW t, NEW x, NEW v,
         \A s \in Signers : P2["signer"][s] = IF "signer" = t /\ s = x THEN v ELSE P["signer"][s],
         \A r \in RawKeys : P2["raw"][r] = IF "raw" = t /\ r = x THEN v ELSE P["raw"][r],
         \A p \in PKeys : P2["pkey"][p] = IF "pkey" = t /\ p = x THEN v ELSE P["pkey"][p],
         \A g \in Sigs : P2["digest"][g] = IF "digest" = t /\ g = x THEN v ELSE P["digest"][g],
         \A g \in Sigs : P2["signature"][g] = IF "signature" = t /\ g = x THEN v ELSE P["signature"][g]
  PROVE  SetTo(P, P2, t, x, v)
<1>1. ASSUME NEW u \in Tags, NEW y \in Dom[u] PROVE P2[u][y] = IF u = t /\ y = x THEN v ELSE P[u][y]
  BY TagAt DEF Tags
<1> QED
  BY <1>1 DEF SetTo

(* An assignment to one variable of the program. *)
LEMMA SetSigner ==
  ASSUME Fields, NEW s \in Signers, NEW v, evpkey' = [evpkey EXCEPT ![s] = v], UNCHANGED <<buffer, pkey, sig>>
  PROVE  SetTo(Ptr, Ptr', "signer", s, v)
<1>1. \A x \in Signers : evpkey'[x] = IF x = s THEN v ELSE evpkey[x]
  BY DEF Fields
<1>2. PICK P, P2 : P = Ptr /\ P2 = Ptr'
  OBVIOUS
<1>3. /\ \A k \in Signers : P2["signer"][k] = IF k = s THEN v ELSE P["signer"][k]
      /\ \A k \in RawKeys : P2["raw"][k] = P["raw"][k]
      /\ \A k \in PKeys : P2["pkey"][k] = P["pkey"][k]
      /\ \A k \in Sigs : P2["digest"][k] = P["digest"][k]
      /\ \A k \in Sigs : P2["signature"][k] = P["signature"][k]
  BY <1>1, <1>2, PtrNow, PtrNext
<1>4. SetTo(P, P2, "signer", s, v)
  BY <1>3, SetByTag
<1> QED
  BY <1>2, <1>4

(* An assignment to a raw key. *)
LEMMA SetRaw ==
  ASSUME Fields, NEW r \in RawKeys, NEW v, buffer' = [buffer EXCEPT ![r] = v], UNCHANGED <<evpkey, pkey, sig>>
  PROVE  SetTo(Ptr, Ptr', "raw", r, v)
<1>1. \A x \in RawKeys : buffer'[x] = IF x = r THEN v ELSE buffer[x]
  BY DEF Fields
<1>2. PICK P, P2 : P = Ptr /\ P2 = Ptr'
  OBVIOUS
<1>3. /\ \A k \in Signers : P2["signer"][k] = P["signer"][k]
      /\ \A k \in RawKeys : P2["raw"][k] = IF k = r THEN v ELSE P["raw"][k]
      /\ \A k \in PKeys : P2["pkey"][k] = P["pkey"][k]
      /\ \A k \in Sigs : P2["digest"][k] = P["digest"][k]
      /\ \A k \in Sigs : P2["signature"][k] = P["signature"][k]
  BY <1>1, <1>2, PtrNow, PtrNext
<1>4. SetTo(P, P2, "raw", r, v)
  BY <1>3, SetByTag
<1> QED
  BY <1>2, <1>4

(* An assignment to an EVP_PKEY pointer of the program. *)
LEMMA SetPKey ==
  ASSUME Fields, NEW p \in PKeys, NEW v, pkey' = [pkey EXCEPT ![p] = v], UNCHANGED <<evpkey, buffer, sig>>
  PROVE  SetTo(Ptr, Ptr', "pkey", p, v)
<1>1. \A x \in PKeys : pkey'[x] = IF x = p THEN v ELSE pkey[x]
  BY DEF Fields
<1>2. PICK P, P2 : P = Ptr /\ P2 = Ptr'
  OBVIOUS
<1>3. /\ \A k \in Signers : P2["signer"][k] = P["signer"][k]
      /\ \A k \in RawKeys : P2["raw"][k] = P["raw"][k]
      /\ \A k \in PKeys : P2["pkey"][k] = IF k = p THEN v ELSE P["pkey"][k]
      /\ \A k \in Sigs : P2["digest"][k] = P["digest"][k]
      /\ \A k \in Sigs : P2["signature"][k] = P["signature"][k]
  BY <1>1, <1>2, PtrNow, PtrNext
<1>4. SetTo(P, P2, "pkey", p, v)
  BY <1>3, SetByTag
<1> QED
  BY <1>2, <1>4

(* An assignment to a signature sets its two pointers. *)
LEMMA SetSig ==
  ASSUME Fields, NEW g \in Sigs, NEW d, NEW z, sig' = [sig EXCEPT ![g] = [digest |-> d, signature |-> z]],
         UNCHANGED <<evpkey, buffer, pkey>>
  PROVE  \E P : SetTo(Ptr, P, "digest", g, d) /\ SetTo(P, Ptr', "signature", g, z)
<1>1. \A x \in Sigs : /\ sig'[x].digest = IF x = g THEN d ELSE sig[x].digest
                      /\ sig'[x].signature = IF x = g THEN z ELSE sig[x].signature
  BY DEF Fields
<1>2. PICK P : P = Set(Ptr, "digest", g, d)
  OBVIOUS
<1>3. SetTo(Ptr, P, "digest", g, d)
  BY <1>2, SetSets
<1>4. /\ \A s \in Signers : P["signer"][s] = evpkey[s]
      /\ \A r \in RawKeys : P["raw"][r] = buffer[r]
      /\ \A p \in PKeys : P["pkey"][p] = pkey[p]
      /\ \A x \in Sigs : P["digest"][x] = IF x = g THEN d ELSE sig[x].digest
      /\ \A x \in Sigs : P["signature"][x] = sig[x].signature
  BY <1>3, PtrNow, TagAt DEF SetTo, Tags
<1>5. PICK P2 : P2 = Ptr'
  OBVIOUS
<1>6. SetTo(P, P2, "signature", g, z)
  BY <1>1, <1>4, <1>5, PtrNext, SetByTag
<1> QED
  BY <1>3, <1>5, <1>6

-----------------------------------------------------------------------------
(* What the invariant says *)

(* The null pointer and a wild one are in no heap. *)
LEMMA NotBlocks == ASSUME Sound PROVE NoPointer \cap DOMAIN heap = {}
BY BlocksAreNoSpecial DEF Sound, HeapOK

(* The owners of a block are the variables that point to it. *)
LEMMA OwnersPoint ==
  ASSUME NEW b
  PROVE  /\ \A o \in Owners(b) : \E t \in Tags : \E x \in Dom[t] : Ptr[t][x] = b /\ o = <<t, x>>
         /\ \A t \in Tags : \A x \in Dom[t] : Ptr[t][x] = b => <<t, x>> \in Owners(b)
<1>1. ASSUME NEW o \in Owners(b) PROVE \E t \in Tags : \E x \in Dom[t] : Ptr[t][x] = b /\ o = <<t, x>>
  <2>1. CASE \E x \in Signers : evpkey[x] = b /\ o = <<"signer", x>>
    BY <2>1, PtrNow, TagAt DEF Tags
  <2>2. CASE \E x \in RawKeys : buffer[x] = b /\ o = <<"raw", x>>
    BY <2>2, PtrNow, TagAt DEF Tags
  <2>3. CASE \E x \in PKeys : pkey[x] = b /\ o = <<"pkey", x>>
    BY <2>3, PtrNow, TagAt DEF Tags
  <2>4. CASE \E x \in Sigs : sig[x].digest = b /\ o = <<"digest", x>>
    BY <2>4, PtrNow, TagAt DEF Tags
  <2>5. CASE \E x \in Sigs : sig[x].signature = b /\ o = <<"signature", x>>
    BY <2>5, PtrNow, TagAt DEF Tags
  <2> QED
    BY <2>1, <2>2, <2>3, <2>4, <2>5 DEF Owners
<1>2. ASSUME NEW t \in Tags, NEW x \in Dom[t], Ptr[t][x] = b PROVE <<t, x>> \in Owners(b)
  <2>1. CASE t = "signer"
    BY <1>2, <2>1, PtrNow, TagAt DEF Owners
  <2>2. CASE t = "raw"
    BY <1>2, <2>2, PtrNow, TagAt DEF Owners
  <2>3. CASE t = "pkey"
    BY <1>2, <2>3, PtrNow, TagAt DEF Owners
  <2>4. CASE t = "digest"
    BY <1>2, <2>4, PtrNow, TagAt DEF Owners
  <2>5. CASE t = "signature"
    BY <1>2, <2>5, PtrNow, TagAt DEF Owners
  <2> QED
    BY <2>1, <2>2, <2>3, <2>4, <2>5 DEF Tags
<1> QED
  BY <1>1, <1>2

(* In a sound program every block has one owner, unless its key was lost. *)
LEMMA SoundMeansOneOwner ==
  ASSUME Sound
  PROVE  OneOwner
<1>1. ASSUME NEW b \in Blocks \ DOMAIN heap PROVE Owners(b) = {}
  <2>1. \A t \in Tags : \A x \in Dom[t] : Ptr[t][x] # b
    BY BlocksAreNoSpecial DEF Sound, Sane, Points
  <2> QED
    BY <2>1, OwnersPoint
<1>2. ASSUME NEW b \in DOMAIN heap
      PROVE  Cardinality(Owners(b)) = IF b \in leaked THEN 0 ELSE 1
  <2>1. \A o, q \in Owners(b) : o = q
    <3>1. ASSUME NEW o \in Owners(b), NEW q \in Owners(b) PROVE o = q
      <4>1. PICK t \in Tags : \E x \in Dom[t] : Ptr[t][x] = b /\ o = <<t, x>>
        BY OwnersPoint
      <4>2. PICK x \in Dom[t] : Ptr[t][x] = b /\ o = <<t, x>>
        BY <4>1
      <4>3. PICK u \in Tags : \E y \in Dom[u] : Ptr[u][y] = b /\ q = <<u, y>>
        BY OwnersPoint
      <4>4. PICK y \in Dom[u] : Ptr[u][y] = b /\ q = <<u, y>>
        BY <4>3
      <4>5. t = u /\ x = y
        BY <4>2, <4>4, NotBlocks DEF Sound, Sane, Apart
      <4> QED
        BY <4>2, <4>4, <4>5
    <3> QED
      BY <3>1
  <2>2. CASE b \in leaked
    <3>1. Owners(b) = {}
      BY <2>2, OwnersPoint DEF Sound, Sane, Owned
    <3> QED
      BY <2>2, <3>1, FS_EmptySet
  <2>3. CASE b \notin leaked
    <3>1. Owners(b) # {}
      BY <2>3, OwnersPoint DEF Sound, Sane, Owned
    <3>2. PICK o : Owners(b) = {o}
      BY <2>1, <3>1
    <3> QED
      BY <2>3, <3>2, FS_Singleton
  <2> QED
    BY <2>2, <2>3
<1> QED
  BY <1>1, <1>2 DEF OneOwner

(* A pointer of a signer or of the program to a key. *)
LEMMA KeyAt ==
  ASSUME Sound
  PROVE  /\ \A s \in Signers : evpkey[s] # Null => evpkey[s] \in DOMAIN heap /\ heap[evpkey[s]].key \in Int
         /\ \A p \in PKeys : pkey[p] # Null => pkey[p] \in DOMAIN heap /\ heap[pkey[p]].key \in Int
         /\ \A r \in RawKeys : buffer[r] \in DOMAIN heap => heap[buffer[r]].key \in Int
<1>1. \A b \in DOMAIN heap : b \notin NoPointer /\ (heap[b].kind \in {"evp", "raw"} => heap[b].key \in Int)
  BY NotBlocks DEF Sound, HeapOK, Keys, Digests, Signed
<1>2. \A s \in Signers : evpkey[s] # Null => evpkey[s] \in DOMAIN heap /\ heap[evpkey[s]].kind = "evp"
  BY PtrNow, TagAt DEF Sound, Sane, Points, Initialised, NoPointer, Tags
<1>3. \A p \in PKeys : pkey[p] # Null => pkey[p] \in DOMAIN heap /\ heap[pkey[p]].kind = "evp"
  BY PtrNow, TagAt DEF Sound, Sane, Points, Initialised, NoPointer, Tags
<1>4. \A r \in RawKeys : buffer[r] \in DOMAIN heap => heap[buffer[r]].kind = "raw"
  BY <1>1, PtrNow, TagAt DEF Sound, Sane, Points, Tags
<1> QED
  BY <1>1, <1>2, <1>3, <1>4

(* The two blocks of a signature. *)
LEMMA SignatureAt ==
  ASSUME Sound, NEW g \in Sigs, sig[g] # NoSignature
  PROVE  /\ sig[g].digest \in DOMAIN heap /\ heap[sig[g].digest].kind = "digest"
         /\ heap[sig[g].digest] \in Digests
         /\ sig[g].signature \in DOMAIN heap /\ heap[sig[g].signature].kind = "sig"
         /\ heap[sig[g].signature] \in Signed
         /\ sig[g].digest \notin NoPointer /\ sig[g].signature \notin NoPointer
         /\ MadeFrom(heap[sig[g].digest], heap[sig[g].signature], made[g])
<1>1. /\ sig[g].digest \in DOMAIN heap /\ sig[g].signature \in DOMAIN heap
      /\ MadeFrom(heap[sig[g].digest], heap[sig[g].signature], made[g])
  BY DEF Sound, Signatures
<1>2. sig[g].digest \notin NoPointer /\ sig[g].signature \notin NoPointer
  BY <1>1, NotBlocks
<1>3. heap[sig[g].digest].kind = "digest" /\ heap[sig[g].signature].kind = "sig"
  BY <1>2, PtrNow, TagAt DEF Sound, Sane, Points, Tags
<1>4. heap[sig[g].digest] \in Digests /\ heap[sig[g].signature] \in Signed
  BY <1>1, <1>3 DEF Sound, HeapOK, Keys, Digests, Signed
<1> QED
  BY <1>1, <1>2, <1>3, <1>4

(* Two signatures share no block. *)
LEMMA SignaturesApart ==
  ASSUME Sound, NEW g \in Sigs, NEW x \in Sigs, x # g, sig[g] # NoSignature, sig[x] # NoSignature
  PROVE  /\ sig[x].digest # sig[g].digest /\ sig[x].digest # sig[g].signature
         /\ sig[x].signature # sig[g].digest /\ sig[x].signature # sig[g].signature
<1>1. PICK a, b, c, d : a = sig[x].digest /\ b = sig[x].signature /\ c = sig[g].digest /\ d = sig[g].signature
  OBVIOUS
<1>2. /\ a \notin NoPointer /\ b \notin NoPointer
      /\ heap[a].kind = "digest" /\ heap[b].kind = "sig"
  BY <1>1, SignatureAt
<1>3. heap[c].kind = "digest" /\ heap[d].kind = "sig"
  BY <1>1, SignatureAt
<1>4. a # c /\ b # d
  BY <1>1, <1>2, PtrNow, TagAt DEF Sound, Sane, Apart, Tags
<1> QED
  BY <1>1, <1>2, <1>3, <1>4

-----------------------------------------------------------------------------
(* Keys *)

(* A call that allocates a key and sets one pointer to it, losing what the   *)
(* pointer was to.                                                           *)
LEMMA Allocated ==
  ASSUME Sound, HasRoom(1), NEW content \in Keys, heap' = With(Fresh(1), content), UNCHANGED <<sig, made>>,
         NEW t \in Tags, NEW x \in Dom[t], content.kind = Kind[t],
         leaked' = leaked \cup ({Ptr[t][x]} \ NoPointer), SetTo(Ptr, Ptr', t, x, Fresh(1))
  PROVE  /\ Fresh(1) \in Int /\ Fresh(1) \notin NoPointer
         /\ HeapOK(heap') /\ Sane(Ptr', heap', leaked') /\ Signatures'
<1>1. PICK b : b = Fresh(1) /\ b \in Blocks \ DOMAIN heap /\ b \in Int /\ b \notin NoPointer
  BY FreshOne, BlocksAreNoSpecial DEF Sound, HeapOK
<1>2. /\ DOMAIN heap' = DOMAIN heap \cup {b} /\ heap'[b] = content
      /\ \A c \in DOMAIN heap : heap'[c] = heap[c]
  BY <1>1 DEF With
<1>3. HeapOK(heap')
  BY <1>1, <1>2 DEF Sound, HeapOK
<1>4. Signatures'
  BY <1>2 DEF Sound, Signatures
<1>5. PICK P, P2, h, h2, l, l2 : P = Ptr /\ P2 = Ptr' /\ h = heap /\ h2 = heap' /\ l = leaked /\ l2 = leaked'
  OBVIOUS
<1>6. /\ Sane(P, h, l) /\ SetTo(P, P2, t, x, b) /\ NoPointer \cap DOMAIN h = {}
      /\ l2 = l \cup ({P[t][x]} \ NoPointer)
  BY <1>1, <1>5, NotBlocks DEF Sound
<1>7. /\ DOMAIN h2 = DOMAIN h \cup {b} /\ h2[b].kind = Kind[t] /\ b \notin DOMAIN h
      /\ \A c \in DOMAIN h : h2[c].kind = h[c].kind
  BY <1>1, <1>2, <1>5
<1>8. Sane(P2, h2, l2)
  BY <1>1, <1>6, <1>7, Gains
<1> QED
  BY <1>1, <1>3, <1>4, <1>5, <1>8

(* A call that frees a key, or loses it, and gives up the pointer to it. *)
LEMMA Released ==
  ASSUME Sound, UNCHANGED <<sig, made>>,
         NEW t \in Tags, NEW x \in Dom[t], NEW v \in NoPointer, Kind[t] = "evp" \/ Kind[t] = "raw",
         SetTo(Ptr, Ptr', t, x, v),
         \/ heap' = Without({Ptr[t][x]}) /\ Ptr[t][x] \in DOMAIN heap /\ leaked' = leaked
         \/ heap' = heap /\ leaked' = leaked \cup ({Ptr[t][x]} \ NoPointer)
  PROVE  HeapOK(heap') /\ Sane(Ptr', heap', leaked') /\ Signatures'
<1>1. PICK b : b = Ptr[t][x]
  OBVIOUS
<1>2. /\ \/ DOMAIN heap' = DOMAIN heap \ {b} /\ leaked' = leaked
         \/ DOMAIN heap' = DOMAIN heap /\ leaked' = leaked \cup ({b} \ NoPointer)
      /\ \A c \in DOMAIN heap' : c \in DOMAIN heap /\ heap'[c] = heap[c]
      /\ \A c \in DOMAIN heap : c = b \/ c \in DOMAIN heap'
  BY <1>1 DEF Without
<1>3. HeapOK(heap')
  BY <1>2 DEF Sound, HeapOK
<1>4. Signatures'
  <2>1. ASSUME NEW g \in Sigs, sig[g] # NoSignature
        PROVE  /\ sig[g].digest \in DOMAIN heap' /\ sig[g].signature \in DOMAIN heap'
               /\ MadeFrom(heap'[sig[g].digest], heap'[sig[g].signature], made[g])
    <3>1. b \in DOMAIN heap => heap[b].kind = Kind[t]
      BY <1>1, NotBlocks DEF Sound, Sane, Points
    <3>2. /\ sig[g].digest \in DOMAIN heap /\ heap[sig[g].digest].kind = "digest"
          /\ sig[g].signature \in DOMAIN heap /\ heap[sig[g].signature].kind = "sig"
          /\ MadeFrom(heap[sig[g].digest], heap[sig[g].signature], made[g])
      BY <2>1, SignatureAt
    <3>3. sig[g].digest # b /\ sig[g].signature # b
      BY <3>1, <3>2
    <3> QED
      BY <1>2, <3>2, <3>3
  <2> QED
    BY <2>1 DEF Signatures
<1>5. PICK P, P2, h, h2, l, l2 : P = Ptr /\ P2 = Ptr' /\ h = heap /\ h2 = heap' /\ l = leaked /\ l2 = leaked'
  OBVIOUS
<1>6. Sane(P, h, l) /\ SetTo(P, P2, t, x, v) /\ NoPointer \cap DOMAIN h = {}
  BY <1>5, NotBlocks DEF Sound
<1>7. /\ \/ DOMAIN h2 = DOMAIN h \ {P[t][x]} /\ l2 = l
         \/ DOMAIN h2 = DOMAIN h /\ l2 = l \cup ({P[t][x]} \ NoPointer)
      /\ \A c \in DOMAIN h2 : h2[c].kind = h[c].kind
  BY <1>1, <1>2, <1>5
<1>8. Sane(P2, h2, l2)
  BY <1>6, <1>7, Loses
<1> QED
  BY <1>3, <1>4, <1>5, <1>8

(* Signer_new, and Signer_read_pem of a file that holds a key. *)
LEMMA SignerGains ==
  ASSUME Sound, NEW s \in Signers, NEW k \in Int, HasRoom(1), keys' \in Int,
         heap' = With(Fresh(1), [kind |-> "evp", key |-> k]), evpkey' = [evpkey EXCEPT ![s] = Fresh(1)],
         leaked' = leaked \cup ({evpkey[s]} \ {Null}),
         UNCHANGED <<buffer, pkey, sig, file, made>>
  PROVE  Sound'
<1>1. SetTo(Ptr, Ptr', "signer", s, Fresh(1))
  BY SetSigner DEF Sound
<1>2. PICK content \in Keys : content = [kind |-> "evp", key |-> k]
  BY DEF Keys
<1>3. "signer" \in Tags /\ s \in Dom["signer"] /\ Kind["signer"] = "evp" /\ content.kind = "evp"
  BY <1>2, TagAt DEF Tags
<1>6. leaked' = leaked \cup ({Ptr["signer"][s]} \ NoPointer)
  BY PtrNow DEF Sound, Initialised, NoPointer
<1>4. /\ Fresh(1) \in Int /\ Fresh(1) \notin NoPointer
      /\ HeapOK(heap') /\ Sane(Ptr', heap', leaked') /\ Signatures'
  BY <1>1, <1>2, <1>3, <1>6, Allocated
<1>5. Fields' /\ Initialised'
  BY <1>4 DEF Sound, Fields, Initialised, NoPointer
<1> QED
  BY <1>4, <1>5 DEF Sound

(* Signer_free, and Signer_read_pem of a file that holds no key. *)
LEMMA SignerLoses ==
  ASSUME Sound, NEW s \in Signers, evpkey' = [evpkey EXCEPT ![s] = Null],
         \/ heap' = heap /\ leaked' = leaked \cup ({evpkey[s]} \ {Null})
         \/ evpkey[s] \in DOMAIN heap /\ heap' = Without({evpkey[s]}) /\ leaked' = leaked,
         UNCHANGED <<keys, buffer, pkey, sig, file, made>>
  PROVE  Sound'
<1>0. SetTo(Ptr, Ptr', "signer", s, Null)
  BY SetSigner DEF Sound
<1>1. Null \in NoPointer /\ Null # Wild /\ Null \in Int
  BY DEF NoPointer, Null, Wild
<1>2. "signer" \in Tags /\ s \in Dom["signer"] /\ Kind["signer"] = "evp" /\ Ptr["signer"][s] = evpkey[s]
  BY TagAt, PtrNow DEF Tags
<1>3. HeapOK(heap') /\ Sane(Ptr', heap', leaked') /\ Signatures'
  <2>1. \/ heap' = Without({Ptr["signer"][s]}) /\ Ptr["signer"][s] \in DOMAIN heap /\ leaked' = leaked
        \/ heap' = heap /\ leaked' = leaked \cup ({Ptr["signer"][s]} \ NoPointer)
    BY <1>1, <1>2 DEF Sound, Initialised, NoPointer
  <2> QED
    BY <1>0, <1>1, <1>2, <2>1, Released
<1>4. Fields' /\ Initialised'
  BY <1>1 DEF Sound, Fields, Initialised
<1> QED
  BY <1>3, <1>4 DEF Sound

(* RawCryptoKey_get_evp_public_key and RawCryptoKey_get_evp_private_key *)
LEMMA PKeyGains ==
  ASSUME Sound, NEW p \in PKeys, NEW k \in Int, HasRoom(1), pkey[p] = Null,
         heap' = With(Fresh(1), [kind |-> "evp", key |-> k]), pkey' = [pkey EXCEPT ![p] = Fresh(1)],
         UNCHANGED <<keys, evpkey, buffer, sig, file, leaked, made>>
  PROVE  Sound'
<1>1. SetTo(Ptr, Ptr', "pkey", p, Fresh(1))
  BY SetPKey DEF Sound
<1>2. PICK content \in Keys : content = [kind |-> "evp", key |-> k]
  BY DEF Keys
<1>3. "pkey" \in Tags /\ p \in Dom["pkey"] /\ Kind["pkey"] = "evp" /\ content.kind = "evp"
  BY <1>2, TagAt DEF Tags
<1>6. leaked' = leaked \cup ({Ptr["pkey"][p]} \ NoPointer)
  BY PtrNow DEF NoPointer
<1>4. /\ Fresh(1) \in Int /\ Fresh(1) \notin NoPointer
      /\ HeapOK(heap') /\ Sane(Ptr', heap', leaked') /\ Signatures'
  BY <1>1, <1>2, <1>3, <1>6, Allocated
<1>5. Fields' /\ Initialised'
  BY <1>4 DEF Sound, Fields, Initialised, NoPointer
<1> QED
  BY <1>4, <1>5 DEF Sound

(* EVP_PKEY_free *)
LEMMA PKeyLoses ==
  ASSUME Sound, NEW p \in PKeys, pkey[p] \in DOMAIN heap, pkey' = [pkey EXCEPT ![p] = Null],
         heap' = Without({pkey[p]}), UNCHANGED <<keys, evpkey, buffer, sig, file, leaked, made>>
  PROVE  Sound'
<1>0. SetTo(Ptr, Ptr', "pkey", p, Null)
  BY SetPKey DEF Sound
<1>1. Null \in NoPointer /\ Null # Wild /\ Null \in Int
  BY DEF NoPointer, Null, Wild
<1>2. "pkey" \in Tags /\ p \in Dom["pkey"] /\ Kind["pkey"] = "evp" /\ Ptr["pkey"][p] = pkey[p]
  BY TagAt, PtrNow DEF Tags
<1>3. HeapOK(heap') /\ Sane(Ptr', heap', leaked') /\ Signatures'
  <2>1. \/ heap' = Without({Ptr["pkey"][p]}) /\ Ptr["pkey"][p] \in DOMAIN heap /\ leaked' = leaked
        \/ heap' = heap /\ leaked' = leaked \cup ({Ptr["pkey"][p]} \ NoPointer)
    BY <1>1, <1>2
  <2> QED
    BY <1>0, <1>1, <1>2, <2>1, Released
<1>4. Fields' /\ Initialised'
  BY <1>1 DEF Sound, Fields, Initialised
<1> QED
  BY <1>3, <1>4 DEF Sound

(* Signer_get_public_key and Signer_get_private_key of a ready signer *)
LEMMA RawGains ==
  ASSUME Sound, NEW r \in RawKeys, NEW k \in Int, HasRoom(1), buffer[r] = Null,
         heap' = With(Fresh(1), [kind |-> "raw", key |-> k]), buffer' = [buffer EXCEPT ![r] = Fresh(1)],
         UNCHANGED <<keys, evpkey, pkey, sig, file, leaked, made>>
  PROVE  Sound'
<1>1. SetTo(Ptr, Ptr', "raw", r, Fresh(1))
  BY SetRaw DEF Sound
<1>2. PICK content \in Keys : content = [kind |-> "raw", key |-> k]
  BY DEF Keys
<1>3. /\ "raw" \in Tags /\ r \in Dom["raw"] /\ Kind["raw"] = "raw" /\ content.kind = "raw"
      /\ leaked' = leaked \cup ({Ptr["raw"][r]} \ NoPointer)
  BY <1>2, TagAt, PtrNow DEF Tags, NoPointer
<1>4. /\ Fresh(1) \in Int /\ HeapOK(heap') /\ Sane(Ptr', heap', leaked') /\ Signatures'
  BY <1>1, <1>2, <1>3, Allocated
<1>5. Fields' /\ Initialised'
  BY <1>4 DEF Sound, Fields, Initialised
<1> QED
  BY <1>4, <1>5 DEF Sound

(* The same of a signer that is not ready, whose buffer is any pointer; and  *)
(* RawCryptoKey_free.                                                        *)
LEMMA RawLoses ==
  ASSUME Sound, NEW r \in RawKeys, NEW v \in NoPointer, buffer' = [buffer EXCEPT ![r] = v],
         \/ heap' = heap /\ buffer[r] = Null
         \/ heap' = Without({buffer[r]}) /\ buffer[r] \in DOMAIN heap,
         UNCHANGED <<keys, evpkey, pkey, sig, file, leaked, made>>
  PROVE  Sound'
<1>0. SetTo(Ptr, Ptr', "raw", r, v)
  BY SetRaw DEF Sound
<1>1. v \in Int /\ Null \in NoPointer
  BY DEF NoPointer, Null, Wild
<1>2. "raw" \in Tags /\ r \in Dom["raw"] /\ Kind["raw"] = "raw" /\ Ptr["raw"][r] = buffer[r]
  BY TagAt, PtrNow DEF Tags
<1>3. HeapOK(heap') /\ Sane(Ptr', heap', leaked') /\ Signatures'
  <2>1. \/ heap' = Without({Ptr["raw"][r]}) /\ Ptr["raw"][r] \in DOMAIN heap /\ leaked' = leaked
        \/ heap' = heap /\ leaked' = leaked \cup ({Ptr["raw"][r]} \ NoPointer)
    BY <1>1, <1>2
  <2> QED
    BY <1>0, <1>1, <1>2, <2>1, Released
<1>4. Fields' /\ Initialised'
  BY <1>1 DEF Sound, Fields, Initialised
<1> QED
  BY <1>3, <1>4 DEF Sound

-----------------------------------------------------------------------------
(* Signatures *)

(* Signer_sign: the digest is allocated first, then the signature. *)
LEMMA SignMakes ==
  ASSUME Sound, NEW g \in Sigs, NEW m \in Messages, NEW k \in Int, HasRoom(2), sig[g] = NoSignature,
         heap' = [c \in DOMAIN heap \cup {Fresh(1), Fresh(2)} |->
                    CASE c = Fresh(1) -> DigestOf(m)
                      [] c = Fresh(2) -> [kind |-> "sig", key |-> k, of |-> m]
                      [] OTHER -> heap[c]],
         sig' = [sig EXCEPT ![g] = [digest |-> Fresh(1), signature |-> Fresh(2)]],
         made' = [made EXCEPT ![g] = {<<k, m>>}],
         UNCHANGED <<keys, evpkey, buffer, pkey, file, leaked>>
  PROVE  Sound'
<1>1. PICK d, z : /\ d = Fresh(1) /\ d \in Blocks \ DOMAIN heap
                  /\ z = Fresh(2) /\ z \in Blocks \ DOMAIN heap /\ d # z
  BY FreshTwo DEF Sound, HeapOK
<1>2. /\ DOMAIN heap' = DOMAIN heap \cup {d, z}
      /\ heap'[d] = DigestOf(m) /\ heap'[z] = [kind |-> "sig", key |-> k, of |-> m]
      /\ \A c \in DOMAIN heap : heap'[c] = heap[c]
  BY <1>1
<1>3. /\ heap'[d].kind = "digest" /\ heap'[d].of = m /\ heap'[d] \in Digests
      /\ heap'[z].kind = "sig" /\ heap'[z].of = m /\ heap'[z].key = k /\ heap'[z] \in Signed
  BY <1>2 DEF DigestOf, Digests, Signed, Dirty
<1>4. d \in Int /\ z \in Int /\ d \notin NoPointer /\ z \notin NoPointer
  BY <1>1, BlocksAreNoSpecial
<1>5. /\ sig'[g] = [digest |-> d, signature |-> z]
      /\ \A x \in Sigs : x # g => sig'[x] = sig[x]
      /\ sig' \in [Sigs -> [digest : Int, signature : Int]]
  BY <1>1, <1>4 DEF Sound, Fields
<1>6. /\ made'[g] = {<<k, m>>} /\ made' = [x \in Sigs |-> made'[x]]
      /\ \A x \in Sigs : x # g => made'[x] = made[x]
  BY DEF Sound, Fields
<1>7. Fields' /\ Initialised'
  BY <1>5, <1>6 DEF Sound, Fields, Initialised
<1>8. HeapOK(heap')
  BY <1>1, <1>2, <1>3 DEF Sound, HeapOK
<1>9. Signatures'
  <2>1. ASSUME NEW x \in Sigs, sig'[x] # NoSignature
        PROVE  /\ sig'[x].digest \in DOMAIN heap' /\ sig'[x].signature \in DOMAIN heap'
               /\ MadeFrom(heap'[sig'[x].digest], heap'[sig'[x].signature], made'[x])
    <3>1. CASE x = g
      BY <1>2, <1>3, <1>5, <1>6, <3>1 DEF MadeFrom
    <3>2. CASE x # g
      <4>1. sig'[x] = sig[x] /\ made'[x] = made[x] /\ sig[x] # NoSignature
        BY <1>5, <1>6, <2>1, <3>2
      <4> QED
        BY <1>2, <4>1 DEF Sound, Signatures
    <3> QED
      BY <3>1, <3>2
  <2> QED
    BY <2>1 DEF Signatures
<1>10. Sane(Ptr', heap', leaked')
  <2>1. PICK P1 : SetTo(Ptr, P1, "digest", g, d) /\ SetTo(P1, Ptr', "signature", g, z)
    BY <1>1, SetSig DEF Sound
  <2>2. PICK P, P2, h, h2 : P = Ptr /\ P2 = Ptr' /\ h = heap /\ h2 = heap'
    OBVIOUS
  <2>3. PICK h1 : h1 = With(d, DigestOf(m))
    OBVIOUS
  <2>4. /\ "digest" \in Tags /\ g \in Dom["digest"] /\ Kind["digest"] = "digest"
        /\ "signature" \in Tags /\ g \in Dom["signature"] /\ Kind["signature"] = "sig"
    BY TagAt DEF Tags
  <2>5. Sane(P, h, leaked) /\ NoPointer \cap DOMAIN h = {} /\ P["digest"][g] \in NoPointer /\ P["signature"][g] \in NoPointer
    BY <2>2, NotBlocks, PtrNow DEF Sound, NoSignature, NoPointer
  <2>6. DOMAIN h1 = DOMAIN h \cup {d} /\ h1[d].kind = "digest" /\ \A c \in DOMAIN h : h1[c].kind = h[c].kind
    BY <1>1, <2>2, <2>3 DEF With, DigestOf
  <2>7. DOMAIN h2 = DOMAIN h1 \cup {z} /\ h2[z].kind = "sig" /\ \A c \in DOMAIN h1 : h2[c].kind = h1[c].kind
    BY <1>2, <1>3, <2>2, <2>6
  <2>8. Sane(P1, h1, leaked)
    <3>1. SetTo(P, P1, "digest", g, d) /\ d \notin DOMAIN h /\ leaked = leaked \cup ({P["digest"][g]} \ NoPointer)
      BY <1>1, <2>1, <2>2, <2>5
    <3> QED
      BY <1>4, <2>4, <2>5, <2>6, <3>1, Gains
  <2>9. P1["signature"][g] \in NoPointer
    BY <2>1, <2>2, <2>4, <2>5 DEF SetTo
  <2>10. Sane(P2, h2, leaked)
    <3>1. /\ SetTo(P1, P2, "signature", g, z) /\ z \notin DOMAIN h1 /\ NoPointer \cap DOMAIN h1 = {}
          /\ leaked = leaked \cup ({P1["signature"][g]} \ NoPointer)
      BY <1>1, <1>4, <2>1, <2>2, <2>5, <2>6, <2>9
    <3> QED
      BY <1>4, <2>4, <2>7, <2>8, <2>9, <3>1, Gains
  <2> QED
    BY <2>2, <2>10
<1> QED
  BY <1>7, <1>8, <1>9, <1>10 DEF Sound

(* A byte of the digest or of the signature changes. *)
LEMMA CorruptKeeps ==
  ASSUME Sound, NEW g \in Sigs, NEW field \in {"digest", "signature"}, Corrupt(g, field)
  PROVE  Sound'
<1>1. PICK b : b = sig[g][field]
  OBVIOUS
<1>2. PICK d, z : d = sig[g].digest /\ z = sig[g].signature
  OBVIOUS
<1>3. sig[g] # NoSignature /\ heap' = [heap EXCEPT ![b].of = "corrupted"]
  BY <1>1 DEF Corrupt
<1>4. /\ d \in DOMAIN heap /\ heap[d].kind = "digest" /\ heap[d] \in Digests
      /\ z \in DOMAIN heap /\ heap[z].kind = "sig" /\ heap[z] \in Signed /\ d # z
  BY <1>2, <1>3, SignatureAt
<1>5. b = d \/ b = z
  <2>1. CASE field = "digest"
    BY <1>1, <1>2, <2>1
  <2>2. CASE field = "signature"
    BY <1>1, <1>2, <2>2
  <2> QED
    BY <2>1, <2>2
<1>6. /\ DOMAIN heap' = DOMAIN heap /\ heap'[b] = [heap[b] EXCEPT !.of = "corrupted"]
      /\ \A c \in DOMAIN heap : c # b => heap'[c] = heap[c]
  BY <1>3, <1>4, <1>5
<1>7. /\ heap'[b].of = "corrupted" /\ heap'[b].kind = heap[b].kind
      /\ heap'[b] \in Digests \cup Signed
  <2>1. CASE b = d
    BY <1>4, <1>6, <2>1 DEF Digests, Dirty
  <2>2. CASE b = z
    BY <1>4, <1>6, <2>2 DEF Signed, Dirty
  <2> QED
    BY <1>5, <2>1, <2>2
<1>8. HeapOK(heap')
  BY <1>6, <1>7 DEF Sound, HeapOK
<1>9. /\ made'[g] = {} /\ made' = [x \in Sigs |-> made'[x]]
      /\ \A x \in Sigs : x # g => made'[x] = made[x]
  BY DEF Sound, Fields, Corrupt
<1>10. Fields' /\ Initialised'
  BY <1>9 DEF Sound, Fields, Initialised, Corrupt
<1>11. Signatures'
  <2>0. sig' = sig
    BY DEF Corrupt
  <2>1. ASSUME NEW x \in Sigs, sig[x] # NoSignature
        PROVE  /\ sig[x].digest \in DOMAIN heap' /\ sig[x].signature \in DOMAIN heap'
               /\ MadeFrom(heap'[sig[x].digest], heap'[sig[x].signature], made'[x])
    <3>1. CASE x = g
      BY <1>2, <1>4, <1>5, <1>6, <1>7, <1>9, <3>1 DEF MadeFrom
    <3>2. CASE x # g
      <4>1. sig[x].digest # b /\ sig[x].signature # b
        BY <1>2, <1>3, <1>5, <2>1, <3>2, SignaturesApart
      <4>2. /\ sig[x].digest \in DOMAIN heap /\ sig[x].signature \in DOMAIN heap
            /\ MadeFrom(heap[sig[x].digest], heap[sig[x].signature], made[x])
        BY <2>1, SignatureAt
      <4>3. heap'[sig[x].digest] = heap[sig[x].digest] /\ heap'[sig[x].signature] = heap[sig[x].signature]
        BY <1>6, <4>1, <4>2
      <4> QED
        BY <1>6, <1>9, <3>2, <4>2, <4>3
    <3> QED
      BY <3>1, <3>2
  <2> QED
    BY <2>0, <2>1 DEF Signatures
<1>12. Sane(Ptr', heap', leaked')
  <2>1. Ptr' = Ptr /\ leaked' = leaked
    BY DEF Ptr, Corrupt
  <2>2. \A c \in DOMAIN heap : heap'[c].kind = heap[c].kind
    BY <1>6, <1>7
  <2>3. Sane(Ptr, heap', leaked)
    BY <1>6, <2>2, SameKinds DEF Sound
  <2> QED
    BY <2>1, <2>3
<1> QED
  BY <1>8, <1>10, <1>11, <1>12 DEF Sound

(* Signature_free *)
LEMMA SignatureLost ==
  ASSUME Sound, NEW g \in Sigs, sig[g] # NoSignature,
         heap' = Without({sig[g].digest, sig[g].signature}),
         sig' = [sig EXCEPT ![g] = NoSignature], made' = [made EXCEPT ![g] = {}],
         UNCHANGED <<keys, evpkey, buffer, pkey, file, leaked>>
  PROVE  Sound'
<1>1. PICK d, z : d = sig[g].digest /\ z = sig[g].signature
  OBVIOUS
<1>2. /\ DOMAIN heap' = DOMAIN heap \ {d, z}
      /\ \A c \in DOMAIN heap' : heap'[c] = heap[c]
  BY <1>1 DEF Without
<1>3. /\ sig'[g] = NoSignature /\ sig' \in [Sigs -> [digest : Int, signature : Int]]
      /\ \A x \in Sigs : x # g => sig'[x] = sig[x]
  BY DEF Sound, Fields, NoSignature, Null
<1>4. /\ made' = [x \in Sigs |-> made'[x]]
      /\ \A x \in Sigs : x # g => made'[x] = made[x]
  BY DEF Sound, Fields
<1>5. Fields' /\ Initialised'
  BY <1>3, <1>4 DEF Sound, Fields, Initialised
<1>6. HeapOK(heap')
  BY <1>2 DEF Sound, HeapOK
<1>7. Signatures'
  <2>1. ASSUME NEW x \in Sigs, sig'[x] # NoSignature
        PROVE  /\ sig'[x].digest \in DOMAIN heap' /\ sig'[x].signature \in DOMAIN heap'
               /\ MadeFrom(heap'[sig'[x].digest], heap'[sig'[x].signature], made'[x])
    <3>1. x # g /\ sig'[x] = sig[x] /\ made'[x] = made[x] /\ sig[x] # NoSignature
      BY <1>3, <1>4, <2>1
    <3>2. sig[x].digest \notin {d, z} /\ sig[x].signature \notin {d, z}
      BY <1>1, <3>1, SignaturesApart
    <3>3. /\ sig[x].digest \in DOMAIN heap /\ sig[x].signature \in DOMAIN heap
          /\ MadeFrom(heap[sig[x].digest], heap[sig[x].signature], made[x])
      BY <3>1, SignatureAt
    <3> QED
      BY <1>2, <3>1, <3>2, <3>3
  <2> QED
    BY <2>1 DEF Signatures
<1>8. Sane(Ptr', heap', leaked')
  <2>1. PICK P1 : SetTo(Ptr, P1, "digest", g, Null) /\ SetTo(P1, Ptr', "signature", g, Null)
    BY SetSig DEF Sound, NoSignature
  <2>2. PICK P, P2, h, h2 : P = Ptr /\ P2 = Ptr' /\ h = heap /\ h2 = heap'
    OBVIOUS
  <2>3. PICK h1 : h1 = Without({d})
    OBVIOUS
  <2>4. /\ "digest" \in Tags /\ g \in Dom["digest"]
        /\ "signature" \in Tags /\ g \in Dom["signature"] /\ Null \in NoPointer
    BY TagAt DEF Tags, NoPointer
  <2>5. Sane(P, h, leaked) /\ NoPointer \cap DOMAIN h = {} /\ P["digest"][g] = d /\ P["signature"][g] = z
    BY <1>1, <2>2, NotBlocks, PtrNow DEF Sound
  <2>6. DOMAIN h1 = DOMAIN h \ {d} /\ \A c \in DOMAIN h1 : h1[c].kind = h[c].kind
    BY <2>2, <2>3 DEF Without
  <2>7. DOMAIN h2 = DOMAIN h1 \ {z} /\ \A c \in DOMAIN h2 : h2[c].kind = h1[c].kind
    BY <1>2, <2>2, <2>3, <2>6 DEF Without
  <2>8. Sane(P1, h1, leaked)
    <3>1. SetTo(P, P1, "digest", g, Null) /\ DOMAIN h1 = DOMAIN h \ {P["digest"][g]}
      BY <2>1, <2>2, <2>5, <2>6
    <3> QED
      BY <2>4, <2>5, <2>6, <3>1, Loses
  <2>9. P1["signature"][g] = z
    BY <2>1, <2>2, <2>4, <2>5 DEF SetTo
  <2>10. Sane(P2, h2, leaked)
    <3>1. /\ SetTo(P1, P2, "signature", g, Null) /\ NoPointer \cap DOMAIN h1 = {}
          /\ DOMAIN h2 = DOMAIN h1 \ {P1["signature"][g]}
      BY <2>1, <2>2, <2>5, <2>6, <2>7, <2>9
    <3> QED
      BY <2>4, <2>7, <2>8, <3>1, Loses
  <2> QED
    BY <2>2, <2>10
<1> QED
  BY <1>5, <1>6, <1>7, <1>8 DEF Sound

-----------------------------------------------------------------------------
(* The answer of Signature_verify *)

(* A digest that differs was not made from the message. *)
LEMMA RefusedRightly ==
  ASSUME Sound, NEW g \in Sigs, NEW m \in Messages, sig[g] # NoSignature,
         ~ digest_cmp(DigestOf(m), heap[sig[g].digest])
  PROVE  made[g] # {<<Null, m>>}
<1>1. PICK d, z : d = heap[sig[g].digest] /\ z = heap[sig[g].signature]
  OBVIOUS
<1>2. d \in Digests /\ MadeFrom(d, z, made[g])
  BY <1>1, SignatureAt
<1>3. d.of # m
  <2>1. d = [kind |-> "digest", of |-> d.of]
    BY <1>2 DEF Digests
  <2> QED
    BY <1>1, <2>1 DEF digest_cmp, DigestOf
<1>4. CASE made[g] = {}
  BY <1>4
<1>5. CASE made[g] # {}
  <2>1. PICK n \in Messages : made[g] = {<<z.key, n>>} /\ d.of = n
    BY <1>2, <1>5 DEF MadeFrom
  <2>2. ASSUME made[g] = {<<Null, m>>} PROVE FALSE
    <3>1. <<z.key, n>> = <<Null, m>>
      BY <2>1, <2>2
    <3> QED
      BY <1>3, <2>1, <3>1
  <2> QED
    BY <2>2
<1> QED
  BY <1>4, <1>5

(* A digest that agrees leaves the answer to the signature. *)
LEMMA AnsweredRightly ==
  ASSUME Sound, NEW g \in Sigs, NEW m \in Messages, NEW k, sig[g] # NoSignature,
         digest_cmp(DigestOf(m), heap[sig[g].digest])
  PROVE  EVP_DigestVerify(k, sig[g].signature, sig[g].digest) <=> made[g] = {<<k, m>>}
<1>1. PICK d, z : d = heap[sig[g].digest] /\ z = heap[sig[g].signature]
  OBVIOUS
<1>2. MadeFrom(d, z, made[g])
  BY <1>1, SignatureAt
<1>3. d.of = m /\ m # "corrupted"
  BY <1>1, SignerAssumption DEF digest_cmp, DigestOf
<1>4. EVP_DigestVerify(k, sig[g].signature, sig[g].digest) <=> z.key = k /\ z.of = d.of
  BY <1>1 DEF EVP_DigestVerify
<1>5. CASE made[g] = {}
  BY <1>2, <1>3, <1>4, <1>5 DEF MadeFrom
<1>6. CASE made[g] # {}
  <2>1. made[g] = {<<z.key, m>>} /\ z.of = m
    BY <1>2, <1>3, <1>6 DEF MadeFrom
  <2>2. ASSUME made[g] = {<<k, m>>} PROVE z.key = k
    <3>1. <<z.key, m>> = <<k, m>>
      BY <2>1, <2>2
    <3> QED
      BY <3>1
  <2> QED
    BY <1>3, <1>4, <2>1, <2>2
<1> QED
  BY <1>5, <1>6

(* A verification changes nothing and is right. *)
LEMMA VerifyKeeps ==
  ASSUME Sound, NEW g \in Sigs, NEW p \in PKeys, NEW m \in Messages, NEW len \in Lengths,
         Signature_verify(g, p, m, len)
  PROVE  Sound' /\ VerdictIsRight'
<1>1. Sound'
  BY DEF Signature_verify, Sound, Fields, Initialised, Signatures, Ptr
<1>2. CASE verdict' = {}
  BY <1>1, <1>2 DEF VerdictIsRight
<1>3. CASE /\ sig[g] # NoSignature /\ ~ digest_cmp(DigestOf(m), heap[sig[g].digest])
           /\ verdict' = {[ok |-> FALSE, key |-> Null, msg |-> m, made |-> made[g]]}
  <2>1. made[g] # {<<Null, m>>}
    BY <1>3, RefusedRightly
  <2> QED
    BY <1>1, <1>3, <2>1 DEF VerdictIsRight
<1>4. CASE /\ sig[g] # NoSignature /\ digest_cmp(DigestOf(m), heap[sig[g].digest])
           /\ verdict' = {[ok   |-> EVP_DigestVerify(KeyOf(pkey[p]), sig[g].signature, sig[g].digest),
                           key  |-> KeyOf(pkey[p]),
                           msg  |-> m,
                           made |-> made[g]]}
  <2>1. PICK k : k = KeyOf(pkey[p])
    OBVIOUS
  <2>2. PICK ok : ok = EVP_DigestVerify(k, sig[g].signature, sig[g].digest)
    OBVIOUS
  <2>3. ok <=> made[g] = {<<k, m>>}
    BY <1>4, <2>2, AnsweredRightly
  <2>4. PICK v : v = [ok |-> ok, key |-> k, msg |-> m, made |-> made[g]]
    OBVIOUS
  <2>5. v.ok = ok /\ v.key = k /\ v.msg = m /\ v.made = made[g]
    BY <2>4
  <2>6. verdict' = {v}
    BY <1>4, <2>1, <2>2, <2>4
  <2> QED
    BY <1>1, <2>3, <2>5, <2>6 DEF VerdictIsRight
<1> QED
  BY <1>1, <1>2, <1>3, <1>4 DEF Signature_verify

-----------------------------------------------------------------------------
(* The invariant *)

(* The program starts with no blocks. *)
LEMMA SignerStart == Init => SignerInv
<1> SUFFICES ASSUME Init PROVE SignerInv
  OBVIOUS
<1>1. DOMAIN heap = {} /\ Null \in NoPointer /\ Null \in Int /\ Null # Wild
  BY DEF Init, NoPointer, Null, Wild
<1>2. HeapOK(heap) /\ VerdictIsRight
  BY <1>1 DEF Init, HeapOK, VerdictIsRight
<1>3. Fields
  BY <1>1 DEF Init, Fields, NoSignature, Missing
<1>4. Signatures
  BY DEF Init, Signatures
<1>5. Sane(Ptr, heap, leaked)
  <2>1. \A u \in Tags : \A x \in Dom[u] : Ptr[u][x] = Null
    BY PtrNow, TagAt DEF Init, Tags, NoSignature
  <2> QED
    BY <1>1, <2>1 DEF Init, Sane, Points, Apart, Owned
<1>6. Initialised
  BY <1>1 DEF Init, Initialised
<1> QED
  BY <1>2, <1>3, <1>4, <1>5, <1>6 DEF SignerInv, Sound

(* Every step keeps the invariant. *)
LEMMA SignerStep ==
  ASSUME SignerInv, [Next]_vars
  PROVE  SignerInv'
<1> USE DEF signer_is_ready
<1>1. CASE UNCHANGED vars
  BY <1>1 DEF vars, SignerInv, Sound, Fields, Initialised, Signatures, Ptr, VerdictIsRight
<1>2. CASE Next
  <2>0. ASSUME pc = "running", verdict' = {}, pc' = "running" => Sound' PROVE SignerInv'
    BY <2>0 DEF SignerInv, VerdictIsRight
  <2>1. ASSUME NEW s \in Signers, Signer_new(s) PROVE SignerInv'
    <3>1. Sound /\ keys + 1 \in Int
      BY <2>1 DEF Signer_new, SignerInv, Sound, Fields
    <3>2. Sound'
      BY <2>1, <3>1, SignerGains DEF Signer_new
    <3> QED
      BY <2>0, <2>1, <3>2 DEF Signer_new
  <2>2. ASSUME NEW s \in Signers, Signer_free(s) PROVE SignerInv'
    <3>1. Sound
      BY <2>2 DEF Signer_free, SignerInv
    <3>2. Sound'
      <4>1. evpkey[s] \in DOMAIN heap
        BY <2>2, <3>1, KeyAt DEF Signer_free
      <4>2. heap' = Without({evpkey[s]})
        BY <2>2, <4>1 DEF Signer_free, Freed
      <4> QED
        BY <2>2, <3>1, <4>1, <4>2, SignerLoses DEF Signer_free
    <3> QED
      BY <2>0, <2>2, <3>2 DEF Signer_free
  <2>3. ASSUME NEW s \in Signers, NEW f \in Files, Signer_save_pem(s, f) PROVE SignerInv'
    <3>1. Sound
      BY <2>3 DEF Signer_save_pem, SignerInv
    <3>2. file' \in [Files -> Int]
      <4>1. KeyOf(evpkey[s]) \in Int /\ Damaged \in Int
        BY <2>3, <3>1, KeyAt DEF Signer_save_pem, KeyOf, Damaged
      <4> QED
        BY <2>3, <3>1, <4>1 DEF Signer_save_pem, Sound, Fields
    <3>3. Fields' /\ Initialised' /\ Sane(Ptr, heap, leaked)' /\ Signatures' /\ HeapOK(heap')
      BY <2>3, <3>1, <3>2 DEF Signer_save_pem, Sound, Fields, Initialised, Signatures, Ptr
    <3> QED
      BY <2>0, <2>3, <3>3 DEF Signer_save_pem, Sound
  <2>4. ASSUME NEW s \in Signers, NEW f \in Files, Signer_read_pem(s, f) PROVE SignerInv'
    <3>1. Sound /\ file[f] \in Int /\ keys' \in Int
      BY <2>4 DEF Signer_read_pem, SignerInv, Sound, Fields
    <3>2. CASE file[f] = Damaged
      BY <2>0, <2>4, <3>1, <3>2, SignerLoses DEF Signer_read_pem
    <3>3. CASE file[f] # Damaged
      BY <2>0, <2>4, <3>1, <3>3, SignerGains DEF Signer_read_pem
    <3> QED
      BY <3>2, <3>3
  <2>5. ASSUME NEW s \in Signers, NEW r \in RawKeys, Signer_get_key(s, r) PROVE SignerInv'
    <3>1. Sound
      BY <2>5 DEF Signer_get_key, SignerInv
    <3>2. CASE evpkey[s] # Null
      <4>1. PICK k : k = KeyOf(evpkey[s]) /\ k \in Int
        BY <3>1, <3>2, KeyAt DEF KeyOf
      <4> QED
        BY <2>0, <2>5, <3>1, <3>2, <4>1, RawGains DEF Signer_get_key
    <3>3. CASE evpkey[s] = Null
      <4>1. Wild \in NoPointer
        BY DEF NoPointer
      <4> QED
        BY <2>0, <2>5, <3>1, <3>3, <4>1, RawLoses DEF Signer_get_key
    <3> QED
      BY <3>2, <3>3
  <2>6. ASSUME NEW r \in RawKeys, RawCryptoKey_free(r) PROVE SignerInv'
    <3>1. Sound
      BY <2>6 DEF RawCryptoKey_free, SignerInv
    <3>2. CASE buffer[r] \in DOMAIN heap
      <4>1. heap' = Without({buffer[r]})
        BY <2>6, <3>2 DEF RawCryptoKey_free, Freed
      <4>2. Null \in NoPointer
        BY DEF NoPointer
      <4>3. Sound'
        BY <2>6, <3>1, <3>2, <4>1, <4>2, RawLoses DEF RawCryptoKey_free
      <4> QED
        BY <2>0, <2>6, <4>3 DEF RawCryptoKey_free
    <3>3. CASE buffer[r] \notin DOMAIN heap
      BY <2>0, <2>6, <3>3 DEF RawCryptoKey_free, Freed
    <3> QED
      BY <3>2, <3>3
  <2>7. ASSUME NEW r \in RawKeys, NEW p \in PKeys, RawCryptoKey_get_evp_key(r, p) PROVE SignerInv'
    <3>1. Sound
      BY <2>7 DEF RawCryptoKey_get_evp_key, SignerInv
    <3>2. PICK k : k = KeyOf(buffer[r]) /\ k \in Int
      BY <2>7, <3>1, KeyAt DEF RawCryptoKey_get_evp_key, KeyOf
    <3>3. Sound'
      BY <2>7, <3>1, <3>2, PKeyGains DEF RawCryptoKey_get_evp_key
    <3> QED
      BY <2>0, <2>7, <3>3 DEF RawCryptoKey_get_evp_key
  <2>8. ASSUME NEW p \in PKeys, PKey_free(p) PROVE SignerInv'
    <3>1. Sound
      BY <2>8 DEF PKey_free, SignerInv
    <3>2. Sound'
      <4>1. pkey[p] \in DOMAIN heap
        BY <2>8, <3>1, KeyAt DEF PKey_free
      <4>2. heap' = Without({pkey[p]})
        BY <2>8, <4>1 DEF PKey_free, Freed
      <4> QED
        BY <2>8, <3>1, <4>1, <4>2, PKeyLoses DEF PKey_free
    <3> QED
      BY <2>0, <2>8, <3>2 DEF PKey_free
  <2>9. ASSUME NEW s \in Signers, NEW g \in Sigs, NEW m \in Messages, NEW len \in Lengths,
               Signer_sign(s, g, m, len)
        PROVE  SignerInv'
    <3>1. Sound
      BY <2>9 DEF Signer_sign, SignerInv
    <3>2. CASE pc' = "running"
      <4>1. evpkey[s] # Null
        BY <2>9, <3>2 DEF Signer_sign
      <4>2. PICK k : k = KeyOf(evpkey[s]) /\ k \in Int
        BY <3>1, <4>1, KeyAt DEF KeyOf
      <4>3. Sound'
        BY <2>9, <3>1, <3>2, <4>1, <4>2, SignMakes DEF Signer_sign
      <4> QED
        BY <2>0, <2>9, <4>3 DEF Signer_sign
    <3> QED
      BY <2>0, <2>9, <3>2 DEF Signer_sign
  <2>10. ASSUME NEW g \in Sigs, NEW field \in {"digest", "signature"}, Corrupt(g, field) PROVE SignerInv'
    <3>1. Sound'
      <4>1. Sound
        BY <2>10 DEF Corrupt, SignerInv
      <4> QED
        BY <2>10, <4>1, CorruptKeeps
    <3> QED
      BY <2>0, <2>10, <3>1 DEF Corrupt
  <2>11. ASSUME NEW g \in Sigs, NEW p \in PKeys, NEW m \in Messages, NEW len \in Lengths,
                Signature_verify(g, p, m, len)
         PROVE  SignerInv'
    <3>1. Sound
      BY <2>11 DEF Signature_verify, SignerInv
    <3> QED
      BY <2>11, <3>1, VerifyKeeps DEF SignerInv
  <2>12. ASSUME NEW g \in Sigs, Signature_free(g) PROVE SignerInv'
    <3>1. Sound
      BY <2>12 DEF Signature_free, SignerInv
    <3>2. Sound'
      <4>1. sig[g] # NoSignature
        BY <2>12 DEF Signature_free
      <4>2. sig[g].digest \in DOMAIN heap /\ sig[g].signature \in DOMAIN heap
        BY <3>1, <4>1, SignatureAt
      <4>3. heap' = Without({sig[g].digest, sig[g].signature})
        BY <2>12, <4>2 DEF Signature_free, Freed
      <4> QED
        BY <2>12, <3>1, <4>1, <4>3, SignatureLost DEF Signature_free
    <3> QED
      BY <2>0, <2>12, <3>2 DEF Signature_free
  <2>13. ASSUME GiveUp PROVE SignerInv'
    BY <2>0, <2>13 DEF GiveUp
  <2> QED
    BY <1>2, <2>1, <2>2, <2>3, <2>4, <2>5, <2>6, <2>7, <2>8, <2>9, <2>10, <2>11, <2>12, <2>13 DEF Next
<1> QED
  BY <1>1, <1>2

(***************************************************************************)
(* In every program that calls signer.c and signature.c on structs that    *)
(* own no block, each live block has exactly one owner, except a key that  *)
(* Signer_read_pem overwrote in a ready signer, which has none; until a    *)
(* call exits or runs into undefined behaviour.                            *)
(***************************************************************************)
THEOREM BlocksHaveOneOwner == Spec => []OneOwner
<1>1. SignerInv => OneOwner
  <2>1. CASE pc = "running"
    BY <2>1, SoundMeansOneOwner DEF SignerInv
  <2>2. CASE pc # "running"
    BY <2>2 DEF OneOwner
  <2> QED
    BY <2>1, <2>2
<1>2. SignerInv /\ [Next]_vars => SignerInv'
  BY SignerStep
<1> QED
  BY <1>1, <1>2, SignerStart, PTL DEF Spec

(***************************************************************************)
(* Signature_verify says yes exactly when the key and the message are the  *)
(* ones Signer_sign made the untouched signature from.                     *)
(***************************************************************************)
THEOREM VerdictsAreRight == Spec => []VerdictIsRight
<1>1. SignerInv => VerdictIsRight
  BY DEF SignerInv
<1>2. SignerInv /\ [Next]_vars => SignerInv'
  BY SignerStep
<1> QED
  BY <1>1, <1>2, SignerStart, PTL DEF Spec

=============================================================================
