----------------------------- MODULE NotaryProofs ---------------------------
(***************************************************************************)
(* Theorems about the notary server and its cache, for any number of       *)
(* requests, transactions and wallets: the inductive invariant, the steps  *)
(* of the cache that keep it, then those of the requests.                  *)
(***************************************************************************)
EXTENDS Notary, WellFoundedInduction, TLAPS

(* The provers to try on a leaf, with their time limits in seconds. *)
USE ZenonT(5), SMTT(20)

(* Every set of numbers that is not empty has a least element. *)
LEMMA LeastNumber ==
  ASSUME NEW T, T \subseteq Nat, T # {}
  PROVE  \E n \in T : \A m \in T : ~(m < n)
<1>1. PICK n \in T : \A m \in T : ~ (<<m, n>> \in OpToRel(<, Nat))
  BY NatLessThanWellFounded, WFMin
<1> QED
  BY <1>1 DEF OpToRel

Piece == Trx \cup {Blank}

(* The loop of remove over the first n pieces. *)
IsLoop(f, s, t, n) ==
  f = [k \in 0 .. n |->
        IF k = 0 THEN NoBytes
        ELSE IF s[k] = t THEN f[k - 1]
        ELSE Append(f[k - 1], s[k])]

(* The loop of remove is defined for any number of pieces. *)
LEMMA LoopExists ==
  ASSUME NEW s \in Seq(Piece), NEW t
  PROVE  \A n \in Nat : \E f : IsLoop(f, s, t, n)
<1> DEFINE T == {n \in Nat : ~ \E f : IsLoop(f, s, t, n)}
<1> SUFFICES ASSUME T # {} PROVE FALSE
  OBVIOUS
<1>1. PICK n \in T : \A m \in T : ~(m < n)
  BY LeastNumber
<1>2. n # 0
  <2>1. IsLoop([k \in 0 .. 0 |-> NoBytes], s, t, 0)
    BY DEF IsLoop
  <2> QED
    BY <2>1
<1>3. n - 1 \in Nat /\ n - 1 \notin T
  BY <1>1, <1>2
<1>4. PICK f : IsLoop(f, s, t, n - 1)
  BY <1>3
<1> DEFINE g == [k \in 0 .. n |-> IF k < n THEN f[k]
                                  ELSE IF s[n] = t THEN f[n - 1] ELSE Append(f[n - 1], s[n])]
<1>5. g = [k \in 0 .. n |->
        IF k = 0 THEN NoBytes
        ELSE IF s[k] = t THEN g[k - 1]
        ELSE Append(g[k - 1], s[k])]
  <2>1. ASSUME NEW k \in 0 .. n - 1
        PROVE  f[k] = IF k = 0 THEN NoBytes ELSE IF s[k] = t THEN f[k - 1] ELSE Append(f[k - 1], s[k])
    BY <1>4, <1>3 DEF IsLoop
  <2> QED
    BY <2>1, <1>2, <1>3
<1> QED
  BY <1>5 DEF IsLoop

(* remove takes out nothing but what it is asked to. *)
LEMMA RemoveKeeps ==
  ASSUME NEW s \in Seq(Piece), NEW t
  PROVE  /\ remove(s, t) \in Seq(Piece)
         /\ \A u \in Range(s) : u # t => u \in Range(remove(s, t))
<1> DEFINE f == CHOOSE g : IsLoop(g, s, t, Len(s))
<1>1. Len(s) \in Nat
  OBVIOUS
<1>2. IsLoop(f, s, t, Len(s))
  BY <1>1, LoopExists
<1>3. remove(s, t) = f[Len(s)]
  BY DEF remove, IsLoop
<1>4. \A k \in 0 .. Len(s) :
        f[k] = IF k = 0 THEN NoBytes ELSE IF s[k] = t THEN f[k - 1] ELSE Append(f[k - 1], s[k])
  BY <1>2 DEF IsLoop
<1> HIDE DEF f
<1> DEFINE Good(k) == /\ f[k] \in Seq(Piece)
                      /\ \A j \in 1 .. k : s[j] # t => s[j] \in Range(f[k])
<1>5. \A k \in 0 .. Len(s) : Good(k)
  <2> SUFFICES ASSUME \E k \in 0 .. Len(s) : ~ Good(k) PROVE FALSE
    OBVIOUS
  <2>1. PICK k \in 0 .. Len(s) : ~ Good(k) /\ \A m \in 0 .. Len(s) : m < k => Good(m)
    <3> DEFINE T == {k \in 0 .. Len(s) : ~ Good(k)}
    <3>1. T \subseteq Nat /\ T # {}
      OBVIOUS
    <3>2. PICK k \in T : \A m \in T : ~(m < k)
      BY <3>1, LeastNumber
    <3> QED
      BY <3>2
  <2>2. Good(0)
    <3>1. f[0] = <<Blank>>
      BY <1>1, <1>4 DEF NoBytes
    <3> QED
      BY <3>1 DEF Piece
  <2>3. k - 1 \in 0 .. Len(s) /\ k \in 1 .. Len(s) /\ Good(k - 1)
    BY <2>1, <2>2
  <2>4. CASE s[k] = t
    BY <2>1, <2>3, <2>4, <1>4
  <2>5. CASE s[k] # t
    <3>0. f[k - 1] \in Seq(Piece) /\ s[k] \in Piece
      BY <2>3
    <3>1. f[k] = Append(f[k - 1], s[k])
      <4>1. k \in 0 .. Len(s) /\ k # 0
        BY <2>3, <1>1
      <4> HIDE DEF Good
      <4> QED
        BY <4>1, <2>5, <1>4
    <3>2. f[k] \in Seq(Piece) /\ Len(f[k]) = Len(f[k - 1]) + 1
      BY <3>0, <3>1
    <3>3. s[k] \in Range(f[k])
      <4>1. Len(f[k]) \in DOMAIN f[k] /\ f[k][Len(f[k])] = s[k]
        BY <3>0, <3>1
      <4> QED
        BY <4>1 DEF Range
    <3>4. ASSUME NEW u \in Range(f[k - 1]) PROVE u \in Range(f[k])
      <4>1. PICK i \in DOMAIN f[k - 1] : u = f[k - 1][i]
        BY DEF Range
      <4>2. i \in DOMAIN f[k] /\ f[k][i] = u
        BY <4>1, <3>0, <3>1
      <4> QED
        BY <4>2 DEF Range
    <3>5. \A j \in 1 .. k : s[j] # t => s[j] \in Range(f[k])
      <4> TAKE j \in 1 .. k
      <4> HAVE s[j] # t
      <4>1. CASE j = k
        BY <4>1, <3>3
      <4>2. CASE j # k
        BY <4>2, <2>3, <3>4
      <4> QED
        BY <4>1, <4>2
    <3> QED
      BY <2>1, <3>2, <3>5
  <2> QED
    BY <2>4, <2>5
<1> QED
  BY <1>1, <1>3, <1>5 DEF Range

(* add takes out nothing but an empty piece. *)
LEMMA AddKeeps ==
  ASSUME NEW s \in Seq(Piece), NEW t \in Trx
  PROVE  /\ add(s, t) \in Seq(Piece) /\ t \in Range(add(s, t))
         /\ \A u \in Range(s) : u # Blank => u \in Range(add(s, t))
<1>1. CASE s = NoBytes
  BY <1>1 DEF add, NoBytes, Range, Piece
<1>2. CASE s # NoBytes
  <2>1. add(s, t) = Append(s, t) /\ t \in Piece
    BY <1>2 DEF add, Piece
  <2>2. add(s, t) \in Seq(Piece) /\ Len(add(s, t)) = Len(s) + 1 /\ add(s, t)[Len(s) + 1] = t
        /\ \A i \in 1 .. Len(s) : add(s, t)[i] = s[i]
    BY <2>1
  <2> QED
    BY <2>2 DEF Range
<1> QED
  BY <1>1, <1>2

-----------------------------------------------------------------------------
(* The inductive invariant *)

SaveSteps == {"save list", "save write"}
RemoveSteps == {"remove delete", "remove list", "remove write"}
ReadSteps == {"read drop", "read look", "read write"}

(* The addresses a call, or a request, still has to see to. *)
TodoOK(todo, t) == todo \in {<<t.issuer, t.receiver>>, <<t.issuer>>, <<t.receiver>>}

CallOK(k) ==
  /\ k.at \in {"none", "returned", "save set"} \cup SaveSteps \cup RemoveSteps \cup ReadSteps
  /\ k.at \in {"save set"} \cup SaveSteps \cup RemoveSteps => k.trx \in Trx
  /\ k.at \in SaveSteps \cup (RemoveSteps \ {"remove delete"}) => TodoOK(k.todo, k.trx)
  /\ k.at \in {"save write", "remove write", "read write"} => k.seen \in Seq(Piece)
  /\ k.at \in ReadSteps => k.by \in Address

Saves == {"propose contract", "gossip trx"}
Decides == {"confirm", "reject"}
WithTrx == {"leaf", "gossip vrx", "remove", "clean"} \cup Saves \cup Decides

ReqOK(r) ==
  /\ r.op \in {"none", "waiting", "balance", "keep"} \cup WithTrx
  /\ r.op \in WithTrx => r.trx \in Trx
  /\ r.op = "clean" => TodoOK(r.todo, r.trx)
  /\ r.op \in {"balance", "keep"} => r.by \in Address

(* The call to the cache that request r may be in: one of its own operation *)
(* and transaction.                                                         *)
Serves(k, r) ==
  /\ r.op \in Saves => k.at \in {"save set", "returned"} \cup SaveSteps
  /\ r.op \in Decides => k.at \in {"returned"} \cup RemoveSteps
  /\ r.op = "remove" => k.at \in {"none", "returned"} \cup RemoveSteps
  /\ r.op = "waiting" => k.at \in {"returned"} \cup ReadSteps
  /\ r.op \notin {"waiting", "remove"} \cup Saves \cup Decides => k.at = "none"
  /\ k.at \in {"save set"} \cup SaveSteps \cup RemoveSteps => k.trx = r.trx

Shape ==
  /\ trxs \subseteq Trx
  /\ lists \in [Address -> Seq(Piece)]
  /\ call = [c \in Caller |-> call[c]]
  /\ req = [c \in Caller |-> req[c]]
  /\ balances = [a \in Address |-> balances[a]]
  /\ \A c \in Caller : CallOK(call[c]) /\ ReqOK(req[c]) /\ Serves(call[c], req[c])

(* Where a contract whose proposal was accepted may be. *)
Known == trxs \cup held \cup evicted \cup excused \cup {t \in Trx : InHand(t)}

(* The proposal of request r, in call k, has been entered in the cache. *)
Entered(k, r) ==
  /\ r.op = "propose contract"
  /\ k.at \in SaveSteps \/ (k.at = "returned" /\ k.result = "ok")

NothingLost ==
  /\ trxCh \subseteq Known
  /\ \A c \in Caller : Entered(call[c], req[c]) => req[c].trx \in Known
  /\ \A c \in Caller : req[c].op = "remove" => req[c].trx \in held \cup excused

NotaryInv == Shape /\ ListsCover /\ NothingLost /\ BalanceIsExplained

-----------------------------------------------------------------------------
(* What a step of one caller has to respect: k is its call and r its        *)
(* request after the step.                                                  *)

Moved(c, k, r) == call' = [call EXCEPT ![c] = k] /\ req' = [req EXCEPT ![c] = r]

SavingIn(k, t, a) == k.at \in SaveSteps /\ k.trx = t /\ a \in Range(k.todo)

InHandOf(k, r, t) ==
  \/ k.at \in {"remove list", "remove write"} /\ k.trx = t
  \/ r.op \in Decides /\ k.at = "returned" /\ k.result \in {"ok", "failed"} /\ r.trx = t
  \/ r.op = "leaf" /\ r.of # "propose" /\ r.trx = t

CleansFor(r, a, t) ==
  r.op \in {"remove", "clean"} /\ r.trx = t /\ (r.op = "clean" => a \in Range(r.todo))

(* A step of one caller leaves the calls and requests of the others. *)
LEMMA MovedOne ==
  ASSUME Shape, NEW c \in Caller, NEW k, NEW r, Moved(c, k, r)
  PROVE  /\ call' = [d \in Caller |-> call'[d]] /\ req' = [d \in Caller |-> req'[d]]
         /\ call'[c] = k /\ req'[c] = r
         /\ \A d \in Caller : d # c => call'[d] = call[d] /\ req'[d] = req[d]
BY DEF Shape, Moved

(* A variable that stays the same is one that is set to what it was. *)
LEMMA CallStays ==
  ASSUME Shape, NEW c \in Caller, NEW r, UNCHANGED call, req' = [req EXCEPT ![c] = r]
  PROVE  Moved(c, call[c], r)
<1>1. call = [d \in Caller |-> call[d]]
  BY DEF Shape
<1>2. call = [call EXCEPT ![c] = call[c]]
  BY <1>1
<1> QED
  BY <1>2 DEF Moved

(* A step inside a call leaves the request as it is. *)
LEMMA RequestStays ==
  ASSUME Shape, NEW c \in Caller, NEW k, UNCHANGED req, call' = [call EXCEPT ![c] = k]
  PROVE  Moved(c, k, req[c])
<1>1. req = [d \in Caller |-> req[d]]
  BY DEF Shape
<1>2. req = [req EXCEPT ![c] = req[c]]
  BY <1>1
<1> QED
  BY <1>2 DEF Moved

(* A step of one caller keeps the shape if what it moves to has it. *)
LEMMA ShapeKept ==
  ASSUME Shape, NEW c \in Caller, NEW k, NEW r, Moved(c, k, r),
         CallOK(k), ReqOK(r), Serves(k, r),
         trxs' \subseteq Trx, lists' \in [Address -> Seq(Piece)],
         balances' = [a \in Address |-> balances'[a]]
  PROVE  Shape'
<1>1. \A d \in Caller : CallOK(call'[d]) /\ ReqOK(req'[d]) /\ Serves(call'[d], req'[d])
  BY MovedOne DEF Shape
<1> QED
  BY <1>1, MovedOne DEF Shape

(* A step of one caller keeps the lists covering if it drops nothing it is   *)
(* not recorded for.                                                         *)
LEMMA CoverKept ==
  ASSUME Shape, ListsCover, NEW c \in Caller, NEW k, NEW r, Moved(c, k, r), hurt \subseteq hurt',
         \A t \in trxs' : t \notin trxs => \A a \in Parties(t) : SavingIn(k, t, a),
         \A a \in Address, t \in trxs : a \notin hurt' /\ t \in trxs' =>
            /\ t \in Range(lists[a]) => t \in Range(lists'[a])
            /\ SavingIn(call[c], t, a) => SavingIn(k, t, a) \/ t \in Range(lists'[a])
  PROVE  ListsCover'
<1> SUFFICES ASSUME NEW t \in trxs', NEW a \in Parties(t), a \notin hurt'
             PROVE  StillSaving(t, a)' \/ t \in Range(lists'[a])
  BY DEF ListsCover, Parties
<1>1. \A d \in Caller : SavingIn(call'[d], t, a) => StillSaving(t, a)'
  BY DEF StillSaving, SavingIn, SaveSteps
<1>2. CASE t \notin trxs
  BY <1>1, <1>2, MovedOne
<1>3. CASE t \in trxs
  <2>1. a \in Address
    BY <1>3, CacheAssumption DEF Shape, Parties
  <2>2. CASE t \in Range(lists[a])
    BY <2>1, <2>2, <1>3
  <2>3. CASE StillSaving(t, a)
    <3>1. PICK d \in Caller : SavingIn(call[d], t, a)
      BY <2>3 DEF StillSaving, SavingIn, SaveSteps
    <3>2. CASE d = c
      BY <3>1, <3>2, <2>1, <1>1, <1>3, MovedOne
    <3>3. CASE d # c
      BY <3>1, <3>3, <1>1, MovedOne
    <3> QED
      BY <3>2, <3>3
  <2> QED
    BY <2>2, <2>3, <1>3 DEF ListsCover
<1> QED
  BY <1>2, <1>3

(* A transaction is in hand if some caller has it in hand. *)
LEMMA InHandBySome ==
  ASSUME NEW t
  PROVE  /\ InHand(t) <=> \E d \in Caller : InHandOf(call[d], req[d], t)
         /\ InHand(t)' <=> \E d \in Caller : InHandOf(call'[d], req'[d], t)
BY DEF InHand, InHandOf, Answered, Decides

(* Nothing that is known is forgotten. *)
LEMMA KnownGrows ==
  ASSUME Shape, NEW c \in Caller, NEW k, NEW r, Moved(c, k, r),
         \A t \in trxs \cup held \cup evicted \cup excused :
            t \in trxs' \cup held' \cup evicted' \cup excused' \/ (t \in Trx /\ InHandOf(k, r, t)),
         \A t \in Trx : InHandOf(call[c], req[c], t) =>
            InHandOf(k, r, t) \/ t \in trxs' \cup held' \cup evicted' \cup excused'
  PROVE  Known \subseteq Known'
<1> SUFFICES ASSUME NEW t \in Known PROVE t \in Known'
  OBVIOUS
<1>1. t \in Trx /\ InHandOf(k, r, t) => t \in Known'
  BY InHandBySome, MovedOne DEF Known
<1>2. CASE t \in trxs \cup held \cup evicted \cup excused
  BY <1>1, <1>2 DEF Known
<1>3. CASE t \in Trx /\ InHand(t)
  <2>1. PICK d \in Caller : InHandOf(call[d], req[d], t)
    BY <1>3, InHandBySome
  <2>2. CASE d = c
    BY <1>1, <1>3, <2>1, <2>2 DEF Known
  <2>3. CASE d # c
    BY <1>3, <2>1, <2>3, InHandBySome, MovedOne DEF Known
  <2> QED
    BY <2>2, <2>3
<1> QED
  BY <1>2, <1>3 DEF Known

(* A step of one caller loses nothing if what is known stays known. *)
LEMMA LossKept ==
  ASSUME Shape, NothingLost, NEW c \in Caller, NEW k, NEW r, Moved(c, k, r),
         Known \subseteq Known',
         held \cup excused \subseteq held' \cup excused',
         \A t \in trxCh' : t \in trxCh \/ (t = req[c].trx /\ Entered(call[c], req[c])),
         Entered(k, r) => r.trx \in Known' \/ (r.trx = req[c].trx /\ Entered(call[c], req[c])),
         r.op = "remove" => r.trx \in held' \/ (r.trx = req[c].trx /\ req[c].op = "remove")
  PROVE  NothingLost'
<1>1. trxCh' \subseteq Known'
  BY DEF NothingLost
<1>2. ASSUME NEW d \in Caller PROVE Entered(call'[d], req'[d]) => req'[d].trx \in Known'
  BY MovedOne DEF NothingLost
<1>3. ASSUME NEW d \in Caller PROVE req'[d].op = "remove" => req'[d].trx \in held' \cup excused'
  BY MovedOne DEF NothingLost
<1> QED
  BY <1>1, <1>2, <1>3 DEF NothingLost

(* A step of one caller keeps balances explained if those it changes are. *)
LEMMA BalanceKept ==
  ASSUME Shape, BalanceIsExplained, NEW c \in Caller, NEW k, NEW r, Moved(c, k, r),
         \A a \in Address, t \in Trx :
            balances'[a] # Nothing /\ Moves(t, a) /\ Differs(t, balances'[a], held') =>
               \/ <<a, t>> \in outdated'
               \/ CleansFor(r, a, t)
               \/ /\ balances[a] # Nothing /\ Differs(t, balances[a], held)
                  /\ <<a, t>> \notin outdated /\ ~ CleansFor(req[c], a, t)
  PROVE  BalanceIsExplained'
<1> SUFFICES ASSUME NEW a \in Address, NEW t \in Trx, balances'[a] # Nothing, Moves(t, a),
                    Differs(t, balances'[a], held')
             PROVE  <<a, t>> \in outdated' \/ WillClean(a, t)'
  BY DEF BalanceIsExplained, Moves, Parties
<1>1. \A d \in Caller : CleansFor(req'[d], a, t) => WillClean(a, t)'
  BY DEF CleansFor, WillClean
<1>2. CASE CleansFor(r, a, t)
  BY <1>1, <1>2, MovedOne
<1>3. CASE /\ balances[a] # Nothing /\ Differs(t, balances[a], held)
           /\ <<a, t>> \notin outdated /\ ~ CleansFor(req[c], a, t)
  <2>1. WillClean(a, t)
    BY <1>3 DEF BalanceIsExplained
  <2>2. PICK d \in Caller : CleansFor(req[d], a, t)
    BY <2>1 DEF CleansFor, WillClean
  <2> QED
    BY <1>1, <1>3, <2>2, MovedOne
<1> QED
  BY <1>2, <1>3

(* A step that changes neither the cache nor the ledger. *)
LEMMA QuietMove ==
  ASSUME NotaryInv, NEW c \in Caller, NEW k, NEW r, Moved(c, k, r),
         CallOK(k), ReqOK(r), Serves(k, r),
         UNCHANGED <<trxs, lists, balances, held, evicted, hurt, outdated>>, excused \subseteq excused',
         \A a, t : SavingIn(call[c], t, a) => SavingIn(k, t, a),
         \A t \in Trx : InHandOf(call[c], req[c], t) => InHandOf(k, r, t) \/ t \in held \cup excused',
         \A t \in trxCh' : t \in trxCh \/ (t = req[c].trx /\ Entered(call[c], req[c])),
         Entered(k, r) => r.trx = req[c].trx /\ Entered(call[c], req[c]),
         r.op = "remove" => r.trx = req[c].trx /\ req[c].op = "remove",
         \A a, t : Moves(t, a) /\ CleansFor(req[c], a, t) => CleansFor(r, a, t)
  PROVE  NotaryInv'
<1> USE DEF NotaryInv
<1>1. Shape'
  <2>1. trxs' \subseteq Trx /\ lists' \in [Address -> Seq(Piece)] /\ balances' = [a \in Address |-> balances'[a]]
    BY DEF Shape
  <2> QED
    BY <2>1, ShapeKept
<1>2. ListsCover'
  BY CoverKept
<1>3. NothingLost'
  BY KnownGrows, LossKept
<1>4. BalanceIsExplained'
  BY BalanceKept
<1> QED
  BY <1>1, <1>2, <1>3, <1>4

-----------------------------------------------------------------------------
(* Steps of the cache *)

(* The request whose call to the cache is in progress. *)
LEMMA InCall ==
  ASSUME NotaryInv, NEW c \in Caller
  PROVE  /\ CallOK(call[c]) /\ ReqOK(req[c]) /\ Serves(call[c], req[c])
         /\ call[c].at \in {"save set"} \cup SaveSteps => req[c].op \in Saves /\ req[c].trx = call[c].trx
         /\ call[c].at \in RemoveSteps => req[c].op \in Decides \cup {"remove"} /\ req[c].trx = call[c].trx
         /\ call[c].at \in ReadSteps => req[c].op = "waiting"
<1>1. CallOK(call[c]) /\ ReqOK(req[c]) /\ Serves(call[c], req[c])
  BY DEF NotaryInv, Shape
<1> QED
  BY <1>1 DEF Serves, ReqOK, WithTrx, SaveSteps, RemoveSteps, ReadSteps, Saves, Decides

(* A step of the cache changes the entries and the call, not the request. *)
LEMMA CacheMove ==
  ASSUME NotaryInv, NEW c \in Caller, NEW k, call' = [call EXCEPT ![c] = k],
         UNCHANGED notaryVars, UNCHANGED balances,
         CallOK(k), Serves(k, req[c]),
         trxs' \subseteq Trx, lists' \in [Address -> Seq(Piece)], hurt \subseteq hurt',
         \A t \in trxs' : t \notin trxs => \A a \in Parties(t) : SavingIn(k, t, a),
         \A a \in Address, t \in trxs : a \notin hurt' /\ t \in trxs' =>
            /\ t \in Range(lists[a]) => t \in Range(lists'[a])
            /\ SavingIn(call[c], t, a) => SavingIn(k, t, a) \/ t \in Range(lists'[a]),
         evicted \subseteq evicted',
         \A t \in trxs : t \in trxs' \/ (t \in Trx /\ InHandOf(k, req[c], t)),
         \A t \in Trx : InHandOf(call[c], req[c], t) => InHandOf(k, req[c], t) \/ t \in held \cup excused,
         Entered(k, req[c]) => req[c].trx \in trxs' \/ Entered(call[c], req[c])
  PROVE  NotaryInv'
<1>0. /\ Shape /\ ListsCover /\ NothingLost /\ BalanceIsExplained
      /\ UNCHANGED <<req, held, trxCh, excused, outdated>>
  BY DEF NotaryInv, notaryVars
<1>1. Moved(c, k, req[c])
  BY <1>0, RequestStays
<1>2. Shape'
  <2>1. ReqOK(req[c]) /\ balances' = [a \in Address |-> balances'[a]]
    BY <1>0 DEF Shape
  <2> QED
    BY <1>0, <1>1, <2>1, ShapeKept
<1>3. ListsCover'
  BY <1>0, <1>1, CoverKept
<1>4. NothingLost'
  <2>1. Known \subseteq Known'
    BY <1>0, <1>1, KnownGrows
  <2>2. trxs' \subseteq Known'
    BY DEF Known
  <2> QED
    BY <1>0, <1>1, <2>1, <2>2, LossKept
<1>5. BalanceIsExplained'
  BY <1>0, <1>1, BalanceKept
<1> QED
  BY <1>2, <1>3, <1>4, <1>5 DEF NotaryInv

(* What a list of pieces holds of the transactions to come is there. *)
LEMMA TodoParts ==
  ASSUME NEW t \in Trx, NEW todo, TodoOK(todo, t)
  PROVE  /\ Head(todo) \in Parties(t) /\ Head(todo) \in Address
         /\ Len(todo) \in {1, 2}
         /\ Len(todo) = 1 => Range(todo) = {Head(todo)}
         /\ Len(todo) # 1 => TodoOK(Tail(todo), t) /\ Range(todo) = {Head(todo)} \cup Range(Tail(todo))
<1>1. t.issuer \in Address /\ t.receiver \in Address
  BY CacheAssumption
<1>2. CASE todo = <<t.issuer, t.receiver>>
  <2>1. Len(todo) = 2 /\ Head(todo) = t.issuer /\ Tail(todo) = <<t.receiver>>
    BY <1>2
  <2>2. Range(todo) = {t.issuer, t.receiver} /\ Range(Tail(todo)) = {t.receiver}
    BY <1>2, <2>1 DEF Range
  <2> QED
    BY <1>1, <2>1, <2>2 DEF Parties, TodoOK
<1>3. CASE todo = <<t.issuer>>
  BY <1>1, <1>3 DEF Parties, Range
<1>4. CASE todo = <<t.receiver>>
  BY <1>1, <1>4 DEF Parties, Range
<1> QED
  BY <1>2, <1>3, <1>4 DEF TodoOK

(* SaveAwaitedTransaction *)

(* A caller that saves still serves its request and has nothing in hand. *)
LEMMA SaveGoesOn ==
  ASSUME NotaryInv, NEW c \in Caller, call[c].at \in {"save set"} \cup SaveSteps, NEW k,
         (k.at \in SaveSteps /\ k.trx = call[c].trx) \/ k.at = "returned"
  PROVE  /\ Serves(k, req[c])
         /\ \A t : ~ InHandOf(call[c], req[c], t)
<1>1. /\ req[c].op \in Saves /\ req[c].trx = call[c].trx
  BY InCall
<1> QED
  BY <1>1 DEF Serves, InHandOf, SaveSteps, RemoveSteps, Saves, Decides

(* SaveAwaitedTransaction stores the transaction. *)
LEMMA SaveSetKeeps ==
  ASSUME NotaryInv, NEW c \in Caller, SaveSet(c), UNCHANGED notaryVars
  PROVE  NotaryInv'
<1>1. call[c].at = "save set" /\ call[c].trx \in Trx /\ req[c].trx = call[c].trx
  BY InCall DEF SaveSet, CallOK
<1>2. PICK t \in Trx : t = call[c].trx
  BY <1>1
<1> DEFINE k == [at |-> "save list", trx |-> t, todo |-> PartiesToSave(t)]
<1>3. /\ call' = [call EXCEPT ![c] = k] /\ trxs' = trxs \cup {t}
      /\ UNCHANGED <<lists, balances, evictions, evicted, hurt>>
  BY <1>2 DEF SaveSet
<1>4. k.at = "save list" /\ k.trx = t /\ k.todo = PartiesToSave(t)
  OBVIOUS
<1> HIDE DEF k
<1>5. CallOK(k)
  BY <1>4 DEF CallOK, SaveSteps, RemoveSteps, ReadSteps, TodoOK, PartiesToSave
<1>6. Serves(k, req[c]) /\ \A u : ~ InHandOf(call[c], req[c], u)
  BY <1>1, <1>2, <1>4, SaveGoesOn DEF SaveSteps
<1>7. \A a \in Parties(t) : SavingIn(k, t, a)
  <2>1. Range(PartiesToSave(t)) = Parties(t)
    BY DEF PartiesToSave, Range, Parties
  <2> QED
    BY <1>4, <2>1 DEF SavingIn, SaveSteps
<1>8. \A u, a : ~ SavingIn(call[c], u, a)
  BY <1>1 DEF SavingIn, SaveSteps
<1>9. trxs \subseteq Trx /\ lists \in [Address -> Seq(Piece)]
  BY DEF NotaryInv, Shape
<1> QED
  BY <1>1, <1>2, <1>3, <1>5, <1>6, <1>7, <1>8, <1>9, CacheMove

(* SaveAwaitedTransaction reads the list of an address. *)
LEMMA SaveListGetKeeps ==
  ASSUME NotaryInv, NEW c \in Caller, SaveListGet(c), UNCHANGED notaryVars
  PROVE  NotaryInv'
<1>1. call[c].at = "save list" /\ call[c].trx \in Trx /\ TodoOK(call[c].todo, call[c].trx)
  BY InCall DEF SaveListGet, CallOK, SaveSteps
<1>2. PICK t, todo, seen : t \in Trx /\ t = call[c].trx /\ todo = call[c].todo /\ seen = lists[Head(todo)]
  BY <1>1
<1> DEFINE k == [at |-> "save write", trx |-> t, todo |-> todo, seen |-> seen]
<1>3. /\ call' = [call EXCEPT ![c] = k]
      /\ UNCHANGED <<trxs, lists, balances, evictions, evicted, hurt>>
  BY <1>2 DEF SaveListGet
<1>4. k.at = "save write" /\ k.trx = t /\ k.todo = todo /\ k.seen = seen
  OBVIOUS
<1>5. trxs \subseteq Trx /\ lists \in [Address -> Seq(Piece)]
  BY DEF NotaryInv, Shape
<1>6. TodoOK(todo, t) /\ seen \in Seq(Piece)
  BY <1>1, <1>2, <1>5, TodoParts
<1> HIDE DEF k
<1>7. CallOK(k)
  BY <1>2, <1>4, <1>6 DEF CallOK, SaveSteps, RemoveSteps, ReadSteps
<1>8. Serves(k, req[c]) /\ \A u : ~ InHandOf(call[c], req[c], u)
  BY <1>1, <1>2, <1>4, SaveGoesOn DEF SaveSteps
<1>9. /\ \A u, a : SavingIn(call[c], u, a) => SavingIn(k, u, a)
      /\ Entered(k, req[c]) => Entered(call[c], req[c])
  BY <1>1, <1>2, <1>4 DEF SavingIn, SaveSteps, Entered
<1> QED
  BY <1>3, <1>5, <1>7, <1>8, <1>9, CacheMove

(* SaveAwaitedTransaction writes back the list it has read. *)
LEMMA SaveListSetKeeps ==
  ASSUME NotaryInv, NEW c \in Caller, SaveListSet(c), UNCHANGED notaryVars
  PROVE  NotaryInv'
<1>1. call[c].at = "save write" /\ call[c].trx \in Trx /\ TodoOK(call[c].todo, call[c].trx)
      /\ call[c].seen \in Seq(Piece)
  BY InCall DEF SaveListSet, CallOK, SaveSteps
<1>2. PICK t, todo, seen, a :
        t \in Trx /\ t = call[c].trx /\ todo = call[c].todo /\ seen = call[c].seen /\ a = Head(todo)
  BY <1>1
<1>3. TodoOK(todo, t) /\ seen \in Seq(Piece) /\ a \in Address /\ trxs \subseteq Trx
      /\ lists \in [Address -> Seq(Piece)]
  BY <1>1, <1>2, TodoParts DEF NotaryInv, Shape
<1>4. PICK list : /\ list = IF seen = NoEntry THEN set(t) ELSE add(seen, t)
                  /\ lists' = [lists EXCEPT ![a] = list]
                  /\ hurt' = hurt \cup Overwritten(a, seen)
                  /\ UNCHANGED <<trxs, balances, evicted>>
  BY <1>2 DEF SaveListSet
<1>5. /\ list \in Seq(Piece) /\ t \in Range(list)
      /\ \A u \in Range(seen) : u # Blank => u \in Range(list)
  <2>1. CASE seen = NoEntry
    BY <1>2, <1>4, <2>1 DEF NoEntry, set, Range, Piece
  <2>2. CASE seen # NoEntry
    BY <1>2, <1>3, <1>4, <2>2, AddKeeps
  <2> QED
    BY <2>1, <2>2
<1>6. \A b \in Address : lists'[b] = IF b = a THEN list ELSE lists[b]
  BY <1>3, <1>4
<1>7. \A b \in Address, u \in trxs : b \notin hurt' /\ u \in Range(lists[b]) => u \in Range(lists'[b])
  <2> SUFFICES ASSUME NEW b \in Address, NEW u \in trxs, b \notin hurt', u \in Range(lists[b])
               PROVE  u \in Range(lists'[b])
    OBVIOUS
  <2>1. u # Blank
    BY <1>3, CacheAssumption DEF Blank
  <2>2. CASE b = a
    <3>1. lists[a] = seen
      BY <1>4, <2>2 DEF Overwritten
    <3> QED
      BY <1>5, <1>6, <2>1, <2>2, <3>1
  <2>3. CASE b # a
    BY <1>6, <2>3
  <2> QED
    BY <2>2, <2>3
<1>8. lists' \in [Address -> Seq(Piece)] /\ t \in Range(lists'[a])
  BY <1>3, <1>4, <1>5, <1>6
<1>9. PICK k : /\ call' = [call EXCEPT ![c] = k]
               /\ \/ Len(todo) = 1 /\ k = Returned("ok")
                  \/ Len(todo) # 1 /\ k = [at |-> "save list", trx |-> t, todo |-> Tail(todo)]
  BY <1>2 DEF SaveListSet, Return
<1>10. \/ Len(todo) = 1 /\ k.at = "returned" /\ k.result = "ok"
       \/ Len(todo) # 1 /\ k.at = "save list" /\ k.trx = t /\ k.todo = Tail(todo)
  <2>1. CASE k = Returned("ok")
    BY <1>9, <2>1 DEF Returned
  <2>2. CASE k = [at |-> "save list", trx |-> t, todo |-> Tail(todo)]
    BY <1>9, <2>2 DEF Returned
  <2> QED
    BY <1>9, <2>1, <2>2
<1>11. CallOK(k)
  BY <1>2, <1>3, <1>10, TodoParts DEF CallOK, SaveSteps, RemoveSteps, ReadSteps
<1>12. Serves(k, req[c]) /\ \A u : ~ InHandOf(call[c], req[c], u)
  BY <1>1, <1>2, <1>10, SaveGoesOn DEF SaveSteps
<1>13. ASSUME NEW b, NEW u, SavingIn(call[c], u, b) PROVE SavingIn(k, u, b) \/ u \in Range(lists'[b])
  <2>1. u = t /\ b \in Range(todo)
    BY <1>2, <1>13 DEF SavingIn
  <2>2. CASE Len(todo) = 1
    BY <1>2, <1>3, <1>8, <2>1, <2>2, TodoParts
  <2>3. CASE Len(todo) # 1
    <3>1. Range(todo) = {a} \cup Range(k.todo) /\ k.at \in SaveSteps /\ k.trx = t
      BY <1>2, <1>3, <1>10, <2>3, TodoParts DEF SaveSteps
    <3> QED
      BY <1>8, <2>1, <3>1 DEF SavingIn
  <2> QED
    BY <2>2, <2>3
<1>14. Entered(k, req[c]) => Entered(call[c], req[c])
  BY <1>1 DEF Entered, SaveSteps
<1> QED
  BY <1>3, <1>4, <1>7, <1>8, <1>9, <1>11, <1>12, <1>13, <1>14, CacheMove

(* RemoveAwaitedTransaction *)

(* A list loses nothing but the hash that is taken out, or it is hurt. *)
LEMMA ListLoses ==
  ASSUME Shape, NEW a \in Address, NEW seen \in Seq(Piece), NEW t, NEW list,
         (seen = NoBytes /\ list = NoEntry) \/ list = remove(seen, t),
         lists' = [lists EXCEPT ![a] = list],
         Overwritten(a, seen) \subseteq hurt', t \in trxs => seen = NoBytes \/ a \in hurt'
  PROVE  /\ lists' \in [Address -> Seq(Piece)]
         /\ \A b \in Address, u \in trxs : b \notin hurt' /\ u \in Range(lists[b]) => u \in Range(lists'[b])
<1>1. lists \in [Address -> Seq(Piece)] /\ trxs \subseteq Trx
  BY DEF Shape
<1>2. list \in Seq(Piece)
  <2>1. NoEntry \in Seq(Piece)
    BY DEF NoEntry
  <2>2. remove(seen, t) \in Seq(Piece)
    BY RemoveKeeps
  <2> QED
    BY <2>1, <2>2
<1>3. \A b \in Address : lists'[b] = IF b = a THEN list ELSE lists[b]
  BY <1>1
<1>4. lists' \in [Address -> Seq(Piece)]
  BY <1>1, <1>2
<1>5. ASSUME NEW b \in Address, NEW u \in trxs, b \notin hurt', u \in Range(lists[b])
      PROVE  u \in Range(lists'[b])
  <2>1. u # Blank
    BY <1>1, CacheAssumption DEF Blank
  <2>2. CASE b # a
    BY <1>3, <1>5, <2>2
  <2>3. CASE b = a
    <3>1. lists[a] = seen
      BY <1>5, <2>3 DEF Overwritten
    <3>2. seen # NoBytes
      BY <1>5, <2>1, <2>3, <3>1 DEF NoBytes, Range
    <3>3. u # t /\ list = remove(seen, t)
      BY <1>5, <2>3, <3>2
    <3> QED
      BY <1>3, <1>5, <2>3, <3>1, <3>3, RemoveKeeps
  <2> QED
    BY <2>2, <2>3
<1> QED
  BY <1>4, <1>5

(* A caller that removes still serves its request and saves nothing. *)
LEMMA RemoveGoesOn ==
  ASSUME NotaryInv, NEW c \in Caller, call[c].at \in RemoveSteps, NEW k,
         (k.at \in RemoveSteps /\ k.trx = call[c].trx) \/ k.at = "returned"
  PROVE  /\ Serves(k, req[c]) /\ ~ Entered(k, req[c])
         /\ \A a, t : ~ SavingIn(call[c], t, a)
         /\ \A t : InHandOf(call[c], req[c], t) => call[c].at # "remove delete"
         /\ k.at # "remove delete" /\ (k.at = "returned" => k.result \in {"ok", "failed"}) =>
               \A t : InHandOf(call[c], req[c], t) => InHandOf(k, req[c], t) \/ t \in held \cup excused
<1>1. /\ req[c].op \in Decides \cup {"remove"} /\ req[c].trx = call[c].trx
  BY InCall
<1>2. req[c].op = "remove" => req[c].trx \in held \cup excused
  BY DEF NotaryInv, NothingLost
<1>3. Serves(k, req[c]) /\ ~ Entered(k, req[c])
  BY <1>1 DEF Serves, Entered, SaveSteps, RemoveSteps, Saves, Decides
<1>4. \A a, t : ~ SavingIn(call[c], t, a)
  BY DEF SavingIn, SaveSteps, RemoveSteps
<1>5. \A t : InHandOf(call[c], req[c], t) => t = call[c].trx /\ call[c].at # "remove delete"
  BY <1>1 DEF InHandOf, RemoveSteps, Decides
<1>6. ASSUME k.at # "remove delete", k.at = "returned" => k.result \in {"ok", "failed"},
             NEW t, InHandOf(call[c], req[c], t)
      PROVE  InHandOf(k, req[c], t) \/ t \in held \cup excused
  <2>1. t = req[c].trx /\ t = call[c].trx
    BY <1>1, <1>5, <1>6
  <2>2. CASE req[c].op = "remove"
    BY <1>2, <2>1, <2>2
  <2>3. CASE req[c].op \in Decides
    <3>1. CASE k.at \in {"remove list", "remove write"}
      BY <2>1, <3>1 DEF InHandOf
    <3>2. CASE k.at = "returned" /\ k.result \in {"ok", "failed"}
      BY <2>1, <2>3, <3>2 DEF InHandOf
    <3> QED
      BY <1>6, <3>1, <3>2 DEF RemoveSteps
  <2> QED
    BY <1>1, <2>2, <2>3
<1> QED
  BY <1>3, <1>4, <1>5, <1>6

(* RemoveAwaitedTransaction deletes the transaction. *)
LEMMA RemoveDeleteKeeps ==
  ASSUME NotaryInv, NEW c \in Caller, RemoveDelete(c), UNCHANGED notaryVars
  PROVE  NotaryInv'
<1>1. call[c].at = "remove delete" /\ call[c].trx \in Trx
  BY InCall DEF RemoveDelete, CallOK, RemoveSteps
<1>2. PICK t \in Trx : t = call[c].trx
  BY <1>1
<1>3. PICK k : /\ call' = [call EXCEPT ![c] = k]
               /\ \/ k = Returned("not found") /\ trxs' = trxs
                  \/ /\ k = [at |-> "remove list", trx |-> t, todo |-> <<t.issuer, t.receiver>>, err |-> FALSE]
                     /\ trxs' = trxs \ {t}
  BY <1>2 DEF RemoveDelete, Return
<1>4. \/ k.at = "returned" /\ trxs' = trxs
      \/ k.at = "remove list" /\ k.trx = t /\ k.todo = <<t.issuer, t.receiver>> /\ trxs' = trxs \ {t}
  <2>1. CASE k = Returned("not found") /\ trxs' = trxs
    BY <2>1 DEF Returned
  <2>2. CASE /\ k = [at |-> "remove list", trx |-> t, todo |-> <<t.issuer, t.receiver>>, err |-> FALSE]
             /\ trxs' = trxs \ {t}
    BY <2>2
  <2> QED
    BY <1>3, <2>1, <2>2
<1>5. UNCHANGED <<lists, balances, evicted, hurt>>
  BY DEF RemoveDelete
<1>6. CallOK(k)
  BY <1>4 DEF CallOK, SaveSteps, RemoveSteps, ReadSteps, TodoOK
<1>7. /\ Serves(k, req[c]) /\ ~ Entered(k, req[c])
      /\ \A a, u : ~ SavingIn(call[c], u, a)
      /\ \A u : ~ InHandOf(call[c], req[c], u)
  BY <1>1, <1>2, <1>4, RemoveGoesOn DEF RemoveSteps
<1>8. \A u \in trxs : u \in trxs' \/ (u \in Trx /\ InHandOf(k, req[c], u))
  BY <1>4 DEF InHandOf
<1>9. trxs' \subseteq trxs /\ trxs \subseteq Trx /\ lists \in [Address -> Seq(Piece)]
  BY <1>4 DEF NotaryInv, Shape
<1> QED
  BY <1>3, <1>5, <1>6, <1>7, <1>8, <1>9, CacheMove

(* On to the next address. *)
LEMMA RemovesNext ==
  ASSUME NotaryInv, NEW c \in Caller, call[c].at = "remove list" \/ call[c].at = "remove write",
         NEW err, RemoveNext(c, err)
  PROVE  \E k : /\ call' = [call EXCEPT ![c] = k] /\ CallOK(k)
                /\ \/ k.at = "remove list" /\ k.trx = call[c].trx
                   \/ k.at = "returned" /\ k.result \in {"ok", "failed"}
<1>1. PICK t, todo : t = call[c].trx /\ todo = call[c].todo
  OBVIOUS
<1>2. t \in Trx /\ TodoOK(todo, t)
  BY <1>1, InCall DEF CallOK, RemoveSteps
<1>3. CASE Len(todo) = 1
  <2>1. PICK result \in {"ok", "failed"} : call' = [call EXCEPT ![c] = Returned(result)]
    BY <1>1, <1>3 DEF RemoveNext, Return
  <2>2. Returned(result).at = "returned" /\ Returned(result).result = result
    BY DEF Returned
  <2>3. CallOK(Returned(result))
    BY <2>2 DEF CallOK, SaveSteps, RemoveSteps, ReadSteps
  <2> QED
    BY <2>1, <2>2, <2>3
<1>4. CASE Len(todo) # 1
  <2> DEFINE k == [at |-> "remove list", trx |-> t, todo |-> Tail(todo), err |-> err]
  <2>1. call' = [call EXCEPT ![c] = k]
    BY <1>1, <1>4 DEF RemoveNext
  <2>2. k.at = "remove list" /\ k.trx = t /\ k.todo = Tail(todo)
    OBVIOUS
  <2> HIDE DEF k
  <2>3. CallOK(k)
    <3>1. TodoOK(k.todo, t)
      BY <1>2, <1>4, <2>2, TodoParts
    <3> QED
      BY <1>2, <2>2, <3>1 DEF CallOK, SaveSteps, RemoveSteps, ReadSteps
  <2> QED
    BY <1>1, <2>1, <2>2, <2>3
<1> QED
  BY <1>3, <1>4

(* RemoveAwaitedTransaction reads the list of an address. *)
LEMMA RemoveListGetKeeps ==
  ASSUME NotaryInv, NEW c \in Caller, RemoveListGet(c), UNCHANGED notaryVars
  PROVE  NotaryInv'
<1>1. call[c].at = "remove list" /\ call[c].trx \in Trx /\ TodoOK(call[c].todo, call[c].trx)
  BY InCall DEF RemoveListGet, CallOK, RemoveSteps
<1>2. trxs \subseteq Trx /\ lists \in [Address -> Seq(Piece)]
  BY DEF NotaryInv, Shape
<1>3. PICK k : /\ call' = [call EXCEPT ![c] = k] /\ CallOK(k)
               /\ \/ k.at \in {"remove list", "remove write"} /\ k.trx = call[c].trx
                  \/ k.at = "returned" /\ k.result \in {"ok", "failed"}
  <2>1. CASE RemoveNext(c, TRUE)
    BY <1>1, <2>1, RemovesNext
  <2>2. CASE ~ RemoveNext(c, TRUE)
    <3>1. PICK t, todo, err, seen :
            t \in Trx /\ t = call[c].trx /\ todo = call[c].todo /\ err = call[c].err /\ seen = lists[Head(todo)]
      BY <1>1
    <3> DEFINE k == [at |-> "remove write", trx |-> t, todo |-> todo, err |-> err, seen |-> seen]
    <3>2. call' = [call EXCEPT ![c] = k]
      BY <2>2, <3>1 DEF RemoveListGet
    <3>3. k.at = "remove write" /\ k.trx = t /\ k.todo = todo /\ k.seen = seen
      OBVIOUS
    <3>4. TodoOK(todo, t) /\ seen \in Seq(Piece)
      BY <1>1, <1>2, <3>1, TodoParts
    <3> HIDE DEF k
    <3>5. CallOK(k)
      BY <3>1, <3>3, <3>4 DEF CallOK, SaveSteps, RemoveSteps, ReadSteps
    <3> QED
      BY <3>1, <3>2, <3>3, <3>5
  <2> QED
    BY <2>1, <2>2
<1>4. /\ Serves(k, req[c]) /\ ~ Entered(k, req[c])
      /\ \A a, u : ~ SavingIn(call[c], u, a)
      /\ \A u : InHandOf(call[c], req[c], u) => InHandOf(k, req[c], u) \/ u \in held \cup excused
  BY <1>1, <1>3, RemoveGoesOn DEF RemoveSteps
<1>5. UNCHANGED <<trxs, lists, balances, evicted, hurt>>
  BY DEF RemoveListGet
<1> QED
  BY <1>2, <1>3, <1>4, <1>5, CacheMove

(* RemoveAwaitedTransaction writes back the list it has read. *)
LEMMA RemoveListSetKeeps ==
  ASSUME NotaryInv, NEW c \in Caller, RemoveListSet(c), UNCHANGED notaryVars
  PROVE  NotaryInv'
<1>1. /\ call[c].at = "remove write" /\ call[c].trx \in Trx /\ TodoOK(call[c].todo, call[c].trx)
      /\ call[c].seen \in Seq(Piece)
  BY InCall DEF RemoveListSet, CallOK, RemoveSteps
<1>2. trxs \subseteq Trx /\ Shape
  BY DEF NotaryInv, Shape
<1>3. PICK k : /\ call' = [call EXCEPT ![c] = k] /\ CallOK(k)
               /\ \/ k.at = "remove list" /\ k.trx = call[c].trx
                  \/ k.at = "returned" /\ k.result \in {"ok", "failed"}
  BY <1>1, RemovesNext DEF RemoveListSet
<1>4. PICK t, seen, a, list :
        /\ t \in Trx /\ seen \in Seq(Piece)
        /\ t = call[c].trx /\ seen = call[c].seen /\ a = Head(call[c].todo)
        /\ list = IF seen = NoBytes THEN NoEntry ELSE remove(seen, t)
  BY <1>1
<1>5. /\ lists' = [lists EXCEPT ![a] = list]
      /\ hurt' = hurt \cup Overwritten(a, seen) \cup (IF t \in trxs THEN {a} ELSE {})
      /\ UNCHANGED <<trxs, balances, evicted>>
  BY <1>4 DEF RemoveListSet
<1>6. a \in Address
  BY <1>1, <1>4, TodoParts
<1>7. /\ lists' \in [Address -> Seq(Piece)]
      /\ \A b \in Address, u \in trxs : b \notin hurt' /\ u \in Range(lists[b]) => u \in Range(lists'[b])
  BY <1>2, <1>4, <1>5, <1>6, ListLoses
<1>8. /\ Serves(k, req[c]) /\ ~ Entered(k, req[c])
      /\ \A b, u : ~ SavingIn(call[c], u, b)
      /\ \A u : InHandOf(call[c], req[c], u) => InHandOf(k, req[c], u) \/ u \in held \cup excused
  BY <1>1, <1>3, RemoveGoesOn DEF RemoveSteps
<1> QED
  BY <1>2, <1>3, <1>5, <1>7, <1>8, CacheMove

(* ReadTransactions *)

(* A caller that reads still serves its request and has nothing in hand. *)
LEMMA ReadGoesOn ==
  ASSUME NotaryInv, NEW c \in Caller, call[c].at \in ReadSteps, NEW k,
         k.at \in ReadSteps \/ k.at = "returned"
  PROVE  /\ Serves(k, req[c]) /\ ~ Entered(k, req[c])
         /\ \A a, t : ~ SavingIn(call[c], t, a)
         /\ \A t : ~ InHandOf(call[c], req[c], t)
<1>1. req[c].op = "waiting"
  BY InCall
<1> QED
  BY <1>1 DEF Serves, Entered, SavingIn, InHandOf, SaveSteps, RemoveSteps, ReadSteps, Saves, Decides

(* ReadTransactions deletes a list with nothing in it. *)
LEMMA ReadDropKeeps ==
  ASSUME NotaryInv, NEW c \in Caller, ReadDrop(c), UNCHANGED notaryVars
  PROVE  NotaryInv'
<1>1. call[c].at = "read drop" /\ call[c].by \in Address
  BY InCall DEF ReadDrop, CallOK, ReadSteps
<1>2. Shape /\ trxs \subseteq Trx /\ NoBytes \in Seq(Piece)
  BY DEF NotaryInv, Shape, NoBytes, Piece
<1>3. PICK a, result : /\ a = call[c].by /\ call' = [call EXCEPT ![c] = Returned(result)]
                       /\ lists' = [lists EXCEPT ![a] = NoEntry]
                       /\ hurt' = hurt \cup Overwritten(a, NoBytes)
                       /\ UNCHANGED <<trxs, balances, evicted>>
  BY DEF ReadDrop, Return
<1>4. PICK k : k = Returned(result)
  OBVIOUS
<1>5. k.at = "returned"
  BY <1>4 DEF Returned
<1>6. CallOK(k)
  BY <1>5 DEF CallOK, SaveSteps, RemoveSteps, ReadSteps
<1>7. /\ Serves(k, req[c]) /\ ~ Entered(k, req[c])
      /\ \A b, t : ~ SavingIn(call[c], t, b)
      /\ \A t : ~ InHandOf(call[c], req[c], t)
  BY <1>1, <1>5, ReadGoesOn DEF ReadSteps
<1>8. /\ lists' \in [Address -> Seq(Piece)]
      /\ \A b \in Address, u \in trxs : b \notin hurt' /\ u \in Range(lists[b]) => u \in Range(lists'[b])
  BY <1>1, <1>2, <1>3, ListLoses
<1> QED
  BY <1>2, <1>3, <1>4, <1>6, <1>7, <1>8, CacheMove

(* ReadTransactions looks for a transaction, or reads a list again to clean  *)
(* it.                                                                       *)
LEMMA ReadLookKeeps ==
  ASSUME NotaryInv, NEW c \in Caller, ReadLook(c) \/ ReadCleanGet(c), UNCHANGED notaryVars
  PROVE  NotaryInv'
<1>1. call[c].at = "read look" /\ call[c].by \in Address
  BY InCall DEF ReadLook, ReadCleanGet, CallOK, ReadSteps
<1>2. trxs \subseteq Trx /\ lists \in [Address -> Seq(Piece)]
  BY DEF NotaryInv, Shape
<1>3. PICK a \in Address : a = call[c].by
  BY <1>1
<1>4. PICK k : /\ call' = [call EXCEPT ![c] = k]
               /\ \/ k = Returned("ok")
                  \/ \E todo, gone : k = [at |-> "read look", by |-> a, todo |-> todo, gone |-> gone]
                  \/ \E gone : k = [at |-> "read write", by |-> a, gone |-> gone, seen |-> lists[a]]
  <2>1. CASE ReadLook(c)
    BY <1>3, <2>1 DEF ReadLook
  <2>2. CASE ReadCleanGet(c)
    BY <1>3, <2>2 DEF ReadCleanGet, Return
  <2> QED
    BY <2>1, <2>2
<1>5. \/ k.at = "returned"
      \/ k.at = "read look" /\ k.by = a
      \/ k.at = "read write" /\ k.by = a /\ k.seen = lists[a]
  <2>1. CASE k = Returned("ok")
    BY <2>1 DEF Returned
  <2>2. ASSUME NEW todo, NEW gone, k = [at |-> "read look", by |-> a, todo |-> todo, gone |-> gone]
        PROVE  k.at = "read look" /\ k.by = a
    BY <2>2
  <2>3. ASSUME NEW gone, k = [at |-> "read write", by |-> a, gone |-> gone, seen |-> lists[a]]
        PROVE  k.at = "read write" /\ k.by = a /\ k.seen = lists[a]
    BY <2>3
  <2> QED
    BY <1>4, <2>1, <2>2, <2>3
<1>6. CallOK(k)
  BY <1>2, <1>3, <1>5 DEF CallOK, SaveSteps, RemoveSteps, ReadSteps
<1>7. /\ Serves(k, req[c]) /\ ~ Entered(k, req[c])
      /\ \A b, t : ~ SavingIn(call[c], t, b)
      /\ \A t : ~ InHandOf(call[c], req[c], t)
  BY <1>1, <1>5, ReadGoesOn DEF ReadSteps
<1>8. UNCHANGED <<trxs, lists, balances, evicted, hurt>>
  BY DEF ReadLook, ReadCleanGet
<1> QED
  BY <1>2, <1>4, <1>6, <1>7, <1>8, CacheMove

(* ReadTransactions writes back a list without what it did not find. *)
LEMMA ReadCleanSetKeeps ==
  ASSUME NotaryInv, NEW c \in Caller, ReadCleanSet(c), UNCHANGED notaryVars
  PROVE  NotaryInv'
<1>1. call[c].at = "read write" /\ call[c].by \in Address /\ call[c].seen \in Seq(Piece)
  BY InCall DEF ReadCleanSet, CallOK, ReadSteps
<1>2. Shape /\ trxs \subseteq Trx
  BY DEF NotaryInv, Shape
<1>3. PICK a, seen, t, gone : /\ a = call[c].by /\ seen = call[c].seen
                              /\ t = Head(call[c].gone) /\ gone = Tail(call[c].gone)
  OBVIOUS
<1> DEFINE k == [at |-> "read look", by |-> a, todo |-> <<>>, gone |-> gone]
<1>4. /\ call' = [call EXCEPT ![c] = k]
      /\ lists' = [lists EXCEPT ![a] = remove(seen, t)]
      /\ hurt' = hurt \cup Overwritten(a, seen) \cup (IF t \in trxs THEN {a} ELSE {})
      /\ UNCHANGED <<trxs, balances, evicted>>
  BY <1>3 DEF ReadCleanSet
<1>5. k.at = "read look" /\ k.by = a
  OBVIOUS
<1> HIDE DEF k
<1>6. CallOK(k)
  BY <1>1, <1>3, <1>5 DEF CallOK, SaveSteps, RemoveSteps, ReadSteps
<1>7. /\ Serves(k, req[c]) /\ ~ Entered(k, req[c])
      /\ \A b, u : ~ SavingIn(call[c], u, b)
      /\ \A u : ~ InHandOf(call[c], req[c], u)
  BY <1>1, <1>5, ReadGoesOn DEF ReadSteps
<1>8. /\ lists' \in [Address -> Seq(Piece)]
      /\ \A b \in Address, u \in trxs : b \notin hurt' /\ u \in Range(lists[b]) => u \in Range(lists'[b])
  BY <1>1, <1>2, <1>3, <1>4, ListLoses
<1> QED
  BY <1>2, <1>4, <1>6, <1>7, <1>8, CacheMove

(* Every step of the cache keeps the invariant. *)
LEMMA CacheStepKeeps ==
  ASSUME NotaryInv, NEW c \in Caller, CacheStep(c), UNCHANGED notaryVars
  PROVE  NotaryInv'
BY SaveSetKeeps, SaveListGetKeeps, SaveListSetKeeps, RemoveDeleteKeeps, RemoveListGetKeeps,
   RemoveListSetKeeps, ReadDropKeeps, ReadLookKeeps, ReadCleanSetKeeps DEF CacheStep

-----------------------------------------------------------------------------
(* Requests arrive *)

(* A request that begins is in no call, and nothing depends on it. *)
LEMMA BeginsIdle ==
  ASSUME Shape, NEW c \in Caller, req[c] = Idle
  PROVE  /\ req[c].op = "none" /\ call[c].at = "none"
         /\ \A a, t : ~ SavingIn(call[c], t, a)
         /\ \A t : ~ InHandOf(call[c], req[c], t)
         /\ \A a, t : ~ CleansFor(req[c], a, t)
<1>1. req[c].op = "none"
  BY DEF Idle
<1>2. call[c].at = "none"
  BY <1>1 DEF Shape, Serves, Saves, Decides
<1> QED
  BY <1>1, <1>2 DEF SavingIn, InHandOf, CleansFor, SaveSteps, Decides

(* A request may arrive in any call that has entered nothing. *)
LEMMA Arrives ==
  ASSUME NotaryInv, NEW c \in Caller, NEW k, NEW r, Begin(c, r), Moved(c, k, r),
         CallOK(k), ReqOK(r), Serves(k, r), ~ Entered(k, r), r.op # "remove",
         UNCHANGED <<trxs, lists, balances, evicted, hurt>>
  PROVE  NotaryInv'
<1>1. req[c] = Idle /\ UNCHANGED <<held, outdated, excused, trxCh>>
  BY DEF Begin
<1>2. Shape
  BY DEF NotaryInv
<1> QED
  BY <1>1, <1>2, BeginsIdle, QuietMove

(* A proposal or a gossiped contract begins to save. *)
LEMMA SavesFirst ==
  ASSUME NotaryInv, NEW c \in Caller, NEW t \in Trx, NEW op \in Saves,
         Begin(c, [op |-> op, trx |-> t]), SaveAwaitedTransaction(c, t)
  PROVE  NotaryInv'
<1> DEFINE r == [op |-> op, trx |-> t]
<1>1. PICK k \in {Returned("exists"), [at |-> "save set", trx |-> t]} : call' = [call EXCEPT ![c] = k]
  BY DEF SaveAwaitedTransaction, Return
<1>2. Moved(c, k, r)
  BY <1>1 DEF Moved, Begin
<1>3. CallOK(k) /\ Serves(k, r) /\ ~ Entered(k, r)
  <2> USE DEF CallOK, Serves, Entered, SaveSteps, RemoveSteps, ReadSteps, Saves, Decides
  <2>1. CASE k = Returned("exists")
    <3>1. k.at = "returned" /\ k.result = "exists"
      BY <2>1 DEF Returned
    <3> QED
      BY <3>1
  <2>2. CASE k = [at |-> "save set", trx |-> t]
    <3>1. k.at = "save set" /\ k.trx = t
      BY <2>2
    <3> QED
      BY <3>1
  <2> QED
    BY <1>1, <2>1, <2>2
<1>4. ReqOK(r) /\ r.op # "remove"
  BY DEF ReqOK, WithTrx, Saves, Decides
<1>5. UNCHANGED <<trxs, lists, balances, evicted, hurt>>
  BY DEF SaveAwaitedTransaction
<1> QED
  BY <1>2, <1>3, <1>4, <1>5, Arrives

(* What RemoveAwaitedTransaction first does: refuse, or go on to delete. *)
LEMMA RemovesFirst ==
  ASSUME NEW t \in Trx, NEW a, NEW c \in Caller, RemoveAwaitedTransaction(c, t, a)
  PROVE  \E k \in {Returned("not found"), Returned("unauthorized"), [at |-> "remove delete", trx |-> t]} :
            /\ call' = [call EXCEPT ![c] = k]
            /\ CallOK(k) /\ ~ k.at \in SaveSteps
            /\ \A u, r : ~ InHandOf(k, r, u) \/ r.op = "leaf"
            /\ \A r : r.op \in Decides \cup {"remove"} /\ r.trx = t => Serves(k, r) /\ ~ Entered(k, r)
            /\ UNCHANGED <<trxs, lists, balances, evicted, hurt>>
<1>1. PICK k \in {Returned("not found"), Returned("unauthorized"), [at |-> "remove delete", trx |-> t]} :
        call' = [call EXCEPT ![c] = k]
  BY DEF RemoveAwaitedTransaction, Return
<1>2. \/ k.at = "returned" /\ k.result \in {"not found", "unauthorized"}
      \/ k.at = "remove delete" /\ k.trx = t
  <2>1. CASE k = Returned("not found")
    BY <2>1 DEF Returned
  <2>2. CASE k = Returned("unauthorized")
    BY <2>2 DEF Returned
  <2>3. CASE k = [at |-> "remove delete", trx |-> t]
    BY <2>3
  <2> QED
    BY <1>1, <2>1, <2>2, <2>3
<1>3. CallOK(k) /\ ~ k.at \in SaveSteps /\ \A u, r : ~ InHandOf(k, r, u) \/ r.op = "leaf"
  BY <1>2 DEF CallOK, InHandOf, SaveSteps, RemoveSteps, ReadSteps
<1>4. ASSUME NEW r, r.op \in Decides \cup {"remove"}, r.trx = t PROVE Serves(k, r) /\ ~ Entered(k, r)
  BY <1>2, <1>4 DEF Serves, Entered, SaveSteps, RemoveSteps, Saves, Decides
<1> QED
  BY <1>1, <1>2, <1>3, <1>4 DEF RemoveAwaitedTransaction

(* A confirmation or a rejection begins to remove. *)
LEMMA DecidesFirst ==
  ASSUME NotaryInv, NEW c \in Caller, NEW t \in Trx, NEW a, NEW op \in Decides,
         Begin(c, [op |-> op, trx |-> t]), RemoveAwaitedTransaction(c, t, a)
  PROVE  NotaryInv'
<1> DEFINE r == [op |-> op, trx |-> t]
<1>1. PICK k \in {Returned("not found"), Returned("unauthorized"), [at |-> "remove delete", trx |-> t]} :
            /\ call' = [call EXCEPT ![c] = k]
            /\ CallOK(k)
            /\ \A q : q.op \in Decides \cup {"remove"} /\ q.trx = t => Serves(k, q) /\ ~ Entered(k, q)
            /\ UNCHANGED <<trxs, lists, balances, evicted, hurt>>
  BY RemovesFirst
<1>2. Moved(c, k, r)
  BY <1>1 DEF Moved, Begin
<1>3. ReqOK(r) /\ r.op # "remove" /\ r.op \in Decides /\ r.trx = t
  BY DEF ReqOK, WithTrx, Saves, Decides
<1>4. Begin(c, r)
  OBVIOUS
<1> HIDE DEF r
<1> QED
  BY <1>1, <1>2, <1>3, <1>4, Arrives

(* A request that does not begin with the cache. *)
LEMMA BeginsWithoutCache ==
  ASSUME NotaryInv, NEW c \in Caller, NEW r, Begin(c, r), UNCHANGED cacheVars,
         ReqOK(r), r.op \in {"leaf", "gossip vrx", "balance"}
  PROVE  NotaryInv'
<1>1. Shape
  BY DEF NotaryInv
<1>2. Moved(c, call[c], r)
  BY <1>1, CallStays DEF Begin, cacheVars
<1>3. call[c].at = "none" /\ CallOK(call[c])
  BY <1>1, BeginsIdle DEF Begin, Shape
<1>4. Serves(call[c], r) /\ ~ Entered(call[c], r)
  BY <1>3 DEF Serves, Entered, Saves, Decides, SaveSteps, RemoveSteps
<1> QED
  BY <1>2, <1>3, <1>4, Arrives DEF cacheVars

(* A request for the waiting transactions begins to read. *)
LEMMA ReadsFirst ==
  ASSUME NotaryInv, NEW c \in Caller, NEW a \in Address,
         Begin(c, [op |-> "waiting"]), ReadTransactions(c, a)
  PROVE  NotaryInv'
<1> DEFINE r == [op |-> "waiting"]
<1>1. PICK k : /\ call' = [call EXCEPT ![c] = k]
               /\ \/ k = Returned("not found")
                  \/ k = [at |-> "read drop", by |-> a]
                  \/ k = [at |-> "read look", by |-> a, todo |-> read(lists[a]), gone |-> <<>>]
  BY DEF ReadTransactions, Return
<1>2. k.at = "returned" \/ (k.at \in {"read drop", "read look"} /\ k.by = a)
  <2>1. CASE k = Returned("not found")
    BY <2>1 DEF Returned
  <2>2. CASE k = [at |-> "read drop", by |-> a]
    BY <2>2
  <2>3. CASE k = [at |-> "read look", by |-> a, todo |-> read(lists[a]), gone |-> <<>>]
    BY <2>3
  <2> QED
    BY <1>1, <2>1, <2>2, <2>3
<1>3. CallOK(k) /\ Serves(k, r) /\ ~ Entered(k, r) /\ ReqOK(r) /\ r.op # "remove"
  BY <1>2 DEF CallOK, Serves, Entered, ReqOK, SaveSteps, RemoveSteps, ReadSteps, Saves, Decides, WithTrx
<1>4. Moved(c, k, r)
  BY <1>1 DEF Moved, Begin
<1> QED
  BY <1>3, <1>4, Arrives DEF ReadTransactions

(* Every request arrives keeping the invariant. *)
LEMMA ArriveKeeps ==
  ASSUME NotaryInv, NEW c \in Caller, Arrive(c)
  PROVE  NotaryInv'
<1>1. ASSUME NEW t \in Trx, ProposeContract(c, t) PROVE NotaryInv'
  BY <1>1, SavesFirst DEF ProposeContract, Saves
<1>2. ASSUME NEW t \in Trx, GossipTrx(c, t) PROVE NotaryInv'
  BY <1>2, SavesFirst DEF GossipTrx, Saves
<1>3. ASSUME NEW t \in Trx, ProposeTransfer(c, t) PROVE NotaryInv'
  <2> DEFINE r == [op |-> "leaf", of |-> "propose", trx |-> t]
  <2>1. ReqOK(r) /\ r.op = "leaf"
    BY DEF ReqOK, WithTrx
  <2> QED
    BY <1>3, <2>1, BeginsWithoutCache DEF ProposeTransfer
<1>4. ASSUME NEW t \in Trx, GossipVrx(c, t) PROVE NotaryInv'
  <2> DEFINE r == [op |-> "gossip vrx", trx |-> t]
  <2>1. ReqOK(r) /\ r.op = "gossip vrx"
    BY DEF ReqOK, WithTrx
  <2> QED
    BY <1>4, <2>1, BeginsWithoutCache DEF GossipVrx
<1>5. ASSUME NEW a \in Address, Balance(c, a) PROVE NotaryInv'
  <2> DEFINE r == [op |-> "balance", by |-> a]
  <2>1. ReqOK(r) /\ r.op = "balance"
    BY DEF ReqOK, WithTrx, Saves, Decides
  <2> QED
    BY <1>5, <2>1, BeginsWithoutCache DEF Balance
<1>6. ASSUME NEW t \in Trx, Confirm(c, t) PROVE NotaryInv'
  BY <1>6, DecidesFirst DEF Confirm, Decides
<1>7. ASSUME NEW t \in Trx, NEW a \in Address, Reject(c, t, a) PROVE NotaryInv'
  BY <1>7, DecidesFirst DEF Reject, Decides
<1>8. ASSUME NEW a \in Address, Waiting(c, a) PROVE NotaryInv'
  BY <1>8, ReadsFirst DEF Waiting
<1> QED
  BY <1>1, <1>2, <1>3, <1>4, <1>5, <1>6, <1>7, <1>8 DEF Arrive

-----------------------------------------------------------------------------
(* What follows the answer of the cache *)

(* After an answer the request is in no call any more. *)
LEMMA HangsUp ==
  ASSUME NotaryInv, NEW c \in Caller, NEW r, call[c].at = "returned", Hangup(c), req' = [req EXCEPT ![c] = r],
         ReqOK(r), r.op \in {"none", "leaf", "clean"},
         UNCHANGED <<trxs, lists, balances, held, evicted, hurt, outdated>>, excused \subseteq excused',
         \A t \in Trx : InHandOf(call[c], req[c], t) => InHandOf(NoCall, r, t) \/ t \in excused',
         \A t \in trxCh' : t \in trxCh \/ (t = req[c].trx /\ Entered(call[c], req[c])),
         \A a, t : Moves(t, a) /\ CleansFor(req[c], a, t) => CleansFor(r, a, t)
  PROVE  NotaryInv'
<1>1. Moved(c, NoCall, r)
  BY DEF Hangup, Moved
<1>2. NoCall.at = "none"
  BY DEF NoCall
<1>3. CallOK(NoCall) /\ Serves(NoCall, r) /\ ~ Entered(NoCall, r) /\ r.op # "remove"
  BY <1>2 DEF CallOK, Serves, Entered, SaveSteps, RemoveSteps, ReadSteps, Saves, Decides
<1>4. \A a, t : ~ SavingIn(call[c], t, a)
  BY DEF SavingIn, SaveSteps
<1> QED
  BY <1>1, <1>3, <1>4, QuietMove

(* A contract that was saved is handed to gossip. *)
LEMMA ProposedKeeps ==
  ASSUME NotaryInv, NEW c \in Caller, Proposed(c) PROVE NotaryInv'
<1>1. /\ req[c].op = "propose contract" /\ call[c].at = "returned" /\ call[c].result = "ok"
      /\ req' = [req EXCEPT ![c] = Idle] /\ Hangup(c) /\ trxCh' = trxCh \cup {req[c].trx}
      /\ UNCHANGED <<trxs, lists, balances, held, evicted, hurt, outdated, excused>>
  BY DEF Proposed, Answered
<1>2. Idle.op = "none"
  BY DEF Idle
<1>3. ReqOK(Idle) /\ Idle.op \in {"none", "leaf", "clean"}
  BY <1>2 DEF ReqOK, WithTrx, Saves, Decides
<1>4. /\ Entered(call[c], req[c])
      /\ \A t : ~ InHandOf(call[c], req[c], t)
      /\ \A a, t : ~ CleansFor(req[c], a, t)
  BY <1>1 DEF Entered, InHandOf, CleansFor, Decides
<1> QED
  BY <1>1, <1>3, <1>4, HangsUp

(* A request is answered without more to do. *)
LEMMA FinishKeeps ==
  ASSUME NotaryInv, NEW c \in Caller, Finish(c) PROVE NotaryInv'
<1>1. /\ call[c].at = "returned" /\ req[c].op \in {"waiting"} \cup Saves \cup Decides
      /\ req[c].op \in Decides => call[c].result # "ok"
      /\ req[c].op \in Decides /\ call[c].result = "failed" => req[c].trx \in excused'
      /\ req' = [req EXCEPT ![c] = Idle] /\ Hangup(c) /\ excused \subseteq excused'
      /\ UNCHANGED <<trxs, lists, balances, held, evicted, hurt, outdated, trxCh>>
  BY DEF Finish, Answered, Saves, Decides
<1>2. Idle.op = "none"
  BY DEF Idle
<1>3. ReqOK(Idle) /\ Idle.op \in {"none", "leaf", "clean"}
  BY <1>2 DEF ReqOK, WithTrx, Saves, Decides
<1>4. /\ \A t : InHandOf(call[c], req[c], t) => t \in excused'
      /\ \A a, t : ~ CleansFor(req[c], a, t)
  BY <1>1 DEF InHandOf, CleansFor, Saves, Decides
<1> QED
  BY <1>1, <1>3, <1>4, HangsUp

(* A contract that was removed is on its way to the accounting book, or      *)
(* rejected.                                                                 *)
LEMMA RemovedKeeps ==
  ASSUME NotaryInv, NEW c \in Caller, Removed(c) PROVE NotaryInv'
<1> DEFINE r == [op |-> "leaf", of |-> req[c].op, trx |-> req[c].trx]
<1>1. /\ call[c].at = "returned" /\ req[c].op \in Decides
      /\ req' = [req EXCEPT ![c] = r] /\ Hangup(c)
      /\ UNCHANGED <<trxs, lists, balances, held, evicted, hurt, outdated, excused, trxCh>>
  BY DEF Removed, Answered, Decides
<1>2. r.op = "leaf" /\ r.of \in Decides /\ r.trx = req[c].trx
  BY <1>1
<1>3. req[c].trx \in Trx
  BY <1>1 DEF NotaryInv, Shape, ReqOK, WithTrx
<1> HIDE DEF r
<1>4. ReqOK(r)
  BY <1>2, <1>3 DEF ReqOK, WithTrx
<1>5. /\ \A t : InHandOf(call[c], req[c], t) => InHandOf(NoCall, r, t)
      /\ \A a, t : ~ CleansFor(req[c], a, t)
  BY <1>1, <1>2 DEF InHandOf, CleansFor, Decides
<1> QED
  BY <1>1, <1>2, <1>4, <1>5, HangsUp

(* The contract of a gossiped vertex was removed: balances are cleaned       *)
(* next.                                                                     *)
LEMMA AddedRemovedKeeps ==
  ASSUME NotaryInv, NEW c \in Caller, AddedRemoved(c) PROVE NotaryInv'
<1> DEFINE t == req[c].trx
           r == [op |-> "clean", trx |-> t, todo |-> ToClean("gossip", t)]
<1>1. /\ call[c].at = "returned" /\ req[c].op = "remove"
      /\ req' = [req EXCEPT ![c] = r] /\ Hangup(c)
      /\ UNCHANGED <<trxs, lists, balances, held, evicted, hurt, outdated, excused, trxCh>>
  BY DEF AddedRemoved, Answered
<1>2. r.op = "clean" /\ r.trx = t /\ r.todo = <<t.issuer, t.receiver>>
  BY DEF ToClean
<1>3. t \in Trx
  BY <1>1 DEF NotaryInv, Shape, ReqOK, WithTrx
<1> HIDE DEF r
<1>4. ReqOK(r)
  BY <1>2, <1>3 DEF ReqOK, WithTrx, TodoOK
<1>5. \A u : ~ InHandOf(call[c], req[c], u)
  BY <1>1 DEF InHandOf, Decides
<1>6. \A a, u : Moves(u, a) /\ CleansFor(req[c], a, u) => CleansFor(r, a, u)
  <2> SUFFICES ASSUME NEW a, NEW u, Moves(u, a), CleansFor(req[c], a, u) PROVE CleansFor(r, a, u)
    OBVIOUS
  <2>1. u = t /\ a \in {t.issuer, t.receiver}
    BY DEF CleansFor, Moves, Parties
  <2>2. Range(<<t.issuer, t.receiver>>) = {t.issuer, t.receiver}
    BY DEF Range
  <2> QED
    BY <1>2, <2>1, <2>2 DEF CleansFor
<1> QED
  BY <1>1, <1>2, <1>4, <1>5, <1>6, HangsUp

-----------------------------------------------------------------------------
(* The ledger *)

(* A request between its calls to the cache changes only itself. *)
LEMMA WorksAlone ==
  ASSUME NotaryInv, NEW c \in Caller, call[c].at = "none"
  PROVE  /\ CallOK(call[c]) /\ ReqOK(req[c])
         /\ \A a, t : ~ SavingIn(call[c], t, a)
         /\ \A r, t : InHandOf(call[c], r, t) <=> r.op = "leaf" /\ r.of # "propose" /\ r.trx = t
         /\ \A r : ~ Entered(call[c], r)
         /\ \A r : r.op \notin {"waiting"} \cup Saves \cup Decides => Serves(call[c], r)
<1>1. CallOK(call[c]) /\ ReqOK(req[c])
  BY DEF NotaryInv, Shape
<1> QED
  BY <1>1 DEF SavingIn, InHandOf, Entered, Serves, SaveSteps, RemoveSteps, Saves, Decides

(* A request that is at the accounting book is in no call to the cache. *)
LEMMA InNoCall ==
  ASSUME NotaryInv, NEW c \in Caller, req[c].op \in {"leaf", "clean", "balance", "keep", "gossip vrx"}
  PROVE  call[c].at = "none"
BY DEF NotaryInv, Shape, Serves, Saves, Decides

(* What is not in hand and not to be cleaned up for may end. *)
LEMMA TurnsTo ==
  ASSUME NotaryInv, NEW c \in Caller, NEW r,
         req[c].op = "leaf" \/ req[c].op = "balance" \/ req[c].op = "gossip vrx", req' = [req EXCEPT ![c] = r],
         ReqOK(r), r.op \in {"none", "keep"},
         UNCHANGED <<trxs, lists, balances, call, evicted, hurt, held, outdated, trxCh>>, excused \subseteq excused',
         req[c].op = "leaf" /\ req[c].of # "propose" => req[c].trx \in excused'
  PROVE  NotaryInv'
<1>1. call[c].at = "none"
  BY InNoCall
<1>2. Moved(c, call[c], r)
  BY CallStays DEF NotaryInv
<1>3. /\ CallOK(call[c]) /\ Serves(call[c], r) /\ ~ Entered(call[c], r)
      /\ \A a, t : ~ SavingIn(call[c], t, a)
      /\ \A t : InHandOf(call[c], req[c], t) => t \in excused'
  BY <1>1, WorksAlone DEF Saves, Decides
<1>4. \A a, t : ~ CleansFor(req[c], a, t)
  BY DEF CleansFor
<1> QED
  BY <1>2, <1>3, <1>4, QuietMove

(* The accounting book refuses, or answers a balance. *)
LEMMA TurnsToKeeps ==
  ASSUME NotaryInv, NEW c \in Caller,
         CreateLeafFails(c) \/ AddLeafFails(c) \/ CalculateBalance(c) \/ CalculateBalanceFails(c)
  PROVE  NotaryInv'
<1>1. Idle.op = "none"
  BY DEF Idle
<1>2. ReqOK(Idle)
  BY <1>1 DEF ReqOK, WithTrx, Saves, Decides
<1>3. CASE CreateLeafFails(c)
  <2>1. /\ req[c].op = "leaf" /\ req' = [req EXCEPT ![c] = Idle]
        /\ UNCHANGED <<trxs, lists, balances, call, evicted, hurt, held, outdated, trxCh>> /\ excused \subseteq excused'
        /\ req[c].op = "leaf" /\ req[c].of # "propose" => req[c].trx \in excused'
    BY <1>3 DEF CreateLeafFails, cacheVars
  <2>2. req[c].op \in {"leaf", "balance", "gossip vrx"}
    BY <2>1
  <2>3. Idle.op \in {"none", "keep"}
    BY <1>1
  <2> QED
    BY <1>2, <2>1, <2>2, <2>3, TurnsTo
<1>4. CASE AddLeafFails(c)
  <2>1. /\ req[c].op = "gossip vrx" /\ req' = [req EXCEPT ![c] = Idle]
        /\ UNCHANGED <<trxs, lists, balances, call, evicted, hurt, held, outdated, trxCh>> /\ excused \subseteq excused'
        /\ req[c].op = "leaf" /\ req[c].of # "propose" => req[c].trx \in excused'
    BY <1>4 DEF AddLeafFails, cacheVars
  <2> QED
    BY <1>1, <1>2, <2>1, TurnsTo
<1>5. CASE CalculateBalanceFails(c)
  <2>1. /\ req[c].op = "balance" /\ req' = [req EXCEPT ![c] = Idle]
        /\ UNCHANGED <<trxs, lists, balances, call, evicted, hurt, held, outdated, trxCh>> /\ excused \subseteq excused'
        /\ req[c].op = "leaf" /\ req[c].of # "propose" => req[c].trx \in excused'
    BY <1>5 DEF CalculateBalanceFails, cacheVars
  <2> QED
    BY <1>1, <1>2, <2>1, TurnsTo
<1>6. CASE CalculateBalance(c)
  <2>0. PICK view : req' = [req EXCEPT ![c] = [op |-> "keep", by |-> req[c].by, view |-> view]]
    BY <1>6, Zenon DEF CalculateBalance
  <2> DEFINE r == [op |-> "keep", by |-> req[c].by, view |-> view]
  <2>1. r.op = "keep" /\ r.by = req[c].by /\ req[c].op = "balance"
    BY <1>6 DEF CalculateBalance, cacheVars
  <2>2. req' = [req EXCEPT ![c] = r] /\ UNCHANGED <<trxs, lists, balances, call, evicted, hurt, held, outdated, trxCh, excused>>
    BY <1>6, <2>0 DEF CalculateBalance, cacheVars
  <2>3. req[c].by \in Address
    BY <2>1 DEF NotaryInv, Shape, ReqOK
  <2> HIDE DEF r
  <2>4. ReqOK(r)
    BY <2>1, <2>3 DEF ReqOK, WithTrx, Saves, Decides
  <2> QED
    BY <2>1, <2>2, <2>4, TurnsTo
<1> QED
  BY <1>3, <1>4, <1>5, <1>6

(* A transaction is taken into the ledger by request c. *)
LEMMA LedgerTakes ==
  ASSUME NotaryInv, NEW c \in Caller, NEW t \in Trx, NEW r, call[c].at = "none",
         req[c].op = "leaf" \/ req[c].op = "gossip vrx", req[c].trx = t,
         req' = [req EXCEPT ![c] = r], ReqOK(r), r.op \in {"remove", "clean"}, r.trx = t,
         held' = held \cup {t}, UNCHANGED cacheVars, UNCHANGED <<trxCh, excused>>, outdated \subseteq outdated',
         \A a \in Address : Moves(t, a) => CleansFor(r, a, t) \/ <<a, t>> \in outdated'
  PROVE  NotaryInv'
<1> DEFINE k == call[c]
<1>1. Moved(c, k, r)
  BY CallStays DEF NotaryInv, cacheVars
<1>2. /\ CallOK(k) /\ Serves(k, r) /\ ~ Entered(k, r)
      /\ \A a, u : ~ SavingIn(k, u, a)
      /\ \A u : InHandOf(k, req[c], u) => u \in held'
  BY WorksAlone DEF Saves, Decides
<1> HIDE DEF k
<1>3. Shape'
  BY <1>1, <1>2, ShapeKept DEF NotaryInv, Shape, cacheVars
<1>4. ListsCover'
  BY <1>1, <1>2, CoverKept DEF NotaryInv, cacheVars, k
<1>5. NothingLost'
  <2>1. Known \subseteq Known'
    BY <1>1, <1>2, KnownGrows DEF NotaryInv, cacheVars, k
  <2> QED
    BY <1>1, <1>2, <2>1, LossKept DEF NotaryInv
<1>6. BalanceIsExplained'
  <2>1. \A a, u : ~ CleansFor(req[c], a, u)
    BY DEF CleansFor
  <2>2. ASSUME NEW a \in Address, NEW u \in Trx, balances'[a] # Nothing, Moves(u, a),
               Differs(u, balances'[a], held')
        PROVE  \/ <<a, u>> \in outdated'
               \/ CleansFor(r, a, u)
               \/ /\ balances[a] # Nothing /\ Differs(u, balances[a], held)
                  /\ <<a, u>> \notin outdated /\ ~ CleansFor(req[c], a, u)
    <3>1. CASE u = t
      BY <2>2, <3>1
    <3>2. CASE u # t
      <4>1. balances' = balances /\ (u \in held' <=> u \in held)
        BY <3>2 DEF cacheVars
      <4>2. balances[a] # Nothing /\ Differs(u, balances[a], held)
        BY <2>2, <4>1 DEF Differs
      <4> QED
        BY <2>1, <4>2
    <3> QED
      BY <3>1, <3>2
  <2> QED
    BY <1>1, <2>2, BalanceKept DEF NotaryInv
<1> QED
  BY <1>3, <1>4, <1>5, <1>6 DEF NotaryInv

(* The accounting book creates the vertex of a transaction. *)
LEMMA CreateLeafKeeps ==
  ASSUME NotaryInv, NEW c \in Caller, CreateLeaf(c) PROVE NotaryInv'
<1>1. req[c].op = "leaf" /\ req[c].trx \in Trx /\ call[c].at = "none"
  BY InNoCall DEF CreateLeaf, NotaryInv, Shape, ReqOK, WithTrx
<1>2. PICK t, of, todo : t \in Trx /\ t = req[c].trx /\ of = req[c].of /\ todo = ToClean(of, t)
  BY <1>1
<1> DEFINE r == [op |-> "clean", trx |-> t, todo |-> todo]
<1>3. /\ req' = [req EXCEPT ![c] = r] /\ held' = held \cup {t} /\ outdated' = outdated \cup Forgotten(of, t)
      /\ UNCHANGED cacheVars /\ UNCHANGED <<trxCh, excused>>
  BY <1>2 DEF CreateLeaf, Attach
<1>4. r.op = "clean" /\ r.trx = t /\ r.todo = todo
  OBVIOUS
<1> HIDE DEF r
<1>5. ReqOK(r)
  BY <1>2, <1>4 DEF ReqOK, WithTrx, TodoOK, ToClean
<1>6. \A a \in Address : Moves(t, a) => CleansFor(r, a, t) \/ <<a, t>> \in outdated'
  <2> SUFFICES ASSUME NEW a \in Address, Moves(t, a), <<a, t>> \notin outdated' PROVE a \in Range(todo)
    BY <1>4 DEF CleansFor
  <2>1. a \in Parties(t)
    BY DEF Moves
  <2>2. CASE of = "reject"
    <3>1. a = t.issuer /\ todo = <<t.issuer>>
      BY <1>2, <1>3, <2>1, <2>2 DEF Forgotten, ToClean
    <3> QED
      BY <3>1 DEF Range
  <2>3. CASE of # "reject"
    <3>1. todo = <<t.issuer, t.receiver>>
      BY <1>2, <2>3 DEF ToClean
    <3> QED
      BY <2>1, <3>1 DEF Range, Parties
  <2> QED
    BY <2>2, <2>3
<1> QED
  BY <1>1, <1>2, <1>3, <1>4, <1>5, <1>6, LedgerTakes

(* The accounting book takes a gossiped vertex. *)
LEMMA AddLeafKeeps ==
  ASSUME NotaryInv, NEW c \in Caller, AddLeaf(c) PROVE NotaryInv'
<1>1. req[c].op = "gossip vrx" /\ req[c].trx \in Trx /\ call[c].at = "none"
  BY InNoCall DEF AddLeaf, NotaryInv, Shape, ReqOK, WithTrx
<1>2. PICK t \in Trx : t = req[c].trx
  BY <1>1
<1> DEFINE r == [op |-> "remove", trx |-> t]
<1>3. /\ req' = [req EXCEPT ![c] = r] /\ held' = held \cup {t}
      /\ UNCHANGED cacheVars /\ UNCHANGED <<trxCh, excused, outdated>>
  BY <1>2 DEF AddLeaf, Attach
<1>4. r.op = "remove" /\ r.trx = t
  OBVIOUS
<1> HIDE DEF r
<1>5. ReqOK(r)
  BY <1>4 DEF ReqOK, WithTrx
<1>6. \A a : CleansFor(r, a, t)
  BY <1>4 DEF CleansFor
<1> QED
  BY <1>1, <1>2, <1>3, <1>4, <1>5, <1>6, LedgerTakes

(* GossipVrx begins to remove the contract of a vertex that was taken. *)
LEMMA RemoveAddedKeeps ==
  ASSUME NotaryInv, NEW c \in Caller, RemoveAdded(c) PROVE NotaryInv'
<1>1. req[c].op = "remove" /\ req[c].trx \in Trx /\ call[c].at = "none" /\ ReqOK(req[c])
  <2>1. req[c].op = "remove" /\ call[c] = NoCall
    BY DEF RemoveAdded
  <2>2. ReqOK(req[c])
    BY DEF NotaryInv, Shape
  <2>3. NoCall.at = "none"
    BY DEF NoCall
  <2> QED
    BY <2>1, <2>2, <2>3 DEF ReqOK, WithTrx
<1>2. PICK k : /\ call' = [call EXCEPT ![c] = k]
               /\ CallOK(k)
               /\ \A q : q.op \in Decides \cup {"remove"} /\ q.trx = req[c].trx => Serves(k, q) /\ ~ Entered(k, q)
               /\ UNCHANGED <<trxs, lists, balances, evicted, hurt>>
  <2>1. PICK t, a : t \in Trx /\ t = req[c].trx /\ a = t.receiver
    BY <1>1
  <2>2. RemoveAwaitedTransaction(c, t, a)
    BY <2>1 DEF RemoveAdded
  <2>3. PICK k \in {Returned("not found"), Returned("unauthorized"), [at |-> "remove delete", trx |-> t]} :
            /\ call' = [call EXCEPT ![c] = k]
            /\ CallOK(k) /\ ~ k.at \in SaveSteps
            /\ \A u, r : ~ InHandOf(k, r, u) \/ r.op = "leaf"
            /\ \A r : r.op \in Decides \cup {"remove"} /\ r.trx = t => Serves(k, r) /\ ~ Entered(k, r)
            /\ UNCHANGED <<trxs, lists, balances, evicted, hurt>>
    BY <2>1, <2>2, RemovesFirst
  <2> QED
    BY <2>1, <2>3
<1>3. UNCHANGED <<req, held, trxCh, excused, outdated>>
  BY DEF RemoveAdded, notaryVars
<1>4. Moved(c, k, req[c])
  BY <1>2, <1>3, RequestStays DEF NotaryInv
<1>5. /\ \A a, t : ~ SavingIn(call[c], t, a)
      /\ \A t : ~ InHandOf(call[c], req[c], t)
  BY <1>1, WorksAlone
<1>6. Serves(k, req[c]) /\ ~ Entered(k, req[c])
  BY <1>1, <1>2
<1> QED
  BY <1>1, <1>2, <1>3, <1>4, <1>5, <1>6, QuietMove

-----------------------------------------------------------------------------
(* Steps of no request: eviction, replays and drops of the accounting book. *)

(* A step of no caller keeps the invariant if what it takes away is          *)
(* recorded.                                                                 *)
LEMMA NobodyMoves ==
  ASSUME NotaryInv, UNCHANGED <<call, req, trxCh>>,
         trxs' \subseteq trxs, trxs \subseteq trxs' \cup evicted', evicted \subseteq evicted',
         hurt \subseteq hurt', lists' \in [Address -> Seq(Piece)],
         \A a \in Address \ hurt' : lists'[a] = lists[a],
         held \cup excused \subseteq held' \cup excused',
         balances' = [a \in Address |-> balances'[a]],
         \A a \in Address, t \in Trx :
            balances'[a] # Nothing /\ Moves(t, a) /\ Differs(t, balances'[a], held') =>
               \/ <<a, t>> \in outdated'
               \/ balances[a] # Nothing /\ Differs(t, balances[a], held) /\ <<a, t>> \notin outdated
  PROVE  NotaryInv'
<1> USE DEF NotaryInv
<1>1. Shape'
  BY DEF Shape
<1>2. ListsCover'
  <2> SUFFICES ASSUME NEW t \in trxs', NEW a \in Parties(t), a \notin hurt'
               PROVE  StillSaving(t, a)' \/ t \in Range(lists'[a])
    BY DEF ListsCover, Parties
  <2>1. t \in trxs /\ a \in Address /\ lists'[a] = lists[a]
    BY CacheAssumption DEF Parties, Shape
  <2>2. StillSaving(t, a) => StillSaving(t, a)'
    BY DEF StillSaving
  <2> QED
    BY <2>1, <2>2 DEF ListsCover
<1>3. NothingLost'
  <2>1. \A t : InHand(t) => InHand(t)'
    BY DEF InHand, Answered
  <2>2. Known \subseteq Known'
    BY <2>1 DEF Known
  <2> QED
    BY <2>2 DEF NothingLost
<1>4. BalanceIsExplained'
  <2> SUFFICES ASSUME NEW a \in Address, NEW t \in Trx, balances'[a] # Nothing, Moves(t, a),
                      Differs(t, balances'[a], held')
               PROVE  <<a, t>> \in outdated' \/ WillClean(a, t)'
    BY DEF BalanceIsExplained, Moves, Parties, Differs
  <2>1. WillClean(a, t) => WillClean(a, t)'
    BY DEF WillClean
  <2> QED
    BY <2>1 DEF BalanceIsExplained
<1> QED
  BY <1>1, <1>2, <1>3, <1>4

(* Bigcache evicts an entry. *)
LEMMA EvictKeeps ==
  ASSUME NotaryInv, Evict, UNCHANGED notaryVars
  PROVE  NotaryInv'
<1>1. UNCHANGED <<req, held, trxCh, excused, outdated>>
  BY DEF notaryVars
<1>2. lists \in [Address -> Seq(Piece)] /\ balances = [a \in Address |-> balances[a]]
  BY DEF NotaryInv, Shape
<1>3. ASSUME NEW t \in Trx, EvictTrx(t) PROVE NotaryInv'
  BY <1>1, <1>2, <1>3, NobodyMoves DEF EvictTrx
<1>4. ASSUME NEW a \in Address, EvictList(a) PROVE NotaryInv'
  <2>1. NoEntry \in Seq(Piece)
    BY DEF NoEntry
  <2>2. lists' \in [Address -> Seq(Piece)] /\ \A b \in Address \ hurt' : lists'[b] = lists[b]
    BY <1>2, <1>4, <2>1 DEF EvictList
  <2> QED
    BY <1>1, <1>2, <1>4, <2>2, NobodyMoves DEF EvictList
<1>5. ASSUME NEW a \in Address, EvictBalance(a) PROVE NotaryInv'
  <2>1. /\ balances' = [b \in Address |-> balances'[b]]
        /\ \A b \in Address : balances'[b] # Nothing => balances'[b] = balances[b] /\ balances[b] # Nothing
    BY <1>2, <1>5 DEF EvictBalance, RemoveBalance
  <2>2. /\ UNCHANGED <<trxs, lists, call, evicted, hurt>>
    BY <1>5 DEF EvictBalance
  <2>3. \A b \in Address, t \in Trx :
            balances'[b] # Nothing /\ Differs(t, balances'[b], held') =>
               balances[b] # Nothing /\ Differs(t, balances[b], held)
    BY <1>1, <2>1
  <2> QED
    BY <1>1, <1>2, <2>1, <2>2, <2>3, NobodyMoves
<1> QED
  BY <1>3, <1>4, <1>5 DEF Evict

(* The accounting book replays or drops a vertex by itself. *)
LEMMA UnaskedKeeps ==
  ASSUME NotaryInv, NEW t \in Trx, Replay(t) \/ Drop(t)
  PROVE  NotaryInv'
<1>1. /\ UNCHANGED <<trxs, lists, balances, call, evicted, hurt, req, trxCh>>
      /\ held \cup excused \subseteq held' \cup excused'
      /\ outdated' = outdated \cup {<<a, t>> : a \in {a \in Parties(t) : Moves(t, a)}}
  BY DEF Replay, Drop, Attach, Leaves, cacheVars
<1>2. \A u : u # t => (u \in held' <=> u \in held)
  BY DEF Replay, Drop, Attach, Leaves
<1>3. lists \in [Address -> Seq(Piece)] /\ balances = [a \in Address |-> balances[a]]
  BY DEF NotaryInv, Shape
<1>4. ASSUME NEW a \in Address, NEW u \in Trx, balances'[a] # Nothing, Moves(u, a),
             Differs(u, balances'[a], held')
      PROVE  \/ <<a, u>> \in outdated'
             \/ balances[a] # Nothing /\ Differs(u, balances[a], held) /\ <<a, u>> \notin outdated
  <2>1. CASE u = t
    BY <1>1, <1>4, <2>1 DEF Moves
  <2>2. CASE u # t
    BY <1>1, <1>2, <1>4, <2>2 DEF Differs
  <2> QED
    BY <2>1, <2>2
<1> QED
  BY <1>1, <1>3, <1>4, NobodyMoves

-----------------------------------------------------------------------------
(* Balances *)

(* A step that changes the balance of a, and what is outdated about it. *)
LEMMA BalanceMove ==
  ASSUME NotaryInv, NEW c \in Caller, NEW r, NEW a \in Address, NEW value,
         call[c].at = "none", req' = [req EXCEPT ![c] = r], ReqOK(r), r.op \in {"none", "clean"},
         req[c].op = "clean" \/ req[c].op = "keep",
         balances' = [balances EXCEPT ![a] = value],
         \A b, t : b # a /\ <<b, t>> \in outdated => <<b, t>> \in outdated',
         \A b, t : b # a /\ CleansFor(req[c], b, t) => CleansFor(r, b, t),
         value # Nothing => \A t \in Trx : Moves(t, a) /\ Differs(t, value, held) => <<a, t>> \in outdated',
         UNCHANGED <<trxs, lists, call, evicted, hurt, held, trxCh, excused>>
  PROVE  NotaryInv'
<1>0. Shape /\ ListsCover /\ NothingLost /\ BalanceIsExplained
  BY DEF NotaryInv
<1>1. Moved(c, call[c], r)
  BY <1>0, CallStays
<1>2. /\ CallOK(call[c]) /\ Serves(call[c], r) /\ ~ Entered(call[c], r) /\ r.op # "remove"
      /\ \A b, t : ~ SavingIn(call[c], t, b)
      /\ \A t : ~ InHandOf(call[c], req[c], t)
  BY WorksAlone DEF Saves, Decides
<1>3. /\ trxs \subseteq Trx /\ lists \in [Address -> Seq(Piece)]
      /\ balances = [b \in Address |-> balances[b]]
  BY <1>0 DEF Shape
<1>4. /\ balances' = [b \in Address |-> balances'[b]]
      /\ \A b \in Address : balances'[b] = IF b = a THEN value ELSE balances[b]
  BY <1>3
<1>5. Shape'
  BY <1>0, <1>1, <1>2, <1>3, <1>4, ShapeKept
<1>6. ListsCover'
  BY <1>0, <1>1, <1>2, CoverKept
<1>7. NothingLost'
  <2>1. Known \subseteq Known'
    BY <1>0, <1>1, <1>2, KnownGrows
  <2> QED
    BY <1>0, <1>1, <1>2, <2>1, LossKept
<1>8. BalanceIsExplained'
  <2>1. ASSUME NEW b \in Address, NEW t \in Trx, balances'[b] # Nothing, Moves(t, b),
               Differs(t, balances'[b], held')
        PROVE  \/ <<b, t>> \in outdated'
               \/ CleansFor(r, b, t)
               \/ /\ balances[b] # Nothing /\ Differs(t, balances[b], held)
                  /\ <<b, t>> \notin outdated /\ ~ CleansFor(req[c], b, t)
    <3>1. held' = held
      OBVIOUS
    <3>2. CASE b = a
      BY <1>4, <2>1, <3>1, <3>2
    <3>3. CASE b # a
      BY <1>4, <2>1, <3>1, <3>3
    <3> QED
      BY <3>2, <3>3
  <2> QED
    BY <1>0, <1>1, <2>1, BalanceKept
<1> QED
  BY <1>5, <1>6, <1>7, <1>8 DEF NotaryInv

(* Removing the balance of one address leaves the others outdated. *)
LEMMA CurrentOthers ==
  ASSUME NEW outs, NEW a
  PROVE  \A b, t : b # a /\ <<b, t>> \in outs => <<b, t>> \in Current(outs, a)
BY DEF Current

(* A handler removes a balance after the ledger has changed. *)
LEMMA CleanKeeps ==
  ASSUME NotaryInv, NEW c \in Caller, Clean(c) PROVE NotaryInv'
<1>1. req[c].op = "clean" /\ call[c].at = "none" /\ req[c].trx \in Trx /\ TodoOK(req[c].todo, req[c].trx)
  BY InNoCall, InCall DEF Clean, ReqOK, WithTrx
<1>2. PICK a, t, todo : t \in Trx /\ t = req[c].trx /\ todo = req[c].todo /\ a = Head(todo)
  BY <1>1
<1>3. TodoOK(todo, t) /\ a \in Address
  BY <1>1, <1>2, TodoParts
<1>4. PICK r : /\ req' = [req EXCEPT ![c] = r]
               /\ r = IF Len(todo) = 1 THEN Idle ELSE [op |-> "clean", trx |-> t, todo |-> Tail(todo)]
  BY <1>2 DEF Clean
<1>5. \/ r.op = "none" /\ Len(todo) = 1
      \/ r.op = "clean" /\ r.trx = t /\ r.todo = Tail(todo) /\ Len(todo) # 1
  <2>1. CASE Len(todo) = 1
    BY <1>4, <2>1 DEF Idle
  <2>2. CASE Len(todo) # 1
    BY <1>4, <2>2
  <2> QED
    BY <2>1, <2>2
<1>6. ReqOK(r)
  <2>1. r.op = "clean" => TodoOK(r.todo, t)
    BY <1>2, <1>3, <1>5, TodoParts
  <2> QED
    BY <1>2, <1>5, <2>1 DEF ReqOK, WithTrx, Saves, Decides
<1>7. ASSUME NEW b, NEW u, b # a, CleansFor(req[c], b, u) PROVE CleansFor(r, b, u)
  <2>1. u = t /\ b \in Range(todo)
    BY <1>1, <1>2, <1>7 DEF CleansFor
  <2>2. Len(todo) # 1 /\ b \in Range(Tail(todo))
    BY <1>2, <1>3, <1>7, <2>1, TodoParts
  <2> QED
    BY <1>5, <2>1, <2>2 DEF CleansFor
<1>8. /\ balances' = [balances EXCEPT ![a] = Nothing] /\ outdated' = Current(outdated, a)
      /\ UNCHANGED <<trxs, lists, call, evicted, hurt, held, trxCh, excused>>
  BY <1>2 DEF Clean, RemoveBalance
<1>9. \A b, u : b # a /\ <<b, u>> \in outdated => <<b, u>> \in outdated'
  BY <1>8, CurrentOthers
<1>10. r.op \in {"none", "clean"}
  BY <1>5
<1> QED
  BY <1>1, <1>3, <1>4, <1>6, <1>7, <1>8, <1>9, <1>10, BalanceMove

(* A balance that was calculated before is kept. *)
LEMMA KeepBalanceKeeps ==
  ASSUME NotaryInv, NEW c \in Caller, KeepBalance(c) PROVE NotaryInv'
<1>1. req[c].op = "keep" /\ call[c].at = "none" /\ req[c].by \in Address
  BY InNoCall, InCall DEF KeepBalance, ReqOK
<1>2. PICK a, view : a \in Address /\ a = req[c].by /\ view = req[c].view
  BY <1>1
<1> DEFINE differ == {t \in Trx : Moves(t, a) /\ Differs(t, view, held)}
<1>3. /\ balances' = [balances EXCEPT ![a] = view]
      /\ outdated' = Current(outdated, a) \cup {<<a, t>> : t \in differ}
      /\ req' = [req EXCEPT ![c] = Idle]
      /\ UNCHANGED <<trxs, lists, call, evicted, hurt, held, trxCh, excused>>
  BY <1>2 DEF KeepBalance, SaveBalance
<1>4. Idle.op = "none"
  BY DEF Idle
<1>5. ReqOK(Idle) /\ Idle.op \in {"none", "clean"}
  BY <1>4 DEF ReqOK, WithTrx, Saves, Decides
<1>6. \A b, t : ~ CleansFor(req[c], b, t)
  BY <1>1 DEF CleansFor
<1>7. \A t \in Trx : Moves(t, a) /\ Differs(t, view, held) => <<a, t>> \in outdated'
  BY <1>3
<1> HIDE DEF differ
<1>8. \A b, t : b # a /\ <<b, t>> \in outdated => <<b, t>> \in outdated'
  BY <1>3, CurrentOthers
<1> QED
  BY <1>1, <1>2, <1>3, <1>5, <1>6, <1>7, <1>8, BalanceMove

-----------------------------------------------------------------------------
(* The invariant holds of every reachable state. *)

(* An empty cache and no requests. *)
LEMMA NotaryStart ==
  ASSUME Init PROVE NotaryInv
<1>1. /\ trxs = {} /\ held = {} /\ trxCh = {} /\ excused = {} /\ outdated = {}
      /\ lists = [a \in Address |-> NoEntry] /\ balances = [a \in Address |-> Nothing]
      /\ call = [c \in Caller |-> NoCall] /\ req = [c \in Caller |-> Idle]
  BY DEF Init, HippocampusInit
<1>2. NoCall.at = "none" /\ Idle.op = "none" /\ NoEntry \in Seq(Piece)
  BY DEF NoCall, Idle, NoEntry
<1>3. CallOK(NoCall) /\ ReqOK(Idle) /\ Serves(NoCall, Idle) /\ ~ Entered(NoCall, Idle)
  BY <1>2 DEF CallOK, ReqOK, Serves, Entered, SaveSteps, RemoveSteps, ReadSteps, Saves, Decides, WithTrx
<1>4. Shape
  BY <1>1, <1>2, <1>3 DEF Shape
<1>5. ListsCover
  BY <1>1 DEF ListsCover
<1>6. NothingLost
  BY <1>1, <1>2, <1>3 DEF NothingLost
<1>7. BalanceIsExplained
  BY <1>1 DEF BalanceIsExplained
<1> QED
  BY <1>4, <1>5, <1>6, <1>7 DEF NotaryInv

(* Every step keeps the invariant. *)
LEMMA NotaryStep ==
  ASSUME NotaryInv, [Next]_vars PROVE NotaryInv'
<1>1. ASSUME NEW c \in Caller, HandlerStep(c) PROVE NotaryInv'
  BY <1>1, ProposedKeeps, FinishKeeps, RemovedKeeps, CreateLeafKeeps, AddLeafKeeps, RemoveAddedKeeps,
     AddedRemovedKeeps, TurnsToKeeps, CleanKeeps, KeepBalanceKeeps DEF HandlerStep
<1>2. CASE UNCHANGED vars
  <2>1. /\ lists \in [Address -> Seq(Piece)] /\ balances = [a \in Address |-> balances[a]]
        /\ UNCHANGED <<trxs, lists, balances, call, evicted, hurt, req, held, trxCh, excused, outdated>>
    BY <1>2 DEF NotaryInv, Shape, vars, cacheVars, notaryVars
  <2> QED
    BY <2>1, NobodyMoves
<1> QED
  BY <1>1, <1>2, ArriveKeeps, CacheStepKeeps, EvictKeeps, UnaskedKeeps DEF Next

(* The notary server's invariant: the shape of requests and calls, what the *)
(* lists cover, where an accepted contract is, and why a balance is behind. *)
THEOREM NotaryInvariant == Spec => []NotaryInv
BY NotaryStart, NotaryStep, PTL DEF Spec

(* However many requests use the cache at once, an awaited transaction is   *)
(* in the lists of its issuer and its receiver, or a save is about to enter *)
(* it; unless the list was evicted, written over a change, or lost the hash *)
(* of a transaction that was saved again (cache.go).                        *)
THEOREM CacheCovers == Spec => []ListsCover
<1>1. NotaryInv => ListsCover
  BY DEF NotaryInv
<1> QED
  BY <1>1, NotaryInvariant, PTL

(* A contract that was handed to gossip (Propose) is not lost without       *)
(* anybody knowing (Confirm, Reject, GossipVrx, eviction).                  *)
THEOREM ContractsNotLost == Spec => []NoSilentLoss
<1>1. NotaryInv => NoSilentLoss
  BY DEF NotaryInv, NothingLost, Known, NoSilentLoss
<1> QED
  BY <1>1, NotaryInvariant, PTL

(* A cached balance that is not the ledger's is about to be removed, or is  *)
(* behind for one of the reasons that are known (Balance, RemoveBalance).   *)
THEOREM BalancesExplained == Spec => []BalanceIsExplained
<1>1. NotaryInv => BalanceIsExplained
  BY DEF NotaryInv
<1> QED
  BY <1>1, NotaryInvariant, PTL

=============================================================================
