--------------------------- MODULE AccountingBook ---------------------------
(***************************************************************************)
(* The accounting book of one node (src/src/accountant): the DAG of        *)
(* vertices, the index from transactions to vertices, the storage of       *)
(* truncated vertices and funds, the trusted nodes, the replier buffer,    *)
(* and the goroutines that work on them: request and gossip handlers       *)
(* (CreateLeaf, AddLeaf), the leaf subscriber, the truncation loop and the *)
(* loader of the DAG.                                                      *)
(*                                                                         *)
(* A handler first checks its input without the lock and then works under  *)
(* ab.mux.  The model keeps that gap: every loop iteration under the lock  *)
(* is a step of its own, and what runs without the lock may happen between *)
(* any two of them.                                                        *)
(*                                                                         *)
(* Amounts of spice are natural numbers here; their two-unit arithmetic is *)
(* the subject of module Spice.  Vertices that fail signature verification *)
(* are dropped before they change any state and are left out.              *)
(***************************************************************************)
EXTENDS Replier, FiniteSets

CONSTANTS
  NoVertex,            \* the zero hash
  Trx,                 \* transactions, records of TrxRecord
  TrxId,               \* hashes of transactions
  Address,             \* public addresses of wallets
  Self,                \* address of this node's wallet
  Peer,                \* addresses of the other nodes' wallets
  Trustable,           \* the peers the operator may add to the trusted nodes
  Handler,             \* handler goroutines of the node's servers
  Subscriber,          \* the goroutine runLeafSubscriber
  InitialThroughput,   \* initialThroughput, also the capacity of truncateSignal
  TruncateDiff,        \* truncateDiff
  Truncate,            \* Config.Truncate
  MaxThroughput,       \* bound of the model: no new request once throughput exceeds it
  MaxPeerLeaves        \* bound of the model: how many leaves the peers sign

Thread == Handler \cup {Subscriber}
TrxRecord == [id : TrxId, issuer : Address, receiver : Address, spice : Nat, data : BOOLEAN]

ASSUME BookAssumption ==
  /\ NoVertex \notin Vertex
  /\ Vertex # {} /\ IsFiniteSet(Vertex)
  /\ Trx \subseteq TrxRecord
  /\ \A t, u \in Trx : t.id = u.id => t = u
  /\ Self \in Address
  /\ Peer \subseteq Address \ {Self}
  /\ Trustable \subseteq Peer
  /\ Subscriber \notin Handler
  /\ InitialThroughput \in Nat \ {0}
  /\ TruncateDiff \in Nat \ {0}
  /\ Truncate \in Nat /\ Truncate >= 2 * TruncateDiff
  /\ MaxThroughput \in Nat /\ MaxPeerLeaves \in Nat

VARIABLES
  signed,               \* every vertex a node of the network signed, by hash
  dag,                  \* ab.dag, its vertices
  edges,                \* ab.dag, its edges <<parent, child>>
  trxsToVertx,          \* ab.trxsToVertxDB, NoVertex for a missing key
  stored,               \* ab.verticesDB, its vertices
  funds,                \* ab.verticesDB, its funds, 0 for a missing key
  trusted,              \* ab.trustedNodesDB
  weight,               \* ab.weight
  throughput,           \* ab.throughput
  nextWeightTruncate,   \* ab.nextWeightTruncate
  dagLoaded,            \* ab.dagLoaded
  genesisAddress,       \* ab.genesisPublicAddress, NoVertex when empty
  loader,               \* progress of the startup: CreateGenesis or LoadDag
  thread,               \* what each goroutine is doing
  truncateSignal,       \* ab.truncateSignal
  truncator             \* progress of runTruncate

dagVars == <<dag, edges, trxsToVertx>>
storageVars == <<stored, funds, trusted>>
counterVars == <<weight, throughput>>
startVars == <<dagLoaded, genesisAddress, loader>>
truncateVars == <<nextWeightTruncate, truncateSignal, truncator>>
vars == <<signed, dagVars, storageVars, counterVars, startVars, thread,
          truncateVars, replierVars>>

Hash == Vertex \cup {NoVertex}
VertexRecord == [trx : Trx, left : Hash, right : Hash, weight : Nat, signer : Address]

ASSUME ZeroHashAssumption == NoVertex \notin VertexRecord

Idle == [at |-> "idle"]
ThreadState ==
  {Idle}
    \cup [at : {"create"}, trx : Trx]
    \cup [at : {"scan"}, trx : Trx, todo : SUBSET Vertex, valid : Seq(Vertex), err : BOOLEAN,
          stopped : BOOLEAN]
    \cup [at : {"add", "parents"}, m : Memory, todo : Seq(Hash)]
    \cup [at : {"send"}, weight : Nat]
    \cup [at : {"panic"}]

Waiting == [at |-> "waiting"]
Fatal == [at |-> "fatal"]
TruncatorState == {Waiting, Fatal} \cup [at : {"locking"}, weight : Nat]

ShapeOK ==
  /\ ReplierTypeOK
  /\ signed \in [Vertex -> VertexRecord \cup {NoVertex}]
  /\ dag \subseteq Vertex
  /\ edges \subseteq Vertex \X Vertex
  /\ trxsToVertx \in [Trx -> Hash]
  /\ stored \subseteq Vertex
  /\ trusted \subseteq Address
  /\ weight \in Nat
  /\ throughput \in Nat
  /\ nextWeightTruncate \in Nat
  /\ dagLoaded \in BOOLEAN
  /\ genesisAddress \in Address \cup {NoVertex}
  /\ loader \in {"none", "unlocked", "weighed", "counted", "done"}
  /\ thread \in [Thread -> ThreadState]
  /\ truncateSignal \in Seq(Nat)
  /\ Len(truncateSignal) <= InitialThroughput
  /\ truncator \in TruncatorState

TypeOK == ShapeOK /\ funds \in [Address -> Nat]

Init ==
  /\ ReplierInit
  /\ signed = [h \in Vertex |-> NoVertex]
  /\ dag = {} /\ edges = {}
  /\ trxsToVertx = [t \in Trx |-> NoVertex]
  /\ stored = {}
  /\ funds = [a \in Address |-> 0]
  /\ trusted = {}
  /\ weight = 0 /\ throughput = 0
  /\ nextWeightTruncate = Truncate
  /\ dagLoaded = FALSE
  /\ genesisAddress = NoVertex
  /\ loader = "none"
  /\ thread = [th \in Thread |-> Idle]
  /\ truncateSignal = <<>>
  /\ truncator = Waiting

-----------------------------------------------------------------------------
(* Transactions and vertices *)

IsSpiceTransfer(t) == t.spice > 0
IsContract(t) == t.data
IsEmpty(t) == ~ IsContract(t) /\ ~ IsSpiceTransfer(t)

IsSigned(h) == signed[h] # NoVertex
SomeUnsigned == \E h \in Vertex : ~ IsSigned(h)

(* Bound of the model: a hash is left for every tip being created and one  *)
(* more.                                                                   *)
HashToSpare ==
  Cardinality({th \in Thread : thread[th].at \in {"create", "scan"}})
    < Cardinality({h \in Vertex : ~ IsSigned(h)})

(* A hash no vertex has: hashes do not collide. *)
NewHash == CHOOSE h \in Vertex : ~ IsSigned(h)

TrxOf(h) == signed[h].trx
ParentHashes(h) == {signed[h].left, signed[h].right}

calcNewWeight(l, r) == Max({signed[l].weight, signed[r].weight}) + 1

NewVertex(t, l, r, w, signer) ==
  [trx |-> t, left |-> l, right |-> r, weight |-> w, signer |-> signer]

-----------------------------------------------------------------------------
(* The DAG library: leaves, roots, ancestors, deletion *)

ParentsIn(E, h) == {e[1] : e \in {e \in E : e[2] = h}}

(* What a walk over the ancestors of h along the edges E visits. *)
AncestorsIn(E, h) ==
  LET up[n \in 0..Cardinality(Vertex)] ==
        IF n = 0
        THEN ParentsIn(E, h)
        ELSE UNION {{x} \cup ParentsIn(E, x) : x \in up[n - 1]}
  IN  up[Cardinality(Vertex)]

IsLeaf(h) == \A e \in edges : e[1] # h
IsRoot(h) == \A e \in edges : e[2] # h
Leaves == {h \in dag : IsLeaf(h)}
Ancestors(h) == dag \cap AncestorsIn(edges, h)

EdgesWithout(S) == {e \in edges : e[1] \notin S /\ e[2] \notin S}

\* Mutants of Reject: parents that become leaves, unless roots, are deleted with it;
\* removeTrxInVertex is forgotten.
RejectCascades(h) ==
  LET gone == {h} \cup {p \in ParentsIn(edges, h) :
                         ParentsIn(edges, p) # {} /\ \A e \in edges : e[1] = p => e[2] = h}
  IN  /\ dag' = dag \ gone
      /\ edges' = EdgesWithout(gone)
      /\ trxsToVertx' = [t \in Trx |-> IF trxsToVertx[t] \in gone THEN NoVertex ELSE trxsToVertx[t]]
RejectKeepingTrx(h) ==
  /\ dag' = dag \ {h}
  /\ edges' = EdgesWithout({h})
  /\ UNCHANGED trxsToVertx

(* DeleteVertex, and removeTrxInVertex for the transaction it contains. *)
Reject(h) ==
  /\ dag' = dag \ {h}
  /\ edges' = EdgesWithout({h})
  /\ trxsToVertx' = [trxsToVertx EXCEPT ![TrxOf(h)] = NoVertex]

-----------------------------------------------------------------------------
(* Validation of a leaf *)

checkTrxInVertexExists(t) == trxsToVertx[t] # NoVertex

\* Mutant of saveTrxInVertexFails: the mapping is overwritten.
saveTrxInVertexOverwrites(t) == FALSE

(* saveTrxInVertex looks again, in the transaction that writes the mapping. *)
saveTrxInVertexFails(t) == trxsToVertx[t] # NoVertex

(* updateWeightAndThroughput, when the DAG has leafsCount leaves.  The last *)
(* deferred call of LoadDag takes no lock: a reset of the throughput that   *)
(* falls between the read and the write here is overwritten.                *)
UpdateWeightAndThroughput(w, leafsCount) ==
  /\ weight' = Max({weight, w})
  /\ throughput' = throughput + leafsCount + 1
  /\ \/ UNCHANGED loader
     \/ loader = "counted" /\ loader' = "done"

\* Mutant of isValidWeight: no tolerance for slower leaves.
isValidWeightStrict(w) == w >= weight

isValidWeight(w) == throughput > weight \/ w >= weight - throughput

Issued(a, S) ==
  MapThenSumSet(LAMBDA h : IF TrxOf(h).issuer = a THEN TrxOf(h).spice ELSE 0, S)
Received(a, S) ==
  MapThenSumSet(LAMBDA h : IF TrxOf(h).receiver = a THEN TrxOf(h).spice ELSE 0, S)

(* The issuer's stored funds and what its ancestry pours in cover what the *)
(* leaf and its ancestry pour out.                                         *)
HasSufficientFunds(h) ==
  LET a == TrxOf(h).issuer
      S == Ancestors(h) \cup {h}
  IN  funds[a] + Received(a, S) >= Issued(a, S)

\* Mutant of validateLeaf: the funds are not looked at.
validateLeafUnfunded(h) == isValidWeight(signed[h].weight)

validateLeaf(h) ==
  /\ isValidWeight(signed[h].weight)
  /\ \/ IsRoot(h)
     \/ IF ~ IsSpiceTransfer(TrxOf(h)) \/ signed[h].signer \in trusted
        THEN ParentHashes(h) \subseteq dag
        ELSE HasSufficientFunds(h)

(* validateLeaf walks over the ancestors of h; it fails, and h is deleted,  *)
(* when the context of the request that validates h ends meanwhile.        *)
WalksAncestors(h) ==
  /\ isValidWeight(signed[h].weight)
  /\ ~ IsRoot(h)
  /\ IsSpiceTransfer(TrxOf(h)) /\ signed[h].signer \notin trusted

-----------------------------------------------------------------------------
(* The other nodes of the network, as far as this node can see them: they   *)
(* sign vertices the way CreateGenesis and CreateLeaf do.                  *)

ParentEdges(S) ==
  UNION {{<<p, h>> : p \in ParentHashes(h) \ {NoVertex}} : h \in S}
SignedVertices == {h \in Vertex : IsSigned(h)}
NetworkAncestors(h) == AncestorsIn(ParentEdges(SignedVertices), h)

DistinctTrxs(S) == \A g, h \in S : TrxOf(g) = TrxOf(h) => g = h

Sign(v) == signed' = [signed EXCEPT ![NewHash] = v]

PeerCreateGenesis(n, t) ==
  /\ SignedVertices = {}
  /\ t.issuer = n /\ t.receiver # n
  /\ Sign(NewVertex(t, NoVertex, NoVertex, 0, n))
  /\ UNCHANGED <<dagVars, storageVars, counterVars, startVars, thread,
                 truncateVars, replierVars>>

(* Bound of the model. *)
PeersMaySign ==
  /\ SomeUnsigned /\ HashToSpare
  /\ Cardinality({h \in SignedVertices : signed[h].signer \in Peer /\ signed[h].left # NoVertex})
       < MaxPeerLeaves

(* Node n has l and r as valid leaves of its own DAG, in which every        *)
(* transaction appears once.                                               *)
PeerCreateLeaf(n, t, l, r) ==
  /\ ~ IsEmpty(t)
  /\ t.issuer # n
  /\ \A h \in SignedVertices : signed[h].left = NoVertex => t.issuer # TrxOf(h).issuer
  /\ l \notin NetworkAncestors(r) /\ r \notin NetworkAncestors(l)
  /\ LET S == {l, r} \cup NetworkAncestors(l) \cup NetworkAncestors(r)
     IN  DistinctTrxs(S) /\ \A h \in S : TrxOf(h) # t
  /\ Sign(NewVertex(t, l, r, calcNewWeight(l, r), n))
  /\ UNCHANGED <<dagVars, storageVars, counterVars, startVars, thread,
                 truncateVars, replierVars>>

-----------------------------------------------------------------------------
(* Startup *)

CreateGenesis(t) ==
  /\ loader = "none"
  /\ SignedVertices = {}
  /\ t.issuer = Self /\ t.receiver # Self
  /\ Sign(NewVertex(t, NoVertex, NoVertex, 0, Self))
  /\ dag' = dag \cup {NewHash}
  /\ trxsToVertx' = [trxsToVertx EXCEPT ![t] = NewHash]
  /\ weight' = Max({weight, InitialThroughput})
  /\ throughput' = InitialThroughput + Cardinality(Leaves \cup {NewHash}) + 1
  /\ dagLoaded' = TRUE
  /\ genesisAddress' = Self
  /\ loader' = "done"
  /\ UNCHANGED <<edges, storageVars, thread, truncateVars, replierVars>>

MissesParent(h, S) == ~ (ParentHashes(h) \subseteq S \cup {NoVertex})

(* What a peer may stream: each vertex after a child of it, unless it is a  *)
(* leaf of the peer; cut anywhere.                                          *)
Streamable(S) ==
  /\ DistinctTrxs(S)
  /\ \A p, h \in S : p \in NetworkAncestors(h) => \E c \in S : p \in ParentHashes(c)

(* What LoadDag does with a stream of the vertices S before their edges. *)
ReceiveStream(S) ==
  /\ Streamable(S)
  /\ dag' = S
  /\ trxsToVertx' = [t \in Trx |-> IF \E h \in S : TrxOf(h) = t
                                   THEN CHOOSE h \in S : TrxOf(h) = t
                                   ELSE trxsToVertx[t]]
  /\ loader' = "unlocked"
  /\ UNCHANGED <<signed, storageVars, counterVars, thread, replierVars,
                 truncateSignal, truncator>>

LoadDag(S) ==
  /\ S # {}
  /\ \A h \in S : ~ MissesParent(h, S)
  /\ ReceiveStream(S)
  /\ edges' = ParentEdges(S)
  /\ \E h \in S : /\ signed[h].left = NoVertex
                  /\ genesisAddress' = TrxOf(h).issuer
  /\ \E h \in S : /\ \A g \in S : signed[g].weight <= signed[h].weight
                  /\ nextWeightTruncate' = nextWeightTruncate + signed[h].weight
  /\ dagLoaded' = TRUE

\* Mutant of LoadDagFails: a failing AddEdge is ignored.
LoadDagIgnoresFailure(S) ==
  /\ ReceiveStream(S)
  /\ S # {}
  /\ edges' = {e \in ParentEdges(S) : e[1] \in S}
  /\ dagLoaded' = TRUE
  /\ UNCHANGED <<genesisAddress, nextWeightTruncate>>

(* The stream was cut or the peer's DAG is truncated: no vertex arrived, or *)
(* AddEdge fails for a vertex whose parent is missing, after the edges of  *)
(* some others.  The other early returns need the index of an earlier run  *)
(* of the node, or a stream that no node sends: a hash twice, an empty     *)
(* transaction, a second one of the wallet of its signer.                  *)
LoadDagFails(S) ==
  /\ ReceiveStream(S)
  /\ \/ S = {} /\ UNCHANGED edges
     \/ \E h \in S, done \in SUBSET {g \in S : ~ MissesParent(g, S)} :
          /\ MissesParent(h, S)
          /\ edges' = ParentEdges(done) \cup {<<p, h>> : p \in {signed[h].left} \cap S}
  /\ UNCHANGED <<dagLoaded, genesisAddress, nextWeightTruncate>>

(* The deferred calls of LoadDag run after it released the lock:            *)
(* updateWeightAndThroughput stores the weight, then the throughput, and    *)
(* the throughput is reset last.                                            *)
DeferredWeight ==
  /\ loader = "unlocked"
  /\ weight' = Max({weight, InitialThroughput})
  /\ loader' = "weighed"
  /\ UNCHANGED <<signed, dagVars, storageVars, throughput, dagLoaded, genesisAddress,
                 thread, truncateVars, replierVars>>

DeferredCount ==
  /\ loader = "weighed"
  /\ throughput' = throughput + Cardinality(Leaves) + 1
  /\ loader' = "counted"
  /\ UNCHANGED <<signed, dagVars, storageVars, weight, dagLoaded, genesisAddress,
                 thread, truncateVars, replierVars>>

DeferredReset ==
  /\ loader = "counted"
  /\ throughput' = InitialThroughput
  /\ loader' = "done"
  /\ UNCHANGED <<signed, dagVars, storageVars, weight, dagLoaded, genesisAddress,
                 thread, truncateVars, replierVars>>

-----------------------------------------------------------------------------
(* The lock ab.mux: held by the handler that scans leaves, looks at         *)
(* parents or waits for room in truncateSignal.  A panic ends the process,  *)
(* so nobody gets the lock after one.                                       *)

Locked == \E th \in Thread : thread[th].at \in {"scan", "parents", "send", "panic"}

Goto(th, state) == thread' = [thread EXCEPT ![th] = state]

(* The last statement under the lock: send the weight of the new vertex. *)
SendSignal(th) ==
  /\ thread[th].at = "send"
  /\ Len(truncateSignal) < InitialThroughput
  /\ truncateSignal' = Append(truncateSignal, thread[th].weight)
  /\ Goto(th, Idle)
  /\ UNCHANGED <<signed, dagVars, storageVars, counterVars, startVars,
                 nextWeightTruncate, truncator, replierVars>>

(* The new leaf enters the DAG below its parents, the transaction index     *)
(* first; AddVertexByID refuses a hash that is in the DAG and the index    *)
(* entry is taken back.                                                    *)
AddToDag(th, h, v) ==
  /\ trxsToVertx' = [trxsToVertx EXCEPT ![v.trx] = IF h \in dag THEN NoVertex ELSE h]
  /\ dag' = dag \cup {h}
  /\ edges' = IF h \in dag THEN edges ELSE edges \cup {<<v.left, h>>, <<v.right, h>>}
  /\ Goto(th, IF h \in dag THEN Idle ELSE [at |-> "send", weight |-> v.weight])

-----------------------------------------------------------------------------
(* CreateLeaf *)

(* The checks made before the lock is taken. *)
CreateLeaf(th, t) ==
  /\ thread[th] = Idle
  /\ throughput <= MaxThroughput
  /\ dagLoaded
  /\ ~ IsEmpty(t)
  /\ t.issuer # Self
  /\ t.issuer # genesisAddress
  /\ ~ checkTrxInVertexExists(t)
  /\ HashToSpare
  /\ Goto(th, [at |-> "create", trx |-> t])
  /\ UNCHANGED <<signed, dagVars, storageVars, counterVars, startVars,
                 truncateVars, replierVars>>

(* getValidLeaves for transaction t, with leaves to look at, valid leaves    *)
(* found, an error or none, and a request that was given up or not.          *)
Scan(t, todo, valid, err, stopped) ==
  [at |-> "scan", trx |-> t, todo |-> todo, valid |-> valid, err |-> err, stopped |-> stopped]

(* The lock is taken and getValidLeaves starts over the current leaves. *)
CreateLeafLock(th) ==
  /\ thread[th].at = "create"
  /\ ~ Locked
  /\ Goto(th, Scan(thread[th].trx, Leaves, <<>>, FALSE, FALSE))
  /\ UNCHANGED <<signed, dagVars, storageVars, counterVars, startVars,
                 truncateVars, replierVars>>

Scanning(th) == thread[th].at = "scan" /\ Len(thread[th].valid) < 2

(* One iteration of getValidLeaves, for leaf h in map order.  The error of *)
(* the last iteration is the one that is returned.                         *)
ScanValidLeaf(th, h) ==
  /\ Scanning(th)
  /\ h \in thread[th].todo
  /\ validateLeaf(h)
  /\ ~ (thread[th].stopped /\ WalksAncestors(h))
  /\ Goto(th, Scan(thread[th].trx, thread[th].todo \ {h}, Append(thread[th].valid, h), FALSE,
                   thread[th].stopped))
  /\ UNCHANGED <<signed, dagVars, storageVars, counterVars, startVars,
                 truncateVars, replierVars>>

(* The context of the request may end during a walk, and then stays ended. *)
ScanInvalidLeaf(th, h) ==
  /\ Scanning(th)
  /\ h \in thread[th].todo
  /\ \E stopped \in {thread[th].stopped, thread[th].stopped \/ WalksAncestors(h)} :
       /\ ~ validateLeaf(h) \/ (stopped /\ WalksAncestors(h))
       /\ Goto(th, Scan(thread[th].trx, thread[th].todo \ {h}, thread[th].valid, TRUE, stopped))
  /\ Reject(h)
  /\ UpdateWeightAndThroughput(signed[h].weight,
       Cardinality({g \in dag' : \A e \in edges' : e[1] # g}))
  /\ UNCHANGED <<signed, storageVars, dagLoaded, genesisAddress, truncateVars, replierVars>>

ScanDone(th) ==
  /\ thread[th].at = "scan"
  /\ thread[th].todo = {} \/ Len(thread[th].valid) = 2

(* getValidLeaves returned an error, or saveTrxInVertex finds that the      *)
(* transaction was added since it was checked.                             *)
CreateLeafFails(th) ==
  /\ ScanDone(th)
  /\ thread[th].err \/ (thread[th].valid # <<>> /\ saveTrxInVertexFails(thread[th].trx))
  /\ Goto(th, Idle)
  /\ UNCHANGED <<signed, dagVars, storageVars, counterVars, startVars,
                 truncateVars, replierVars>>

CreateTip(th) ==
  /\ ScanDone(th)
  /\ ~ thread[th].err
  /\ thread[th].valid # <<>>
  /\ ~ saveTrxInVertexFails(thread[th].trx)
  /\ SomeUnsigned
  /\ LET l == Head(thread[th].valid)
         r == Last(thread[th].valid)
         v == NewVertex(thread[th].trx, l, r, calcNewWeight(l, r), Self)
     IN  Sign(v) /\ AddToDag(th, NewHash, v)
  /\ UNCHANGED <<storageVars, counterVars, startVars, truncateVars, replierVars>>

(* No leaf at all: the check of the second scan is inverted and the missing *)
(* left leaf is dereferenced.                                              *)
CreateLeafPanics(th) ==
  /\ ScanDone(th)
  /\ ~ thread[th].err
  /\ thread[th].valid = <<>>
  /\ Goto(th, [at |-> "panic"])
  /\ UNCHANGED <<signed, dagVars, storageVars, counterVars, startVars,
                 truncateVars, replierVars>>

-----------------------------------------------------------------------------
(* AddLeaf and addLeafMemorized *)

(* The checks of addLeafMemorized made before the lock is taken. *)
PassesChecks(h) ==
  /\ TrxOf(h).issuer # genesisAddress
  /\ h \notin dag \cup stored
  /\ ~ checkTrxInVertexExists(TrxOf(h))

Adding(m) == [at |-> "add", m |-> m, todo |-> <<signed[m.vrx].left, signed[m.vrx].right>>]

AddLeaf(th, h) ==
  /\ thread[th] = Idle
  /\ throughput <= MaxThroughput
  /\ dagLoaded
  /\ TrxOf(h).issuer # signed[h].signer
  /\ ~ IsEmpty(TrxOf(h))
  /\ PassesChecks(h)
  /\ Goto(th, Adding(newMemory(h)))
  /\ UNCHANGED <<signed, dagVars, storageVars, counterVars, startVars,
                 truncateVars, replierVars>>

(* The subscriber takes a memory from the replier and replays it. *)
ReplayLeaf ==
  /\ thread[Subscriber] = Idle
  /\ pub # <<>>
  /\ throughput <= MaxThroughput
  /\ pub' = Tail(pub)
  /\ Goto(Subscriber, IF PassesChecks(Head(pub).vrx) THEN Adding(Head(pub)) ELSE Idle)
  /\ UNCHANGED <<signed, dagVars, storageVars, counterVars, startVars,
                 truncateVars, members>>

AddLeafLock(th) ==
  /\ thread[th].at = "add"
  /\ ~ Locked
  /\ Goto(th, [thread[th] EXCEPT !.at = "parents"])
  /\ UNCHANGED <<signed, dagVars, storageVars, counterVars, startVars,
                 truncateVars, replierVars>>

NextParent(th, p) ==
  /\ thread[th].at = "parents"
  /\ thread[th].todo # <<>>
  /\ p = Head(thread[th].todo)

(* The parent is not in the DAG: the leaf is memorised, or refused when the *)
(* buffer is full or it was memorised too often.                           *)
MemorizeLeaf(th, p) ==
  /\ NextParent(th, p)
  /\ p \notin dag
  /\ Insert(thread[th].m)
  /\ Goto(th, Idle)
  /\ UNCHANGED <<signed, dagVars, storageVars, counterVars, startVars, truncateVars>>

\* Mutant of RefuseLeaf: the error path keeps the lock.
RefuseLeafLocked(th, p) ==
  /\ NextParent(th, p)
  /\ p \notin dag
  /\ ~ CanInsert(thread[th].m)
  /\ UNCHANGED vars

RefuseLeaf(th, p) ==
  /\ NextParent(th, p)
  /\ p \notin dag
  /\ ~ CanInsert(thread[th].m)
  /\ Goto(th, Idle)
  /\ UNCHANGED <<signed, dagVars, storageVars, counterVars, startVars,
                 truncateVars, replierVars>>

(* A replay has no request whose context could end. *)
RejectParent(th, p) ==
  /\ NextParent(th, p)
  /\ p \in Leaves
  /\ ~ validateLeaf(p) \/ (th \in Handler /\ WalksAncestors(p))
  /\ Reject(p)
  /\ Goto(th, Idle)
  /\ UNCHANGED <<signed, storageVars, counterVars, startVars, truncateVars, replierVars>>

AcceptParent(th, p) ==
  /\ NextParent(th, p)
  /\ p \in Leaves
  /\ validateLeaf(p)
  /\ UpdateWeightAndThroughput(signed[p].weight, Cardinality(Leaves))
  /\ Goto(th, [thread[th] EXCEPT !.todo = Tail(@)])
  /\ UNCHANGED <<signed, dagVars, storageVars, dagLoaded, genesisAddress,
                 truncateVars, replierVars>>

(* A parent that has children already is not validated again. *)
PassParent(th, p) ==
  /\ NextParent(th, p)
  /\ p \in dag \ Leaves
  /\ Goto(th, [thread[th] EXCEPT !.todo = Tail(@)])
  /\ UNCHANGED <<signed, dagVars, storageVars, counterVars, startVars,
                 truncateVars, replierVars>>

ParentsDone(th) == thread[th].at = "parents" /\ thread[th].todo = <<>>

(* saveTrxInVertex finds that the transaction was added since it was checked. *)
AddLeafFails(th) ==
  /\ ParentsDone(th)
  /\ saveTrxInVertexFails(TrxOf(thread[th].m.vrx))
  /\ Goto(th, Idle)
  /\ UNCHANGED <<signed, dagVars, storageVars, counterVars, startVars,
                 truncateVars, replierVars>>

AddVertex(th) ==
  /\ ParentsDone(th)
  /\ ~ saveTrxInVertexFails(TrxOf(thread[th].m.vrx))
  /\ AddToDag(th, thread[th].m.vrx, signed[thread[th].m.vrx])
  /\ UNCHANGED <<signed, storageVars, counterVars, startVars, truncateVars, replierVars>>

-----------------------------------------------------------------------------
(* Truncation *)

checkCanTruncate(current, desired) ==
  current > desired /\ current > TruncateDiff /\ current - TruncateDiff > desired

(* runTruncate receives a weight: too low to truncate, or time to truncate. *)
IgnoreSignal ==
  /\ truncator = Waiting
  /\ truncateSignal # <<>>
  /\ ~ checkCanTruncate(Head(truncateSignal), nextWeightTruncate)
  /\ truncateSignal' = Tail(truncateSignal)
  /\ UNCHANGED <<signed, dagVars, storageVars, counterVars, startVars, thread,
                 nextWeightTruncate, truncator, replierVars>>

HeedSignal ==
  /\ truncator = Waiting
  /\ truncateSignal # <<>>
  /\ checkCanTruncate(Head(truncateSignal), nextWeightTruncate)
  /\ truncateSignal' = Tail(truncateSignal)
  /\ truncator' = [at |-> "locking", weight |-> Head(truncateSignal)]
  /\ UNCHANGED <<signed, dagVars, storageVars, counterVars, startVars, thread,
                 nextWeightTruncate, replierVars>>

(* The ancestors a walk from h may visit after those of s: AncestorsWalker  *)
(* goes breadth first, through the parents of a vertex in any order.        *)
NextVisited(h, s) ==
  LET At(j) == IF j = 0 THEN h ELSE s[j]
      Unvisited(j) == ParentsIn(edges, At(j)) \ Range(s)
      open == {j \in 0..Len(s) : Unvisited(j) # {}}
  IN  IF open = {} THEN {} ELSE Unvisited(Min(open))

(* hashAtDepth: the hashes a walk from h may come to after TruncateDiff     *)
(* vertices.                                                                *)
HashesAtDepth(h) ==
  LET walk[n \in Nat] ==
        IF n = 0
        THEN {<<>>}
        ELSE UNION {{Append(s, x) : x \in NextVisited(h, s)} : s \in walk[n - 1]}
  IN  {Last(s) : s \in walk[TruncateDiff]}

(* What updateFounds adds to the outgoing funds of a: for a transfer to     *)
(* oneself the entry of the receiver overwrites the entry of the issuer.   *)
SettledOut(a, S) == Issued(a, {h \in S : TrxOf(h).receiver # a})

\* Mutant of SettledFunds: the funds of earlier truncations are forgotten.
SettledFundsAnew(a, S) ==
  LET in == Received(a, S)
  IN  IF SettledOut(a, S) <= in THEN in - SettledOut(a, S) ELSE in

(* What saveToStorage stores for a: the error of Drain is dropped, and the  *)
(* incoming funds stay as they are when they do not cover the outgoing.    *)
SettledFunds(a, S) ==
  LET in == funds[a] + Received(a, S)
  IN  IF SettledOut(a, S) <= in THEN in - SettledOut(a, S) ELSE in

\* Mutants of MoveToStorage: leaves left without ancestors are deleted as well;
\* the walk leaves out the oldest vertex; the first vertices that stay are stored
\* too.
MoveToStorageDropsOrphans(gone) ==
  LET orphans == {h \in Leaves : IsRoot(h)}
  IN  /\ stored' = stored \cup gone
      /\ funds' = [a \in Address |-> SettledFunds(a, gone)]
      /\ dag' = dag \ (gone \cup orphans)
      /\ edges' = EdgesWithout(gone)
      /\ trxsToVertx' = [t \in Trx |-> IF trxsToVertx[t] \in orphans THEN NoVertex
                                       ELSE trxsToVertx[t]]
MoveToStorageRootless(gone) ==
  LET some == {h \in gone : ~ IsRoot(h)}
  IN  /\ stored' = stored \cup some
      /\ funds' = [a \in Address |-> SettledFunds(a, some)]
      /\ dag' = dag \ some
      /\ edges' = EdgesWithout(some)
      /\ UNCHANGED trxsToVertx
MoveToStorageTooMuch(gone) ==
  /\ stored' = stored \cup gone \cup {e[2] : e \in {e \in edges : e[1] \in gone}}
  /\ funds' = [a \in Address |-> SettledFunds(a, gone)]
  /\ dag' = dag \ gone
  /\ edges' = EdgesWithout(gone)
  /\ UNCHANGED trxsToVertx

(* Vertices and the funds settled by them are stored, then the vertices are *)
(* deleted from the DAG.  One step: the lock is held from the first store   *)
(* to the last deletion.  Of those that read without it, readVertex looks   *)
(* in the DAG and in the storage both, and a peer that StreamDAG serves may *)
(* get any part (LoadDag).  A truncation that the end of the node or a      *)
(* failing database cuts short is left out.                                 *)
MoveToStorage(gone) ==
  /\ stored' = stored \cup gone
  /\ funds' = [a \in Address |-> SettledFunds(a, gone)]
  /\ dag' = dag \ gone
  /\ edges' = EdgesWithout(gone)
  /\ UNCHANGED trxsToVertx

(* truncate from leaf h, with top the vertex at truncation depth. *)
TruncateBelow(h, top) ==
  /\ truncator.at = "locking"
  /\ ~ Locked
  /\ h \in Leaves
  /\ top \in HashesAtDepth(h)
  /\ LET gone == Ancestors(top) IN MoveToStorage(gone)
  /\ nextWeightTruncate' = nextWeightTruncate + truncator.weight
  /\ truncator' = Waiting
  /\ UNCHANGED <<signed, trusted, counterVars, startVars, thread, truncateSignal, replierVars>>

(* truncate ends early: there is no leaf at all, or a leaf has too few      *)
(* ancestors, the hash at depth stays zero, no vertex has it, and the fatal *)
(* error ends the loop.                                                     *)
TruncateFails ==
  /\ truncator.at = "locking"
  /\ ~ Locked
  /\ Leaves = {} \/ \E h \in Leaves : HashesAtDepth(h) = {}
  /\ truncator' = IF Leaves = {} THEN Waiting ELSE Fatal
  /\ nextWeightTruncate' =
       IF Leaves = {} THEN nextWeightTruncate + truncator.weight ELSE nextWeightTruncate
  /\ UNCHANGED <<signed, dagVars, storageVars, counterVars, startVars, thread,
                 truncateSignal, replierVars>>

-----------------------------------------------------------------------------
(* Trusted nodes, ticks of the replier, and the specification *)

AddTrustedNode(n) ==
  /\ trusted' = trusted \cup {n}
  /\ UNCHANGED <<signed, dagVars, stored, funds, counterVars, startVars, thread,
                 truncateVars, replierVars>>

RemoveTrustedNode(n) ==
  /\ trusted' = trusted \ {n}
  /\ UNCHANGED <<signed, dagVars, stored, funds, counterVars, startVars, thread,
                 truncateVars, replierVars>>

ReplierTick ==
  /\ Tick
  /\ UNCHANGED <<signed, dagVars, storageVars, counterVars, startVars, thread,
                 truncateVars>>

Start ==
  \/ \E t \in Trx : CreateGenesis(t)
  \/ loader = "none" /\ \E S \in SUBSET SignedVertices : LoadDag(S) \/ LoadDagFails(S)
  \/ DeferredWeight \/ DeferredCount \/ DeferredReset

Network ==
  \/ \E n \in Peer, t \in Trx : PeerCreateGenesis(n, t)
  \/ PeersMaySign /\ \E n \in Peer, t \in Trx, l, r \in SignedVertices : PeerCreateLeaf(n, t, l, r)

CreateLeafStep(th) ==
  \/ CreateLeafLock(th)
  \/ \E h \in Vertex : ScanValidLeaf(th, h) \/ ScanInvalidLeaf(th, h)
  \/ CreateLeafFails(th) \/ CreateTip(th) \/ CreateLeafPanics(th)

AddLeafStep(th) ==
  \/ AddLeafLock(th)
  \/ \E p \in Hash : \/ MemorizeLeaf(th, p) \/ RefuseLeaf(th, p)
                     \/ RejectParent(th, p) \/ AcceptParent(th, p) \/ PassParent(th, p)
  \/ AddLeafFails(th) \/ AddVertex(th)

ThreadStep(th) == CreateLeafStep(th) \/ AddLeafStep(th) \/ SendSignal(th)

TruncatorStep ==
  \/ IgnoreSignal \/ HeedSignal \/ TruncateFails
  \/ \E h, top \in Vertex : TruncateBelow(h, top)

Next ==
  \/ Start
  \/ Network
  \/ \E th \in Handler, t \in Trx : CreateLeaf(th, t)
  \/ \E th \in Handler, h \in SignedVertices : AddLeaf(th, h)
  \/ \E th \in Thread : ThreadStep(th)
  \/ ReplayLeaf
  \/ ReplierTick
  \/ TruncatorStep
  \/ \E n \in Trustable : AddTrustedNode(n) \/ RemoveTrustedNode(n)

Spec == Init /\ [][Next]_vars

(* Goroutines that can run do run, and whoever waits for the lock while it  *)
(* is released again and again gets it: sync.RWMutex hands it over to       *)
(* waiters that starve.  Nothing is assumed of requests and of peers.       *)
Fairness ==
  /\ \A th \in Thread : /\ WF_vars(ThreadStep(th))
                        /\ SF_vars(CreateLeafLock(th) \/ AddLeafLock(th))
  /\ WF_vars(TruncatorStep) /\ SF_vars(truncator.at = "locking" /\ TruncatorStep)
  /\ WF_vars(ReplayLeaf) /\ WF_vars(ReplierTick)

-----------------------------------------------------------------------------
(* Properties *)

(* "The inner transaction is unique per DAG" (README.md): the transaction   *)
(* index knows exactly the vertices of the DAG and of the storage, each by *)
(* its own transaction.  Handlers that pass their checks with the same     *)
(* transaction, rejected leaves and truncation must all keep it so.        *)
TrxIndexed ==
  /\ \A h \in dag \cup stored : IsSigned(h) /\ trxsToVertx[TrxOf(h)] = h
  /\ \A t \in Trx : trxsToVertx[t] # NoVertex =>
       trxsToVertx[t] \in dag \cup stored /\ TrxOf(trxsToVertx[t]) = t

(* No vertex of the DAG is in the storage already, so saveVertexToStorage   *)
(* never refuses a vertex in the middle of a truncation.                   *)
StoredOnce == dag \cap stored = {}

(* In a loaded DAG the edges are the parent hashes the vertices carry, and  *)
(* a parent that is not in the DAG any more is in the storage: no rejected *)
(* vertex is ever left as a parent.                                        *)
EdgesAreParents ==
  dagLoaded =>
    /\ edges = {e \in dag \X dag : e[1] \in ParentHashes(e[2])}
    /\ \A h \in dag : ParentHashes(h) \subseteq dag \cup stored \cup {NoVertex}

(* What is in the storage refers to nothing that can still be rejected: a   *)
(* truncation that runs to its end takes a vertex only with all its        *)
(* ancestry, whichever leaf and depth it started from.                     *)
StorageIsClosed == \A h \in stored : ParentHashes(h) \subseteq stored \cup {NoVertex}

(* "Leaf isn't proving transaction validity until it becomes a vertex via   *)
(* an edge" (README.md): while nothing is truncated, a transfer with a     *)
(* child, signed by a node that was never trusted, is covered by the funds *)
(* its ancestry gave the issuer.                                           *)
ReferencedAreFunded ==
  stored = {} =>
    \A h \in dag :
      (~ IsLeaf(h) /\ ~ IsRoot(h) /\ IsSpiceTransfer(TrxOf(h))
         /\ signed[h].signer \notin Trustable) => HasSufficientFunds(h)

(* A loaded DAG always has a leaf for CreateLeaf to build on. *)
LoadedHasLeaf == dagLoaded => Leaves # {}

(* What wallet a can spend at vertex h: its stored funds and the balance of *)
(* h and its ancestry.                                                     *)
Spendable(a, h) ==
  LET S == Ancestors(h) \cup {h} IN funds[a] + Received(a, S) - Issued(a, S)

(* "Precalculatedfunds are funds of given wallet precalculated up to given  *)
(* hash" (precalculate.go): a truncation changes what no wallet can spend at *)
(* the vertices above all that was truncated, except the wallet of the     *)
(* genesis node, that pays the genesis without funds.                      *)
TruncationKeepsFunds ==
  [][stored # stored' =>
       \A h \in dag', a \in Address \ {genesisAddress} :
         (stored' \ stored) \subseteq Ancestors(h) => Spendable(a, h)' = Spendable(a, h)]_vars

(* The one way to wait for ever: a handler holds the lock and waits for     *)
(* room in truncateSignal, the truncation loop has taken a signal, waits   *)
(* for the lock, and makes no room.                                        *)
Wedged ==
  /\ truncator.at = "locking" /\ Len(truncateSignal) = InitialThroughput
  /\ \E th \in Thread : thread[th].at = "send"

(* Every request is answered, whatever the other handlers, the subscriber,  *)
(* the ticker and the truncation loop do, unless the node is wedged, has a *)
(* fatal error or panics.                                                  *)
RequestsFinish ==
  \A th \in Handler :
    thread[th].at # "idle" ~>
      \/ thread[th].at \in {"idle", "panic"}
      \/ Wedged
      \/ truncator = Fatal

(* No wallet but the genesis wallet spends more than it got, counted over   *)
(* all vertices that are validated by a child.                             *)
NoDoubleSpend ==
  LET S == stored \cup {h \in dag : ~ IsLeaf(h)}
  IN  \A a \in Address \ {genesisAddress} : Issued(a, S) <= Received(a, S)

=============================================================================
