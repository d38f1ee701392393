# A TLA+ verification of Computantis

Computantis is a distributed ledger whose nodes keep transactions in a directed
acyclic graph (DAG). A vertex carries one transaction and the hashes of two
parents; a node validates the leaves it builds on, so a leaf counts only once
another vertex refers to it. This project models the node and its C client in
TLA+, checks the models with TLC on small instances, and proves the main
invariants with TLAPS for every size.

Go packages below are under `src/src/`, the C client under
`src/src_c/client-node/`. `PROJECT.json` maps every definition to its lines.

## 1. The system and its parts

| Part | Source | What it does | Modules |
|---|---|---|---|
| accounting book | `accountant/accountant.go`, `vertex.go`, `storage.go`, `helper.go` | the DAG, the transaction index, truncation to storage, trusted nodes | `AccountingBook`; its promise: `Ledger`, `BookLedger` |
| replier | `accountant/replier.go` | keeps vertices whose parent is unknown and replays them | `Replier` |
| funds | `accountant/founds.go`, `precalculate.go`, `balance.go` | sums of what a wallet received and spent | `Funds` |
| spice | `spice/spice.go` | amounts as two unsigned digits | `Spice` |
| gossip | `gossip/gossip.go` | joining, spreading vertices, fetching lacking parents | `Gossip` |
| flashback memory | `cache/flashback.go` | hashes seen recently | `Gossip` |
| pipe | `pipe/pipe.go` | channels from the notary server to gossip | `vrxCh` in `Gossip`, `trxCh` in `Notary` |
| notary server | `notaryserver/notary.server.go` | propose, confirm, reject, waiting, balance | `Notary` |
| awaited transactions cache | `cache/cache.go` | contracts that await a receiver, lists per address, balances | `Hippocampus` |
| C client | `address/`, `signer/`, `signature/`, `transaction/`, `config/` | base58 addresses, keys, signatures, transactions, configuration | `Base58`, `Address`, `Signer`, `Transaction`, `ClientConfig` |
| C test framework | `test-framework/unity.c` and headers | runs the client's tests and decides their assertions | `UnityRunner`, `UnityAssert`, `UnityVerdicts` |

Section 7 lists what is not modelled.

A request enters a node at the notary server. A transfer becomes a leaf of the
accounting book at once (`CreateLeaf`); a contract is put in the cache of
awaited transactions until its receiver confirms or rejects it. A new vertex
goes through the pipe to gossip, which calls `GossipVrx` of the other nodes;
there `AddLeaf` takes it, and the handler passes it on. A node whose book lacks
a parent memorises the vertex in the replier and asks its connections for the
parent. A node that joins receives the DAG as a stream (`LoadDag`), asks the
genesis node for the others (`Discover`) and announces itself to each.

Inside one node any number of handlers, the leaf subscriber that replays
memorised vertices, the ticker of the replier, the truncation loop and, at
start-up, the loader share the accounting book. `ab.mux` protects the DAG; the
first checks of each handler, the two counters, the replier's slice and the
signal channel are outside of it or only partly inside. The cache has no lock
around its operations at all. That is where most hazards come from.

How the models compose: `AccountingBook` is one node in full detail. `Ledger`
says what it promises to its users, and the refinement is checked and proved.
`Notary` and `Gossip` use that promise in place of the book: a vertex is taken
in one step below parents that are held and never with a transaction that is
held already, and a leaf may be dropped.

## 2. The node

### Replier
`members` and `pub` are the slice and the channel. `Tick` is `getNext` and the
send. `Insert` is `insert`: it runs under `ab.mux`, the ticker does not, so
`InsertRacesTick` gives the outcomes of the two unsynchronised writes to one
slice header (a memory kept, lost, or both applied). The comparison of the sort
reads one operand twice, and `Before` keeps that.

### AccountingBook
One node. `signed` holds every vertex any node of the network signed, by hash:
a vertex is its hash. `dag` and `edges` are the graph; `trxsToVertx` is the
index from transactions to vertices; `stored` and `funds` are what truncation
moved to the database. `weight` and `throughput` are the counters that set the
minimal weight of a leaf. `thread` is what each handler is doing, `truncator`
and `loader` the same for the truncation loop and the start-up.

| Code | Actions |
|---|---|
| `CreateGenesis` | `CreateGenesis` |
| `LoadDag` | `LoadDag`, `LoadDagFails`; its deferred calls after the unlock: `DeferredWeight`, `DeferredCount`, `DeferredReset` |
| `CreateLeaf`, `getValidLeaves` | `CreateLeaf` (checks without the lock), `CreateLeafLock`, `ScanValidLeaf`, `ScanInvalidLeaf`, then `CreateTip`, `CreateLeafFails` or `CreateLeafPanics` |
| `AddLeaf`, `addLeafMemorized` | `AddLeaf` or `ReplayLeaf` (checks without the lock), `AddLeafLock`, per parent `MemorizeLeaf`, `RefuseLeaf`, `RejectParent`, `AcceptParent`, `PassParent`, then `AddVertex` or `AddLeafFails` |
| send on `truncateSignal` | `SendSignal`, under the lock |
| `runTruncate`, `truncate` | `IgnoreSignal`, `HeedSignal`, `TruncateBelow`, `TruncateFails` |
| `AddTrustedNode`, `RemoveTrustedNode` | the same |
| replier ticker | `ReplierTick` |
| other nodes | `PeerCreateGenesis`, `PeerCreateLeaf` (external) |

Every iteration of a loop under the lock is a step, because the counters, the
trusted nodes and the replier change without the lock between two of them. The
order in which Go iterates over a map of leaves is a choice. The context of a
request may end while `validateLeaf` walks over ancestors (`WalksAncestors`):
the walk fails, and as both callers delete a leaf on any error, a valid leaf
may be deleted at any such point.

Abstractions:
- Amounts are natural numbers. `Funds` shows that the real arithmetic decides
  alike below the limit of the representation.
- Signature and encoding failures change no state and are left out.
- Peers may sign any vertex on any parents they know, in any order; this covers
  more than a correct peer does.
- A truncation is one step. The lock is held from the first store to the last
  deletion, `readVertex` looks in the DAG and in the storage both, and a peer
  may be streamed any part. What a truncation leaves that a failing database or
  the end of the process cuts short is not modelled; nothing else cuts it, as
  `nextVertex` fails for no vertex of the DAG.
- The database calls succeed. Where an error would end the process, the model
  lets the loop stop and the handlers go on, which covers the real behaviour.
- `updateWeightAndThroughput` of a handler is one step. Its load and store may
  interleave with the deferred calls of `LoadDag`; those are split into their
  own steps, the handler's are not.
- `LoadDagFails` covers a stream that is cut, out of order or empty. The other
  early returns of `LoadDag` need the index of an earlier life of the node or
  vertices that no node running this code streams.
- The overlap of `insert` and `getNext` never yields an empty memory. In the
  program one is dropped by the subscriber.

### Ledger and BookLedger
`Ledger` is the abstract specification of an accounting book: the vertices it
holds, and those of them it will never give up. Its steps are `Open` (genesis
or stream), `Take` one vertex with a new transaction below held parents, `Drop`
one vertex nothing unsettled was built on, `Settle`, and `SignElsewhere`; no
step changes a signed vertex. `BookLedger` instantiates it with
`held <- dag \cup stored` and `settled <- stored`. `ImplementsLedger` is the
whole specification, `StepsOfLedger` its next-state part for runs that start on
a node that is already running.

### Spice and Funds
`Spice` models `New`, `Supply` and `Transfer` (`Drain`) on two digits with
wrapping arithmetic (`Wrap`), with the checks and their order as in the code.
`Funds` is one walk over the transfers of one wallet: the one of `validateLeaf`,
of `CalculateBalance`, or of `truncate`. `received` and `spent` are the exact
sums the results are compared with. Amounts are taken to be normalised, as
`New` makes them for an input below twice the limit.

### Hippocampus and Notary
`Hippocampus` is the cache over bigcache. `Get`, `Set` and `Delete` of bigcache
are atomic and each is a step; the operations of the cache are sequences of
them, so two read-modify-writes of one list may overlap. A list is the sequence
of the pieces between the commas of its bytes, empty pieces included, since
`remove` leaves them; no entry is no piece at all. Any entry may be evicted at any time.

`Notary` adds the handlers that use it: `Propose` (`ProposeContract`,
`ProposeTransfer`), `Confirm`, `Reject`, `Waiting`, `Balance` of the notary
server, `GossipTrx` and `GossipVrx` of gossip. `req` is what each request does
next; the goroutine a handler starts before it answers (removing balances,
keeping a balance) is the last part of its request. `held` and `below` are the
transactions of the accounting book and those in the ancestors of each;
`CalculateBalance` counts one leaf, whichever the map yields last, and its
ancestors, so a balance lacks what is on a parallel branch only. `Replay` and
`Drop` are the steps the accounting book takes by itself. The history variables `hurt`,
`evicted`, `excused` and `outdated` record the ways in which this code does
lose something, so that the properties can say that there is no other.

### Gossip
Several nodes. `nodes`, `stage`, `todo` and `callee` are a node's connections
and its place in `updateNodesConnectionsFromGensisNode`; `loaded`, `held`, `memory`,
`seen` and `vrxCh` its book, replier, flashback memory and pipe; `calls` the
`GossipVrx` calls on their way (`at = "sent"`) and in their handlers, `pulls`
the `processLackingParent` goroutines.

| Code | Actions |
|---|---|
| `updateDag` and the handler `LoadDag` | `LoadDag`: all the peer holds, or a part when the stream breaks off |
| `LoadDag` of the book, in its own goroutine | `DagLoaded`, or never |
| `Discover`, the answer, the lock, the loop | `Discover`, `LockNodes`, `Connect` |
| `Announce` called with the own lock held | `Announce`, `AnnounceFails` |
| `CreateLeaf` of the book, `SendVrx` | `Create` |
| `runVertexGossipProcess`, `gossipVertex` | `Gossip` |
| `GossipVrx`: `HasHash` (get, then set), `sendToAccountant`, passing on | `HasHash`, `NoteHash`, `SendToAccountant`, `PassOn`; `NotLoaded` and `Interrupt` are errors of `AddLeaf` |
| `processLackingParent` | `Pull`, `PullFails` |
| replier of the book | `Replay`, `GiveUp` |
| network and processes | `CallFails`, `Cancel`, `Lose`, `Refuse`, `Drop`, `Forget`, `Restart` |

`updateDag` answers success for a stream that broke off and for a book that
gave up, so a node may serve with a part of the DAG, or with a book that is not
loaded and takes nothing.

`Cancel` and `Interrupt` are consequences of the code: calls that pass a vertex
on carry the context of the handler, which ends when the handler answers. Only
the calls of the creator have the context of the node. A call may be cancelled
before it arrives (`Cancel`) or when the callee has noted the hash and its book
validates a parent (`Interrupt`): then the vertex is refused, the parent is
deleted, and the noted hash keeps later calls from making up for it. `missed` records each <node, vertex>
where the node was not offered the vertex or did not keep it, with its cause in
the action that adds it. The genesis node does not restart in the model: the
code would then know no node at all.

## 3. The C client

`Base58` is the codec of `address/base58.c` with its buffer sizes, carries and
limbs; `EncByte` and `DecChar` are one iteration of its loops. `Address`
(`address/address.c`) encodes a key, delivers the string intact or altered and
decodes it, one iteration per step, and keeps track of the blocks that are
allocated. `Signer` (`signer/signer.c`, `signature/signature.c`) is a program
that uses keys, raw copies, PEM files and signatures in any order; heap blocks
are numbers with contents, `made` remembers what a signature was made from.
`Transaction` is `Transaction_new` phase by phase, with its two refusals and
its exits, and `Transaction_free`. `ClientConfig` is `Config_new_from_file`
with `fgets`, `strtok`, `atoi`, `strncpy` and the URL expression modelled by
what they do; a character is an atom. OpenSSL and libc are external.

`UnityAssert` computes what each assertion of the test framework decides and
prints; `UnityVerdicts` calls them with any arguments of the constants and
states what their names promise; `UnityRunner` runs a suite: `setUp`, test and
`tearDown` with the `setjmp` frames of `RUN_TEST`, and failures, ignores and
early passes that `longjmp` out of them.

Bytes have two bits in `MCUnity`, limbs two bytes in `MCAddress`, because TLC's
integers have 32 bits; widths, masks and sizes are constants of the modules and
everything is computed relative to them.

## 4. Runs

| Run | Question | Distinct states |
|---|---|---|
| `MCGenesis` | a node with two handlers, a peer, and two transfers of which one can be paid: are index and funding of referenced vertices right, is there always a leaf, and is every step one of the ledger? | 1,223,062 |
| `MCJoin` | a node loads a stream of a peer that may be cut and goes on: are the index and the edges right? | 345,394 |
| `MCTruncate` | requests, vertices of a peer and several truncations: is nothing lost, doubled or revalued, and is every request answered? | 61,317 |
| `MCFunds` | do the three walks compute the exact sums? | 160,260 |
| `MCNode` | do concurrent requests and gossip leave the lists, the contracts and the cached balances right? | 3,587,492 |
| `MCGossip` | do nodes that join, restart and gossip over an unreliable network all get connected and get every vertex? | 1,162,163 |
| `MCAddress` | do the buffers hold the right number at every iteration, does the string fit, and does the key come back? | 67,379 |
| `MCSigner` | has every block exactly one owner, and is a verification right? | 2,956,049 |
| `MCTransaction` | are the signed bytes the fields, and all blocks accounted for? | 2,640 |
| `MCConfig` | is what was read what the file says? | 377,356 |
| `MCUnity` | do assertions decide and report what their names say, and does the summary count them? | 1,422,010 |
| `MCDoubleSpend` | is a wallet never overspent? (violated, section 6) | |

What the properties say:
- `TrxIndexed`: the index knows exactly the vertices of the DAG and of the
  storage, each by its own transaction. Handlers test the index before they
  take the lock, so this rests on the second, transactional write under it.
- `EdgesAreParents`: the edges of a loaded DAG are the parent hashes of its
  vertices, and a missing parent was truncated, never rejected.
- `ReferencedAreFunded`: before anything is truncated, a transfer with a child
  that no trusted node signed is covered by its ancestry.
- `LoadedHasLeaf`: there is a leaf to build on, on a node that created the
  genesis. (On one that joined it may fail, section 6.)
- `StoredOnce`, `StorageIsClosed`: no vertex is in the DAG and in the storage,
  and a stored vertex has its whole ancestry stored, with truncations that run
  to their end.
- `TruncationKeepsFunds`: a truncation changes what no wallet can spend at the
  vertices above it.
- `ImplementsLedger`, `StepsOfLedger`: the refinement of section 2.
- `RequestsFinish`: a request ends, unless the node is `Wedged`, has panicked
  or stopped.
- `VerdictsAreExact`, `BalancesAreExact`: the verdict of a validation, a
  balance and the settled funds are those of exact arithmetic, while the sums
  are representable; settled funds for a wallet that neither paid itself nor
  overspent.
- `ListsCover`: an awaited transaction is in the lists of both parties, except
  for lists that were evicted or written over.
- `NoSilentLoss`: an accepted contract awaits, is in the ledger or on its way
  there, or somebody was told.
- `BalanceIsExplained`: where a cached balance does not count a transaction of
  the ledger, or counts one that has left it, it is about to be removed, or a
  cause is recorded: a parallel branch, a balance kept late, a replay or a
  drop, or a rejected contract of which the wallet is the receiver.
- `NoCircularWait`: of nodes that join at the same time, each with its lock
  held while it waits for the locks of others, none that did not restart waits
  for itself.
- `MeshComplete`: when all nodes are up all are connected to each other.
- `NothingElseMissed`: when nothing is on its way, a node lacks only vertices
  it is recorded to have missed: not streamed to it, gossiped while its book was
  not loaded, lost on the way from the creator, refused, replayed too often,
  deleted, or interrupted in its handler. A child that overtakes its parent, a
  second call that finds the hash noted, and a call cancelled before it arrives
  lose nothing.
- `GossipersHold`: who passes a vertex on holds it.
- `OneOwner`: every live block of the signer has exactly one owner, but for the
  keys `Signer_read_pem` overwrote in a ready signer (`leaked`), which have
  none.
- `ScratchHoldsPrefix`, `LimbsHoldPrefix`, `AddressFits`, `AddressRoundTrip`:
  the loops of the codec hold the number read so far, by the reference of long
  division, the string has room, and a key comes back.
- The other properties of the C client are explained where they are defined.

Bounds. Two handlers and the subscriber are enough for every pair of critical
sections to meet. Four vertices and four transactions hold a genesis, two
conflicting transfers and a vertex on top of both. One memory in the replier
makes it full at once. `MaxThroughput` stops new requests when the counter has
grown, `MaxPeerLeaves` the vertices peers sign; both bounds are guards of the
model and part of what is proved. `MCTruncate` has a truncation depth of one
instead of the program's and starts on a node that has truncated once
(`ChainInit`, reachable by `CreateGenesis`, `CreateLeaf`, `AddLeaf` and a
truncation), so that truncations add to stored funds. `MCFunds` uses digits of
size 2 and 5, so that carries, borrows and wraps all happen. `MCNode` has two
requests at a time and three in all, one eviction and one step of the book by
itself: two writers of a list, and a third request that sees the result. Its
contracts include one of a wallet with itself. `MCGossip` has three nodes, the
fewest in which a vertex is passed on and two nodes join at once, two vertices,
the fewest in which a child overtakes its parent, and three late joins, new
vertices or mishaps together (`MaxWork`), a restart counting as a mishap and a
join. Section 5 says which of these properties are also proved without bounds.
Handlers, callers, nodes other than the genesis node and transactions of
`MCGossip` are interchangeable, and no run with a symmetry has a liveness
property.

Deadlock is not checked where an instance stops when its work is used up; in
`MCUnity` it is, and a suite only stops when it is over.

Fairness (`MCTruncate`). A goroutine that can run does run (weak fairness of
handlers, subscriber, ticker and truncation loop). Whoever waits for `ab.mux`
gets it although it is taken again and again (strong fairness), because Go's
`sync.RWMutex` hands the lock to a waiter that starves. No request, peer or
operator is assumed to act.

## 5. Theorems

TLAPS checks every proof, from the named assumptions on the constants only. All
safety properties of the runs of the node and of the C client are proved here
for every size, with the exceptions at the end of this section.

### The accounting book
For any finite set of vertices and any transactions, wallets, peers, handlers
and buffer sizes, `AccountingBookProofs` proves `TrxUnique`
(`Spec => []TrxIndexed`), `NeverStoredTwice` (`StoredOnce`), `GraphIsSigned`
(`EdgesAreParents`), `MutualExclusion` (`OneHolder`) and `ShapeCorrect`
(`ShapeOK`). All follow from `BookSafe`: `Spec => []BookInv`. The properties
are not inductive: that a handler adds a correct edge depends on what it saw
some steps before. `BookInv` adds
- `OneHolder`, so that the DAG changes under one handler at a time;
- `SawParents`, that the parents a handler has looked at are still in the DAG;
- `ScansLeaves`, that what is still to be scanned is a leaf and what was found
  valid is in the DAG and not to be scanned again, so that rejecting a leaf
  never removes a chosen parent;
- `RepliesSigned`, that the replier holds vertices some node signed;
- `StartsEmpty`, that nothing works on a DAG that is not loaded.

There is one lemma per action, or per group of actions that leave the same part
alone. The first part of the module says what the operators compute (ancestors,
sums of spice), that the steps of handlers and replier that leave the DAG alone
keep `BookInv`, and that the steps that add and remove vertices, the truncation
loop, the start-up and the other nodes do; `NextKeeps` combines them.

Three further results rest on `BookInv` and an invariant of their own:
- `StorageClosed` (`StorageIsClosed`): a truncation (one that runs to its end) moves the ancestors of a
  vertex with the vertex. It needs that what `AncestorsIn` collects is closed
  under parents (`AncestorsClosed`), that the edges it follows are the signed
  parents (`EdgesAreParents`), and, because that holds of a loaded DAG only,
  that no truncation is pending on one that is not loaded (`SignalsWhenLoaded`).
- `ReferencedFunded`: on a node that founded its DAG (`FoundedHere`),
  `ReferencedAreFunded` holds. The validation of a leaf and its use as a parent
  are steps apart, so `CoverInv` says of every vertex with a child, and of
  every vertex a handler has found valid or accepted as a parent (`Seen`), that
  it is `Covered`. `CoveredStays` shows that other vertices that come and go do
  not change the sums over its ancestry. `StartedWell` adds what the start-up
  leaves: the trusted nodes are among those an operator may trust, stored funds
  are natural numbers, and before it nobody else signed a genesis of this
  node's wallet. A node that joined is left out because it takes the vertices
  of a stream without validating them.
- `BookTypeCorrect` (`TypeOK`): with `CoverInv` the stored funds are natural
  numbers as well.

### The refinement
`AccountingBookProofs`: `BookImplementsLedger`, `Spec => ImplementsLedger`, and
`BookStepsOfLedger` (`StepsOfLedger`). Every step under `BookInv` is a ledger
step or a stutter: adding is `Take` (the parents are there by `SawParents`, the
transaction is new by `TrxIndexed` and the write under the lock), rejecting is
`Drop` (`EdgesAreParents` turns "no edge" into "parent of nobody"), truncating
is `Settle`.

### Funds
`FundsProofs`, for digits of any size: `FundsTypeCorrect`, `VerdictsCorrect`
(`VerdictsAreExact`) and `BalancesCorrect` (`BalancesAreExact`). They rest on
`SupplyExact` and `DrainExact`, that the two-digit sum and difference are exact
whenever the exact result is representable. The inductive invariant `FundsInv`
adds `SumsExact`: while both sums are representable, the digits summed so far
equal them.

### Gossip
`GossipProofs`, for any number of nodes, vertices, transactions and mishaps:
- `JoinsNeverCircular` (`NoCircularWait`) and `AllConnected` (`MeshComplete`),
  from `JoinInv`. A circle is not excluded by what the waiting nodes do but by
  what they were told: a node is told of those discovered before it.
  `PendingOrdered` says that of any nodes that did not restart one has none of
  the others pending, and `UnknownBefore` keeps it so when one is discovered.
  `MeshGrows` says that of two known nodes each is connected to the other or
  will be.
- `GossipIsHonest` (`GossipersHold`), from `CallInv`: what is on the pipe or
  about to be passed on is held, and a node that does not serve has nothing.
- `GossipReachesAll` (`NothingElseMissed`), from `ReachInv`: a vertex that a
  serving node lacks is on a pipe or in a call to it that only a mishap ends,
  and a hash it has noted is held, memorised, recorded as missed or in a
  handler that has yet to give it to the book. That last clause is what makes
  ignoring a noted hash safe as long as that handler is not cut short; a handler
  that is (`NotLoaded`, `Interrupt`) is recorded.

### The notary server and its cache
`NotaryProofs`, for any number of concurrent requests, transactions, wallets
and evictions: `CacheCovers` (`ListsCover`), `ContractsNotLost`
(`NoSilentLoss`) and `BalancesExplained` (`BalanceIsExplained`), from
`NotaryInv`. It adds
- `Shape`, which ties the step of the cache a caller is in to the request it
  serves: a caller that saves proposes or received a gossiped contract, one
  that removes confirms, rejects or received a vertex, always of the
  transaction of the request;
- `NothingLost`: not only what has gone to gossip is accounted for, but a
  contract from the moment its proposal is entered, and a transaction that
  `GossipVrx` is about to remove is in the ledger already.

The proof reduces each step of a caller to what the step may do to its own
call, its request and one list (`CoverKept`, `LossKept`, `BalanceKept`); what
the loop of `remove` and `add` leave in a list is proved for lists of any
length.

### The signer
`SignerProofs`, for any number of signers, raw keys, EVP keys, signatures,
files and blocks: `BlocksHaveOneOwner` (`OneOwner`) and `VerdictsAreRight`
(`VerdictIsRight`), from `SignerInv`. While the program runs `Sound` holds: a
pointer is null or points to a live block of its own kind, two pointers never
agree, every block has a pointer to it unless it is in `leaked`, to which there
is none and where only live keys are, and the two blocks of a signature hold what it was made from unless one was changed. Pointers of all
kinds are treated alike (`Ptr`), so that an assignment, an allocation and a
free are each proved once. `SignerAssumption` says that a changed byte leaves
the digest of no message.

### The transaction
`TransactionProofs`, for subjects, data, receivers and an issuer's address of
any length and any bytes: `TransactionIsSigned` (`FieldsAreSigned`) and
`TransactionBlocks` (`BlocksAccountedFor`), from `TransactionInv`, which says
what has been signed, copied and allocated at each phase. A zero byte cuts both
copies alike, and the last eight bytes signed are the timestamp's.

### The address
`AddressProofs`, for keys, versions, checksums, limbs and buffers of any size
(`WordBytesAssumption`, `AddressAssumption`): `ScratchIsExact`
(`ScratchHoldsPrefix`), `LimbsAreExact` (`LimbsHoldPrefix`), `RoundTripHolds`
(`AddressRoundTrip`), `NoLeak` (`NothingLeaks`) and, for a buffer longer than
the scratch digits of all bytes, `AddressHasRoom` (`AddressFits`). They rest on
what a sequence of digits stands for as a number: multiplying the cells in place
and adding a digit does so to the number (`Scaled`, `Carries`), the inner loop
of `b58enc` may stop at the high mark because what is below it is zero, 138/100
of the bytes are digits enough because eight bytes fit into eleven digits
(`SizeIsEnough`), and two sequences of digits of one length and one number are
the same. `AddressInv` says which number
the scratch buffer, the string and the limbs hold at each step.
`ZeroChecksumAssumption` says that the checksum of version 0 and a key of zeros
does not begin with a zero byte, as is the case with SHA-256.

### The test framework
`UnityProofs`, for bytes of any even number of bits, any values, deltas and
masks, any contents and lengths of arrays, strings and memory, any range and
precision of floats, and any number of tests (`ByteAssumption`,
`ArgumentsAssumption`, `CounterAssumption`). What each assertion decides is a
property of one call, so these need no strengthening but lemmas about the
operators:
- `NumbersCompared` (`NumbersAreCompared`): `CastTwice` says that a value cast
  to `UNITY_INT` and back is the value of its type, `CastMeans` that two casts
  are equal or ordered as the values they stand for, and `WithinIs` that the
  wrapped unsigned difference is the distance. `MaskBits` is about the bits a
  mask leaves.
- `ArraysCompared` (`ArraysAreCompared`): the first element that differs is the
  one named; `ARRAY_WITHIN` of unsigned types is left out (section 6).
- `ReportShows` (`ReportShowsTheNumbers`): what a reader makes of the printed
  digits is the number, for assertions on two numbers and on two arrays (not
  unsigned 32-bit ones, `EACH_EQUAL` and `ARRAY_WITHIN`). The first loop of `UnityPrintNumberUnsigned` ends with
  the largest power of ten that does not exceed the number, before the divisor
  can overflow (`InitialDivisorIs`); the second prints one digit for every
  power below (`DigitsFromIs`), and after k digits the reader has the number
  divided by that power (`DecimalShows`). `NibblesRead` is the same for the
  hexadecimal styles, and `SignedShows` covers the smallest negative number,
  whose negation wraps.
- `StringsCompared` (`StringsAreCompared`): `SameText` and `EqualPrefixes` turn
  the loop up to the terminator into equality of strings, `EqualBlocks` the
  loops over blocks of memory into one over bytes.
- `FloatsCompared` (`FloatsAreCompared`): finite floats with overflow
  (`FiniteWithin`), infinities and not-a-number (`SpecialWithin`), and that
  every float has one trait (`OneTrait`).

The runner has an inductive invariant, `RunnerInv` (`RunnerInvariant`).
`RunnerControl` says where a `longjmp` goes and which flags may be set there;
`RunnerCounts` that a line is printed at once and counted only when the test is
concluded, so that between the two the counters lag behind the output by the
flags. From it follow `SummaryHolds` (`SummaryIsTheOutput`), `VerdictStops`
(`VerdictStopsTheTest`) and `TearDownRunsOnce` (`TearDownOnce`). What is said
of the counters is for suites of fewer tests than a counter can hold: beyond
that they wrap in the code and in the model.

### Recursion
Recursive functions over a bounded domain (`AncestorsIn`, the loops of the
cache, the carries of the codec, `Pow2` and the loops that print a number) are reasoned about by the
least argument at which a claim would fail, since the library's induction
theorems cannot be applied by the provers at hand. That a loop defined in a
`LET` is the function its recursion describes is `LoopExists`.

### Only model-checked
- `LoadedHasLeaf` and `TruncationKeepsFunds` are not true of every instance. A
  node that joined may reject its last leaf (section 6), and where parallel
  branches overspend a wallet (section 6) a truncation forgets the debt; the
  runs check them where a node founded the DAG and on a chain.
- `RequestsFinish` needs fairness.
- `ClientConfig` is about lines of a few tokens, and its properties compare the
  file with a reference for each of them.

## 6. Where code and documents differ

`MCDoubleSpend`, `NoDoubleSpend`: funds are summed over the ancestors of one
leaf, so two transfers on parallel branches that cannot both be paid are both
validated by a third vertex. TLC refutes the property; a test of the repository
expects such a transfer to fail.

Met while modelling, without a run of their own:
- A leaf that is a root is accepted without a look at its funds
  (`validateLeaf`); after a truncation a leaf may be left as a root, and a
  transfer that nothing covers can be referenced. `ReferencedAreFunded`
  excludes it.
- A vertex is lost to a node, and a leaf of its DAG with it, when the context of
  the call ends while the node validates it: its hash is noted, so later calls
  are ignored (`Interrupt`).
- `CalculateBalance` answers for one arbitrary leaf: with parallel leaves the
  balance lacks what is on the other branches.
- Two joins that overlap with a restart may wait for each other for ever: each
  announces itself to the other with its own lock held. `NoCircularWait`
  excludes exactly this.
- The same transaction sealed at two nodes leaves them with different vertices
  for good (`Collides`); `src/README.md:68` says good players keep the same ones.
- `src/README.md:51` says that nodes constantly try to send; each call is made once.
- After a restart of the genesis node nobody is known to it.
- `processLackingParent` reads `g.nodes` without the lock, and its limit is
  checked with `==` before the count is raised.
- `updateDag` answers success when `LoadDag` ended with an error.
- A balance calculated before a change may be kept after it, and `Reject`
  removes only the issuer's cached balance (`outdated`).
- `Confirm` between the two halves of a `SaveAwaitedTransaction` takes the
  contract out and fails; the caller is told (`excused`).
- On a node that joined, `LoadDag` raises the weight after it released the lock
  and stores the throughput later; a request in between may reject every leaf.
- A transfer from a wallet to itself is settled as income only, a strict
  comparison lets the sum of two amounts at the limit wrap, and the sort of the
  replier compares an element with itself.
- In the C client, asking a signer without a key for its raw key returns an
  uninitialised struct; `Signer_read_pem` overwrites the key of a ready signer
  without freeing it; a length of -1 never arrives as such through an
  unsigned parameter; `strncpy` stops at the leading zero byte of the timestamp,
  so eight zeros are signed in its place, and cuts a digest or signature at a
  zero byte. `strncpy` also leaves no terminator behind a configuration value
  that fills its field. `decode_address_to_raw` returns the length of the whole
  decoded address, where `address.h:29` says the number of bytes in the raw
  buffer, and superfluous leading `1`s are accepted.
- In the test framework unsigned 32-bit array elements are reported
  sign-extended; `ARRAY_WITHIN` of UINTn and HEXn reads the elements through
  signed pointers (`unity.c:1260-1312`) and so measures the distance of other
  numbers; and `EACH_EQUAL_STRING` with a null string fails even when all
  strings are null, because the null string is taken for a null array
  (`unity.c:1449`).

## 7. Not modelled

- Accounting book: what a restarted process finds in its databases (no code
  reads stored vertices back into the DAG), the walk of `StreamDAG` over the
  maps of the DAG library (its result is any part of what the peer has), the
  read-only queries.
- What a truncation leaves that is cut short (section 2). In `Notary` nothing is
  truncated: a balance counts stored funds and the ancestors that are left
  alike, which `Funds` and `TruncationKeepsFunds` are about.
- Notary server: `Alive`, `Data`, `Saved` and `TransactionsInDAG`, which change
  nothing the others read; the throttle per address and the flashback
  operations behind it; notifications to the message broker.
- Gossip: verification of signatures, failing to set up a connection, and how
  an awaited transaction travels over several nodes (best effort in the code:
  nothing asks for a lost one).
- Pipe: closing, at shutdown only.
- `dataprovider`, `webhooks`: one map each, every operation one critical
  section. `reactive`, `localcache`, `immunity`: used by no program.
- `spice.go`: conversions from and to text and floats.
- Wallet middleware and API: one request and one answer each, no state.
- Wallet, AES wrapper, file operations, token: cryptography and files.
- Emulator, generators, programs, telemetry, logging, configuration,
  transformers, HTTP and NATS clients, generated code: wiring, I/O and
  demonstration traffic.
- C client: `b58check_enc` and `b58check` call `b58_sha256_impl`, a pointer that
  nothing sets (`base58.c:24`), and nothing calls them; the status `UnityEnd`
  returns is a count that an `int` holds; `client.c` is empty; double precision and the printf-like output of
  the test framework are not compiled in.
