------------------------------- MODULE Notary -------------------------------
(***************************************************************************)
(* The notary server of a node (src/src/notaryserver/notary.server.go) and *)
(* the two gossip handlers that use the same cache (src/src/gossip),       *)
(* composed with the cache of awaited transactions and the ledger.         *)
(*                                                                         *)
(* The accounting book is what module Ledger promises of it, by            *)
(* transactions: a transaction is held by at most one vertex, CreateLeaf   *)
(* and AddLeaf take one in a single step or fail, and between the calls    *)
(* the book replays memorised vertices and drops rejected leaves.          *)
(*                                                                         *)
(* A caller is a request; what its handler starts with `go' before it      *)
(* answers is the last part of the same request.  A request whose          *)
(* signature is wrong, or whose address is throttled, changes nothing here *)
(* and is left out.                                                        *)
(***************************************************************************)
EXTENDS Hippocampus

CONSTANTS
  MaxRequests,   \* bound on requests
  MaxUnasked     \* bound on replays and drops of the accounting book

ASSUME NotaryAssumption == MaxRequests \in Nat /\ MaxUnasked \in Nat

VARIABLES
  req,        \* what each request is doing
  held,       \* transactions in the vertices of the accounting book
  below,      \* by transaction, those in the ancestors of its vertex
  trxCh,      \* contracts handed to gossip
  vrxCh,      \* transactions of the vertices handed to gossip
  requests,
  unasked,
  excused,    \* history: transactions the accounting book dropped, and contracts
              \* whose receiver was answered with an error after they had been
              \* taken from the cache
  outdated    \* history: <<a, t>> where t entered or left the ledger and the
              \* cached balance of a is not going to be removed for it, or
              \* where that balance was kept with t on a branch it does not count

notaryVars == <<req, held, below, trxCh, vrxCh, requests, unasked, excused, outdated>>
vars == <<cacheVars, notaryVars>>

Idle == [op |-> "none"]

IsContract(t) == t.data
Moves(t, a) == t.spice /\ a \in Parties(t)

Init ==
  /\ HippocampusInit
  /\ req = [c \in Caller |-> Idle]
  /\ held = {} /\ trxCh = {} /\ vrxCh = {}
  /\ below = [t \in Trx |-> {}]
  /\ requests = 0 /\ unasked = 0
  /\ excused = {} /\ outdated = {}

-----------------------------------------------------------------------------
(* Requests arrive.  Their first access to the cache is part of the step.  *)

Begin(c, r) ==
  /\ req[c] = Idle
  /\ requests < MaxRequests
  /\ requests' = requests + 1
  /\ req' = [req EXCEPT ![c] = r]
  /\ UNCHANGED <<held, below, trxCh, vrxCh, unasked, excused, outdated>>

ProposeContract(c, t) ==
  /\ IsContract(t)
  /\ Begin(c, [op |-> "propose contract", trx |-> t])
  /\ SaveAwaitedTransaction(c, t)

ProposeTransfer(c, t) ==
  /\ ~ IsContract(t)
  /\ Begin(c, [op |-> "leaf", of |-> "propose", trx |-> t])
  /\ UNCHANGED cacheVars

(* The receiver's signature is on the transaction. *)
Confirm(c, t) ==
  /\ Begin(c, [op |-> "confirm", trx |-> t])
  /\ RemoveAwaitedTransaction(c, t, t.receiver)

(* Anybody may sign the hash of a transaction. *)
Reject(c, t, a) ==
  /\ Begin(c, [op |-> "reject", trx |-> t])
  /\ RemoveAwaitedTransaction(c, t, a)

Waiting(c, a) ==
  /\ Begin(c, [op |-> "waiting"])
  /\ ReadTransactions(c, a)

(* A cached balance is answered at once. *)
Balance(c, a) ==
  /\ balances[a] = Nothing
  /\ Begin(c, [op |-> "balance", by |-> a])
  /\ UNCHANGED cacheVars

(* Contracts and vertices of other nodes. *)
GossipTrx(c, t) ==
  /\ Begin(c, [op |-> "gossip trx", trx |-> t])
  /\ SaveAwaitedTransaction(c, t)

GossipVrx(c, t) ==
  /\ Begin(c, [op |-> "gossip vrx", trx |-> t])
  /\ UNCHANGED cacheVars

-----------------------------------------------------------------------------
(* What follows the answer of the cache. *)

Hangup(c) == call' = [call EXCEPT ![c] = NoCall]
Answered(c, results) == call[c].at = "returned" /\ call[c].result \in results

(* The contract goes to gossip and the caller gets its answer. *)
Proposed(c) ==
  /\ req[c].op = "propose contract" /\ Answered(c, {"ok"})
  /\ trxCh' = trxCh \cup {req[c].trx}
  /\ req' = [req EXCEPT ![c] = Idle]
  /\ Hangup(c)
  /\ UNCHANGED <<trxs, lists, balances, evictions, evicted, hurt>>
  /\ UNCHANGED <<held, below, vrxCh, requests, unasked, excused, outdated>>

(* Errors are answered; GossipTrx goes on whatever the cache said. *)
Finish(c) ==
  /\ \/ req[c].op = "propose contract" /\ Answered(c, Results \ {"ok"})
     \/ req[c].op \in {"waiting", "gossip trx"} /\ Answered(c, Results)
     \/ req[c].op \in {"confirm", "reject"} /\ Answered(c, Results \ {"ok"})
  /\ excused' = IF req[c].op \in {"confirm", "reject"} /\ Answered(c, {"failed"})
             THEN excused \cup {req[c].trx} ELSE excused
  /\ req' = [req EXCEPT ![c] = Idle]
  /\ Hangup(c)
  /\ UNCHANGED <<trxs, lists, balances, evictions, evicted, hurt>>
  /\ UNCHANGED <<held, below, trxCh, vrxCh, requests, unasked, outdated>>

(* Confirm and Reject took the transaction from the cache. *)
Removed(c) ==
  /\ req[c].op \in {"confirm", "reject"} /\ Answered(c, {"ok"})
  /\ req' = [req EXCEPT ![c] = [op |-> "leaf", of |-> req[c].op, trx |-> req[c].trx]]
  /\ Hangup(c)
  /\ UNCHANGED <<trxs, lists, balances, evictions, evicted, hurt>>
  /\ UNCHANGED <<held, below, trxCh, vrxCh, requests, unasked, excused, outdated>>

-----------------------------------------------------------------------------
(* The ledger *)

\* Mutant of ToClean: the issuer only, whatever the request.
ToCleanIssuer(op, t) == <<t.issuer>>

(* Addresses whose cached balance is removed: Reject forgets the receiver. *)
ToClean(op, t) == IF op = "reject" THEN <<t.issuer>> ELSE <<t.issuer, t.receiver>>

(* Balances that are cached and not going to be removed for t. *)
Forgotten(op, t) == {<<a, t>> : a \in {a \in Parties(t) : Moves(t, a) /\ op = "reject"} \ {t.issuer}}

(* No vertex refers to a leaf. *)
Leaves == {t \in held : \A u \in held : t \notin below[u]}

(* The graph with t on top of some vertices; on the genesis vertex, which  *)
(* stands for no transaction here, when there are none.                    *)
Attach(t, parents) ==
  /\ t \notin held
  /\ held' = held \cup {t}
  /\ below' = [below EXCEPT ![t] = parents \cup UNION {below[p] : p \in parents}]

OneOrTwo(S) == {{p, q} : p, q \in S}

(* CreateLeaf puts its vertex on one or two leaves, and it goes to gossip. *)
CreateLeaf(c) ==
  /\ req[c].op = "leaf"
  /\ LET t == req[c].trx
     IN  /\ \E parents \in IF held = {} THEN {{}} ELSE OneOrTwo(Leaves) : Attach(t, parents)
         /\ vrxCh' = vrxCh \cup {t}
         /\ outdated' = outdated \cup Forgotten(req[c].of, t)
         /\ req' = [req EXCEPT ![c] = [op |-> "clean", trx |-> t, todo |-> ToClean(req[c].of, t)]]
  /\ UNCHANGED <<cacheVars, trxCh, requests, unasked, excused>>

(* No valid leaf, a transaction that is held, a request that is given up. *)
CreateLeafFails(c) ==
  /\ req[c].op = "leaf"
  /\ excused' = IF req[c].of = "propose" THEN excused ELSE excused \cup {req[c].trx}
  /\ req' = [req EXCEPT ![c] = Idle]
  /\ UNCHANGED <<cacheVars, held, below, trxCh, vrxCh, requests, unasked, outdated>>

(* The vertex of another node is on vertices this book has. *)
AddLeaf(c) ==
  /\ req[c].op = "gossip vrx" /\ call[c] = NoCall
  /\ LET t == req[c].trx
     IN  /\ \E parents \in OneOrTwo(held) \cup {{}} : Attach(t, parents)
         /\ req' = [req EXCEPT ![c] = [op |-> "remove", trx |-> t]]
  /\ UNCHANGED <<cacheVars, trxCh, vrxCh, requests, unasked, excused, outdated>>

AddLeafFails(c) ==
  /\ req[c].op = "gossip vrx" /\ call[c] = NoCall
  /\ req' = [req EXCEPT ![c] = Idle]
  /\ UNCHANGED <<cacheVars, held, below, trxCh, vrxCh, requests, unasked, excused, outdated>>

(* GossipVrx takes the transaction from the cache, if it is there. *)
RemoveAdded(c) ==
  /\ req[c].op = "remove" /\ call[c] = NoCall
  /\ RemoveAwaitedTransaction(c, req[c].trx, req[c].trx.receiver)
  /\ UNCHANGED notaryVars

AddedRemoved(c) ==
  /\ req[c].op = "remove" /\ Answered(c, Results)
  /\ req' = [req EXCEPT ![c] = [op |-> "clean", trx |-> req[c].trx,
                                todo |-> ToClean("gossip", req[c].trx)]]
  /\ Hangup(c)
  /\ UNCHANGED <<trxs, lists, balances, evictions, evicted, hurt>>
  /\ UNCHANGED <<held, below, trxCh, vrxCh, requests, unasked, excused, outdated>>

(* The accounting book replays a memorised vertex, or deletes a leaf it     *)
(* finds invalid: no cache hears of it.                                    *)
Replay(t) ==
  /\ unasked < MaxUnasked
  /\ \E parents \in OneOrTwo(held) \cup {{}} : Attach(t, parents)
  /\ unasked' = unasked + 1
  /\ outdated' = outdated \cup {<<a, t>> : a \in {a \in Parties(t) : Moves(t, a)}}
  /\ UNCHANGED <<cacheVars, req, trxCh, vrxCh, requests, excused>>

Drop(t) ==
  /\ unasked < MaxUnasked /\ t \in Leaves
  /\ held' = held \ {t}
  /\ excused' = excused \cup {t}
  /\ unasked' = unasked + 1
  /\ outdated' = outdated \cup {<<a, t>> : a \in {a \in Parties(t) : Moves(t, a)}}
  /\ UNCHANGED <<cacheVars, req, below, trxCh, vrxCh, requests>>

-----------------------------------------------------------------------------
(* Balances *)

Current(outs, a) == {p \in outs : p[1] # a}

(* A transaction that one of two states of the ledger has. *)
Differs(t, view, other) == ~ (t \in view <=> t \in other)

Clean(c) ==
  /\ req[c].op = "clean"
  /\ LET a == Head(req[c].todo)
     IN  /\ RemoveBalance(a)
         /\ outdated' = Current(outdated, a)
         /\ req' = [req EXCEPT ![c] =
              IF Len(@.todo) = 1 THEN Idle ELSE [op |-> "clean", trx |-> @.trx, todo |-> Tail(@.todo)]]
  /\ UNCHANGED <<trxs, lists, call, evictions, evicted, hurt>>
  /\ UNCHANGED <<held, below, trxCh, vrxCh, requests, unasked, excused>>

(* Under the lock of the accounting book: the balance is that of one leaf, *)
(* whichever the map of leaves yields last, and of its ancestors; what is  *)
(* on another branch only does not count.                                  *)
CalculateBalance(c) ==
  /\ req[c].op = "balance"
  /\ \E view \in IF held = {} THEN {{}} ELSE {{leaf} \cup below[leaf] : leaf \in Leaves} :
       req' = [req EXCEPT ![c] = [op |-> "keep", by |-> req[c].by, view |-> view]]
  /\ UNCHANGED <<cacheVars, held, below, trxCh, vrxCh, requests, unasked, excused, outdated>>

CalculateBalanceFails(c) ==
  /\ req[c].op = "balance"
  /\ req' = [req EXCEPT ![c] = Idle]
  /\ UNCHANGED <<cacheVars, held, below, trxCh, vrxCh, requests, unasked, excused, outdated>>

(* The answer was given; the balance that is kept may be outdated, or not  *)
(* count what is on another branch.                                        *)
KeepBalance(c) ==
  /\ req[c].op = "keep"
  /\ LET a == req[c].by
         view == req[c].view
         differ == {t \in Trx : Moves(t, a) /\ Differs(t, view, held)}
     IN  /\ SaveBalance(a, view)
         /\ outdated' = Current(outdated, a) \cup {<<a, t>> : t \in differ}
  /\ req' = [req EXCEPT ![c] = Idle]
  /\ UNCHANGED <<trxs, lists, call, evictions, evicted, hurt>>
  /\ UNCHANGED <<held, below, trxCh, vrxCh, requests, unasked, excused>>

-----------------------------------------------------------------------------

Arrive(c) ==
  \/ \E t \in Trx : ProposeContract(c, t) \/ ProposeTransfer(c, t) \/ Confirm(c, t)
                      \/ GossipTrx(c, t) \/ GossipVrx(c, t)
  \/ \E t \in Trx, a \in Address : Reject(c, t, a)
  \/ \E a \in Address : Waiting(c, a) \/ Balance(c, a)

HandlerStep(c) ==
  \/ Proposed(c) \/ Finish(c) \/ Removed(c)
  \/ CreateLeaf(c) \/ CreateLeafFails(c)
  \/ AddLeaf(c) \/ AddLeafFails(c) \/ RemoveAdded(c) \/ AddedRemoved(c)
  \/ Clean(c) \/ CalculateBalance(c) \/ CalculateBalanceFails(c) \/ KeepBalance(c)

Next ==
  \/ \E c \in Caller : Arrive(c) \/ HandlerStep(c)
  \/ \E c \in Caller : CacheStep(c) /\ UNCHANGED notaryVars
  \/ Evict /\ UNCHANGED notaryVars
  \/ \E t \in Trx : Replay(t) \/ Drop(t)

Spec == Init /\ [][Next]_vars

-----------------------------------------------------------------------------

(* A request that took t from the cache and is not finished with it. *)
InHand(t) ==
  \E c \in Caller :
    \/ call[c].at \in {"remove list", "remove write"} /\ call[c].trx = t
    \/ req[c].op \in {"confirm", "reject"} /\ Answered(c, {"ok", "failed"}) /\ req[c].trx = t
    \/ req[c].op = "leaf" /\ req[c].of # "propose" /\ req[c].trx = t

(* A contract whose proposal was accepted (Propose) is not lost without     *)
(* anybody knowing: it awaits its receiver, is in the ledger, or is being   *)
(* moved there; otherwise it expired, its leaf was dropped, or its receiver *)
(* was answered with an error.  Confirm, Reject and GossipVrx take it out   *)
(* of the cache concurrently, and before they know whether a leaf can be    *)
(* made of it.                                                              *)
NoSilentLoss ==
  trxCh \subseteq trxs \cup held \cup evicted \cup excused \cup {t \in Trx : InHand(t)}

(* A RemoveBalance of a that is still to come because of t. *)
WillClean(a, t) ==
  \E c \in Caller : /\ req[c].op \in {"remove", "clean"} /\ req[c].trx = t
                    /\ req[c].op = "clean" => a \in Range(req[c].todo)

(* Balance answers a cached balance without looking further.  Where it does *)
(* not count a transaction of the ledger, or counts one that has left it,   *)
(* it is about to be removed from the cache, or one of these is the cause:  *)
(* the leaf it was calculated from is not above the transaction (a parallel *)
(* branch); it was calculated before the change and kept after it; the      *)
(* change was a replay or a drop; or the transaction was rejected and the   *)
(* address is its receiver's.                                               *)
BalanceIsExplained ==
  \A a \in Address : balances[a] # Nothing =>
    \A t \in Trx : Moves(t, a) /\ Differs(t, balances[a], held) =>
      <<a, t>> \in outdated \/ WillClean(a, t)

=============================================================================
