------------------------------- MODULE Gossip -------------------------------
(***************************************************************************)
(* The gossip protocol between nodes (src/src/gossip/gossip.go): joining   *)
(* the network through the genesis node, spreading new vertices, fetching  *)
(* lacking parents, and the memory of recent hashes                        *)
(* (src/src/cache/flashback.go).                                           *)
(*                                                                         *)
(* The accounting book of a node is what module Ledger promises of it: a   *)
(* vertex is taken in one step below parents that are held, never with a   *)
(* transaction that is held already.  A vertex that lacks a parent is      *)
(* memorised and replayed (module Replier).                                *)
(***************************************************************************)
EXTENDS Integers, FiniteSets

CONSTANTS
  Node,
  GenesisNode,   \* the node all others discover the network from
  Vertex,        \* hashes of vertices
  GenesisVertex,
  NoVertex,
  Trx,           \* transactions the nodes seal in vertices
  MaxWork        \* bound on late joins, new vertices and mishaps together

ASSUME GossipAssumption ==
  /\ GenesisNode \in Node
  /\ GenesisVertex \in Vertex /\ NoVertex \notin Vertex
  /\ MaxWork \in Nat

VARIABLES
  nodes,      \* g.nodes: the connections of each node
  stage,      \* how far each node is in joining
  todo,       \* nodes it was told of and has not connected to yet
  callee,     \* the node it is announcing itself to, itself when to none
  signed,     \* the vertices nodes have signed: parents and transaction
  loaded,     \* dagLoaded of the accounting book of each node
  held,       \* vertices in its accounting book
  memory,     \* vertices its replier keeps
  seen,       \* hashes in its flashback memory
  vrxCh,      \* vertices on the pipe from its notary server
  calls,      \* GossipVrx calls on their way and in their handlers
  pulls,      \* processLackingParent goroutines
  work,       \* how many of those there were
  restarted,  \* history: nodes that restarted
  missed      \* history: <<n, h>> where n was not offered h, or did not keep it

joinVars == <<nodes, stage, todo, callee>>
bookVars == <<loaded, held, memory>>
netVars == <<seen, vrxCh, calls, pulls>>
workVars == <<work, restarted>>
vars == <<joinVars, signed, bookVars, netVars, workVars, missed>>

Stages == {"loading", "serving", "discovered", "connecting", "announcing", "up"}
Serves(n) == stage[n] # "loading"
(* It holds its g.mux while it connects to the nodes it was told of. *)
Locked(n) == stage[n] \in {"connecting", "announcing"}

Signed == {h \in Vertex : signed[h] # NoVertex}
Parents(h) == signed[h].parents
Sealed(n, h) == \E g \in held[n] : signed[g].trx = signed[h].trx

Work(n) == work + n <= MaxWork /\ work' = work + n

(* Some nodes have joined and hold the genesis vertex, the others will.     *)
Init ==
  \E joined \in SUBSET Node :
    /\ GenesisNode \in joined
    /\ nodes = [n \in Node |-> IF n \in joined THEN joined \ {n} ELSE {}]
    /\ stage = [n \in Node |-> IF n \in joined THEN "up" ELSE "loading"]
    /\ todo = [n \in Node |-> {}] /\ callee = [n \in Node |-> n]
    /\ signed = [h \in Vertex |-> IF h = GenesisVertex THEN [parents |-> {}, trx |-> NoVertex]
                                                      ELSE NoVertex]
    /\ loaded = [n \in Node |-> n \in joined]
    /\ held = [n \in Node |-> IF n \in joined THEN {GenesisVertex} ELSE {}]
    /\ memory = [n \in Node |-> {}]
    /\ seen = [n \in Node |-> {}]
    /\ vrxCh = [n \in Node |-> {}]
    /\ calls = {} /\ pulls = {}
    /\ work = Cardinality(Node \ joined)
    /\ restarted = {} /\ missed = {}

-----------------------------------------------------------------------------
(* Joining *)

(* updateDag: the vertices S that another node streams until the end of the *)
(* stream; then the server starts.  S is all that node holds, or, as a      *)
(* mishap, what it streamed before it broke off, or what the accounting     *)
(* book took before it failed, which ends the stream as well: both are a    *)
(* success to updateDag.  (Another error than the end of the stream ends    *)
(* the node, which is still to join.)                                       *)
LoadDag(n, m, S) ==
  /\ stage[n] = "loading" /\ Serves(m)
  /\ S \subseteq held[m]
  /\ IF S = held[m] THEN UNCHANGED work ELSE Work(1)
  /\ held' = [held EXCEPT ![n] = S]
  /\ stage' = [stage EXCEPT ![n] = "serving"]
  /\ missed' = missed \cup {<<n, h>> : h \in Signed \ S}
  /\ UNCHANGED <<nodes, todo, callee, signed, loaded, memory, netVars, restarted>>

(* The accounting book connects what it got in a goroutine of its own, when *)
(* the server may have started: for lack of a parent, or if a transaction   *)
(* is in the index of an earlier life, it never comes to this.              *)
DagLoaded(n) ==
  /\ Serves(n) /\ ~ loaded[n]
  /\ held[n] # {} /\ \A h \in held[n] : Parents(h) \subseteq held[n]
  /\ loaded' = [loaded EXCEPT ![n] = TRUE]
  /\ UNCHANGED <<joinVars, signed, held, memory, netVars, workVars, missed>>

(* Discover at the genesis node, which remembers the caller. *)
Discover(n) ==
  /\ stage[n] = "serving" /\ ~ Locked(GenesisNode)
  /\ nodes' = [nodes EXCEPT ![GenesisNode] = @ \cup {n}]
  /\ todo' = [todo EXCEPT ![n] = ({GenesisNode} \cup nodes[GenesisNode]) \ {n}]
  /\ stage' = [stage EXCEPT ![n] = "discovered"]
  /\ UNCHANGED <<callee, signed, bookVars, netVars, workVars, missed>>

\* Mutant of LockNodes: the nodes of the answer are those known by now.
LockNodesLate(n) ==
  /\ stage[n] = "discovered"
  /\ stage' = [stage EXCEPT ![n] = "connecting"]
  /\ todo' = [todo EXCEPT ![n] = ({GenesisNode} \cup nodes[GenesisNode]) \ {n}]
  /\ UNCHANGED <<nodes, callee, signed, bookVars, netVars, workVars, missed>>

LockNodes(n) ==
  /\ stage[n] = "discovered"
  /\ stage' = [stage EXCEPT ![n] = "connecting"]
  /\ UNCHANGED <<nodes, todo, callee, signed, bookVars, netVars, workVars, missed>>

(* The lock is released after the last node. *)
GoesOn(rest) == IF rest = {} THEN "up" ELSE "connecting"

(* The next node of the answer is connected to; all but the genesis node    *)
(* are called back, with the lock held.                                     *)
Connect(n, m) ==
  /\ stage[n] = "connecting" /\ m \in todo[n]
  /\ nodes' = [nodes EXCEPT ![n] = @ \cup {m}]
  /\ todo' = [todo EXCEPT ![n] = @ \ {m}]
  /\ \/ /\ m = GenesisNode
        /\ stage' = [stage EXCEPT ![n] = GoesOn(todo[n] \ {m})]
        /\ UNCHANGED callee
     \/ /\ m # GenesisNode
        /\ stage' = [stage EXCEPT ![n] = "announcing"]
        /\ callee' = [callee EXCEPT ![n] = m]
  /\ UNCHANGED <<signed, bookVars, netVars, workVars, missed>>

Announced(n) ==
  /\ stage' = [stage EXCEPT ![n] = GoesOn(todo[n])]
  /\ callee' = [callee EXCEPT ![n] = n]
  /\ UNCHANGED <<todo, signed, bookVars, netVars, workVars, missed>>

\* Mutant of Announce: the answer comes without the connection.
AnnounceUnheard(n) ==
  /\ stage[n] = "announcing"
  /\ Serves(callee[n]) /\ ~ Locked(callee[n])
  /\ Announced(n)
  /\ UNCHANGED nodes

(* The call waits for the lock of the other node. *)
Announce(n) ==
  /\ stage[n] = "announcing"
  /\ Serves(callee[n]) /\ ~ Locked(callee[n])
  /\ nodes' = [nodes EXCEPT ![callee[n]] = @ \cup {n}]
  /\ Announced(n)

(* The other node is not there: the error is logged. *)
AnnounceFails(n) ==
  /\ stage[n] = "announcing"
  /\ ~ Serves(callee[n])
  /\ Announced(n)
  /\ UNCHANGED nodes

-----------------------------------------------------------------------------
(* The accounting book of n is given h *)

Lacking(n, h) == Parents(h) \ held[n]

(* AddLeaf: its outcome, and the vertex held, or memorised for its parents. *)
Outcome(n, h) ==
  CASE h \in held[n] \/ Sealed(n, h) -> "exists"
    [] Lacking(n, h) # {} -> "lacks"
    [] OTHER -> "taken"

\* Mutant of AddLeaf: a vertex that lacks a parent is not memorised.
AddLeafForgets(n, h) ==
  /\ held' = IF Outcome(n, h) = "taken" THEN [held EXCEPT ![n] = @ \cup {h}] ELSE held
  /\ UNCHANGED <<loaded, memory>>

AddLeaf(n, h) ==
  /\ held' = IF Outcome(n, h) = "taken" THEN [held EXCEPT ![n] = @ \cup {h}] ELSE held
  /\ memory' = IF Outcome(n, h) = "lacks" THEN [memory EXCEPT ![n] = @ \cup {h}] ELSE memory
  /\ UNCHANGED loaded

(* Goroutines for the parents of a vertex that lacks one.  They are started *)
(* for both; the one for a parent that is held fetches what exists already. *)
Pulls(n, h) ==
  IF Outcome(n, h) = "lacks" THEN {[by |-> n, vrx |-> p] : p \in Lacking(n, h)} ELSE {}

(* What n will never have under this hash: its transaction is sealed in     *)
(* another vertex already.                                                  *)
Collides(n, h) == IF h \notin held[n] /\ Sealed(n, h) THEN {<<n, h>>} ELSE {}

-----------------------------------------------------------------------------
(* Spreading a vertex *)

(* Hashes that nobody has used are interchangeable. *)
NewHash == CHOOSE h \in Vertex : h \notin Signed

Leaves(n) == {h \in held[n] : \A g \in held[n] : h \notin Parents(g)}

(* CreateLeaf of the notary server, on one or two leaves; the vertex goes   *)
(* to the pipe.                                                             *)
Create(n, ps, t) ==
  /\ Work(1)
  /\ Serves(n) /\ loaded[n]
  /\ Signed # Vertex
  /\ ps \subseteq Leaves(n) /\ Cardinality(ps) \in {1, 2}
  /\ \A g \in held[n] : signed[g].trx # t
  /\ LET h == NewHash
     IN  /\ signed' = [signed EXCEPT ![h] = [parents |-> ps, trx |-> t]]
         /\ held' = [held EXCEPT ![n] = @ \cup {h}]
         /\ vrxCh' = [vrxCh EXCEPT ![n] = @ \cup {h}]
  /\ UNCHANGED <<joinVars, loaded, memory, seen, calls, pulls, restarted, missed>>

(* gossipVertex: one goroutine per connection that has not gossiped it. *)
CallsTo(n, h, gossipers, ctx) ==
  {[from |-> n, to |-> m, vrx |-> h, gossipers |-> gossipers, at |-> "sent", ctx |-> ctx] :
     m \in nodes[n] \ gossipers}

(* runVertexGossipProcess: the context of these calls is the node's. *)
Gossip(n, h) ==
  /\ h \in vrxCh[n] /\ ~ Locked(n)
  /\ vrxCh' = [vrxCh EXCEPT ![n] = @ \ {h}]
  /\ calls' = calls \cup CallsTo(n, h, {n}, "node")
  /\ missed' = missed \cup {<<m, h>> : m \in Node \ (nodes[n] \cup {n})}
  /\ UNCHANGED <<joinVars, signed, bookVars, seen, pulls, workVars>>

Goes(k, at) == calls' = (calls \ {k}) \cup {[k EXCEPT !.at = at]}
Answers(k) == calls' = calls \ {k}

(* HasHash finds the hash, or does not and notes it in a second step. *)
HasHash(k) ==
  /\ k.at = "sent" /\ Serves(k.to)
  /\ IF k.vrx \in seen[k.to] THEN Answers(k) ELSE Goes(k, "new")
  /\ UNCHANGED <<joinVars, signed, bookVars, seen, vrxCh, pulls, workVars, missed>>

NoteHash(k) ==
  /\ k.at = "new"
  /\ seen' = [seen EXCEPT ![k.to] = @ \cup {k.vrx}]
  /\ IF k.to \in k.gossipers THEN Answers(k) ELSE Goes(k, "noted")
  /\ UNCHANGED <<joinVars, signed, bookVars, vrxCh, pulls, workVars, missed>>

\* Mutant of TakenBy: a vertex that lacks a parent is passed on as well.
TakenByAny(n, h) == Outcome(n, h) # "exists"

(* Only what AddLeaf answers without an error is passed on. *)
TakenBy(n, h) == Outcome(n, h) = "taken"

(* sendToAccountant *)
SendToAccountant(k) ==
  /\ k.at = "noted" /\ loaded[k.to]
  /\ AddLeaf(k.to, k.vrx)
  /\ pulls' = pulls \cup Pulls(k.to, k.vrx)
  /\ IF TakenBy(k.to, k.vrx) THEN Goes(k, "added") ELSE Answers(k)
  /\ missed' = missed \cup Collides(k.to, k.vrx)
  /\ UNCHANGED <<joinVars, signed, seen, vrxCh, workVars>>

(* A book that is not loaded takes no vertex, whose hash stays noted. *)
NotLoaded(k) ==
  /\ k.at = "noted" /\ ~ loaded[k.to]
  /\ Answers(k)
  /\ missed' = missed \cup {<<k.to, k.vrx>>}
  /\ UNCHANGED <<joinVars, signed, bookVars, seen, vrxCh, pulls, workVars>>

(* AddLeaf walks the ancestors of a parent that is a leaf.  When the        *)
(* context of the handler ends meanwhile, as it does when the handler that  *)
(* passed the vertex on has returned, or, as a mishap, when the connection  *)
(* to the creator is lost, the vertex is refused and the parent deleted;    *)
(* the hash stays noted.                                                    *)
Interrupt(k, p) ==
  /\ k.at = "noted" /\ loaded[k.to]
  /\ Outcome(k.to, k.vrx) # "exists"
  /\ p \in (Parents(k.vrx) \cap Leaves(k.to)) \ {GenesisVertex}
  /\ IF k.ctx = "handler" THEN UNCHANGED work ELSE Work(1)
  /\ Answers(k)
  /\ held' = [held EXCEPT ![k.to] = @ \ {p}]
  /\ missed' = missed \cup {<<k.to, k.vrx>>, <<k.to, p>>}
  /\ UNCHANGED <<joinVars, signed, loaded, memory, seen, vrxCh, pulls, restarted>>

(* The vertex is passed on; the calls have the context of the handler.      *)
PassOn(k) ==
  /\ k.at = "added" /\ ~ Locked(k.to)
  /\ calls' = (calls \ {k}) \cup CallsTo(k.to, k.vrx, k.gossipers \cup {k.to}, "handler")
  /\ UNCHANGED <<joinVars, signed, bookVars, seen, vrxCh, pulls, workVars, missed>>

(* The other node is not there. *)
CallFails(k) ==
  /\ k.at = "sent" /\ ~ Serves(k.to)
  /\ Answers(k)
  /\ missed' = missed \cup {<<k.to, k.vrx>>}
  /\ UNCHANGED <<joinVars, signed, bookVars, seen, vrxCh, pulls, workVars>>

(* The handler that passed the vertex on returned, its context ends. *)
Cancel(k) ==
  /\ k.at = "sent" /\ k.ctx = "handler"
  /\ Answers(k)
  /\ UNCHANGED <<joinVars, signed, bookVars, seen, vrxCh, pulls, workVars, missed>>

-----------------------------------------------------------------------------
(* Lacking parents *)

(* processLackingParent: the first connection that has the vertex gives it. *)
Pull(p, m) ==
  /\ m \in nodes[p.by] /\ Serves(m) /\ p.vrx \in held[m]
  /\ AddLeaf(p.by, p.vrx)
  /\ pulls' = (pulls \ {p}) \cup Pulls(p.by, p.vrx)
  /\ missed' = missed \cup Collides(p.by, p.vrx)
  /\ UNCHANGED <<joinVars, signed, seen, vrxCh, calls, workVars>>

(* Nobody has it, too many goroutines run, or the handler that started it   *)
(* returned and its context ended.                                          *)
PullFails(p) ==
  /\ pulls' = pulls \ {p}
  /\ UNCHANGED <<joinVars, signed, bookVars, seen, vrxCh, calls, workVars, missed>>

(* The replier gives a memorised vertex to the accounting book again.       *)
Replay(n, h) ==
  /\ h \in memory[n] /\ Outcome(n, h) # "lacks"
  /\ held' = IF Outcome(n, h) = "taken" THEN [held EXCEPT ![n] = @ \cup {h}] ELSE held
  /\ memory' = [memory EXCEPT ![n] = @ \ {h}]
  /\ missed' = missed \cup Collides(n, h)
  /\ UNCHANGED <<joinVars, signed, loaded, netVars, workVars>>

(* It was replayed too often. *)
GiveUp(n, h) ==
  /\ h \in memory[n] /\ Outcome(n, h) = "lacks"
  /\ memory' = [memory EXCEPT ![n] = @ \ {h}]
  /\ missed' = missed \cup {<<n, h>>}
  /\ UNCHANGED <<joinVars, signed, loaded, held, netVars, workVars>>

-----------------------------------------------------------------------------
(* Mishaps *)

(* A node stops and starts again: what it had in memory is gone, its calls  *)
(* that have not arrived fail, and so do those to it.  It joins again,      *)
(* which counts as well.                                                    *)
Restart(n) ==
  /\ Work(2)
  /\ n # GenesisNode /\ Serves(n)
  /\ restarted' = restarted \cup {n}
  /\ stage' = [stage EXCEPT ![n] = "loading"]
  /\ todo' = [todo EXCEPT ![n] = {}] /\ callee' = [callee EXCEPT ![n] = n]
  /\ nodes' = [nodes EXCEPT ![n] = {}]
  /\ loaded' = [loaded EXCEPT ![n] = FALSE]
  /\ held' = [held EXCEPT ![n] = {}]
  /\ memory' = [memory EXCEPT ![n] = {}]
  /\ seen' = [seen EXCEPT ![n] = {}]
  /\ vrxCh' = [vrxCh EXCEPT ![n] = {}]
  /\ LET lost == {k \in calls : k.to = n \/ (k.from = n /\ k.at = "sent")}
     IN  /\ calls' = calls \ lost
         /\ missed' = missed \cup {<<k.to, k.vrx>> : k \in lost} \cup (Node \X vrxCh[n])
  /\ pulls' = {p \in pulls : p.by # n}
  /\ UNCHANGED signed

(* As Cancel, for a call of the creator. *)
Lose(k) ==
  /\ Work(1)
  /\ k.at = "sent" /\ k.ctx = "node"
  /\ Answers(k)
  /\ missed' = missed \cup {<<k.to, k.vrx>>}
  /\ UNCHANGED <<joinVars, signed, bookVars, seen, vrxCh, pulls, restarted>>

(* AddLeaf finds the vertex or a parent invalid, or the replier has no room. *)
Refuse(k) ==
  /\ Work(1)
  /\ k.at = "noted"
  /\ Answers(k)
  /\ missed' = missed \cup {<<k.to, k.vrx>>}
  /\ UNCHANGED <<joinVars, signed, bookVars, seen, vrxCh, pulls, restarted>>

(* A leaf is found invalid and deleted. *)
Drop(n, h) ==
  /\ Work(1)
  /\ h \in Leaves(n) \ {GenesisVertex}
  /\ held' = [held EXCEPT ![n] = @ \ {h}]
  /\ missed' = missed \cup {<<n, h>>}
  /\ UNCHANGED <<joinVars, signed, loaded, memory, netVars, restarted>>

(* The entry of the flashback memory is too old. *)
Forget(n, h) ==
  /\ Work(1)
  /\ h \in seen[n]
  /\ seen' = [seen EXCEPT ![n] = @ \ {h}]
  /\ UNCHANGED <<joinVars, signed, bookVars, vrxCh, calls, pulls, restarted, missed>>

-----------------------------------------------------------------------------

JoinStep(n) ==
  \/ \E m \in Node : Connect(n, m) \/ \E S \in SUBSET held[m] : LoadDag(n, m, S)
  \/ Discover(n) \/ LockNodes(n) \/ Announce(n) \/ AnnounceFails(n)

CallStep(k) ==
  \/ HasHash(k) \/ NoteHash(k)
  \/ SendToAccountant(k) \/ NotLoaded(k) \/ \E p \in Parents(k.vrx) : Interrupt(k, p)
  \/ PassOn(k) \/ CallFails(k)

Next ==
  \/ \E n \in Node : JoinStep(n) \/ DagLoaded(n) \/ Restart(n)
  \/ \E n \in Node, t \in Trx : \E ps \in SUBSET Leaves(n) : Create(n, ps, t)
  \/ \E n \in Node, h \in Vertex : Gossip(n, h) \/ Replay(n, h) \/ GiveUp(n, h)
                                   \/ Drop(n, h) \/ Forget(n, h)
  \/ \E k \in calls : CallStep(k) \/ Cancel(k) \/ Lose(k) \/ Refuse(k)
  \/ \E p \in pulls : PullFails(p) \/ \E m \in Node : Pull(p, m)

Spec == Init /\ [][Next]_vars

-----------------------------------------------------------------------------

(* n holds its lock until m, which holds its own, answers it. *)
WaitsFor(n, m) == stage[n] = "announcing" /\ callee[n] = m /\ Locked(m)

(* Joining nodes announce themselves to each other with their own list of   *)
(* nodes locked, and the announcement needs the lock of the other           *)
(* (updateNodesConnectionsFromGensisNode).  They never wait for one another *)
(* in a circle, as each is told only of those that were discovered before   *)
(* it, unless one of them restarted: of any nodes that did not, one waits   *)
(* for none of the others.                                                  *)
NoCircularWait ==
  \A S \in SUBSET (Node \ restarted) :
    S # {} => \E n \in S : \A m \in S : ~ WaitsFor(n, m)

(* Nodes connect to all available nodes (README, the system network): when  *)
(* every node is up each is connected to every other, whatever the order in *)
(* which they joined, announced themselves and restarted.                   *)
MeshComplete ==
  (\A n \in Node : stage[n] = "up") => \A n \in Node : nodes[n] = Node \ {n}

Quiet == calls = {} /\ pulls = {} /\ \A n \in Node : vrxCh[n] = {} /\ memory[n] = {}

(* When all calls are answered, every node that is up holds every vertex,   *)
(* except for what it is known to have missed: a vertex whose creator did   *)
(* not know the node or restarted; a lost call of the creator; a vertex not *)
(* streamed when the node joined, or gossiped to it while its book was not  *)
(* loaded; one it refused, replayed too often or deleted, because it was    *)
(* found invalid or because the context of the handler ended while AddLeaf  *)
(* ran (the hash is noted by then, so no later call makes up for it); or    *)
(* one with a transaction another vertex has sealed.  Nothing is missed for *)
(* any other reason: not because a child overtakes its parent, not because  *)
(* a second call finds the hash noted while the first has not given the     *)
(* vertex to the book yet, and not because a handler's call is cancelled    *)
(* before it arrives.                                                       *)
NothingElseMissed ==
  Quiet => \A n \in Node, h \in Signed : stage[n] = "up" => h \in held[n] \/ <<n, h>> \in missed

(* A node names itself as a gossiper only of what it holds, or held before  *)
(* it restarted.                                                            *)
GossipersHold ==
  \A k \in calls : \A g \in k.gossipers \ restarted :
    k.vrx \in held[g] \/ <<g, k.vrx>> \in missed

=============================================================================
