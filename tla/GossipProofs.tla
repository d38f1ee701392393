---------------------------- MODULE GossipProofs ----------------------------
(***************************************************************************)
(* Joining and gossip for any number of nodes, vertices and mishaps: joins *)
(* never wait in a circle, all nodes that are up are connected, those who  *)
(* pass a vertex on hold it, and a vertex misses a node only for a cause   *)
(* that is recorded.                                                       *)
(***************************************************************************)
EXTENDS Gossip, TLAPS

(* The provers to try on a leaf, with their time limits in seconds. *)
USE ZenonT(5), SMTT(20)

Known(n) == stage[n] \notin {"loading", "serving"}

(* Nodes n was told of and is not finished with. *)
Pending(n) == (todo[n] \cup {callee[n]}) \ {n}

JoinTypeOK ==
  /\ nodes \in [Node -> SUBSET Node]
  /\ stage \in [Node -> Stages]
  /\ todo \in [Node -> SUBSET Node]
  /\ callee \in [Node -> Node]

(* The genesis node is always up; a node has something pending only while  *)
(* it joins, and never itself.                                             *)
JoinShape ==
  /\ stage[GenesisNode] = "up"
  /\ \A n \in Node :
       /\ n \notin nodes[n] /\ n \notin todo[n]
       /\ stage[n] \in {"loading", "serving", "up"} => todo[n] = {}
       /\ stage[n] = "announcing" <=> callee[n] # n

(* Nobody is told of a node before it was discovered. *)
UnknownBefore ==
  \A n \in Node \ restarted :
    ~ Known(n) => n \notin nodes[GenesisNode] /\ \A m \in Node : n \notin Pending(m)

(* Of any nodes that did not restart, one has none of the others pending. *)
PendingOrdered ==
  \A S \in SUBSET (Node \ restarted) :
    S # {} => \E n \in S : \A m \in S : m \notin Pending(n)

(* Of two nodes that are known, each is connected to the other, or one of   *)
(* them has the other pending.                                              *)
MeshGrows ==
  \A n, m \in Node :
    n # m /\ Known(n) /\ Known(m) =>
      /\ m \in nodes[n] \/ m \in todo[n] \/ n \in Pending(m)
      /\ n = GenesisNode => m \in nodes[n]

JoinInv == JoinTypeOK /\ JoinShape /\ UnknownBefore /\ PendingOrdered /\ MeshGrows

JoinUnchanged == UNCHANGED <<joinVars, restarted>>

(* Only the steps of a join and a restart touch what joins are about. *)
LEMMA OthersDoNotJoin ==
  ASSUME Next
  PROVE  \/ \E n \in Node : JoinStep(n) \/ Restart(n)
         \/ JoinUnchanged
<1>1. CASE \E n \in Node, t \in Trx : \E ps \in SUBSET Leaves(n) : Create(n, ps, t)
  BY <1>1 DEF Create, JoinUnchanged
<1>2. CASE \E n \in Node, h \in Vertex :
             Gossip(n, h) \/ Replay(n, h) \/ GiveUp(n, h) \/ Drop(n, h) \/ Forget(n, h)
  BY <1>2 DEF Gossip, Replay, GiveUp, Drop, Forget, JoinUnchanged, workVars, netVars
<1>3. CASE \E k \in calls : CallStep(k) \/ Cancel(k) \/ Lose(k) \/ Refuse(k)
  BY <1>3 DEF CallStep, HasHash, NoteHash, SendToAccountant, NotLoaded, Interrupt, PassOn, CallFails,
              Cancel, Lose, Refuse, JoinUnchanged, workVars
<1>4. CASE \E p \in pulls : PullFails(p) \/ \E m \in Node : Pull(p, m)
  BY <1>4 DEF PullFails, Pull, JoinUnchanged, workVars
<1>5. CASE \E n \in Node : DagLoaded(n)
  BY <1>5 DEF DagLoaded, JoinUnchanged, workVars
<1> QED BY <1>1, <1>2, <1>3, <1>4, <1>5 DEF Next

(* The nodes that are up at first are connected. *)
LEMMA JoinInit ==
  ASSUME Init
  PROVE  JoinInv
<1>1. PICK joined \in SUBSET Node :
        /\ GenesisNode \in joined
        /\ nodes = [n \in Node |-> IF n \in joined THEN joined \ {n} ELSE {}]
        /\ stage = [n \in Node |-> IF n \in joined THEN "up" ELSE "loading"]
        /\ todo = [n \in Node |-> {}] /\ callee = [n \in Node |-> n]
        /\ restarted = {}
  BY DEF Init
<1>2. \A n \in Node : Pending(n) = {}
  BY <1>1 DEF Pending
<1>3. JoinTypeOK /\ JoinShape
  BY <1>1, GossipAssumption DEF JoinTypeOK, JoinShape, Stages
<1>4. UnknownBefore
  BY <1>1, <1>2, GossipAssumption DEF UnknownBefore, Known
<1>5. PendingOrdered
  BY <1>1, <1>2 DEF PendingOrdered
<1>6. MeshGrows
  BY <1>1, <1>2, GossipAssumption DEF MeshGrows, Known
<1> QED BY <1>3, <1>4, <1>5, <1>6 DEF JoinInv

(* A step after which nobody that did not restart has more pending keeps    *)
(* their order.                                                             *)
LEMMA OrderKept ==
  ASSUME PendingOrdered, restarted \subseteq restarted',
         \A n \in Node \ restarted' : Pending(n)' \subseteq Pending(n)
  PROVE  PendingOrdered'
<1> SUFFICES ASSUME NEW S \in SUBSET (Node \ restarted'), S # {}
             PROVE  \E n \in S : \A m \in S : m \notin Pending(n)'
  BY DEF PendingOrdered
<1>1. PICK n \in S : \A m \in S : m \notin Pending(n)
  BY DEF PendingOrdered
<1> QED BY <1>1

(* A node has received the DAG. *)
LEMMA LoadDagJoins ==
  ASSUME JoinInv, NEW n \in Node, NEW l \in Node, NEW S, LoadDag(n, l, S)
  PROVE  JoinInv'
<1>1. /\ nodes' = nodes /\ todo' = todo /\ callee' = callee /\ restarted' = restarted
      /\ stage' = [stage EXCEPT ![n] = "serving"] /\ stage[n] = "loading"
  BY DEF LoadDag, workVars
<1>2. \A m \in Node : Pending(m)' = Pending(m) /\ (Known(m)' <=> Known(m))
  BY <1>1 DEF Pending, Known, JoinInv, JoinTypeOK
<1>3. JoinTypeOK' /\ JoinShape'
  BY <1>1, GossipAssumption DEF JoinInv, JoinTypeOK, JoinShape, Stages
<1>4. UnknownBefore' /\ MeshGrows'
  BY <1>1, <1>2 DEF JoinInv, UnknownBefore, MeshGrows
<1>5. PendingOrdered'
  BY <1>1, <1>2, OrderKept DEF JoinInv
<1> QED BY <1>3, <1>4, <1>5 DEF JoinInv

(* The caller has everyone pending that is known, and nobody has it         *)
(* pending unless it restarted.                                             *)
LEMMA DiscoverJoins ==
  ASSUME JoinInv, NEW n \in Node, Discover(n)
  PROVE  JoinInv'
<1> DEFINE answer == ({GenesisNode} \cup nodes[GenesisNode]) \ {n}
<1>1. /\ nodes' = [nodes EXCEPT ![GenesisNode] = @ \cup {n}]
      /\ todo' = [todo EXCEPT ![n] = answer]
      /\ stage' = [stage EXCEPT ![n] = "discovered"]
      /\ callee' = callee /\ restarted' = restarted /\ stage[n] = "serving"
  BY DEF Discover, workVars
<1>2. JoinTypeOK /\ JoinShape /\ UnknownBefore /\ PendingOrdered /\ MeshGrows
  BY DEF JoinInv
<1>3. n # GenesisNode /\ callee[n] = n /\ n \notin answer
  BY <1>1, <1>2 DEF JoinShape
<1>4. /\ Pending(n)' = answer /\ Known(n)'
      /\ \A m \in Node \ {n} : Pending(m)' = Pending(m) /\ (Known(m)' <=> Known(m))
  BY <1>1, <1>2, <1>3 DEF Pending, Known, JoinTypeOK
<1>5. JoinTypeOK'
  BY <1>1, <1>2, GossipAssumption DEF JoinTypeOK, Stages
<1>6. JoinShape'
  BY <1>1, <1>2, <1>3, GossipAssumption DEF JoinShape, JoinTypeOK
<1>7. UnknownBefore'
  <2> SUFFICES ASSUME NEW m \in Node \ restarted, ~ Known(m)'
               PROVE  m \notin nodes'[GenesisNode] /\ \A l \in Node : m \notin Pending(l)'
    BY <1>1 DEF UnknownBefore
  <2>1. m # n /\ ~ Known(m)
    BY <1>4
  <2>2. m \notin nodes[GenesisNode] /\ \A l \in Node : m \notin Pending(l)
    BY <2>1, <1>2 DEF UnknownBefore
  <2>3. m # GenesisNode
    BY <2>1, <1>2 DEF JoinShape, Known
  <2> QED BY <2>1, <2>2, <2>3, <1>1, <1>2, <1>4, GossipAssumption DEF JoinTypeOK
<1>8. PendingOrdered'
  <2> SUFFICES ASSUME NEW S \in SUBSET (Node \ restarted), S # {}
               PROVE  \E l \in S : \A m \in S : m \notin Pending(l)'
    BY <1>1 DEF PendingOrdered
  <2>1. CASE n \notin S
    <3>1. PICK l \in S : \A m \in S : m \notin Pending(l)
      BY <1>2 DEF PendingOrdered
    <3> QED BY <2>1, <3>1, <1>4
  <2>2. CASE S = {n}
    BY <2>2, <1>3, <1>4
  <2>3. CASE n \in S /\ S # {n}
    <3>1. S \ {n} # {} /\ S \ {n} \in SUBSET (Node \ restarted)
      BY <2>3
    <3>2. PICK l \in S \ {n} : \A m \in S \ {n} : m \notin Pending(l)
      BY <3>1, <1>2 DEF PendingOrdered
    <3>3. n \notin Pending(l)
      BY <2>3, <1>1, <1>2 DEF UnknownBefore, Known
    <3> QED BY <3>2, <3>3, <1>4
  <2> QED BY <2>1, <2>2, <2>3
<1>9. MeshGrows'
  <2> SUFFICES ASSUME NEW a \in Node, NEW b \in Node, a # b, Known(a)', Known(b)'
               PROVE  /\ b \in nodes'[a] \/ b \in todo'[a] \/ a \in Pending(b)'
                      /\ a = GenesisNode => b \in nodes'[a]
    BY DEF MeshGrows
  <2>1. CASE a = n
    <3>1. b = GenesisNode \/ b \in nodes[GenesisNode]
      BY <2>1, <1>2, <1>4, GossipAssumption DEF MeshGrows, JoinShape, Known
    <3> QED BY <2>1, <3>1, <1>1, <1>2, <1>3 DEF JoinTypeOK
  <2>2. CASE b = n
    <3>1. a = GenesisNode \/ a \in nodes[GenesisNode]
      BY <2>2, <1>2, <1>4, GossipAssumption DEF MeshGrows, JoinShape, Known
    <3> QED BY <2>2, <3>1, <1>1, <1>2, <1>3, <1>4 DEF JoinTypeOK
  <2>3. CASE a # n /\ b # n
    BY <2>3, <1>1, <1>2, <1>4 DEF MeshGrows, JoinTypeOK
  <2> QED BY <2>1, <2>2, <2>3
<1> QED BY <1>5, <1>6, <1>7, <1>8, <1>9 DEF JoinInv

(* A node that was told of the others takes its lock. *)
LEMMA LockNodesJoins ==
  ASSUME JoinInv, NEW n \in Node, LockNodes(n)
  PROVE  JoinInv'
<1>1. /\ nodes' = nodes /\ todo' = todo /\ callee' = callee /\ restarted' = restarted
      /\ stage' = [stage EXCEPT ![n] = "connecting"] /\ stage[n] = "discovered"
  BY DEF LockNodes, workVars
<1>2. \A m \in Node : Pending(m)' = Pending(m) /\ (Known(m)' <=> Known(m))
  BY <1>1 DEF Pending, Known, JoinInv, JoinTypeOK
<1>3. JoinTypeOK' /\ JoinShape'
  BY <1>1, GossipAssumption DEF JoinInv, JoinTypeOK, JoinShape, Stages
<1>4. UnknownBefore' /\ MeshGrows'
  BY <1>1, <1>2 DEF JoinInv, UnknownBefore, MeshGrows
<1>5. PendingOrdered'
  BY <1>1, <1>2, OrderKept DEF JoinInv
<1> QED BY <1>3, <1>4, <1>5 DEF JoinInv

(* A node connects to one it was told of. *)
LEMMA ConnectJoins ==
  ASSUME JoinInv, NEW n \in Node, NEW l \in Node, Connect(n, l)
  PROVE  JoinInv'
<1>1. /\ nodes' = [nodes EXCEPT ![n] = @ \cup {l}]
      /\ todo' = [todo EXCEPT ![n] = @ \ {l}]
      /\ restarted' = restarted /\ stage[n] = "connecting" /\ l \in todo[n]
  BY DEF Connect, workVars
<1>2. JoinTypeOK /\ JoinShape /\ UnknownBefore /\ PendingOrdered /\ MeshGrows
  BY DEF JoinInv
<1>3. n # GenesisNode /\ callee[n] = n /\ n # l
  BY <1>1, <1>2 DEF JoinShape
<1>4. /\ stage' = [stage EXCEPT ![n] = stage'[n]]
      /\ stage'[n] \in {"up", "connecting", "announcing"}
      /\ stage'[n] = "up" => todo'[n] = {}
      /\ callee' = [callee EXCEPT ![n] = IF l = GenesisNode THEN n ELSE l]
      /\ stage'[n] = "announcing" <=> l # GenesisNode
  BY <1>1, <1>2, <1>3 DEF Connect, JoinTypeOK, GoesOn
<1>5. /\ Pending(n)' \subseteq Pending(n)
      /\ \A m \in Pending(n) : m \in Pending(n)' \/ m = GenesisNode
      /\ \A m \in Node \ {n} : Pending(m)' = Pending(m)
      /\ \A m \in Node : Known(m)' <=> Known(m)
  BY <1>1, <1>2, <1>3, <1>4 DEF Pending, Known, JoinTypeOK
<1>6. JoinTypeOK'
  BY <1>1, <1>2, <1>4 DEF JoinTypeOK, Stages
<1>7. JoinShape'
  BY <1>1, <1>2, <1>3, <1>4, GossipAssumption DEF JoinShape, JoinTypeOK
<1>8. UnknownBefore'
  BY <1>1, <1>2, <1>3, <1>5, GossipAssumption DEF UnknownBefore, JoinTypeOK
<1>9. PendingOrdered'
  BY <1>1, <1>2, <1>5, OrderKept
<1>10. MeshGrows'
  BY <1>1, <1>2, <1>3, <1>5, GossipAssumption DEF MeshGrows, JoinTypeOK
<1> QED BY <1>6, <1>7, <1>8, <1>9, <1>10 DEF JoinInv

(* The announcement is answered or not; what was pending is no longer.      *)
LEMMA AnnouncedJoins ==
  ASSUME JoinInv, NEW n \in Node, Announce(n) \/ AnnounceFails(n)
  PROVE  JoinInv'
<1> DEFINE l == callee[n]
<1>1. /\ stage[n] = "announcing"
      /\ stage' = [stage EXCEPT ![n] = GoesOn(todo[n])]
      /\ callee' = [callee EXCEPT ![n] = n]
      /\ todo' = todo /\ restarted' = restarted
  BY DEF Announce, AnnounceFails, Announced, workVars
<1>2. \/ nodes' = [nodes EXCEPT ![l] = @ \cup {n}]
      \/ nodes' = nodes /\ ~ Known(l)
  BY DEF Announce, AnnounceFails, Serves, Known
<1>3. JoinTypeOK /\ JoinShape /\ UnknownBefore /\ PendingOrdered /\ MeshGrows
  BY DEF JoinInv
<1>4. n # GenesisNode /\ l \in Node /\ l # n
  BY <1>1, <1>3 DEF JoinShape, JoinTypeOK
<1>5. /\ stage'[n] \in {"up", "connecting"} /\ (stage'[n] = "up" => todo'[n] = {})
      /\ \A m \in Node \ {n} : stage'[m] = stage[m] /\ callee'[m] = callee[m]
      /\ callee'[n] = n
  BY <1>1, <1>3 DEF JoinTypeOK, GoesOn
<1>6. /\ Pending(n)' \subseteq Pending(n)
      /\ \A m \in Pending(n) : m \in Pending(n)' \/ m = l
      /\ \A m \in Node \ {n} : Pending(m)' = Pending(m)
      /\ \A m \in Node : Known(m)' <=> Known(m)
  BY <1>1, <1>3, <1>5 DEF Pending, Known, JoinTypeOK
<1>7. JoinTypeOK'
  BY <1>1, <1>2, <1>3, <1>4 DEF JoinTypeOK, Stages, GoesOn
<1>8. JoinShape'
  BY <1>1, <1>2, <1>3, <1>4, <1>5, GossipAssumption DEF JoinShape, JoinTypeOK
<1>9. UnknownBefore'
  <2> SUFFICES ASSUME NEW m \in Node \ restarted, ~ Known(m)'
               PROVE  m \notin nodes'[GenesisNode] /\ \A k \in Node : m \notin Pending(k)'
    BY <1>1 DEF UnknownBefore
  <2>1. m # n /\ ~ Known(m)
    BY <1>1, <1>6 DEF Known
  <2> QED BY <2>1, <1>2, <1>3, <1>4, <1>6, GossipAssumption DEF UnknownBefore, JoinTypeOK
<1>10. PendingOrdered'
  BY <1>1, <1>3, <1>6, OrderKept
<1>11. MeshGrows'
  <2> SUFFICES ASSUME NEW a \in Node, NEW b \in Node, a # b, Known(a)', Known(b)'
               PROVE  /\ b \in nodes'[a] \/ b \in todo'[a] \/ a \in Pending(b)'
                      /\ a = GenesisNode => b \in nodes'[a]
    BY DEF MeshGrows
  <2>1. /\ b \in nodes[a] \/ b \in todo[a] \/ a \in Pending(b)
        /\ a = GenesisNode => b \in nodes[a]
    BY <1>3, <1>6 DEF MeshGrows
  <2>2. \A m \in Node : nodes[m] \subseteq nodes'[m]
    BY <1>2, <1>3, <1>4 DEF JoinTypeOK
  <2>3. CASE a \in Pending(b) /\ a \notin Pending(b)'
    <3>1. b = n /\ a = l
      BY <2>3, <1>6
    <3> QED BY <3>1, <2>1, <2>2, <1>2, <1>3, <1>4, <1>6 DEF JoinTypeOK
  <2> QED BY <2>1, <2>2, <2>3, <1>1
<1> QED BY <1>7, <1>8, <1>9, <1>10, <1>11 DEF JoinInv

(* A node that restarts has nothing pending and is not known. *)
LEMMA RestartJoins ==
  ASSUME JoinInv, NEW n \in Node, Restart(n)
  PROVE  JoinInv'
<1>1. /\ n # GenesisNode
      /\ nodes' = [nodes EXCEPT ![n] = {}]
      /\ todo' = [todo EXCEPT ![n] = {}]
      /\ callee' = [callee EXCEPT ![n] = n]
      /\ stage' = [stage EXCEPT ![n] = "loading"]
      /\ restarted' = restarted \cup {n}
  BY DEF Restart
<1>2. JoinTypeOK /\ JoinShape /\ UnknownBefore /\ PendingOrdered /\ MeshGrows
  BY DEF JoinInv
<1>3. /\ Pending(n)' = {} /\ ~ Known(n)'
      /\ \A m \in Node \ {n} : Pending(m)' = Pending(m) /\ (Known(m)' <=> Known(m))
  BY <1>1, <1>2 DEF Pending, Known, JoinTypeOK
<1>4. JoinTypeOK'
  BY <1>1, <1>2 DEF JoinTypeOK, Stages
<1>5. JoinShape'
  BY <1>1, <1>2, GossipAssumption DEF JoinShape, JoinTypeOK
<1>6. UnknownBefore'
  BY <1>1, <1>2, <1>3, GossipAssumption DEF UnknownBefore, JoinTypeOK
<1>7. PendingOrdered'
  BY <1>1, <1>2, <1>3, OrderKept
<1>8. MeshGrows'
  BY <1>1, <1>2, <1>3 DEF MeshGrows, JoinTypeOK
<1> QED BY <1>4, <1>5, <1>6, <1>7, <1>8 DEF JoinInv

(* Every step keeps the invariant of joining. *)
LEMMA JoinKept ==
  ASSUME JoinInv, [Next]_vars
  PROVE  JoinInv'
<1>1. CASE JoinUnchanged \/ UNCHANGED vars
  <2>1. nodes' = nodes /\ stage' = stage /\ todo' = todo /\ callee' = callee /\ restarted' = restarted
    BY <1>1 DEF JoinUnchanged, vars, joinVars, workVars
  <2>2. \A n \in Node : Pending(n)' = Pending(n) /\ Known(n)' = Known(n)
    BY <2>1 DEF Pending, Known
  <2> QED BY <2>1, <2>2 DEF JoinInv, JoinTypeOK, JoinShape, UnknownBefore, PendingOrdered, MeshGrows
<1>2. CASE \E n \in Node : JoinStep(n)
  <2> PICK n \in Node : JoinStep(n)
    BY <1>2
  <2>1. CASE \E l \in Node : \E S \in SUBSET held[l] : LoadDag(n, l, S)
    BY <2>1, LoadDagJoins
  <2>2. CASE \E l \in Node : Connect(n, l)
    BY <2>2, ConnectJoins
  <2> QED
    BY <2>1, <2>2, DiscoverJoins, LockNodesJoins, AnnouncedJoins DEF JoinStep
<1>3. CASE \E n \in Node : Restart(n)
  BY <1>3, RestartJoins
<1> QED BY <1>1, <1>2, <1>3, OthersDoNotJoin

(* The invariant of joins (updateNodesConnectionsFromGensisNode). *)
THEOREM JoinInvariant == Spec => []JoinInv
<1>1. Init => JoinInv
  BY JoinInit
<1>2. JoinInv /\ [Next]_vars => JoinInv'
  BY JoinKept
<1> QED BY <1>1, <1>2, PTL DEF Spec

(* However many nodes join at once, those that did not restart never wait  *)
(* for each other's locks in a circle while they announce themselves.      *)
THEOREM JoinsNeverCircular == Spec => []NoCircularWait
<1>1. JoinInv => NoCircularWait
  <2> SUFFICES ASSUME JoinInv, NEW S \in SUBSET (Node \ restarted), S # {}
               PROVE  \E n \in S : \A m \in S : ~ WaitsFor(n, m)
    BY DEF NoCircularWait
  <2>1. PICK n \in S : \A m \in S : m \notin Pending(n)
    BY DEF JoinInv, PendingOrdered
  <2> QED BY <2>1 DEF WaitsFor, Pending, JoinInv, JoinShape
<1> QED BY <1>1, JoinInvariant, PTL

(* Whatever the order of joins, announcements and restarts, when all nodes *)
(* are up each is connected to every other.                                *)
THEOREM AllConnected == Spec => []MeshComplete
<1>1. JoinInv => MeshComplete
  <2> SUFFICES ASSUME JoinInv, \A n \in Node : stage[n] = "up", NEW n \in Node
               PROVE  nodes[n] = Node \ {n}
    BY DEF MeshComplete
  <2>1. \A m \in Node : Pending(m) = {} /\ todo[m] = {} /\ Known(m)
    BY DEF JoinInv, JoinShape, Pending, Known
  <2>2. nodes[n] \subseteq Node /\ n \notin nodes[n]
    BY DEF JoinInv, JoinTypeOK, JoinShape
  <2>3. \A m \in Node \ {n} : m \in nodes[n]
    BY <2>1 DEF JoinInv, MeshGrows
  <2> QED BY <2>2, <2>3
<1> QED BY <1>1, JoinInvariant, PTL

-----------------------------------------------------------------------------

Call ==
  [from : Node, to : Node, vrx : Vertex, gossipers : SUBSET Node,
   at : {"sent", "new", "noted", "added"}, ctx : {"node", "handler"}]

(* What g may call itself a gossiper of. *)
Kept(g, h) == g \in restarted \/ h \in held[g] \/ <<g, h>> \in missed

CallTypeOK ==
  /\ held = [n \in Node |-> held[n]]
  /\ memory = [n \in Node |-> memory[n]]
  /\ vrxCh \in [Node -> SUBSET Vertex]
  /\ calls \subseteq Call
  /\ \A p \in pulls : p.by \in Node

(* A node that does not serve yet has nothing and runs no handler. *)
NothingBeforeServing ==
  \A n \in Node : ~ Serves(n) =>
    /\ held[n] = {} /\ memory[n] = {}
    /\ \A p \in pulls : p.by # n
    /\ \A k \in calls : k.to = n => k.at = "sent"

(* Senders hold what they send, and what is about to be passed on is held. *)
SendersHold ==
  /\ \A n \in Node : \A h \in vrxCh[n] : Kept(n, h)
  /\ \A k \in calls : /\ \A g \in k.gossipers : Kept(g, k.vrx)
                      /\ k.at = "added" => Kept(k.to, k.vrx)

CallInv == CallTypeOK /\ NothingBeforeServing /\ SendersHold

(* At first nothing is called. *)
LEMMA CallInit ==
  ASSUME Init
  PROVE  CallInv
<1>1. PICK joined \in SUBSET Node :
        /\ stage = [n \in Node |-> IF n \in joined THEN "up" ELSE "loading"]
        /\ held = [n \in Node |-> IF n \in joined THEN {GenesisVertex} ELSE {}]
        /\ memory = [n \in Node |-> {}]
        /\ vrxCh = [n \in Node |-> {}]
        /\ calls = {} /\ pulls = {}
  BY DEF Init
<1>2. CallTypeOK
  BY <1>1 DEF CallTypeOK
<1>3. NothingBeforeServing
  BY <1>1 DEF NothingBeforeServing, Serves
<1>4. SendersHold
  BY <1>1 DEF SendersHold
<1> QED BY <1>2, <1>3, <1>4 DEF CallInv

(* A step of a join, apart from loading, leaves everything alone here.      *)
LEMMA JoinStepKeepsCalls ==
  ASSUME CallInv, JoinTypeOK, NEW n \in Node,
         \/ Discover(n) \/ LockNodes(n) \/ Announce(n) \/ AnnounceFails(n)
         \/ \E l \in Node : Connect(n, l)
  PROVE  CallInv'
<1>1. UNCHANGED <<held, memory, vrxCh, calls, pulls, restarted, missed>>
  BY DEF Discover, LockNodes, Announce, AnnounceFails, Announced, Connect, bookVars, netVars, workVars
<1>2. \A m \in Node : Serves(m) => Serves(m)'
  BY DEF Discover, LockNodes, Announce, AnnounceFails, Announced, Connect, Serves, GoesOn, JoinTypeOK
<1>3. \A g, h : Kept(g, h)' = Kept(g, h)
  BY <1>1 DEF Kept
<1>4. CallTypeOK'
  BY <1>1 DEF CallInv, CallTypeOK
<1>5. NothingBeforeServing'
  BY <1>1, <1>2 DEF CallInv, NothingBeforeServing
<1>6. SendersHold'
  BY <1>1, <1>3 DEF CallInv, SendersHold
<1> QED BY <1>4, <1>5, <1>6 DEF CallInv

(* A node that receives the DAG begins to serve. *)
LEMMA LoadDagKeepsCalls ==
  ASSUME CallInv, JoinTypeOK, NEW n \in Node, NEW l \in Node, NEW S, LoadDag(n, l, S)
  PROVE  CallInv'
<1>1. /\ UNCHANGED <<memory, vrxCh, calls, pulls, restarted>>
      /\ held' = [held EXCEPT ![n] = S]
      /\ stage' = [stage EXCEPT ![n] = "serving"]
      /\ ~ Serves(n) /\ missed \subseteq missed'
  BY DEF LoadDag, netVars, Serves
<1>2. \A m \in Node : m # n => Serves(m)' = Serves(m)
  BY <1>1 DEF Serves, JoinTypeOK
<1>3. Serves(n)'
  BY <1>1 DEF Serves, JoinTypeOK
<1>4. \A g \in Node : \A h : Kept(g, h) => Kept(g, h)'
  BY <1>1 DEF Kept, CallInv, CallTypeOK, NothingBeforeServing
<1>5. CallTypeOK'
  BY <1>1 DEF CallInv, CallTypeOK
<1>6. NothingBeforeServing'
  BY <1>1, <1>2, <1>3 DEF CallInv, CallTypeOK, NothingBeforeServing
<1>7. SendersHold'
  BY <1>1, <1>4 DEF CallInv, CallTypeOK, SendersHold, Call
<1> QED BY <1>5, <1>6, <1>7 DEF CallInv

(* A node that restarts forgets, and calls to it end. *)
LEMMA RestartKeepsCalls ==
  ASSUME CallInv, JoinTypeOK, NEW n \in Node, Restart(n)
  PROVE  CallInv'
<1>1. /\ held' = [held EXCEPT ![n] = {}] /\ memory' = [memory EXCEPT ![n] = {}]
      /\ vrxCh' = [vrxCh EXCEPT ![n] = {}]
      /\ calls' \subseteq {k \in calls : k.to # n}
      /\ pulls' = {p \in pulls : p.by # n}
      /\ restarted' = restarted \cup {n} /\ missed \subseteq missed'
      /\ stage' = [stage EXCEPT ![n] = "loading"]
  BY DEF Restart
<1>2. \A m \in Node : m # n => Serves(m)' = Serves(m)
  BY <1>1 DEF Serves, JoinTypeOK
<1>3. \A g \in Node : \A h : Kept(g, h) => Kept(g, h)'
  BY <1>1 DEF Kept, CallInv, CallTypeOK
<1>4. CallTypeOK'
  BY <1>1 DEF CallInv, CallTypeOK
<1>5. NothingBeforeServing'
  BY <1>1, <1>2 DEF CallInv, CallTypeOK, NothingBeforeServing
<1>6. SendersHold'
  BY <1>1, <1>3 DEF CallInv, CallTypeOK, SendersHold, Call
<1> QED BY <1>4, <1>5, <1>6 DEF CallInv

(* What a step outside of joins and restarts has to respect: nobody loses a *)
(* vertex without a record of it, only nodes that serve get anything, and   *)
(* what is new on the pipe or in a call is held by those who send it.       *)
LEMMA CallsKept ==
  ASSUME CallInv, CallTypeOK', stage' = stage, restarted' = restarted, missed \subseteq missed',
         \A g \in Node : \A h \in held[g] : h \in held'[g] \/ <<g, h>> \in missed',
         \A n \in Node : ~ Serves(n) => held'[n] = held[n] /\ memory'[n] = memory[n],
         \A p \in pulls' : p \in pulls \/ Serves(p.by),
         \A n \in Node : \A h \in vrxCh'[n] : h \in vrxCh[n] \/ h \in held'[n],
         \A k \in calls' : \/ k \in calls
                           \/ /\ k.at # "sent" => Serves(k.to)
                              /\ \A g \in k.gossipers : Kept(g, k.vrx)'
                              /\ k.at = "added" => Kept(k.to, k.vrx)'
  PROVE  CallInv'
<1>1. \A g \in Node : \A h : Kept(g, h) => Kept(g, h)'
  BY DEF Kept
<1>2. \A n \in Node : Serves(n)' = Serves(n)
  BY DEF Serves
<1>3. NothingBeforeServing'
  BY <1>2 DEF CallInv, NothingBeforeServing
<1>4. SendersHold'
  <2>1. \A n \in Node : \A h \in vrxCh'[n] : Kept(n, h)'
    BY <1>1 DEF CallInv, SendersHold, Kept
  <2>2. \A k \in calls : \A g \in k.gossipers : Kept(g, k.vrx)'
    BY <1>1 DEF CallInv, CallTypeOK, Call, SendersHold
  <2>3. \A k \in calls : k.at = "added" => Kept(k.to, k.vrx)'
    BY <1>1 DEF CallInv, CallTypeOK, Call, SendersHold
  <2> QED BY <2>1, <2>2, <2>3 DEF SendersHold
<1> QED BY <1>3, <1>4 DEF CallInv

(* A vertex a node created is held and on its pipe. *)
LEMMA CreateKeepsCalls ==
  ASSUME CallInv, NEW n \in Node, NEW ps, NEW t, Create(n, ps, t)
  PROVE  CallInv'
<1>1. /\ Serves(n)
      /\ held' = [held EXCEPT ![n] = @ \cup {NewHash}]
      /\ vrxCh' = [vrxCh EXCEPT ![n] = @ \cup {NewHash}]
      /\ UNCHANGED <<stage, memory, calls, pulls, restarted, missed>>
  BY DEF Create, joinVars
<1>2. NewHash \in Vertex
  BY DEF Create, NewHash, Signed
<1>3. CallTypeOK'
  BY <1>1, <1>2 DEF CallInv, CallTypeOK
<1>4. /\ \A g \in Node : \A h \in held[g] : h \in held'[g]
      /\ \A m \in Node : ~ Serves(m) => held'[m] = held[m]
      /\ \A m \in Node : \A h \in vrxCh'[m] : h \in vrxCh[m] \/ h \in held'[m]
  BY <1>1 DEF CallInv, CallTypeOK
<1> QED BY <1>1, <1>3, <1>4, CallsKept

(* A vertex leaves the pipe for all connections. *)
LEMMA GossipKeepsCalls ==
  ASSUME CallInv, JoinTypeOK, NEW n \in Node, NEW h \in Vertex, Gossip(n, h)
  PROVE  CallInv'
<1>1. /\ h \in vrxCh[n]
      /\ vrxCh' = [vrxCh EXCEPT ![n] = @ \ {h}]
      /\ calls' = calls \cup CallsTo(n, h, {n}, "node")
      /\ missed \subseteq missed'
      /\ UNCHANGED <<stage, held, memory, pulls, restarted>>
  BY DEF Gossip, joinVars, bookVars, workVars
<1>2. CallsTo(n, h, {n}, "node") \subseteq Call
  BY DEF CallsTo, Call, JoinTypeOK
<1>3. \A k \in CallsTo(n, h, {n}, "node") : k.at = "sent" /\ k.gossipers = {n} /\ k.vrx = h
  BY DEF CallsTo
<1>4. Kept(n, h)'
  BY <1>1 DEF CallInv, SendersHold, Kept
<1>5. CallTypeOK'
  BY <1>1, <1>2 DEF CallInv, CallTypeOK
<1>6. \A m \in Node : \A x \in vrxCh'[m] : x \in vrxCh[m]
  BY <1>1 DEF CallInv, CallTypeOK
<1> QED BY <1>1, <1>3, <1>4, <1>5, <1>6, CallsKept

(* Replay, GiveUp, Drop and Forget: the vertices of a node that serves.     *)
LEMMA BookStepKeepsCalls ==
  ASSUME CallInv, NEW n \in Node, NEW h \in Vertex,
         Replay(n, h) \/ GiveUp(n, h) \/ Drop(n, h) \/ Forget(n, h)
  PROVE  CallInv'
<1>1. /\ UNCHANGED <<stage, vrxCh, calls, pulls, restarted>>
      /\ missed \subseteq missed'
  BY DEF Replay, GiveUp, Drop, Forget, joinVars, netVars, workVars
<1>2. \/ held' = held
      \/ held' = [held EXCEPT ![n] = @ \cup {h}] /\ Serves(n)
      \/ held' = [held EXCEPT ![n] = @ \ {h}] /\ Serves(n) /\ <<n, h>> \in missed'
  BY DEF Replay, GiveUp, Drop, Forget, bookVars, Leaves, CallInv, NothingBeforeServing
<1>3. \/ memory' = memory
      \/ memory' = [memory EXCEPT ![n] = @ \ {h}] /\ Serves(n)
  BY DEF Replay, GiveUp, Drop, Forget, bookVars, CallInv, NothingBeforeServing
<1>4. CallTypeOK'
  BY <1>1, <1>2, <1>3 DEF CallInv, CallTypeOK
<1>5. \A g \in Node : \A x \in held[g] : x \in held'[g] \/ <<g, x>> \in missed'
  BY <1>2 DEF CallInv, CallTypeOK
<1>6. \A m \in Node : ~ Serves(m) => held'[m] = held[m] /\ memory'[m] = memory[m]
  BY <1>2, <1>3 DEF CallInv, CallTypeOK
<1> QED BY <1>1, <1>4, <1>5, <1>6, CallsKept

(* What AddLeaf does to a node that serves. *)
LEMMA AddLeafAdds ==
  ASSUME CallInv, NEW n \in Node, NEW h, AddLeaf(n, h)
  PROVE  /\ held' = [m \in Node |-> held'[m]] /\ memory' = [m \in Node |-> memory'[m]]
         /\ \A m \in Node : held[m] \subseteq held'[m]
         /\ \A m \in Node : m # n => held'[m] = held[m] /\ memory'[m] = memory[m]
         /\ TakenBy(n, h) => h \in held'[n]
<1>1. CASE Outcome(n, h) = "taken"
  BY <1>1 DEF AddLeaf, TakenBy, CallInv, CallTypeOK
<1>2. CASE Outcome(n, h) # "taken"
  BY <1>2 DEF AddLeaf, TakenBy, CallInv, CallTypeOK
<1> QED BY <1>1, <1>2

(* The accounting book takes a vertex, memorises or refuses it. *)
LEMMA SendToAccountantKeepsCalls ==
  ASSUME CallInv, NEW k \in calls, SendToAccountant(k)
  PROVE  CallInv'
<1> DEFINE n == k.to
           on == [k EXCEPT !.at = "added"]
<1>1. /\ k.at = "noted" /\ AddLeaf(n, k.vrx)
      /\ pulls' = pulls \cup Pulls(n, k.vrx)
      /\ \/ TakenBy(n, k.vrx) /\ calls' = (calls \ {k}) \cup {on}
         \/ calls' = calls \ {k}
      /\ missed \subseteq missed'
      /\ UNCHANGED <<stage, vrxCh, restarted>>
  BY DEF SendToAccountant, Goes, Answers, joinVars, workVars
<1>2. k \in Call /\ n \in Node
  BY DEF CallInv, CallTypeOK, Call
<1>3. Serves(n)
  BY <1>1, <1>2 DEF CallInv, NothingBeforeServing
<1>4. /\ on \in Call /\ on.vrx = k.vrx /\ on.to = n /\ on.gossipers = k.gossipers /\ on.at = "added"
  BY <1>2 DEF Call
<1>5. /\ held' = [m \in Node |-> held'[m]] /\ memory' = [m \in Node |-> memory'[m]]
      /\ \A m \in Node : held[m] \subseteq held'[m]
      /\ \A m \in Node : m # n => held'[m] = held[m] /\ memory'[m] = memory[m]
      /\ TakenBy(n, k.vrx) => k.vrx \in held'[n]
  BY <1>1, <1>2, AddLeafAdds
<1>6. \A p \in Pulls(n, k.vrx) : p.by = n
  BY DEF Pulls
<1>7. CallTypeOK'
  BY <1>1, <1>2, <1>4, <1>5, <1>6 DEF CallInv, CallTypeOK
<1>8. \A g \in k.gossipers : Kept(g, k.vrx)'
  BY <1>1, <1>2, <1>5 DEF CallInv, SendersHold, Kept, Call
<1>9. \A j \in calls' :
        \/ j \in calls
        \/ /\ j.at # "sent" => Serves(j.to)
           /\ \A g \in j.gossipers : Kept(g, j.vrx)'
           /\ j.at = "added" => Kept(j.to, j.vrx)'
  <2> SUFFICES ASSUME TakenBy(n, k.vrx)
               PROVE  Serves(on.to) /\ Kept(on.to, on.vrx)' /\ \A g \in on.gossipers : Kept(g, on.vrx)'
    BY <1>1
  <2> QED BY <1>3, <1>4, <1>5, <1>8 DEF Kept
<1> QED BY <1>1, <1>3, <1>5, <1>6, <1>7, <1>9, CallsKept

(* A handler passes on what it holds. *)
LEMMA PassOnKeepsCalls ==
  ASSUME CallInv, JoinTypeOK, NEW k \in calls, PassOn(k)
  PROVE  CallInv'
<1> DEFINE more == CallsTo(k.to, k.vrx, k.gossipers \cup {k.to}, "handler")
<1>1. /\ k.at = "added"
      /\ calls' = (calls \ {k}) \cup more
      /\ UNCHANGED <<stage, held, memory, vrxCh, pulls, restarted, missed>>
  BY DEF PassOn, joinVars, bookVars, workVars
<1>2. k \in Call
  BY DEF CallInv, CallTypeOK
<1>3. more \subseteq Call
  BY <1>2 DEF CallsTo, Call, JoinTypeOK
<1>4. \A j \in more : j.at = "sent" /\ j.gossipers = k.gossipers \cup {k.to} /\ j.vrx = k.vrx
  BY DEF CallsTo
<1>5. \A g \in k.gossipers \cup {k.to} : Kept(g, k.vrx)'
  BY <1>1 DEF CallInv, SendersHold, Kept
<1>6. CallTypeOK'
  BY <1>1, <1>3 DEF CallInv, CallTypeOK
<1> QED BY <1>1, <1>4, <1>5, <1>6, CallsKept

(* The other steps of a call: it goes on to its next stage or ends. *)
LEMMA CallGoesOn ==
  ASSUME CallInv, NEW k \in calls,
         \/ HasHash(k) \/ NoteHash(k) \/ NotLoaded(k) \/ CallFails(k) \/ Cancel(k) \/ Lose(k) \/ Refuse(k)
  PROVE  CallInv'
<1>1. /\ UNCHANGED <<stage, held, memory, vrxCh, pulls, restarted>>
      /\ missed \subseteq missed'
  BY DEF HasHash, NoteHash, NotLoaded, CallFails, Cancel, Lose, Refuse, joinVars, bookVars, workVars
<1>2. PICK at \in {"new", "noted"} :
        \/ calls' = calls \ {k}
        \/ Serves(k.to) /\ calls' = (calls \ {k}) \cup {[k EXCEPT !.at = at]}
  <2>1. k.to \in Node
    BY DEF CallInv, CallTypeOK, Call
  <2>2. CASE HasHash(k)
    BY <2>2 DEF HasHash, Goes, Answers
  <2>3. CASE NoteHash(k)
    BY <2>1, <2>3 DEF NoteHash, Goes, Answers, CallInv, NothingBeforeServing
  <2>4. CASE NotLoaded(k) \/ CallFails(k) \/ Cancel(k) \/ Lose(k) \/ Refuse(k)
    BY <2>4 DEF NotLoaded, CallFails, Cancel, Lose, Refuse, Answers
  <2> QED BY <2>2, <2>3, <2>4
<1> DEFINE on == [k EXCEPT !.at = at]
<1>3. k \in Call
  BY DEF CallInv, CallTypeOK
<1>4. on \in Call /\ on.vrx = k.vrx /\ on.to = k.to /\ on.gossipers = k.gossipers /\ on.at # "added"
  BY <1>3 DEF Call
<1>5. CallTypeOK'
  BY <1>1, <1>2, <1>4 DEF CallInv, CallTypeOK
<1>6. \A g \in k.gossipers : Kept(g, k.vrx)'
  BY <1>1 DEF CallInv, SendersHold, Kept
<1>7. \A j \in calls' :
        \/ j \in calls
        \/ /\ j.at # "sent" => Serves(j.to)
           /\ \A g \in j.gossipers : Kept(g, j.vrx)'
           /\ j.at = "added" => Kept(j.to, j.vrx)'
  BY <1>2, <1>4, <1>6
<1> QED BY <1>1, <1>5, <1>7, CallsKept

(* A handler is interrupted: what its node lost is recorded. *)
LEMMA InterruptKeepsCalls ==
  ASSUME CallInv, NEW k \in calls, NEW p, Interrupt(k, p)
  PROVE  CallInv'
<1>1. /\ k.at = "noted" /\ calls' = calls \ {k}
      /\ held' = [held EXCEPT ![k.to] = @ \ {p}] /\ <<k.to, p>> \in missed'
      /\ missed \subseteq missed'
      /\ UNCHANGED <<stage, memory, vrxCh, pulls, restarted>>
  BY DEF Interrupt, Answers, joinVars
<1>2. k.to \in Node
  BY DEF CallInv, CallTypeOK, Call
<1>3. Serves(k.to)
  BY <1>1, <1>2 DEF CallInv, NothingBeforeServing
<1>4. CallTypeOK'
  BY <1>1 DEF CallInv, CallTypeOK
<1>5. \A g \in Node : \A x \in held[g] : x \in held'[g] \/ <<g, x>> \in missed'
  BY <1>1 DEF CallInv, CallTypeOK
<1>6. \A m \in Node : ~ Serves(m) => held'[m] = held[m] /\ memory'[m] = memory[m]
  BY <1>1, <1>2, <1>3 DEF CallInv, CallTypeOK
<1> QED BY <1>1, <1>4, <1>5, <1>6, CallsKept

(* A lacking parent is fetched, or not. *)
LEMMA PullKeepsCalls ==
  ASSUME CallInv, NEW p \in pulls, PullFails(p) \/ \E m \in Node : Pull(p, m)
  PROVE  CallInv'
<1> DEFINE n == p.by
<1>1. n \in Node /\ Serves(n)
  BY DEF CallInv, CallTypeOK, NothingBeforeServing
<1>2. CASE PullFails(p)
  <2>1. /\ pulls' = pulls \ {p}
        /\ UNCHANGED <<stage, held, memory, vrxCh, calls, restarted, missed>>
    BY <1>2 DEF PullFails, joinVars, bookVars, workVars
  <2>2. CallTypeOK'
    BY <2>1 DEF CallInv, CallTypeOK
  <2> QED BY <2>1, <2>2, CallsKept
<1>3. CASE \E m \in Node : Pull(p, m)
  <2>1. /\ AddLeaf(n, p.vrx)
        /\ pulls' = (pulls \ {p}) \cup Pulls(n, p.vrx)
        /\ missed \subseteq missed'
        /\ UNCHANGED <<stage, vrxCh, calls, restarted>>
    BY <1>3 DEF Pull, joinVars, workVars
  <2>2. /\ held' = [m \in Node |-> held'[m]] /\ memory' = [m \in Node |-> memory'[m]]
        /\ \A m \in Node : held[m] \subseteq held'[m]
        /\ \A m \in Node : m # n => held'[m] = held[m] /\ memory'[m] = memory[m]
    BY <1>1, <2>1, AddLeafAdds
  <2>3. \A q \in Pulls(n, p.vrx) : q.by = n
    BY DEF Pulls
  <2>4. CallTypeOK'
    BY <1>1, <2>1, <2>2, <2>3 DEF CallInv, CallTypeOK
  <2> QED BY <1>1, <2>1, <2>2, <2>3, <2>4, CallsKept
<1> QED BY <1>2, <1>3

(* Every step keeps the invariant of the calls. *)
LEMMA CallInvKept ==
  ASSUME CallInv, JoinTypeOK, [Next]_vars
  PROVE  CallInv'
<1>1. CASE \E n \in Node : JoinStep(n)
  <2> PICK n \in Node : JoinStep(n)
    BY <1>1
  <2>1. CASE \E l \in Node : \E S \in SUBSET held[l] : LoadDag(n, l, S)
    BY <2>1, LoadDagKeepsCalls
  <2> QED
    BY <2>1, JoinStepKeepsCalls DEF JoinStep
<1>2. CASE \E n \in Node : Restart(n)
  BY <1>2, RestartKeepsCalls
<1>3. CASE \E n \in Node, t \in Trx : \E ps \in SUBSET Leaves(n) : Create(n, ps, t)
  BY <1>3, CreateKeepsCalls
<1>4. CASE \E n \in Node, h \in Vertex :
             Gossip(n, h) \/ Replay(n, h) \/ GiveUp(n, h) \/ Drop(n, h) \/ Forget(n, h)
  BY <1>4, GossipKeepsCalls, BookStepKeepsCalls
<1>5. CASE \E k \in calls : CallStep(k) \/ Cancel(k) \/ Lose(k) \/ Refuse(k)
  BY <1>5, SendToAccountantKeepsCalls, InterruptKeepsCalls, PassOnKeepsCalls, CallGoesOn DEF CallStep
<1>6. CASE \E p \in pulls : PullFails(p) \/ \E m \in Node : Pull(p, m)
  BY <1>6, PullKeepsCalls
<1>7. CASE UNCHANGED vars \/ \E n \in Node : DagLoaded(n)
  <2>1. UNCHANGED <<held, memory, vrxCh, calls, pulls, restarted, missed, stage>>
    BY <1>7 DEF DagLoaded, vars, joinVars, bookVars, netVars, workVars
  <2>2. CallTypeOK'
    BY <2>1 DEF CallInv, CallTypeOK
  <2> QED BY <2>1, <2>2, CallsKept
<1> QED BY <1>1, <1>2, <1>3, <1>4, <1>5, <1>6, <1>7 DEF Next

(* The invariant of calls and of what those who make them hold (GossipVrx). *)
THEOREM CallInvariant == Spec => []CallInv
<1>1. Init => CallInv
  BY CallInit
<1>2. CallInv /\ JoinInv /\ [Next]_vars => CallInv'
  BY CallInvKept DEF JoinInv
<1> QED BY <1>1, <1>2, JoinInvariant, PTL DEF Spec

(* A vertex is passed on only by nodes that hold it, whatever the order of  *)
(* calls, lost calls, evicted hashes and deleted leaves; restarted nodes    *)
(* aside.                                                                   *)
THEOREM GossipIsHonest == Spec => []GossipersHold
<1>1. CallInv => GossipersHold
  BY DEF CallInv, SendersHold, Kept, GossipersHold
<1> QED BY <1>1, CallInvariant, PTL

-----------------------------------------------------------------------------

(* n has h, will be given it again, or is known to have missed it. *)
Has(n, h) == h \in held[n] \/ h \in memory[n] \/ <<n, h>> \in missed

Noted(n, h) == \E k \in calls : k.to = n /\ k.vrx = h /\ k.at = "noted"

(* A call of h to n that nothing but n itself or a mishap ends. *)
Offered(n, h) ==
  \E k \in calls : /\ k.to = n /\ k.vrx = h
                   /\ k.at \in {"new", "noted"} \/ (k.at = "sent" /\ k.ctx = "node")

(* Hashes are noted before the vertex is taken, so a noted hash is no       *)
(* reason to ignore a call unless another handler is on its way with it.    *)
ReachInv ==
  /\ signed = [h \in Vertex |-> signed[h]] /\ seen = [n \in Node |-> seen[n]]
  /\ \A n \in Node : \A h \in Signed :
       Serves(n) => Has(n, h) \/ Offered(n, h) \/ \E m \in Node : h \in vrxCh[m]
  /\ \A n \in Node : \A h \in seen[n] : Has(n, h) \/ Noted(n, h)
  /\ \A n \in Node : ~ Serves(n) => seen[n] = {}
  /\ \A n \in Node : \A h \in vrxCh[n] : Has(n, h)
  /\ \A k \in calls : k.to \notin k.gossipers

(* At first every node that is up holds the genesis vertex. *)
LEMMA ReachInit ==
  ASSUME Init
  PROVE  ReachInv
<1>1. PICK joined \in SUBSET Node :
        /\ stage = [n \in Node |-> IF n \in joined THEN "up" ELSE "loading"]
        /\ signed = [h \in Vertex |-> IF h = GenesisVertex THEN [parents |-> {}, trx |-> NoVertex]
                                                           ELSE NoVertex]
        /\ held = [n \in Node |-> IF n \in joined THEN {GenesisVertex} ELSE {}]
        /\ seen = [n \in Node |-> {}]
        /\ vrxCh = [n \in Node |-> {}]
        /\ calls = {}
  BY DEF Init
<1>2. \A h \in Signed : h = GenesisVertex
  BY <1>1 DEF Signed
<1>3. \A n \in Node : \A h \in Signed : Serves(n) => Has(n, h)
  BY <1>1, <1>2 DEF Serves, Has
<1> QED BY <1>1, <1>3 DEF ReachInv

(* What a step that signs nothing and leaves the pipes alone has to respect. *)
LEMMA ReachKept ==
  ASSUME ReachInv, stage' = stage, signed' = signed, vrxCh' = vrxCh,
         seen' = [n \in Node |-> seen'[n]],
         \A n \in Node : \A h : Has(n, h) => Has(n, h)',
         \A n \in Node : \A h : Offered(n, h) => Offered(n, h)' \/ (Serves(n) => Has(n, h)'),
         \A n \in Node : \A h : Noted(n, h) => Noted(n, h)' \/ Has(n, h)',
         \A n \in Node : \A h \in seen'[n] : h \in seen[n] \/ Noted(n, h)',
         \A n \in Node : ~ Serves(n) => seen'[n] = {},
         \A k \in calls' : k.to \notin k.gossipers
  PROVE  ReachInv'
<1>1. Signed' = Signed /\ \A n : Serves(n)' = Serves(n)
  BY DEF Signed, Serves
<1>2. \A n \in Node : \A h \in Signed :
        Serves(n) => Has(n, h)' \/ Offered(n, h)' \/ \E m \in Node : h \in vrxCh[m]
  BY DEF ReachInv
<1>3. \A n \in Node : \A h \in seen'[n] : Has(n, h)' \/ Noted(n, h)'
  BY DEF ReachInv
<1>4. \A n \in Node : \A h \in vrxCh[n] : Has(n, h)'
  BY DEF ReachInv
<1>5. signed' = [h \in Vertex |-> signed'[h]]
  BY DEF ReachInv
<1> QED BY <1>1, <1>2, <1>3, <1>4, <1>5 DEF ReachInv

(* Steps that change neither books nor calls. *)
LEMMA ReachSame ==
  ASSUME ReachInv,
         UNCHANGED <<signed, held, memory, seen, vrxCh, calls>>, missed \subseteq missed',
         \A n \in Node : Serves(n)' = Serves(n)
  PROVE  ReachInv'
<1>1. \A n \in Node : \A h : Has(n, h) => Has(n, h)'
  BY DEF Has
<1>2. \A n, h : Offered(n, h)' = Offered(n, h) /\ Noted(n, h)' = Noted(n, h)
  BY DEF Offered, Noted
<1>3. Signed' = Signed
  BY DEF Signed
<1> QED BY <1>1, <1>2, <1>3 DEF ReachInv

(* The steps of joining concern no vertex. *)
LEMMA JoinStepReaches ==
  ASSUME ReachInv, JoinTypeOK, NEW n \in Node,
         \/ Discover(n) \/ LockNodes(n) \/ Announce(n) \/ AnnounceFails(n)
         \/ \E l \in Node : Connect(n, l)
  PROVE  ReachInv'
<1>1. UNCHANGED <<signed, held, memory, seen, vrxCh, calls, missed>>
  BY DEF Discover, LockNodes, Announce, AnnounceFails, Announced, Connect, bookVars, netVars
<1>2. \A m \in Node : Serves(m)' = Serves(m)
  BY DEF Discover, LockNodes, Announce, AnnounceFails, Announced, Connect, Serves, GoesOn, JoinTypeOK
<1> QED BY <1>1, <1>2, ReachSame

(* A node starts with what was streamed; the rest is recorded as missed. *)
LEMMA LoadDagReaches ==
  ASSUME ReachInv, CallInv, JoinTypeOK, NEW n \in Node, NEW l \in Node, NEW S, LoadDag(n, l, S)
  PROVE  ReachInv'
<1>1. /\ UNCHANGED <<signed, memory, seen, vrxCh, calls>>
      /\ held' = [held EXCEPT ![n] = S]
      /\ stage' = [stage EXCEPT ![n] = "serving"] /\ ~ Serves(n)
      /\ missed' = missed \cup {<<n, h>> : h \in Signed \ S}
  BY DEF LoadDag, netVars, Serves
<1>2. \A m \in Node : m # n => Serves(m)' = Serves(m)
  BY <1>1 DEF Serves, JoinTypeOK
<1>3. \A m \in Node : \A h : Has(m, h) => Has(m, h)'
  BY <1>1 DEF Has, CallInv, CallTypeOK, NothingBeforeServing
<1>4. \A h \in Signed : Has(n, h)'
  BY <1>1 DEF Has, CallInv, CallTypeOK
<1>5. \A m, h : Offered(m, h)' = Offered(m, h) /\ Noted(m, h)' = Noted(m, h)
  BY <1>1 DEF Offered, Noted
<1>6. Signed' = Signed
  BY <1>1 DEF Signed
<1>7. Serves(n)'
  BY <1>1 DEF Serves, JoinTypeOK
<1> QED BY <1>1, <1>2, <1>3, <1>4, <1>5, <1>6, <1>7 DEF ReachInv

(* What a restart takes from calls and from the pipe is recorded as missed. *)
LEMMA RestartReaches ==
  ASSUME ReachInv, CallInv, JoinTypeOK, NEW n \in Node, Restart(n)
  PROVE  ReachInv'
<1> DEFINE lost == {k \in calls : k.to = n \/ (k.from = n /\ k.at = "sent")}
<1>1. /\ held' = [held EXCEPT ![n] = {}] /\ memory' = [memory EXCEPT ![n] = {}]
      /\ seen' = [seen EXCEPT ![n] = {}] /\ vrxCh' = [vrxCh EXCEPT ![n] = {}]
      /\ calls' = calls \ lost
      /\ missed' = missed \cup {<<k.to, k.vrx>> : k \in lost} \cup (Node \X vrxCh[n])
      /\ stage' = [stage EXCEPT ![n] = "loading"] /\ signed' = signed
  BY DEF Restart
<1>2. ~ Serves(n)' /\ \A m \in Node : m # n => Serves(m)' = Serves(m)
  BY <1>1 DEF Serves, JoinTypeOK
<1>3. \A m \in Node \ {n} : \A h : Has(m, h) => Has(m, h)'
  BY <1>1 DEF Has, CallInv, CallTypeOK
<1>4. \A m \in Node \ {n} : \A h : Offered(m, h) => Offered(m, h)' \/ Has(m, h)'
  <2> SUFFICES ASSUME NEW m \in Node \ {n}, NEW h, Offered(m, h)
               PROVE  Offered(m, h)' \/ Has(m, h)'
    OBVIOUS
  <2>1. PICK k \in calls : /\ k.to = m /\ k.vrx = h
                           /\ k.at \in {"new", "noted"} \/ (k.at = "sent" /\ k.ctx = "node")
    BY DEF Offered
  <2>2. CASE k \in lost
    BY <2>1, <2>2, <1>1 DEF Has
  <2>3. CASE k \notin lost
    BY <2>1, <2>3, <1>1 DEF Offered
  <2> QED BY <2>2, <2>3
<1>5. \A m \in Node \ {n} : \A h : Noted(m, h) => Noted(m, h)'
  BY <1>1 DEF Noted
<1>6. \A m \in Node : \A h \in vrxCh[n] : Has(m, h)'
  BY <1>1 DEF Has
<1>7. Signed' = Signed
  BY <1>1 DEF Signed
<1>8. /\ vrxCh'[n] = {} /\ \A m \in Node \ {n} : vrxCh'[m] = vrxCh[m]
      /\ seen'[n] = {} /\ \A m \in Node \ {n} : seen'[m] = seen[m]
      /\ seen' = [m \in Node |-> seen'[m]] /\ signed' = [h \in Vertex |-> signed'[h]]
  BY <1>1 DEF ReachInv, CallInv, CallTypeOK
<1>9. \A m \in Node : \A h \in Signed :
        Serves(m)' => Has(m, h)' \/ Offered(m, h)' \/ \E x \in Node : h \in vrxCh'[x]
  BY <1>2, <1>3, <1>4, <1>6, <1>8 DEF ReachInv
<1>10. /\ \A m \in Node : \A h \in seen'[m] : Has(m, h)' \/ Noted(m, h)'
       /\ \A m \in Node : ~ Serves(m)' => seen'[m] = {}
       /\ \A m \in Node : \A h \in vrxCh'[m] : Has(m, h)'
       /\ \A k \in calls' : k.to \notin k.gossipers
  BY <1>1, <1>2, <1>3, <1>5, <1>8 DEF ReachInv
<1> QED BY <1>7, <1>8, <1>9, <1>10 DEF ReachInv

(* A new vertex is on the pipe of its creator. *)
LEMMA CreateReaches ==
  ASSUME ReachInv, CallInv, NEW n \in Node, NEW ps, NEW t, Create(n, ps, t)
  PROVE  ReachInv'
<1>1. PICK new :
      /\ signed' = [signed EXCEPT ![new] = [parents |-> ps, trx |-> t]]
      /\ held' = [held EXCEPT ![n] = @ \cup {new}]
      /\ vrxCh' = [vrxCh EXCEPT ![n] = @ \cup {new}]
      /\ UNCHANGED <<stage, memory, seen, calls, missed>>
  BY DEF Create, joinVars
<1>2. signed' = [h \in Vertex |-> signed'[h]] /\ Signed' \subseteq Signed \cup {new}
  BY <1>1 DEF ReachInv, Signed
<1>3. \A m \in Node : \A h : Has(m, h) => Has(m, h)'
  BY <1>1 DEF Has, CallInv, CallTypeOK
<1>4. \A m, h : Offered(m, h)' = Offered(m, h) /\ Noted(m, h)' = Noted(m, h)
  BY <1>1 DEF Offered, Noted
<1>5. /\ new \in vrxCh'[n] /\ Has(n, new)'
      /\ \A m \in Node : vrxCh[m] \subseteq vrxCh'[m]
      /\ \A m \in Node : \A h \in vrxCh'[m] : h \in vrxCh[m] \/ (m = n /\ h = new)
  BY <1>1 DEF Has, CallInv, CallTypeOK
<1>6. \A m : Serves(m)' = Serves(m)
  BY <1>1 DEF Serves
<1>7. \A m \in Node : \A h \in Signed' :
        Serves(m)' => Has(m, h)' \/ Offered(m, h)' \/ \E x \in Node : h \in vrxCh'[x]
  BY <1>2, <1>3, <1>4, <1>5, <1>6 DEF ReachInv
<1>8. \A m \in Node : \A h \in vrxCh'[m] : Has(m, h)'
  BY <1>3, <1>5 DEF ReachInv
<1> QED BY <1>1, <1>2, <1>3, <1>4, <1>6, <1>7, <1>8 DEF ReachInv

(* From the pipe it is offered to all the node is connected to. *)
LEMMA GossipReaches ==
  ASSUME ReachInv, CallInv, NEW n \in Node, NEW h \in Vertex, Gossip(n, h)
  PROVE  ReachInv'
<1> DEFINE more == CallsTo(n, h, {n}, "node")
<1>1. /\ h \in vrxCh[n]
      /\ vrxCh' = [vrxCh EXCEPT ![n] = @ \ {h}]
      /\ calls' = calls \cup more
      /\ missed' = missed \cup {<<m, h>> : m \in Node \ (nodes[n] \cup {n})}
      /\ UNCHANGED <<stage, signed, held, memory, seen>>
  BY DEF Gossip, joinVars, bookVars
<1>2. Signed' = Signed /\ \A m : Serves(m)' = Serves(m)
  BY <1>1 DEF Signed, Serves
<1>3. \A m \in Node : \A x : Has(m, x) => Has(m, x)'
  BY <1>1 DEF Has
<1>4. \A m, x : (Offered(m, x) => Offered(m, x)') /\ (Noted(m, x) => Noted(m, x)')
  BY <1>1 DEF Offered, Noted
<1>5. \A m \in nodes[n] \ {n} : Offered(m, h)'
  <2> TAKE m \in nodes[n] \ {n}
  <2> DEFINE k == [from |-> n, to |-> m, vrx |-> h, gossipers |-> {n}, at |-> "sent", ctx |-> "node"]
  <2>1. k \in more
    BY DEF CallsTo
  <2>2. k \in calls' /\ k.to = m /\ k.vrx = h /\ k.at = "sent" /\ k.ctx = "node"
    BY <1>1, <2>1
  <2> HIDE DEF k
  <2> QED BY <2>2 DEF Offered
<1>6. \A m \in Node : Has(m, h)' \/ Offered(m, h)'
  <2>1. Has(n, h)'
    BY <1>1, <1>3 DEF ReachInv
  <2>2. \A m \in Node \ (nodes[n] \cup {n}) : Has(m, h)'
    BY <1>1 DEF Has
  <2> QED BY <1>5, <2>1, <2>2
<1>7. /\ \A m \in Node : vrxCh'[m] \subseteq vrxCh[m]
      /\ \A m \in Node : \A x \in vrxCh[m] : x = h \/ x \in vrxCh'[m]
  BY <1>1 DEF CallInv, CallTypeOK
<1>8. \A k \in more : k.to \notin k.gossipers
  BY DEF CallsTo
<1>9. \A m \in Node : \A x \in Signed :
        Serves(m) => Has(m, x)' \/ Offered(m, x)' \/ \E l \in Node : x \in vrxCh'[l]
  BY <1>3, <1>4, <1>6, <1>7 DEF ReachInv
<1>10. /\ \A m \in Node : \A x \in vrxCh'[m] : Has(m, x)'
       /\ \A k \in calls' : k.to \notin k.gossipers
  BY <1>1, <1>3, <1>7, <1>8 DEF ReachInv
<1> QED BY <1>1, <1>2, <1>3, <1>4, <1>9, <1>10 DEF ReachInv

(* Steps of the book alone, or of the flashback memory. *)
LEMMA BookStepReaches ==
  ASSUME ReachInv, CallInv, NEW n \in Node, NEW h \in Vertex,
         Replay(n, h) \/ GiveUp(n, h) \/ Drop(n, h) \/ Forget(n, h)
  PROVE  ReachInv'
<1>1. UNCHANGED <<stage, signed, vrxCh, calls>>
  BY DEF Replay, GiveUp, Drop, Forget, joinVars, netVars
<1>2. \A m, x : Offered(m, x)' = Offered(m, x) /\ Noted(m, x)' = Noted(m, x)
  BY <1>1 DEF Offered, Noted
<1>3. \A m \in Node : \A x : Has(m, x) => Has(m, x)'
  <2>1. CASE Replay(n, h)
    <3>1. h \in held'[n] \/ <<n, h>> \in missed'
      BY <2>1 DEF Replay, Outcome, Collides, CallInv, CallTypeOK
    <3>2. \A m \in Node : held[m] \subseteq held'[m]
      BY <2>1 DEF Replay, CallInv, CallTypeOK
    <3>3. \A m \in Node : \A x \in memory[m] : x \in memory'[m] \/ (m = n /\ x = h)
      BY <2>1 DEF Replay, CallInv, CallTypeOK
    <3>4. missed \subseteq missed'
      BY <2>1 DEF Replay
    <3> QED BY <3>1, <3>2, <3>3, <3>4 DEF Has
  <2>2. CASE GiveUp(n, h)
    BY <2>2 DEF GiveUp, Has, CallInv, CallTypeOK
  <2>3. CASE Drop(n, h)
    BY <2>3 DEF Drop, Has, CallInv, CallTypeOK
  <2>4. CASE Forget(n, h)
    BY <2>4 DEF Forget, Has, bookVars
  <2> QED BY <2>1, <2>2, <2>3, <2>4
<1>4. seen' = [m \in Node |-> seen'[m]] /\ \A m \in Node : seen'[m] \subseteq seen[m]
  BY DEF Replay, GiveUp, Drop, Forget, netVars, ReachInv
<1>5. /\ \A m \in Node : ~ Serves(m) => seen'[m] = {}
      /\ \A k \in calls' : k.to \notin k.gossipers
  BY <1>1, <1>4 DEF ReachInv
<1> QED BY <1>1, <1>2, <1>3, <1>4, <1>5, ReachKept

(* A vertex given to the book is taken, memorised or never needed. *)
LEMMA AddLeafReaches ==
  ASSUME CallInv, NEW n \in Node, NEW h, AddLeaf(n, h), missed' = missed \cup Collides(n, h)
  PROVE  Has(n, h)' /\ \A m \in Node : \A x : Has(m, x) => Has(m, x)'
<1>1. /\ \A m \in Node : held[m] \subseteq held'[m]
      /\ \A m \in Node : memory[m] \subseteq memory'[m]
  BY DEF AddLeaf, CallInv, CallTypeOK
<1>2. Has(n, h)'
  BY DEF AddLeaf, Outcome, Collides, Has, CallInv, CallTypeOK
<1> QED BY <1>1, <1>2 DEF Has

(* The accounting book takes a vertex, memorises it, or misses it. *)
LEMMA SendToAccountantReaches ==
  ASSUME ReachInv, CallInv, NEW k \in calls, SendToAccountant(k)
  PROVE  ReachInv'
<1> DEFINE on == [k EXCEPT !.at = "added"]
<1>1. /\ k.at = "noted" /\ AddLeaf(k.to, k.vrx)
      /\ calls' = (calls \ {k}) \cup {on} \/ calls' = calls \ {k}
      /\ missed' = missed \cup Collides(k.to, k.vrx)
      /\ UNCHANGED <<stage, signed, seen, vrxCh>>
  BY DEF SendToAccountant, Goes, Answers, joinVars
<1>2. k \in Call /\ k.to \in Node
  BY DEF CallInv, CallTypeOK, Call
<1>3. on.to = k.to /\ on.gossipers = k.gossipers
  BY <1>2 DEF Call
<1>4. Has(k.to, k.vrx)' /\ \A m \in Node : \A x : Has(m, x) => Has(m, x)'
  BY <1>1, <1>2, AddLeafReaches
<1> HIDE DEF on
<1>5. \A m, x : Offered(m, x) => Offered(m, x)' \/ (m = k.to /\ x = k.vrx)
  BY <1>1 DEF Offered
<1>6. \A m, x : Noted(m, x) => Noted(m, x)' \/ (m = k.to /\ x = k.vrx)
  BY <1>1 DEF Noted
<1>7. \A m \in Node : \A x : Offered(m, x) => Offered(m, x)' \/ (Serves(m) => Has(m, x)')
  BY <1>4, <1>5
<1>8. \A m \in Node : \A x : Noted(m, x) => Noted(m, x)' \/ Has(m, x)'
  BY <1>4, <1>6
<1>9. /\ seen' = [m \in Node |-> seen'[m]]
      /\ \A m \in Node : ~ Serves(m) => seen'[m] = {}
      /\ \A j \in calls' : j.to \notin j.gossipers
  BY <1>1, <1>3 DEF ReachInv
<1> QED BY <1>1, <1>4, <1>7, <1>8, <1>9, ReachKept

(* Nothing is lost with a handler that is finished or a call that may be    *)
(* cancelled.                                                               *)
LEMMA PassOnReaches ==
  ASSUME ReachInv, CallInv, NEW k \in calls, PassOn(k) \/ Cancel(k)
  PROVE  ReachInv'
<1> DEFINE more == CallsTo(k.to, k.vrx, k.gossipers \cup {k.to}, "handler")
<1>1. /\ k.at = "added" \/ (k.at = "sent" /\ k.ctx = "handler")
      /\ calls \ {k} \subseteq calls' /\ calls' \subseteq calls \cup more
      /\ UNCHANGED <<stage, signed, held, memory, seen, vrxCh, missed>>
  BY DEF PassOn, Cancel, Answers, joinVars, bookVars
<1>2. \A j \in more : j.to \notin j.gossipers
  BY DEF CallsTo
<1> HIDE DEF more
<1>3. \A m, x : Offered(m, x) => Offered(m, x)'
  BY <1>1 DEF Offered
<1>4. \A m, x : Noted(m, x) => Noted(m, x)'
  BY <1>1 DEF Noted
<1>5. \A m, x : Has(m, x)' = Has(m, x)
  BY <1>1 DEF Has
<1>6. /\ seen' = [m \in Node |-> seen'[m]]
      /\ \A m \in Node : ~ Serves(m) => seen'[m] = {}
      /\ \A j \in calls' : j.to \notin j.gossipers
  BY <1>1, <1>2 DEF ReachInv
<1> QED BY <1>1, <1>3, <1>4, <1>5, <1>6, ReachKept

(* A call is ignored only when the vertex is there or another handler is    *)
(* about to give it to the book.                                            *)
LEMMA HasHashReaches ==
  ASSUME ReachInv, CallInv, NEW k \in calls, HasHash(k)
  PROVE  ReachInv'
<1> DEFINE on == [k EXCEPT !.at = "new"]
<1>1. /\ k.at = "sent"
      /\ \/ k.vrx \in seen[k.to] /\ calls' = calls \ {k}
         \/ calls' = (calls \ {k}) \cup {on}
      /\ UNCHANGED <<stage, signed, held, memory, seen, vrxCh, missed>>
  BY DEF HasHash, Goes, Answers, joinVars, bookVars
<1>2. k \in Call /\ k.to \in Node
  BY DEF CallInv, CallTypeOK, Call
<1>3. on.to = k.to /\ on.vrx = k.vrx /\ on.gossipers = k.gossipers /\ on.at = "new"
  BY <1>2 DEF Call
<1> HIDE DEF on
<1>4. \A m, x : Has(m, x)' = Has(m, x)
  BY <1>1 DEF Has
<1>5. \A m, x : Noted(m, x) => Noted(m, x)'
  BY <1>1 DEF Noted
<1>6. \A m, x : Noted(m, x)' => Offered(m, x)'
  BY DEF Noted, Offered
<1>7. \A m \in Node : \A x : Offered(m, x) => Offered(m, x)' \/ (Serves(m) => Has(m, x)')
  <2>1. CASE k.vrx \in seen[k.to] /\ calls' = calls \ {k}
    <3>1. Has(k.to, k.vrx)' \/ Offered(k.to, k.vrx)'
      BY <2>1, <1>2, <1>4, <1>5, <1>6 DEF ReachInv
    <3>2. \A m, x : Offered(m, x) => Offered(m, x)' \/ (m = k.to /\ x = k.vrx)
      BY <2>1 DEF Offered
    <3> QED BY <3>1, <3>2
  <2>2. CASE calls' = (calls \ {k}) \cup {on}
    BY <2>2, <1>3 DEF Offered
  <2> QED BY <1>1, <2>1, <2>2
<1>8. /\ seen' = [m \in Node |-> seen'[m]]
      /\ \A m \in Node : ~ Serves(m) => seen'[m] = {}
      /\ \A j \in calls' : j.to \notin j.gossipers
  BY <1>1, <1>3 DEF ReachInv
<1> QED BY <1>1, <1>4, <1>5, <1>7, <1>8, ReachKept

(* A hash is noted while its handler still has the vertex. *)
LEMMA NoteHashReaches ==
  ASSUME ReachInv, CallInv, NEW k \in calls, NoteHash(k)
  PROVE  ReachInv'
<1> DEFINE on == [k EXCEPT !.at = "noted"]
<1>1. /\ k.at = "new" /\ k.to \notin k.gossipers
      /\ seen' = [seen EXCEPT ![k.to] = @ \cup {k.vrx}]
      /\ calls' = (calls \ {k}) \cup {on}
      /\ UNCHANGED <<stage, signed, held, memory, vrxCh, missed>>
  BY DEF NoteHash, Goes, Answers, joinVars, bookVars, ReachInv
<1>2. k \in Call /\ k.to \in Node
  BY DEF CallInv, CallTypeOK, Call
<1>3. on.to = k.to /\ on.vrx = k.vrx /\ on.gossipers = k.gossipers /\ on.at = "noted"
  BY <1>2 DEF Call
<1>4. Serves(k.to)
  BY <1>1, <1>2 DEF CallInv, NothingBeforeServing
<1> HIDE DEF on
<1>5. \A m, x : Has(m, x)' = Has(m, x)
  BY <1>1 DEF Has
<1>6. \A m, x : (Noted(m, x) => Noted(m, x)') /\ (Offered(m, x) => Offered(m, x)')
  BY <1>1, <1>3 DEF Noted, Offered
<1>7. Noted(k.to, k.vrx)'
  BY <1>1, <1>3 DEF Noted
<1>8. /\ seen' = [m \in Node |-> seen'[m]]
      /\ \A m \in Node : \A x \in seen'[m] : x \in seen[m] \/ Noted(m, x)'
      /\ \A m \in Node : ~ Serves(m) => seen'[m] = {}
      /\ \A j \in calls' : j.to \notin j.gossipers
  BY <1>1, <1>3, <1>4, <1>7 DEF ReachInv
<1> QED BY <1>1, <1>5, <1>6, <1>8, ReachKept

(* A call that ends without a result is recorded. *)
LEMMA CallEndsReaches ==
  ASSUME ReachInv, CallInv, NEW k \in calls,
         NotLoaded(k) \/ CallFails(k) \/ Lose(k) \/ Refuse(k) \/ \E p \in Parents(k.vrx) : Interrupt(k, p)
  PROVE  ReachInv'
<1>1. /\ calls' = calls \ {k}
      /\ <<k.to, k.vrx>> \in missed' /\ missed \subseteq missed'
      /\ UNCHANGED <<stage, signed, memory, seen, vrxCh>>
  BY DEF NotLoaded, CallFails, Lose, Refuse, Interrupt, Answers, joinVars, bookVars
<1>0. \A m \in Node : \A x \in held[m] : x \in held'[m] \/ <<m, x>> \in missed'
  <2>1. CASE held' = held
    BY <2>1
  <2>2. CASE \E p \in Parents(k.vrx) : Interrupt(k, p)
    BY <2>2 DEF Interrupt, CallInv, CallTypeOK
  <2> QED
    BY <2>1, <2>2 DEF NotLoaded, CallFails, Lose, Refuse, bookVars
<1>2. Has(k.to, k.vrx)' /\ \A m \in Node : \A x : Has(m, x) => Has(m, x)'
  BY <1>0, <1>1 DEF Has
<1>3. \A m, x : Offered(m, x) => Offered(m, x)' \/ (m = k.to /\ x = k.vrx)
  BY <1>1 DEF Offered
<1>4. \A m, x : Noted(m, x) => Noted(m, x)' \/ (m = k.to /\ x = k.vrx)
  BY <1>1 DEF Noted
<1>5. /\ \A m \in Node : \A x : Offered(m, x) => Offered(m, x)' \/ (Serves(m) => Has(m, x)')
      /\ \A m \in Node : \A x : Noted(m, x) => Noted(m, x)' \/ Has(m, x)'
  BY <1>2, <1>3, <1>4
<1>6. /\ seen' = [m \in Node |-> seen'[m]]
      /\ \A m \in Node : ~ Serves(m) => seen'[m] = {}
      /\ \A j \in calls' : j.to \notin j.gossipers
  BY <1>1 DEF ReachInv
<1> QED BY <1>1, <1>2, <1>5, <1>6, ReachKept

(* A fetched parent is offered to the accounting book. *)
LEMMA PullReaches ==
  ASSUME ReachInv, CallInv, NEW p \in pulls, PullFails(p) \/ \E m \in Node : Pull(p, m)
  PROVE  ReachInv'
<1>1. UNCHANGED <<stage, signed, seen, vrxCh, calls>>
  BY DEF PullFails, Pull, joinVars
<1>2. \A m \in Node : \A x : Has(m, x) => Has(m, x)'
  <2>1. CASE PullFails(p)
    BY <2>1 DEF PullFails, Has, bookVars
  <2>2. CASE \E m \in Node : Pull(p, m)
    <3>1. p.by \in Node /\ AddLeaf(p.by, p.vrx) /\ missed' = missed \cup Collides(p.by, p.vrx)
      BY <2>2 DEF Pull, CallInv, CallTypeOK
    <3> QED BY <3>1, AddLeafReaches
  <2> QED BY <2>1, <2>2
<1>3. \A m, x : Offered(m, x)' = Offered(m, x) /\ Noted(m, x)' = Noted(m, x)
  BY <1>1 DEF Offered, Noted
<1>4. /\ seen' = [m \in Node |-> seen'[m]]
      /\ \A m \in Node : ~ Serves(m) => seen'[m] = {}
      /\ \A j \in calls' : j.to \notin j.gossipers
  BY <1>1 DEF ReachInv
<1> QED BY <1>1, <1>2, <1>3, <1>4, ReachKept

(* Every step keeps the invariant of reaching all. *)
LEMMA ReachInvKept ==
  ASSUME ReachInv, CallInv, JoinTypeOK, [Next]_vars
  PROVE  ReachInv'
<1>1. CASE \E n \in Node : JoinStep(n)
  <2> PICK n \in Node : JoinStep(n)
    BY <1>1
  <2>1. CASE \E l \in Node : \E S \in SUBSET held[l] : LoadDag(n, l, S)
    BY <2>1, LoadDagReaches
  <2> QED
    BY <2>1, JoinStepReaches DEF JoinStep
<1>2. CASE \E n \in Node : Restart(n)
  BY <1>2, RestartReaches
<1>3. CASE \E n \in Node, t \in Trx : \E ps \in SUBSET Leaves(n) : Create(n, ps, t)
  BY <1>3, CreateReaches
<1>4. CASE \E n \in Node, h \in Vertex :
             Gossip(n, h) \/ Replay(n, h) \/ GiveUp(n, h) \/ Drop(n, h) \/ Forget(n, h)
  BY <1>4, GossipReaches, BookStepReaches
<1>5. CASE \E k \in calls : CallStep(k) \/ Cancel(k) \/ Lose(k) \/ Refuse(k)
  BY <1>5, HasHashReaches, NoteHashReaches, SendToAccountantReaches, PassOnReaches, CallEndsReaches
     DEF CallStep
<1>6. CASE \E p \in pulls : PullFails(p) \/ \E m \in Node : Pull(p, m)
  BY <1>6, PullReaches
<1>7. CASE UNCHANGED vars \/ \E n \in Node : DagLoaded(n)
  <2>1. UNCHANGED <<stage, signed, held, memory, seen, vrxCh, calls, missed>>
    BY <1>7 DEF DagLoaded, vars, joinVars, bookVars, netVars
  <2>2. \A m \in Node : Serves(m)' = Serves(m)
    BY <2>1 DEF Serves
  <2> QED BY <2>1, <2>2, ReachSame
<1> QED BY <1>1, <1>2, <1>3, <1>4, <1>5, <1>6, <1>7 DEF Next

(* Once the network is quiet every node that is up holds every vertex,      *)
(* except for what it missed for one of the causes that are recorded        *)
(* (NothingElseMissed lists them; a handler whose context ends after it     *)
(* noted the hash is one).  Ignoring a call because the hash is noted while *)
(* another handler still has the vertex (GossipVrx) is not among them, for  *)
(* any number of nodes, vertices and mishaps.                               *)
THEOREM GossipReachesAll == Spec => []NothingElseMissed
<1>1. Init => ReachInv
  BY ReachInit
<1>2. ReachInv /\ CallInv /\ JoinInv /\ [Next]_vars => ReachInv'
  BY ReachInvKept DEF JoinInv
<1>3. ReachInv => NothingElseMissed
  <2> SUFFICES ASSUME ReachInv, Quiet, NEW n \in Node, NEW h \in Signed, stage[n] = "up"
               PROVE  h \in held[n] \/ <<n, h>> \in missed
    BY DEF NothingElseMissed
  <2>1. Serves(n) /\ ~ Offered(n, h) /\ ~ \E m \in Node : h \in vrxCh[m]
    BY DEF Serves, Offered, Quiet
  <2>2. Has(n, h)
    BY <2>1 DEF ReachInv
  <2> QED BY <2>2 DEF Has, Quiet
<1> QED BY <1>1, <1>2, <1>3, JoinInvariant, CallInvariant, PTL DEF Spec

=============================================================================
