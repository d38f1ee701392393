------------------------------- MODULE MCBook -------------------------------
(***************************************************************************)
(* Small instances of the accounting book for TLC.                         *)
(***************************************************************************)
EXTENDS BookLedger, TLC

CONSTANTS n1, n2, w1, w2, w3

(* Creation times play no role: the sort of the replier never compares two. *)
NoCreatedAt == [h \in Vertex |-> 0]

Transfer(i, from, to, s) == [id |-> i, issuer |-> from, receiver |-> to, spice |-> s, data |-> FALSE]
Contract(i, from, to) == [id |-> i, issuer |-> from, receiver |-> to, spice |-> 0, data |-> TRUE]

Handlers == Permutations(Handler)

(* The genesis gives w1 two coins; w1 spends them twice. *)
SpendTwice ==
  {Transfer("genesis", Self, w1, 2), Transfer("a", w1, w2, 2), Transfer("b", w1, w3, 2)}

(* The same, and a contract that may refer to both leaves. *)
SpendTwiceAndGoOn == SpendTwice \cup {Contract("c", w2, w3)}

(* The genesis of another node gives w1 two coins; w1 spends them, and      *)
(* signs a contract.                                                       *)
JoinPeer ==
  {Transfer("genesis", n1, w1, 2), Transfer("a", w1, w2, 2), Contract("b", w1, w3)}

-----------------------------------------------------------------------------
(* Runs that start on a node that created the genesis and then ChainLength  *)
(* leaves, one after the other, with all signals received: the signal of    *)
(* weight FirstCut made it truncate once.  A leaf of a peer was added next   *)
(* to the vertex of weight 2 and lost its ancestors in that truncation.      *)
(* Hashes are numbers there, the chain in the order of its creation.         *)

CONSTANTS ChainLength, FirstCut

ChainTrx(i) ==
  CASE i = 1 -> Transfer(1, Self, w1, 3)
    [] i = 2 -> Transfer(2, w1, w2, 1)
    [] OTHER -> Contract(i, w1, w2)

Chain == {ChainTrx(i) : i \in 1..(ChainLength + 2)}
ChainThenTransfers == Chain \cup {Transfer(10, w1, w3, 1), Transfer(11, w2, w1, 1)}

ChainInit ==
  LET last == ChainLength + 1
      side == last + 1
      kept == FirstCut + 1 - TruncateDiff   \* the vertex at truncation depth
      Parent(i) == CASE i = 1 -> NoVertex [] i = side -> 2 [] OTHER -> i - 1
  IN  /\ ReplierInit
      /\ signed = [i \in Vertex |->
           CASE i <= last -> NewVertex(ChainTrx(i), Parent(i), Parent(i), i - 1, Self)
             [] i = side -> NewVertex(ChainTrx(i), Parent(i), Parent(i), 2, n1)
             [] OTHER -> NoVertex]
      /\ dag = kept..side
      /\ edges = {<<i, i + 1>> : i \in kept..ChainLength}
      /\ trxsToVertx = [t \in Trx |->
           IF t \in Chain THEN CHOOSE i \in 1..side : ChainTrx(i) = t ELSE NoVertex]
      /\ stored = 1..(kept - 1)
      /\ funds = [a \in Address |-> IF a = w1 THEN 2 ELSE IF a = w2 THEN 1 ELSE 0]
      /\ trusted = {}
      /\ weight = InitialThroughput /\ throughput = InitialThroughput + 2
      /\ nextWeightTruncate = Truncate + FirstCut
      /\ dagLoaded = TRUE /\ genesisAddress = Self /\ loader = "done"
      /\ thread = [th \in Thread |-> Idle]
      /\ truncateSignal = <<>> /\ truncator = Waiting

ChainSpec == ChainInit /\ [][Next]_vars
FairChainSpec == ChainSpec /\ Fairness

=============================================================================
