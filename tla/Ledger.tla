------------------------------- MODULE Ledger -------------------------------
(***************************************************************************)
(* What an accounting book promises to the servers that use it: a growing  *)
(* set of vertices it holds, some of them settled for good.  There is no   *)
(* graph, no index, no lock, no buffer and no goroutine here: a vertex is  *)
(* taken in one step or not at all.                                        *)
(***************************************************************************)
CONSTANTS
  Vertex,      \* hashes of vertices
  NoVertex     \* the zero hash

VARIABLES
  signed,      \* every vertex a node of the network signed, by hash
  held,        \* the vertices of this book
  settled      \* those of them it will never give up

ledgerVars == <<signed, held, settled>>

IsSigned(h) == signed[h] # NoVertex
TrxIn(h) == signed[h].trx
Parents(h) == {signed[h].left, signed[h].right} \ {NoVertex}

Init == held = {} /\ settled = {}

(* A signed vertex never changes. *)
KeepSignatures == \A h \in Vertex : IsSigned(h) => signed'[h] = signed[h]

(* Another node signs a vertex. *)
SignElsewhere == UNCHANGED <<held, settled>>

(* The book starts with a genesis or with what a peer streamed. *)
Open ==
  /\ held = {} /\ settled = {}
  /\ held' \subseteq Vertex
  /\ \A h \in held' : IsSigned(h)'
  /\ \A g, h \in held' : TrxIn(g)' = TrxIn(h)' => g = h
  /\ UNCHANGED settled

(* A vertex with a transaction nobody holds enters below its parents. *)
Take(h) ==
  /\ h \notin held
  /\ IsSigned(h)'
  /\ Parents(h)' \subseteq held
  /\ \A g \in held : TrxIn(g) # TrxIn(h)'
  /\ held' = held \cup {h}
  /\ UNCHANGED settled

(* A vertex nothing was built on is given up. *)
Drop(h) ==
  /\ h \in held \ settled
  /\ \A g \in held \ settled : h \notin Parents(g)
  /\ held' = held \ {h}
  /\ UNCHANGED settled

(* Vertices are settled, for good. *)
Settle ==
  /\ settled \subseteq settled' /\ settled' \subseteq held
  /\ UNCHANGED held

Next ==
  /\ KeepSignatures
  /\ \/ SignElsewhere \/ Open \/ Settle
     \/ \E h \in Vertex : Take(h)
     \/ \E h \in held : Drop(h)

Spec == Init /\ [][Next]_ledgerVars

=============================================================================
