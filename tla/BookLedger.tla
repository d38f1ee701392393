----------------------------- MODULE BookLedger -----------------------------
(***************************************************************************)
(* The accounting book as an implementation of the ledger: it holds the    *)
(* vertices of its DAG and of its storage, and those of the storage are    *)
(* settled.                                                                *)
(***************************************************************************)
EXTENDS AccountingBook

L == INSTANCE Ledger WITH held <- dag \cup stored, settled <- stored

(* The promise of the accounting book (accountant.go): whatever handlers,   *)
(* subscriber, ticker and truncation loop do between the check of a        *)
(* transaction and the lock, the book goes from one set of vertices to the *)
(* next by taking a vertex with a new transaction below parents it holds,  *)
(* by giving up a leaf, or by settling vertices; a settled vertex stays.   *)
ImplementsLedger == L!Spec

(* The same for a node that has been running before. *)
StepsOfLedger == [][L!Next]_(L!ledgerVars)

=============================================================================
