---------------------------- MODULE Hippocampus -----------------------------
(***************************************************************************)
(* The cache of awaited transactions and balances (src/src/cache/cache.go) *)
(* over bigcache, whose Get, Set and Delete are atomic and whose entries   *)
(* may be evicted at any time.  The operations of the cache are sequences  *)
(* of such calls without a lock around them: every call is a step.         *)
(***************************************************************************)
EXTENDS Integers, Sequences, Functions

CONSTANTS
  Address,
  Trx,           \* transactions: [id, issuer, receiver, data, spice]
  Caller,        \* goroutines that use the cache, one call at a time each
  Nothing,       \* no balance under a key, and no hash between two commas
  MaxEvictions   \* bound: how many entries bigcache evicts

ASSUME CacheAssumption ==
  /\ \A t \in Trx : {t.issuer, t.receiver} \subseteq Address
  /\ Nothing \notin Trx \cup Address
  /\ MaxEvictions \in Nat

VARIABLES
  trxs,       \* the transactions under their "trx" keys
  lists,      \* the values under the "address" keys
  balances,   \* the balances under the bare addresses, see SaveBalance
  call,       \* the call to the cache each caller is in
  evictions,
  evicted,    \* history: transactions that were evicted
  hurt        \* history: addresses whose list was evicted or written over

cacheVars == <<trxs, lists, balances, call, evictions, evicted, hurt>>

(***************************************************************************)
(* A list is bytes: hashes in hexadecimal with commas between them.  Here  *)
(* it is the sequence of the pieces between the commas, where a piece may  *)
(* be empty; no bytes at all are one empty piece.  No entry under the key  *)
(* is no piece.                                                            *)
(***************************************************************************)
Blank == Nothing
NoBytes == <<Blank>>
NoEntry == <<>>

set(t) == <<t>>
add(awaited, t) == IF awaited = NoBytes THEN <<t>> ELSE Append(awaited, t)
read(awaited) == SelectSeq(awaited, LAMBDA p : p # Blank)
(* Every piece that stays is written with a comma before it. *)
remove(awaited, t) ==
  LET newValues[k \in 0 .. Len(awaited)] ==
        IF k = 0 THEN NoBytes
        ELSE IF awaited[k] = t THEN newValues[k - 1]
        ELSE Append(newValues[k - 1], awaited[k])
  IN  newValues[Len(awaited)]

NoCall == [at |-> "none"]
Returned(result) == [at |-> "returned", result |-> result]
Return(c, result) == call' = [call EXCEPT ![c] = Returned(result)]
Results == {"ok", "exists", "not found", "unauthorized", "failed"}

HippocampusInit ==
  /\ trxs = {}
  /\ lists = [a \in Address |-> NoEntry]
  /\ balances = [a \in Address |-> Nothing]
  /\ call = [c \in Caller |-> NoCall]
  /\ evictions = 0 /\ evicted = {} /\ hurt = {}

(* A list that is written although it changed since it was read. *)
Overwritten(a, seen) == IF lists[a] = seen THEN {} ELSE {a}

-----------------------------------------------------------------------------
(* SaveAwaitedTransaction *)

SaveAwaitedTransaction(c, t) ==
  /\ IF t \in trxs
     THEN Return(c, "exists")
     ELSE call' = [call EXCEPT ![c] = [at |-> "save set", trx |-> t]]
  /\ UNCHANGED <<trxs, lists, balances, evictions, evicted, hurt>>

\* Mutant of PartiesToSave: the receiver is left out.
PartiesToSaveTwice(t) == <<t.issuer>>

PartiesToSave(t) == IF t.issuer = t.receiver THEN <<t.receiver>> ELSE <<t.issuer, t.receiver>>

SaveSet(c) ==
  /\ call[c].at = "save set"
  /\ trxs' = trxs \cup {call[c].trx}
  /\ call' = [call EXCEPT ![c] =
       [at |-> "save list", trx |-> call[c].trx, todo |-> PartiesToSave(call[c].trx)]]
  /\ UNCHANGED <<lists, balances, evictions, evicted, hurt>>

SaveListGet(c) ==
  /\ call[c].at = "save list"
  /\ call' = [call EXCEPT ![c] =
       [at |-> "save write", trx |-> call[c].trx, todo |-> call[c].todo,
        seen |-> lists[Head(call[c].todo)]]]
  /\ UNCHANGED <<trxs, lists, balances, evictions, evicted, hurt>>

SaveListSet(c) ==
  /\ call[c].at = "save write"
  /\ LET k == call[c]
         a == Head(k.todo)
     IN  /\ lists' = [lists EXCEPT ![a] = IF k.seen = NoEntry THEN set(k.trx) ELSE add(k.seen, k.trx)]
         /\ hurt' = hurt \cup Overwritten(a, k.seen)
         /\ IF Len(k.todo) = 1
            THEN Return(c, "ok")
            ELSE call' = [call EXCEPT ![c] = [at |-> "save list", trx |-> k.trx, todo |-> Tail(k.todo)]]
  /\ UNCHANGED <<trxs, balances, evictions, evicted>>

-----------------------------------------------------------------------------
(* RemoveAwaitedTransaction *)

\* Mutant of RemoveAwaitedTransaction: the entry goes before the receiver is looked at.
RemoveBeforeLooking(c, t, a) ==
  /\ \/ /\ t \notin trxs
        /\ Return(c, "not found")
        /\ UNCHANGED trxs
     \/ /\ t \in trxs /\ t.receiver # a
        /\ Return(c, "unauthorized")
        /\ trxs' = trxs \ {t}
     \/ /\ t \in trxs /\ t.receiver = a
        /\ call' = [call EXCEPT ![c] = [at |-> "remove delete", trx |-> t]]
        /\ UNCHANGED trxs
  /\ UNCHANGED <<lists, balances, evictions, evicted, hurt>>

RemoveAwaitedTransaction(c, t, a) ==
  /\ \/ /\ t \notin trxs
        /\ Return(c, "not found")
     \/ /\ t \in trxs /\ t.receiver # a
        /\ Return(c, "unauthorized")
     \/ /\ t \in trxs /\ t.receiver = a
        /\ call' = [call EXCEPT ![c] = [at |-> "remove delete", trx |-> t]]
  /\ UNCHANGED <<trxs, lists, balances, evictions, evicted, hurt>>

(* Of two callers only one deletes the entry. *)
RemoveDelete(c) ==
  /\ call[c].at = "remove delete"
  /\ LET t == call[c].trx
     IN  \/ /\ t \notin trxs
            /\ Return(c, "not found")
            /\ UNCHANGED trxs
         \/ /\ t \in trxs
            /\ trxs' = trxs \ {t}
            /\ call' = [call EXCEPT ![c] =
                 [at |-> "remove list", trx |-> t, todo |-> <<t.issuer, t.receiver>>, err |-> FALSE]]
  /\ UNCHANGED <<lists, balances, evictions, evicted, hurt>>

(* On to the next address; a list that was missing makes the call fail. *)
RemoveNext(c, err) ==
  LET k == call[c]
  IN  IF Len(k.todo) = 1
      THEN Return(c, IF err THEN "failed" ELSE "ok")
      ELSE call' = [call EXCEPT ![c] =
             [at |-> "remove list", trx |-> k.trx, todo |-> Tail(k.todo), err |-> err]]

RemoveListGet(c) ==
  /\ call[c].at = "remove list"
  /\ LET k == call[c]
         seen == lists[Head(k.todo)]
     IN  \/ /\ seen = NoEntry
            /\ RemoveNext(c, TRUE)
         \/ /\ seen # NoEntry
            /\ call' = [call EXCEPT ![c] =
                 [at |-> "remove write", trx |-> k.trx, todo |-> k.todo, err |-> k.err, seen |-> seen]]
  /\ UNCHANGED <<trxs, lists, balances, evictions, evicted, hurt>>

(* A list without bytes is deleted, otherwise the hash is taken out. *)
RemoveListSet(c) ==
  /\ call[c].at = "remove write"
  /\ LET k == call[c]
         a == Head(k.todo)
     IN  /\ lists' = [lists EXCEPT ![a] = IF k.seen = NoBytes THEN NoEntry ELSE remove(k.seen, k.trx)]
         /\ hurt' = hurt \cup Overwritten(a, k.seen) \cup (IF k.trx \in trxs THEN {a} ELSE {})
         /\ RemoveNext(c, k.err)
  /\ UNCHANGED <<trxs, balances, evictions, evicted>>

-----------------------------------------------------------------------------
(* ReadTransactions *)

ReadTransactions(c, a) ==
  /\ \/ /\ lists[a] = NoEntry
        /\ Return(c, "not found")
     \/ /\ lists[a] = NoBytes
        /\ call' = [call EXCEPT ![c] = [at |-> "read drop", by |-> a]]
     \/ /\ lists[a] \notin {NoEntry, NoBytes}
        /\ call' = [call EXCEPT ![c] =
             [at |-> "read look", by |-> a, todo |-> read(lists[a]), gone |-> <<>>]]
  /\ UNCHANGED <<trxs, lists, balances, evictions, evicted, hurt>>

ReadDrop(c) ==
  /\ call[c].at = "read drop"
  /\ LET a == call[c].by
     IN  /\ lists' = [lists EXCEPT ![a] = NoEntry]
         /\ hurt' = hurt \cup Overwritten(a, NoBytes)
         /\ Return(c, IF lists[a] = NoEntry THEN "failed" ELSE "not found")
  /\ UNCHANGED <<trxs, balances, evictions, evicted>>

(* Hashes without a transaction are kept aside. *)
ReadLook(c) ==
  /\ call[c].at = "read look" /\ call[c].todo # <<>>
  /\ LET k == call[c]
         t == Head(k.todo)
     IN  call' = [call EXCEPT ![c] =
           [at |-> "read look", by |-> k.by, todo |-> Tail(k.todo),
            gone |-> IF t \in trxs THEN k.gone ELSE Append(k.gone, t)]]
  /\ UNCHANGED <<trxs, lists, balances, evictions, evicted, hurt>>

ReadCleanGet(c) ==
  /\ call[c].at = "read look" /\ call[c].todo = <<>>
  /\ LET k == call[c]
         seen == lists[k.by]
     IN  \/ /\ k.gone = <<>> \/ seen \in {NoEntry, NoBytes}
            /\ Return(c, "ok")
         \/ /\ k.gone # <<>> /\ seen \notin {NoEntry, NoBytes}
            /\ call' = [call EXCEPT ![c] =
                 [at |-> "read write", by |-> k.by, gone |-> k.gone, seen |-> seen]]
  /\ UNCHANGED <<trxs, lists, balances, evictions, evicted, hurt>>

ReadCleanSet(c) ==
  /\ call[c].at = "read write"
  /\ LET k == call[c]
         t == Head(k.gone)
     IN  /\ lists' = [lists EXCEPT ![k.by] = remove(k.seen, t)]
         /\ hurt' = hurt \cup Overwritten(k.by, k.seen) \cup (IF t \in trxs THEN {k.by} ELSE {})
         /\ call' = [call EXCEPT ![c] =
              [at |-> "read look", by |-> k.by, todo |-> <<>>, gone |-> Tail(k.gone)]]
  /\ UNCHANGED <<trxs, balances, evictions, evicted>>

-----------------------------------------------------------------------------
(* Balances.  A balance is a sum over vertices of the ledger; it is told    *)
(* apart by the transactions the ledger held when it was calculated.        *)

SaveBalance(a, view) == balances' = [balances EXCEPT ![a] = view]
RemoveBalance(a) == balances' = [balances EXCEPT ![a] = Nothing]

-----------------------------------------------------------------------------
(* Eviction by age or for lack of room. *)

EvictTrx(t) ==
  /\ evictions < MaxEvictions /\ t \in trxs
  /\ trxs' = trxs \ {t} /\ evicted' = evicted \cup {t}
  /\ evictions' = evictions + 1
  /\ UNCHANGED <<lists, balances, call, hurt>>

EvictList(a) ==
  /\ evictions < MaxEvictions /\ lists[a] # NoEntry
  /\ lists' = [lists EXCEPT ![a] = NoEntry] /\ hurt' = hurt \cup {a}
  /\ evictions' = evictions + 1
  /\ UNCHANGED <<trxs, balances, call, evicted>>

EvictBalance(a) ==
  /\ evictions < MaxEvictions /\ balances[a] # Nothing
  /\ RemoveBalance(a)
  /\ evictions' = evictions + 1
  /\ UNCHANGED <<trxs, lists, call, evicted, hurt>>

Evict ==
  \/ \E t \in Trx : EvictTrx(t)
  \/ \E a \in Address : EvictList(a) \/ EvictBalance(a)

CacheStep(c) ==
  \/ SaveSet(c) \/ SaveListGet(c) \/ SaveListSet(c)
  \/ RemoveDelete(c) \/ RemoveListGet(c) \/ RemoveListSet(c)
  \/ ReadDrop(c) \/ ReadLook(c) \/ ReadCleanGet(c) \/ ReadCleanSet(c)

-----------------------------------------------------------------------------

Parties(t) == {t.issuer, t.receiver}

(* A Save that still has to enter t in the list of a. *)
StillSaving(t, a) ==
  \E c \in Caller : /\ call[c].at \in {"save list", "save write"}
                    /\ call[c].trx = t /\ a \in Range(call[c].todo)

(* An awaited transaction is in the lists of its issuer and its receiver   *)
(* (cache.go SaveAwaitedTransaction), or Waiting would not show it and      *)
(* Confirm would fail: the lists are read, changed and written back         *)
(* without a lock, and the only ways to lose it are an eviction, a write    *)
(* over a list that changed since it was read, and taking out the hash of   *)
(* a transaction that was saved again meanwhile.                            *)
ListsCover ==
  \A t \in trxs : \A a \in Parties(t) \ hurt :
    StillSaving(t, a) \/ t \in Range(lists[a])

=============================================================================
