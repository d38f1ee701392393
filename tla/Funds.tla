------------------------------- MODULE Funds -------------------------------
(***************************************************************************)
(* The funds of one wallet (src/src/accountant/founds.go, precalculate.go   *)
(* and their callers).  Three computations walk over the vertices of the   *)
(* DAG and sum up in spice what the wallet received and what it spent:     *)
(* validateLeaf to accept a leaf of the wallet, CalculateBalance to answer *)
(* a request, and truncate to store the funds of the vertices that leave   *)
(* the DAG.  Each does so in its own way; received and spent are the true  *)
(* sums they are compared with.                                            *)
(***************************************************************************)
EXTENDS Spice

CONSTANT MaxTotal   \* bound of the model: no more vertices once a sum exceeds it

ASSUME FundsAssumption == MaxTotal \in Nat

VARIABLES
  walk,       \* the computation: "validate", "balance" or "settle"
  saved,      \* what readAddressFundsFromStorage returns
  spiceIn,    \* the incoming spice summed up so far
  spiceOut,   \* the outgoing spice summed up so far
  at,         \* progress and outcome of the computation
  result,     \* the balance answered or the funds stored
  received,   \* what the wallet received, the stored funds included
  spent,      \* what the wallet spent
  paidSelf    \* some vertex transferred from the wallet to itself

fundsVars == <<walk, saved, spiceIn, spiceOut, at, result, received, spent, paidSelf>>

Outcome == {"accepted", "refused", "answered", "failed", "settled", "overflow"}

FundsTypeOK ==
  /\ walk \in {"validate", "balance", "settle"}
  /\ saved \in Melange /\ spiceIn \in Melange /\ spiceOut \in Melange /\ result \in Melange
  /\ at \in {"walking"} \cup Outcome
  /\ received \in Nat /\ spent \in Nat
  /\ paidSelf \in BOOLEAN

(* validateLeaf supplies the stored funds to the incoming spice, set of     *)
(* fundsMemMap starts with a copy of them, CalculateBalance adds them last. *)
FundsInit ==
  /\ walk \in {"validate", "balance", "settle"}
  /\ saved \in Melange
  /\ spiceIn = IF walk = "validate" THEN Supply(Zero, saved).m
               ELSE IF walk = "settle" THEN saved ELSE Zero
  /\ spiceOut = Zero
  /\ at = "walking"
  /\ result = Zero
  /\ received = Value(saved) /\ spent = 0
  /\ paidSelf = FALSE

(* The next vertex transfers amount; the wallet issued it, receives it, or  *)
(* both.                                                                    *)
Counts(issues, receives, amount) ==
  /\ at = "walking"
  /\ issues \/ receives
  /\ received <= MaxTotal /\ spent <= MaxTotal
  /\ received' = received + (IF receives THEN Value(amount) ELSE 0)
  /\ spent' = spent + (IF issues THEN Value(amount) ELSE 0)
  /\ paidSelf' = (paidSelf \/ (issues /\ receives))
  /\ UNCHANGED <<walk, saved, result>>

(* pourFunds, for validateLeaf and CalculateBalance, that give up on errors. *)
pourFunds(issues, receives, amount) ==
  /\ walk # "settle"
  /\ Counts(issues, receives, amount)
  /\ LET out == Supply(spiceOut, amount)
         in == Supply(spiceIn, amount)
         fails == issues /\ out.err # "none"
     IN  /\ spiceOut' = IF issues THEN out.m ELSE spiceOut
         /\ spiceIn' = IF receives /\ ~ fails THEN in.m ELSE spiceIn
         /\ at' = IF fails \/ (receives /\ in.err # "none") THEN "overflow" ELSE at

(* updateFounds, that ignores errors; for a transfer to oneself the entry   *)
(* of the receiver overwrites that of the issuer.                          *)
updateFounds(issues, receives, amount) ==
  /\ walk = "settle"
  /\ Counts(issues, receives, amount)
  /\ spiceOut' = IF issues /\ ~ receives THEN Supply(spiceOut, amount).m ELSE spiceOut
  /\ spiceIn' = IF receives THEN Supply(spiceIn, amount).m ELSE spiceIn
  /\ UNCHANGED at

(* checkHasSufficientfunds, the last step of validateLeaf. *)
checkHasSufficientfunds ==
  /\ at = "walking" /\ walk = "validate"
  /\ at' = IF Transfer(spiceOut, spiceIn, Zero).err = "none" THEN "accepted" ELSE "refused"
  /\ UNCHANGED <<walk, saved, spiceIn, spiceOut, result, received, spent, paidSelf>>

(* The last steps of CalculateBalance. *)
CalculateBalance ==
  /\ at = "walking" /\ walk = "balance"
  /\ LET s == Supply(saved, spiceIn)
         d == Transfer(spiceOut, s.m, Zero)
     IN  /\ at' = IF s.err # "none" THEN "overflow"
                  ELSE IF d.err # "none" THEN "failed" ELSE "answered"
         /\ result' = IF s.err = "none" /\ d.err = "none" THEN d.from ELSE result
  /\ UNCHANGED <<walk, saved, spiceIn, spiceOut, received, spent, paidSelf>>

(* saveToStorage: the error of Drain is dropped. *)
saveToStorage ==
  /\ at = "walking" /\ walk = "settle"
  /\ at' = "settled"
  /\ result' = Transfer(spiceOut, spiceIn, Zero).from
  /\ UNCHANGED <<walk, saved, spiceIn, spiceOut, received, spent, paidSelf>>

FundsNext ==
  \/ \E issues, receives \in BOOLEAN, amount \in Melange :
       pourFunds(issues, receives, amount) \/ updateFounds(issues, receives, amount)
  \/ checkHasSufficientfunds \/ CalculateBalance \/ saveToStorage

FundsSpec == FundsInit /\ [][FundsNext]_fundsVars

-----------------------------------------------------------------------------
(* Properties *)

(* What was received and what was spent can be written in spice. *)
Representable == received < Limit /\ spent < Limit

(* Below the limit no walk gives up, and validateLeaf accepts a leaf exactly *)
(* when the wallet received what it spends: carrying and borrowing between  *)
(* the two units, along any sequence of vertices, decides like the natural  *)
(* numbers of module AccountingBook.                                       *)
VerdictsAreExact ==
  Representable =>
    /\ at # "overflow"
    /\ at = "accepted" => spent <= received
    /\ at \in {"refused", "failed"} => received < spent

(* Below the limit the balance that CalculateBalance answers and the funds  *)
(* that truncate stores are what is left of the received spice; truncation  *)
(* only when the wallet never paid itself and spent no more than it had.   *)
BalancesAreExact ==
  Representable =>
    /\ at = "answered" => Value(result) + spent = received
    /\ (at = "settled" /\ ~ paidSelf /\ spent <= received) => Value(result) + spent = received

=============================================================================
