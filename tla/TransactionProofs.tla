-------------------------- MODULE TransactionProofs -------------------------
(***************************************************************************)
(* Theorems about Transaction_new and Transaction_free, for strings of any *)
(* bytes and any length.                                                   *)
(***************************************************************************)
EXTENDS Transaction, SequenceTheorems, TLAPS

(* The provers to try on a leaf, with their time limits in seconds. *)
USE ZenonT(5), SMTT(20)

(* Dropping what was appended last gives back the rest. *)
LEMMA DropsLast ==
  ASSUME NEW S, NEW s \in Seq(S), NEW t \in Seq(S)
  PROVE  SubSeq(s \o t, 1, Len(s \o t) - Len(t)) = s
<1>1. Len(s) \in Nat /\ Len(t) \in Nat /\ Len(s \o t) = Len(s) + Len(t)
  BY LenProperties, ConcatProperties
<1>2. Len(s \o t) - Len(t) = Len(s)
  BY <1>1
<1>3. SubSeq(s \o t, 1, Len(s)) = SubSeq(s, 1, Len(s))
  BY <1>1, SubSeqOfConcat1
<1> QED
  BY <1>2, <1>3, SubSeqFull

(* An array of n bytes is a sequence of length n. *)
LEMMA BytesAreSeq ==
  ASSUME NEW S, NEW n \in Nat, NEW f \in [1 .. n -> S]
  PROVE  f \in Seq(S) /\ Len(f) = n
<1>1. f \in Seq(S)
  BY SeqDef
<1> QED
  BY <1>1, LenProperties

(* strncpy fills n bytes. *)
LEMMA Copies ==
  ASSUME NEW src \in Seq(Byte), NEW n \in Nat
  PROVE  strncpy(src, n) \in Seq(Byte)
<1>1. \A k \in 1 .. n : k <= Len(src) => src[k] \in Byte
  BY LenProperties, ElementOfSeq
<1>2. strncpy(src, n) \in [1 .. n -> Byte]
  BY <1>1 DEF strncpy, Byte
<1> QED
  BY <1>2, BytesAreSeq

(* The fields of a transaction, in the order in which they are signed, and *)
(* the time behind them.                                                   *)
Text(a) ==
  strncpy(a.subject, Len(a.subject)) \o strncpy(a.data, Len(a.data))
    \o strncpy(IssuerAddress, Len(IssuerAddress)) \o strncpy(a.receiver, Len(a.receiver))
Stamp(t) == strncpy(convertToCharArrayLittleEndian(ms_time(t)), 8)

(* The stamp has eight bytes: what is before them is the text. *)
LEMMA TextEndsBeforeStamp ==
  ASSUME NEW a \in [subject : Seq(Byte), data : Seq(Byte), receiver : Seq(Byte)], NEW t
  PROVE  SubSeq(Text(a) \o Stamp(t), 1, Len(Text(a) \o Stamp(t)) - 8) = Text(a)
<1>1. Text(a) \in Seq(Byte)
  <2>1. /\ strncpy(a.subject, Len(a.subject)) \in Seq(Byte)
        /\ strncpy(a.data, Len(a.data)) \in Seq(Byte)
        /\ strncpy(IssuerAddress, Len(IssuerAddress)) \in Seq(Byte)
        /\ strncpy(a.receiver, Len(a.receiver)) \in Seq(Byte)
    BY Copies, LenProperties, IssuerAssumption
  <2> QED
    BY <2>1, ConcatProperties DEF Text
<1> DEFINE T == Byte \union {Stamp(t)[k] : k \in 1 .. 8}
<1>2. Stamp(t) \in [1 .. 8 -> T]
  BY DEF Stamp, strncpy
<1>3. Byte \subseteq T
  OBVIOUS
<1> HIDE DEF T
<1>4. Stamp(t) \in Seq(T) /\ Len(Stamp(t)) = 8
  <2>1. PICK n \in Nat : n = 8
    OBVIOUS
  <2>2. Stamp(t) \in [1 .. n -> T]
    BY <1>2, <2>1
  <2> QED
    BY <2>1, <2>2, BytesAreSeq
<1>5. Text(a) \in Seq(T)
  BY <1>1, <1>3, SeqMonotonic
<1> QED
  BY <1>4, <1>5, DropsLast

-----------------------------------------------------------------------------
(* The blocks Transaction_new frees again. *)
Scratch == {"raw_key", "issuer_address", "buffer", "digest_buffer", "signature_buffer"}

(* What has been signed, copied and allocated at each phase. *)
TransactionInv ==
  /\ args \in [subject : Seq(Byte), data : Seq(Byte), receiver : Seq(Byte)]
  /\ pc \in {"called", "prepared", "signed", "created", "returned", "freed", "exited", "undefined"}
  /\ pc \in {"prepared", "signed", "created", "returned"} => buffer = Text(args) \o Stamp(now)
  /\ pc \in {"created", "returned"} =>
       /\ trx.subject = strncpy(args.subject, Len(args.subject))
       /\ trx.data = strncpy(args.data, Len(args.data))
       /\ trx.issuer_address = strncpy(IssuerAddress, Len(IssuerAddress))
       /\ trx.receiver_address = strncpy(args.receiver, Len(args.receiver))
  /\ pc = "prepared" => heap \subseteq Scratch
  /\ pc = "signed" => heap \subseteq Scratch
  /\ pc = "created" => TrxBlocks \subseteq heap /\ heap \subseteq Scratch \union TrxBlocks
  /\ BlocksAccountedFor

(* Every phase keeps the invariant. *)
LEMMA TransactionInvStays ==
  ASSUME TransactionInv, [Next]_vars
  PROVE  TransactionInv'
<1>1. CASE RefuseEmpty \/ RefuseSigner \/ GiveUp
  BY <1>1 DEF TransactionInv, RefuseEmpty, RefuseSigner, GiveUp, BlocksAccountedFor
<1>2. CASE PrepareBuffer
  <2>1. buffer' = Text(args) \o Stamp(now)
    BY <1>2 DEF PrepareBuffer, Text, Stamp
  <2>2. heap' \subseteq Scratch
    BY <1>2 DEF PrepareBuffer, Scratch
  <2> QED
    BY <1>2, <2>1, <2>2 DEF TransactionInv, PrepareBuffer, BlocksAccountedFor
<1>3. CASE SignBuffer
  <2>1. heap' \subseteq Scratch
    BY <1>3 DEF SignBuffer, Scratch, TransactionInv
  <2> QED
    BY <1>3, <2>1 DEF TransactionInv, SignBuffer, BlocksAccountedFor
<1>4. CASE CreateTransaction
  <2>1. /\ trx'.subject = strncpy(args.subject, Len(args.subject))
        /\ trx'.data = strncpy(args.data, Len(args.data))
        /\ trx'.issuer_address = strncpy(IssuerAddress, Len(IssuerAddress))
        /\ trx'.receiver_address = strncpy(args.receiver, Len(args.receiver))
    BY <1>4 DEF CreateTransaction
  <2> QED
    BY <1>4, <2>1 DEF TransactionInv, CreateTransaction, BlocksAccountedFor
<1>5. CASE Cleanup
  <2>1. heap' = heap \ Scratch /\ heap' = TrxBlocks
    <3>1. heap' = heap \ Scratch
      BY <1>5 DEF Cleanup, Scratch
    <3>2. TrxBlocks \intersect Scratch = {}
      BY DEF TrxBlocks, Scratch
    <3> QED
      BY <1>5, <3>1, <3>2 DEF TransactionInv, Cleanup
  <2> QED
    BY <1>5, <2>1 DEF TransactionInv, Cleanup, BlocksAccountedFor
<1>6. CASE Transaction_free
  <2>1. heap' = {}
    BY <1>6 DEF TransactionInv, Transaction_free, BlocksAccountedFor
  <2> QED
    BY <1>6, <2>1 DEF TransactionInv, Transaction_free, BlocksAccountedFor
<1>7. CASE UNCHANGED vars
  BY <1>7 DEF TransactionInv, vars, BlocksAccountedFor
<1> QED
  BY <1>1, <1>2, <1>3, <1>4, <1>5, <1>6, <1>7 DEF Next

(* The invariant holds at every phase, refusals and exits included. *)
THEOREM TransactionSafe == Spec => []TransactionInv
<1>1. Init => TransactionInv
  BY ArgsAssumption DEF Init, TransactionInv, BlocksAccountedFor
<1>2. TransactionInv /\ [Next]_vars => TransactionInv'
  BY TransactionInvStays
<1> QED
  BY <1>1, <1>2, PTL DEF Spec

(* Whatever the strings, bytes after a NUL included, the fields of a        *)
(* returned Transaction are the bytes that were signed, up to the time.    *)
THEOREM TransactionIsSigned == Spec => []FieldsAreSigned
<1>1. TransactionInv => FieldsAreSigned
  <2> SUFFICES ASSUME TransactionInv, pc = "returned" PROVE FieldsAreSigned
    BY DEF FieldsAreSigned
  <2>1. /\ args \in [subject : Seq(Byte), data : Seq(Byte), receiver : Seq(Byte)]
        /\ buffer = Text(args) \o Stamp(now)
    BY DEF TransactionInv
  <2>2. trx.subject \o trx.data \o trx.issuer_address \o trx.receiver_address = Text(args)
    BY DEF TransactionInv, Text
  <2>3. SubSeq(buffer, 1, Len(buffer) - 8) = Text(args)
    BY <2>1, TextEndsBeforeStamp
  <2> QED
    BY <2>2, <2>3 DEF FieldsAreSigned
<1> QED
  BY <1>1, TransactionSafe, PTL

(* On every path Transaction_new frees what it does not hand out, and       *)
(* Transaction_free the rest.                                               *)
THEOREM TransactionBlocks == Spec => []BlocksAccountedFor
<1>1. TransactionInv => BlocksAccountedFor
  BY DEF TransactionInv
<1> QED
  BY <1>1, TransactionSafe, PTL

=============================================================================
