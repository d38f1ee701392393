----------------------------- MODULE Transaction ----------------------------
(***************************************************************************)
(* Transaction_new and Transaction_free of the C client                    *)
(* (transaction/transaction.c), phase by phase.  Strings are sequences of  *)
(* bytes without their NUL; the digest and the signature are any byte      *)
(* arrays of their length that the external SHA-256 and ed25519 may give.  *)
(***************************************************************************)
EXTENDS Integers, Sequences, FiniteSets

CONSTANTS
    Subjects, Payloads, Receivers,   \* the caller's strings, possibly empty
    IssuerAddress,                   \* what encode_address_from_raw makes of the key
    Times,                           \* what gettimeofday may return
    Digests, Signatures,             \* byte arrays the crypto library may return
    PointerSize                      \* sizeof(char *)

Byte == 0 .. 255

ASSUME IssuerAssumption == IssuerAddress \in Seq(Byte) \ {<<>>}
ASSUME ArgsAssumption == Subjects \union Payloads \union Receivers \subseteq Seq(Byte)

VARIABLES
    pc,
    args,       \* the arguments: subject, data, receiver
    ready,      \* is the caller's Signer ready?
    now,        \* the time taken at the call
    buffer,     \* the bytes that are signed
    signature,  \* what Signer_sign returned: digest and signature
    trx,        \* the fields of the new Transaction
    heap        \* the named blocks that are allocated

vars == <<pc, args, ready, now, buffer, signature, trx, heap>>

NoTrx == <<>>
Zeros(n) == [k \in 1 .. n |-> 0]

(* strncpy(dst, src, n): up to n bytes of src, zeros after the first zero. *)
strncpy(src, n) ==
    [k \in 1 .. n |->
        IF k <= Len(src) /\ \A m \in 1 .. k : src[m] # 0 THEN src[k] ELSE 0]

(* Despite its name it writes the most significant byte first.  (TLC's     *)
(* integers have no more than four bytes.)                                 *)
convertToCharArrayLittleEndian(a) ==
    Zeros(4) \o [k \in 1 .. 4 |-> (a \div (IF k = 1 THEN 2 ^ 24 ELSE 256 ^ (4 - k))) % 256]

ms_time(t) == t.tv_sec + t.tv_usec

Init ==
    /\ pc = "called"
    /\ args \in [subject : Subjects, data : Payloads, receiver : Receivers]
    /\ ready \in BOOLEAN
    /\ now \in Times
    /\ buffer = <<>>
    /\ signature = <<>>
    /\ trx = NoTrx
    /\ heap = {}

(* exit(1) on an empty argument. *)
RefuseEmpty ==
    /\ pc = "called"
    /\ \E field \in {"subject", "data", "receiver"} : args[field] = <<>>
    /\ pc' = "exited"
    /\ UNCHANGED <<args, ready, now, buffer, signature, trx, heap>>

(* Without a key Signer_get_public_key returns an uninitialised struct:    *)
(* its length is checked, its pointer is not.                              *)
RefuseSigner ==
    /\ pc = "called"
    /\ ~ready
    /\ \A field \in {"subject", "data", "receiver"} : args[field] # <<>>
    /\ pc' \in {"exited", "undefined"}
    /\ UNCHANGED <<args, ready, now, buffer, signature, trx, heap>>

\* Mutant of PrepareBuffer: the receiver is copied for the length of the issuer.
PrepareBufferIssuerLength ==
    /\ pc = "called"
    /\ ready
    /\ \A field \in {"subject", "data", "receiver"} : args[field] # <<>>
    /\ buffer' = strncpy(args.subject, Len(args.subject))
                   \o strncpy(args.data, Len(args.data))
                   \o strncpy(IssuerAddress, Len(IssuerAddress))
                   \o strncpy(args.receiver, Len(IssuerAddress))
                   \o strncpy(convertToCharArrayLittleEndian(ms_time(now)), 8)
    /\ heap' = {"raw_key", "issuer_address", "buffer"}
    /\ pc' = "prepared"
    /\ UNCHANGED <<args, ready, now, signature, trx>>

PrepareBuffer ==
    /\ pc = "called"
    /\ ready
    /\ \A field \in {"subject", "data", "receiver"} : args[field] # <<>>
    /\ buffer' = strncpy(args.subject, Len(args.subject))
                   \o strncpy(args.data, Len(args.data))
                   \o strncpy(IssuerAddress, Len(IssuerAddress))
                   \o strncpy(args.receiver, Len(args.receiver))
                   \o strncpy(convertToCharArrayLittleEndian(ms_time(now)), 8)
    /\ heap' = {"raw_key", "issuer_address", "buffer"}
    /\ pc' = "prepared"
    /\ UNCHANGED <<args, ready, now, signature, trx>>

SignBuffer ==
    /\ pc = "prepared"
    /\ signature' \in [digest : Digests, signature : Signatures]
    /\ heap' = heap \union {"digest_buffer", "signature_buffer"}
    /\ pc' = "signed"
    /\ UNCHANGED <<args, ready, now, buffer, trx>>

TrxBlocks ==
    {"trx", "trx.issuer_address", "trx.receiver_address", "trx.subject", "trx.data",
     "trx.issuer_signature", "trx.hash"}

(* Room for the receiver is made from the issuer's length. *)
ReceiverFits == Len(args.receiver) <= PointerSize * Len(IssuerAddress)

CreateTransaction ==
    /\ pc = "signed"
    /\ ReceiverFits
    /\ trx' = [created_at         |-> now,
               issuer_address     |-> strncpy(IssuerAddress, Len(IssuerAddress)),
               receiver_address   |-> strncpy(args.receiver, Len(args.receiver)),
               subject            |-> strncpy(args.subject, Len(args.subject)),
               data               |-> strncpy(args.data, Len(args.data)),
               issuer_signature   |-> strncpy(signature.signature, Len(signature.signature)),
               receiver_signature |-> <<>>,
               hash               |-> strncpy(signature.digest, Len(signature.digest))]
    /\ heap' = heap \union TrxBlocks
    /\ pc' = "created"
    /\ UNCHANGED <<args, ready, now, buffer, signature>>

\* Mutant of Cleanup: the raw key is not freed.
CleanupKeepingKey ==
    /\ pc = "created"
    /\ heap' = heap \ {"issuer_address", "buffer", "digest_buffer", "signature_buffer"}
    /\ pc' = "returned"
    /\ UNCHANGED <<args, ready, now, buffer, signature, trx>>

Cleanup ==
    /\ pc = "created"
    /\ heap' = heap \ {"issuer_address", "raw_key", "buffer", "digest_buffer", "signature_buffer"}
    /\ pc' = "returned"
    /\ UNCHANGED <<args, ready, now, buffer, signature, trx>>

Transaction_free ==
    /\ pc = "returned"
    /\ heap' = heap \ TrxBlocks
    /\ trx' = NoTrx
    /\ pc' = "freed"
    /\ UNCHANGED <<args, ready, now, buffer, signature>>

(* exit(1) when an allocation fails or the digest or the signature does    *)
(* not have its length; the allocation of the Transaction itself is not    *)
(* checked.                                                                *)
GiveUp ==
    /\ pc \in {"called", "prepared", "signed"}
    /\ pc' \in {"exited"} \union (IF pc = "signed" THEN {"undefined"} ELSE {})
    /\ UNCHANGED <<args, ready, now, buffer, signature, trx, heap>>

Next ==
    \/ RefuseEmpty
    \/ RefuseSigner
    \/ PrepareBuffer
    \/ SignBuffer
    \/ CreateTransaction
    \/ Cleanup
    \/ Transaction_free
    \/ GiveUp

Spec == Init /\ [][Next]_vars
-----------------------------------------------------------------------------
(***************************************************************************)
(* What was signed can be rebuilt from the transaction: its fields, in the *)
(* order subject, data, issuer, receiver, are the signed bytes up to the   *)
(* timestamp.  Two sequences of copies, into the buffer and into the       *)
(* transaction, agree byte by byte.                                        *)
(***************************************************************************)
FieldsAreSigned ==
    pc = "returned" =>
        trx.subject \o trx.data \o trx.issuer_address \o trx.receiver_address
            = SubSeq(buffer, 1, Len(buffer) - 8)

(***************************************************************************)
(* Transaction_new hands its caller the transaction's own blocks and no    *)
(* other, and Transaction_free leaves nothing allocated.                   *)
(***************************************************************************)
BlocksAccountedFor ==
    /\ pc = "returned" => heap = TrxBlocks
    /\ pc = "freed" => heap = {}

=============================================================================
