------------------------------- MODULE Signer -------------------------------
(***************************************************************************)
(* Keys and signatures of the C client (signer/signer.c,                   *)
(* signature/signature.c) as a program that links them uses them: structs  *)
(* on its stack that own heap blocks, PEM files shared between signers,    *)
(* and signatures checked against messages.  OpenSSL is external: a key is *)
(* a number, a digest stands for its message, and a signature for its key  *)
(* and digest.                                                             *)
(***************************************************************************)
EXTENDS Integers, FiniteSets, FiniteSetsExt

CONSTANTS
    Signers, RawKeys, PKeys, Sigs,   \* the program's variables, by type
    Files, Messages,
    Lengths,      \* the message lengths passed, as the caller writes them
    MaxKeys,      \* bound on generated keys
    MaxBlocks     \* bound on live heap blocks

(* What a changed byte leaves is the digest of no message. *)
ASSUME SignerAssumption == MaxBlocks \in Nat /\ "corrupted" \notin Messages

Null == 0
Wild == -1                    \* an uninitialised pointer
Blocks == 1 .. MaxBlocks
Damaged == -1                 \* contents of a PEM file that is not a key
Missing == 0

VARIABLES
    pc,        \* "running", "exited" by exit(1), or "undefined" behaviour
    heap,      \* the live blocks and their contents
    keys,      \* number of keys generated
    evpkey,    \* Signer.evpkey
    buffer,    \* RawCryptoKey.buffer
    pkey,      \* EVP_PKEY pointers of the program
    sig,       \* Signature.digest_buffer and .signature_buffer
    file,      \* PEM files: missing, damaged, or a key
    leaked,    \* history: the keys Signer_read_pem overwrote in a ready signer
    made,      \* history: what each Signature was made from, untouched since
    verdict    \* the answer the last step got from Signature_verify

vars == <<pc, heap, keys, evpkey, buffer, pkey, sig, file, leaked, made, verdict>>

NoSignature == [digest |-> Null, signature |-> Null]

Init ==
    /\ pc = "running"
    /\ heap = <<>>
    /\ keys = 0
    /\ evpkey = [s \in Signers |-> Null]
    /\ buffer = [r \in RawKeys |-> Null]
    /\ pkey = [p \in PKeys |-> Null]
    /\ sig = [g \in Sigs |-> NoSignature]
    /\ file = [f \in Files |-> Missing]
    /\ leaked = {}
    /\ made = [g \in Sigs |-> {}]
    /\ verdict = {}

(* The block the n-th allocation of a call gets. *)
Fresh(n) ==
    LET unused == Blocks \ DOMAIN heap
    IN  CHOOSE b \in unused : Cardinality({c \in unused : c < b}) = n - 1

HasRoom(n) == Cardinality(DOMAIN heap) + n <= MaxBlocks
With(b, content) == [c \in DOMAIN heap \union {b} |-> IF c = b THEN content ELSE heap[c]]
Without(bs) == [c \in DOMAIN heap \ bs |-> heap[c]]

(* free of p: nothing for NULL, undefined for what is not a live block. *)
Freed(bs) ==
    IF bs \subseteq DOMAIN heap
      THEN pc' = pc /\ heap' = Without(bs)
      ELSE pc' = "undefined" /\ UNCHANGED heap

signer_is_ready(s) == evpkey[s] # Null

KeyOf(p) == heap[p].key
-----------------------------------------------------------------------------
(* The program assigns the returned struct to one that owns no block. *)
Signer_new(s) ==
    /\ pc = "running"
    /\ ~signer_is_ready(s)
    /\ keys < MaxKeys /\ HasRoom(1)
    /\ keys' = keys + 1
    /\ heap' = With(Fresh(1), [kind |-> "evp", key |-> keys + 1])
    /\ evpkey' = [evpkey EXCEPT ![s] = Fresh(1)]
    /\ UNCHANGED <<pc, buffer, pkey, sig, file, leaked, made>>
    /\ verdict' = {}

\* Mutant of Signer_free: the pointer is reset, EVP_PKEY_free is not called.
Signer_free_resets(s) ==
    /\ pc = "running"
    /\ signer_is_ready(s)
    /\ evpkey' = [evpkey EXCEPT ![s] = Null]
    /\ UNCHANGED <<pc, heap, keys, buffer, pkey, sig, file, leaked, made>>
    /\ verdict' = {}

Signer_free(s) ==
    /\ pc = "running"
    /\ signer_is_ready(s)
    /\ Freed({evpkey[s]})
    /\ evpkey' = [evpkey EXCEPT ![s] = Null]
    /\ UNCHANGED <<keys, buffer, pkey, sig, file, leaked, made>>
    /\ verdict' = {}

(* fopen truncates the file before the key is written; both may fail. *)
Signer_save_pem(s, f) ==
    /\ pc = "running"
    /\ signer_is_ready(s)
    /\ file' \in {[file EXCEPT ![f] = c] : c \in {Damaged, KeyOf(evpkey[s])}}
    /\ UNCHANGED <<pc, heap, keys, evpkey, buffer, pkey, sig, leaked, made>>
    /\ verdict' = {}

(* A file that cannot be opened leaves the signer alone, one that cannot   *)
(* be parsed leaves it NULL.  Nothing is asked of the signer: the key of a *)
(* ready one is overwritten without being freed.                           *)
Signer_read_pem(s, f) ==
    /\ pc = "running"
    /\ file[f] # Missing
    /\ \/ /\ file[f] = Damaged
          /\ evpkey' = [evpkey EXCEPT ![s] = Null]
          /\ UNCHANGED heap
       \/ /\ file[f] # Damaged
          /\ HasRoom(1)
          /\ heap' = With(Fresh(1), [kind |-> "evp", key |-> file[f]])
          /\ evpkey' = [evpkey EXCEPT ![s] = Fresh(1)]
    /\ leaked' = leaked \union ({evpkey[s]} \ {Null})
    /\ UNCHANGED <<pc, keys, buffer, pkey, sig, file, made>>
    /\ verdict' = {}

(* Signer_get_public_key and Signer_get_private_key, which differ in the   *)
(* half of the key only: a signer that is not ready yields a struct nobody *)
(* initialised.                                                            *)
Signer_get_key(s, r) ==
    /\ pc = "running"
    /\ buffer[r] = Null
    /\ \/ /\ signer_is_ready(s)
          /\ HasRoom(1)
          /\ heap' = With(Fresh(1), [kind |-> "raw", key |-> KeyOf(evpkey[s])])
          /\ buffer' = [buffer EXCEPT ![r] = Fresh(1)]
       \/ /\ ~signer_is_ready(s)
          /\ buffer' = [buffer EXCEPT ![r] = Wild]
          /\ UNCHANGED heap
    /\ UNCHANGED <<pc, keys, evpkey, pkey, sig, file, leaked, made>>
    /\ verdict' = {}

RawCryptoKey_free(r) ==
    /\ pc = "running"
    /\ buffer[r] # Null
    /\ Freed({buffer[r]})
    /\ buffer' = [buffer EXCEPT ![r] = Null]
    /\ UNCHANGED <<keys, evpkey, pkey, sig, file, leaked, made>>
    /\ verdict' = {}

(* RawCryptoKey_get_evp_public_key and _private_key: OpenSSL makes a key   *)
(* of its own from the bytes.                                              *)
RawCryptoKey_get_evp_key(r, p) ==
    /\ pc = "running"
    /\ buffer[r] \in DOMAIN heap
    /\ pkey[p] = Null
    /\ HasRoom(1)
    /\ heap' = With(Fresh(1), [kind |-> "evp", key |-> KeyOf(buffer[r])])
    /\ pkey' = [pkey EXCEPT ![p] = Fresh(1)]
    /\ UNCHANGED <<pc, keys, evpkey, buffer, sig, file, leaked, made>>
    /\ verdict' = {}

(* EVP_PKEY_free by the program, which forgets the pointer. *)
PKey_free(p) ==
    /\ pc = "running"
    /\ pkey[p] # Null
    /\ Freed({pkey[p]})
    /\ pkey' = [pkey EXCEPT ![p] = Null]
    /\ UNCHANGED <<keys, evpkey, buffer, sig, file, leaked, made>>
    /\ verdict' = {}
-----------------------------------------------------------------------------
(* len is a size_t: -1 is the largest one, and only 0 asks for strlen.     *)
MeasuredLength(len) == IF len = 0 THEN "strlen" ELSE IF len < 0 THEN "SIZE_MAX" ELSE "len"

DigestOf(m) == [kind |-> "digest", of |-> m]

(* SHA256 over SIZE_MAX bytes reads far past the message. *)
Signer_sign(s, g, m, len) ==
    /\ pc = "running"
    /\ sig[g] = NoSignature
    /\ \/ /\ signer_is_ready(s)
          /\ MeasuredLength(len) # "SIZE_MAX"
          /\ HasRoom(2)
          /\ LET d == Fresh(1)
                 z == Fresh(2)
                 k == KeyOf(evpkey[s])
             IN  /\ heap' = [c \in DOMAIN heap \union {d, z} |->
                                CASE c = d -> DigestOf(m)
                                  [] c = z -> [kind |-> "sig", key |-> k, of |-> m]
                                  [] OTHER -> heap[c]]
                 /\ sig' = [sig EXCEPT ![g] = [digest |-> d, signature |-> z]]
                 /\ made' = [made EXCEPT ![g] = {<<k, m>>}]
          /\ UNCHANGED pc
       \/ /\ signer_is_ready(s)
          /\ MeasuredLength(len) = "SIZE_MAX"
          /\ pc' = "undefined"
          /\ UNCHANGED <<heap, sig, made>>
       \/ /\ ~signer_is_ready(s)              \* EVP_DigestSignInit refuses NULL
          /\ pc' = "exited"
          /\ UNCHANGED <<heap, sig, made>>
    /\ UNCHANGED <<keys, evpkey, buffer, pkey, file, leaked>>
    /\ verdict' = {}

(* A byte of the digest or of the signature changes in the struct. *)
Corrupt(g, field) ==
    /\ pc = "running"
    /\ sig[g] # NoSignature
    /\ heap' = [heap EXCEPT ![sig[g][field]].of = "corrupted"]
    /\ made' = [made EXCEPT ![g] = {}]
    /\ UNCHANGED <<pc, keys, evpkey, buffer, pkey, sig, file, leaked>>
    /\ verdict' = {}

\* Mutant of digest_cmp: the stored digest is not compared with the message.
digest_cmp_never(a, b) == TRUE

digest_cmp(a, b) == a = b

(* EVP_DigestVerify: a signature of this digest made with this key. *)
EVP_DigestVerify(k, z, d) == heap[z].key = k /\ heap[z].of = heap[d].of

(* A message of no bytes is one of GiveUp's exits. *)
Signature_verify(g, p, m, len) ==
    /\ pc = "running"
    /\ \/ /\ sig[g] = NoSignature             \* empty buffers
          /\ pc' = "exited"
          /\ verdict' = {}
       \/ /\ sig[g] # NoSignature
          /\ MeasuredLength(len) = "SIZE_MAX"
          /\ pc' = "undefined"
          /\ verdict' = {}
       \/ /\ sig[g] # NoSignature
          /\ MeasuredLength(len) # "SIZE_MAX"
          /\ ~digest_cmp(DigestOf(m), heap[sig[g].digest])
          /\ verdict' = {[ok |-> FALSE, key |-> Null, msg |-> m, made |-> made[g]]}
          /\ UNCHANGED pc
       \/ /\ sig[g] # NoSignature
          /\ MeasuredLength(len) # "SIZE_MAX"
          /\ digest_cmp(DigestOf(m), heap[sig[g].digest])
          /\ pkey[p] = Null
          /\ pc' = "exited"
          /\ verdict' = {}
       \/ /\ sig[g] # NoSignature
          /\ MeasuredLength(len) # "SIZE_MAX"
          /\ digest_cmp(DigestOf(m), heap[sig[g].digest])
          /\ pkey[p] # Null
          /\ verdict' = {[ok   |-> EVP_DigestVerify(KeyOf(pkey[p]), sig[g].signature, sig[g].digest),
                          key  |-> KeyOf(pkey[p]),
                          msg  |-> m,
                          made |-> made[g]]}
          /\ UNCHANGED pc
    /\ UNCHANGED <<heap, keys, evpkey, buffer, pkey, sig, file, leaked, made>>

Signature_free(g) ==
    /\ pc = "running"
    /\ sig[g] # NoSignature
    /\ Freed({sig[g].digest, sig[g].signature})
    /\ sig' = [sig EXCEPT ![g] = NoSignature]
    /\ made' = [made EXCEPT ![g] = {}]
    /\ UNCHANGED <<keys, evpkey, buffer, pkey, file, leaked>>
    /\ verdict' = {}

(* exit(1) of any call: OpenSSL or malloc refuses. *)
GiveUp ==
    /\ pc = "running"
    /\ pc' = "exited"
    /\ UNCHANGED <<heap, keys, evpkey, buffer, pkey, sig, file, leaked, made>>
    /\ verdict' = {}

Next ==
    \/ \E s \in Signers : Signer_new(s) \/ Signer_free(s)
    \/ \E s \in Signers, f \in Files : Signer_save_pem(s, f) \/ Signer_read_pem(s, f)
    \/ \E s \in Signers, r \in RawKeys : Signer_get_key(s, r)
    \/ \E r \in RawKeys : RawCryptoKey_free(r)
    \/ \E r \in RawKeys, p \in PKeys : RawCryptoKey_get_evp_key(r, p)
    \/ \E p \in PKeys : PKey_free(p)
    \/ \E s \in Signers, g \in Sigs, m \in Messages, len \in Lengths : Signer_sign(s, g, m, len)
    \/ \E g \in Sigs, field \in {"digest", "signature"} : Corrupt(g, field)
    \/ \E g \in Sigs, p \in PKeys, m \in Messages, len \in Lengths : Signature_verify(g, p, m, len)
    \/ \E g \in Sigs : Signature_free(g)
    \/ GiveUp

Spec == Init /\ [][Next]_vars
-----------------------------------------------------------------------------
(* The blocks the program's variables point to, one entry per pointer. *)
Owners(b) ==
    {<<"signer", s>> : s \in {x \in Signers : evpkey[x] = b}} \union
    {<<"raw", r>> : r \in {x \in RawKeys : buffer[x] = b}} \union
    {<<"pkey", p>> : p \in {x \in PKeys : pkey[x] = b}} \union
    {<<"digest", g>> : g \in {x \in Sigs : sig[x].digest = b}} \union
    {<<"signature", g>> : g \in {x \in Sigs : sig[x].signature = b}}

(***************************************************************************)
(* Whatever the order of the calls, every live block of the signer and the *)
(* signature has exactly one owner in the program and no struct points to  *)
(* a freed one: nothing is freed twice, used after it was freed, or lost.  *)
(* The one exception is a key that Signer_read_pem overwrote in a ready    *)
(* signer without freeing it, which nobody owns any more.                  *)
(***************************************************************************)
OneOwner ==
    pc = "running" =>
        /\ \A b \in Blocks \ DOMAIN heap : Owners(b) = {}
        /\ \A b \in DOMAIN heap : Cardinality(Owners(b)) = IF b \in leaked THEN 0 ELSE 1

(***************************************************************************)
(* Signature_verify says yes to exactly the messages signed with the key:  *)
(* for a Signature nobody touched since Signer_sign the answer is whether  *)
(* key and message are those it was made from, and a changed digest,       *)
(* signature or message is refused whatever key is offered.                *)
(***************************************************************************)
VerdictIsRight ==
    \A v \in verdict : v.ok <=> v.made = {<<v.key, v.msg>>}

=============================================================================
