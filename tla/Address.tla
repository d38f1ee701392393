------------------------------ MODULE Address -------------------------------
(***************************************************************************)
(* Public addresses of the C client (address/address.c): a caller encodes  *)
(* a public key, the string reaches a reader who may get it altered, the   *)
(* reader decodes it, and both free what the header makes them own.  The   *)
(* loops of the codec run one iteration per step.                          *)
(***************************************************************************)
EXTENDS Base58

CONSTANTS
    PUBLIC_KEY_LEN,
    CHECKSUM_LEN,
    ADDRESS_LEN,
    KeyLengths,      \* lengths of the keys a caller passes
    Keys(_),         \* the keys of a length
    Versions,        \* wallet versions in use
    Alterations(_),  \* the strings a reader may get in place of a string
    SHA256(_)        \* the digest of OpenSSL: bytes to bytes

VARIABLES
    pc,
    version,   \* the wallet version the address is encoded with
    key,       \* the caller's public key
    enc,       \* the scratch buffer and high mark of b58enc
    dec,       \* the limbs of b58tobin
    i,         \* the loop index of both
    b58,       \* the encoded string
    str,       \* the string the reader gets
    reader,    \* the wallet version the reader decodes with
    raw,       \* the key buffer decode_address_to_raw hands out
    ret,       \* its return value
    heap       \* the blocks malloc'ed and not freed

vars == <<pc, version, key, enc, dec, i, b58, str, reader, raw, ret, heap>>

DECODED_LEN == PUBLIC_KEY_LEN + CHECKSUM_LEN + 1

(* The first len bytes of the double digest; every caller asks for fewer   *)
(* than a digest has.                                                      *)
checksum(payload, len) == SubSeq(SHA256(SHA256(payload)), 1, len)

Sealed(ver, k) == <<ver>> \o k \o checksum(<<ver>> \o k, CHECKSUM_LEN)

ASSUME AddressAssumption ==
    /\ PUBLIC_KEY_LEN \in Nat /\ CHECKSUM_LEN \in Nat /\ ADDRESS_LEN \in Nat
    /\ KeyLengths \subseteq Nat /\ Versions \subseteq 0 .. Byte - 1
    /\ \A len \in KeyLengths : \A k \in Keys(len) :
          /\ k \in [1 .. len -> 0 .. Byte - 1]
          /\ \A ver \in Versions :
                checksum(<<ver>> \o k, CHECKSUM_LEN) \in [1 .. CHECKSUM_LEN -> 0 .. Byte - 1]

(* The checksum of version 0 and a key of zeros does not start with a zero *)
(* (0x44 in the build): the empty string, which decodes to zeros, is never *)
(* taken for an address.                                                   *)
ASSUME ZeroChecksumAssumption ==
    0 \in Versions =>
        /\ CHECKSUM_LEN > 0
        /\ checksum(<<0>> \o [k \in 1 .. PUBLIC_KEY_LEN |-> 0], CHECKSUM_LEN)[1] # 0

(* strncmp(a, b, n) = 0: equal up to n bytes or up to a common zero byte. *)
StrnEqual(a, b, n) ==
    \A k \in 1 .. n : (\A m \in 1 .. k - 1 : a[m] # 0) => a[k] = b[k]

Init ==
    /\ pc = "start"
    /\ version \in Versions
    /\ \E len \in KeyLengths : key \in Keys(len)
    /\ enc = EncStart(<<>>)
    /\ dec = DecStart(DECODED_LEN)
    /\ i = 0
    /\ b58 = <<>>
    /\ str = <<>>
    /\ reader = version
    /\ raw = <<>>
    /\ ret = 0
    /\ heap = {}
-----------------------------------------------------------------------------
(* exit(1): a key of another length, or no memory. *)
encode_address_fails ==
    /\ pc = "start"
    /\ pc' = "exited"
    /\ UNCHANGED <<version, key, enc, dec, i, b58, str, reader, raw, ret, heap>>

(* Version, key and checksum are put together and b58enc is called. *)
encode_address_from_raw ==
    /\ pc = "start"
    /\ Len(key) = PUBLIC_KEY_LEN
    /\ enc' = EncStart(Sealed(version, key))
    /\ i' = LeadingCount(Sealed(version, key), 0)
    /\ heap' = heap \union {"b58"}
    /\ pc' = "b58enc"
    /\ UNCHANGED <<version, key, dec, b58, str, reader, raw, ret>>

EncodeByte ==
    /\ pc = "b58enc"
    /\ i < DECODED_LEN
    /\ enc' = EncByte(enc, Sealed(version, key)[i + 1])
    /\ i' = i + 1
    /\ UNCHANGED <<pc, version, key, dec, b58, str, reader, raw, ret, heap>>

(* A string that does not fit into ADDRESS_LEN makes the caller exit. *)
EncodeDone ==
    /\ pc = "b58enc"
    /\ i = DECODED_LEN
    /\ LET fin == EncFinish(enc, Sealed(version, key), ADDRESS_LEN)
       IN  /\ b58' = fin.b58
           /\ pc' = IF fin.ok THEN "encoded" ELSE "no room"
    /\ UNCHANGED <<version, key, enc, dec, i, str, reader, raw, ret, heap>>

(* The string changes hands: as it is, or altered; the reader has a wallet *)
(* version of its own and calls b58tobin.                                  *)
Deliver ==
    /\ pc = "encoded"
    /\ str' \in {b58} \union Alterations(b58)
    /\ str' \in Seq(1 .. Byte - 1)
    /\ reader' \in Versions
    /\ dec' = DecStart(DECODED_LEN)
    /\ i' = LeadingCount(str', One)
    /\ pc' = "b58tobin"
    /\ UNCHANGED <<version, key, enc, b58, raw, ret, heap>>

DecodeChar ==
    /\ pc = "b58tobin"
    /\ dec.ok
    /\ i < Len(str)
    /\ dec' = DecChar(dec, str[i + 1], DECODED_LEN)
    /\ i' = i + 1
    /\ UNCHANGED <<pc, version, key, enc, b58, str, reader, raw, ret, heap>>

Decoded == DecFinish(dec, str, DECODED_LEN)
DecodeDone == pc = "b58tobin" /\ (~dec.ok \/ i = Len(str))

(* exit(1): not a base58 string of this length, or no memory. *)
decode_address_fails ==
    /\ DecodeDone
    /\ pc' = "exited"
    /\ UNCHANGED <<version, key, enc, dec, i, b58, str, reader, raw, ret, heap>>

\* Mutant of decode_address_to_raw: the buffer is kept when the checksum differs.
decode_address_keeping_raw ==
    /\ DecodeDone
    /\ Decoded.ok
    /\ LET pub    == SubSeq(Decoded.bin, 2, 1 + PUBLIC_KEY_LEN)
           actual == SubSeq(Decoded.bin, 2 + PUBLIC_KEY_LEN, DECODED_LEN)
       IN  IF Decoded.bin[1] = reader /\ StrnEqual(actual, checksum(<<reader>> \o pub, CHECKSUM_LEN), CHECKSUM_LEN)
             THEN ret' = Decoded.binsz /\ raw' = pub /\ heap' = heap \union {"raw"}
             ELSE ret' = 0 /\ raw' = pub /\ heap' = heap \union {"raw"}
    /\ pc' = "decoded"
    /\ UNCHANGED <<version, key, enc, dec, i, b58, str, reader>>

\* Mutant of decode_address_to_raw: the checksum is that of the key alone.
decode_address_unversioned ==
    /\ DecodeDone
    /\ Decoded.ok
    /\ LET pub    == SubSeq(Decoded.bin, 2, 1 + PUBLIC_KEY_LEN)
           actual == SubSeq(Decoded.bin, 2 + PUBLIC_KEY_LEN, DECODED_LEN)
       IN  IF Decoded.bin[1] = reader /\ StrnEqual(actual, checksum(pub, CHECKSUM_LEN), CHECKSUM_LEN)
             THEN ret' = Decoded.binsz /\ raw' = pub /\ heap' = heap \union {"raw"}
             ELSE ret' = 0 /\ UNCHANGED <<raw, heap>>
    /\ pc' = "decoded"
    /\ UNCHANGED <<version, key, enc, dec, i, b58, str, reader>>

decode_address_to_raw ==
    /\ DecodeDone
    /\ Decoded.ok
    /\ LET bin    == Decoded.bin
           pub    == SubSeq(bin, 2, 1 + PUBLIC_KEY_LEN)
           actual == SubSeq(bin, 2 + PUBLIC_KEY_LEN, DECODED_LEN)
           target == checksum(<<reader>> \o pub, CHECKSUM_LEN)
       IN  \/ /\ bin[1] # reader
              /\ ret' = 0
              /\ UNCHANGED <<raw, heap>>
           \/ /\ bin[1] = reader
              /\ ~StrnEqual(actual, target, CHECKSUM_LEN)
              /\ ret' = 0              \* allocated, freed and set to NULL
              /\ UNCHANGED <<raw, heap>>
           \/ /\ bin[1] = reader
              /\ StrnEqual(actual, target, CHECKSUM_LEN)
              /\ ret' = Decoded.binsz
              /\ raw' = pub
              /\ heap' = heap \union {"raw"}
    /\ pc' = "decoded"
    /\ UNCHANGED <<version, key, enc, dec, i, b58, str, reader>>

(* The callers free the string, and the raw buffer of a successful call. *)
Free ==
    /\ pc = "decoded"
    /\ heap' = heap \ ({"b58"} \union {b \in {"raw"} : ret > 0})
    /\ pc' = "freed"
    /\ UNCHANGED <<version, key, enc, dec, i, b58, str, reader, raw, ret>>

Next ==
    \/ encode_address_fails \/ encode_address_from_raw
    \/ EncodeByte \/ EncodeDone
    \/ Deliver
    \/ DecodeChar
    \/ decode_address_fails \/ decode_address_to_raw
    \/ Free

Spec == Init /\ [][Next]_vars
-----------------------------------------------------------------------------
(* A reference for the codec, by long division instead of multiplication:  *)
(* the digits of a number in one base, divided by another base in place.   *)
Division(digits, from, to) ==
    LET turn[k \in 0 .. Len(digits)] ==
            IF k = 0 THEN [quotient |-> digits, rest |-> 0]
            ELSE LET last == turn[k - 1]
                     t    == from * last.rest + digits[k]
                 IN  [quotient |-> [last.quotient EXCEPT ![k] = t \div to], rest |-> t % to]
    IN  turn[Len(digits)]

(* The last n of its digits in the other base, and what is left then. *)
Convert(digits, from, to, n) ==
    LET turn[k \in 0 .. n] ==
            IF k = 0 THEN [left |-> digits, cells |-> [j \in 1 .. n |-> 0]]
            ELSE LET last     == turn[k - 1]
                     division == Division(last.left, from, to)
                 IN  [left  |-> division.quotient,
                      cells |-> [last.cells EXCEPT ![n - k + 1] = division.rest]]
    IN  turn[n]

FitsInto(n, to, digits, from) ==
    LET converted == Convert(digits, from, to, n)
    IN  \A k \in 1 .. Len(digits) : converted.left[k] = 0

SameNumber(cells, to, digits, from) ==
    LET converted == Convert(digits, from, to, Len(cells))
    IN  /\ cells = converted.cells
        /\ \A k \in 1 .. Len(digits) : converted.left[k] = 0

(***************************************************************************)
(* Between two iterations of b58enc's loop the scratch buffer holds, in    *)
(* base 58, exactly the number of the bytes read so far: the 138/100 size  *)
(* is always enough, and no carry is lost at index 0.                      *)
(***************************************************************************)
ScratchHoldsPrefix ==
    pc = "b58enc" => SameNumber(enc.buf, Base, SubSeq(Sealed(version, key), 1, i), Byte)

(***************************************************************************)
(* Between two iterations of b58tobin's loop the limbs hold exactly the    *)
(* number of the characters read so far; the function gives up exactly     *)
(* when that number has outgrown the buffer or a character is no digit.    *)
(***************************************************************************)
LimbsHoldPrefix ==
    pc = "b58tobin" =>
        LET digits == [k \in 1 .. i |-> b58digits_map[str[k]]]
        IN  /\ dec.ok <=> /\ \A k \in 1 .. i : IsDigit(str[k])
                         /\ FitsInto(DECODED_LEN, Byte, digits, Base)
            /\ dec.ok => SameNumber(dec.outi, Word, digits, Base)

(***************************************************************************)
(* An address read as it was written, by a wallet of the same version,     *)
(* is accepted and gives back the key: decode_address_to_raw inverts       *)
(* encode_address_from_raw for every key, leading zero bytes included.     *)
(* (The value returned is the length of the whole decoded address, not the *)
(* number of bytes in the raw buffer that address.h:29 announces; only its *)
(* being positive is relied on here.)                                      *)
(***************************************************************************)
AddressRoundTrip ==
    pc = "decoded" /\ str = b58 /\ reader = version =>
        ret > 0 /\ raw = key

(***************************************************************************)
(* With the ownership the header states, a positive return value is what   *)
(* tells the caller to free: no path of the decoder leaves a block behind. *)
(***************************************************************************)
NothingLeaks == pc = "freed" => heap = {}

(***************************************************************************)
(* encode_address_from_raw never exits because b58enc finds the buffer too *)
(* short: the string of every key and version, with its terminating zero   *)
(* byte, fits into ADDRESS_LEN.                                            *)
(***************************************************************************)
AddressFits == pc # "no room"
=============================================================================
