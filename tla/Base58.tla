------------------------------- MODULE Base58 -------------------------------
(***************************************************************************)
(* The base58 codec of the C client (address/base58.c).  Characters are    *)
(* their ASCII codes, byte arrays are sequences of 0..255, and the limbs   *)
(* of the decoder are words of WordBytes bytes (4 in the build; TLC's      *)
(* integers leave room for 2).  The codec's loops are the operators        *)
(* EncByte and DecChar, one application per input byte or character, so    *)
(* that a state machine can stop between two of them.                      *)
(***************************************************************************)
EXTENDS Integers, Sequences

CONSTANT WordBytes   \* sizeof(b58_almostmaxint_t)

ASSUME WordBytesAssumption == WordBytes \in Nat \ {0}

Base == 58
Byte == 256

(* What n digits of a base can hold. *)
Power(base, n) ==
    LET power[k \in 0 .. n] == IF k = 0 THEN 1 ELSE base * power[k - 1]
    IN  power[n]

Word == Power(Byte, WordBytes)

(* The prefix of s whose elements all equal x, as a length. *)
LeadingCount(s, x) ==
    CHOOSE n \in 0 .. Len(s) :
        /\ \A k \in 1 .. n : s[k] = x
        /\ n < Len(s) => s[n + 1] # x

(* "123456789ABCDEFGHJKLMNPQRSTUVWXYZabcdefghijkmnopqrstuvwxyz" *)
b58digits_ordered ==
    [d \in 0 .. 57 |->
        CASE d \in 0 .. 8   -> 49 + d
          [] d \in 9 .. 16  -> 65 + d - 9
          [] d \in 17 .. 21 -> 74 + d - 17
          [] d \in 22 .. 32 -> 80 + d - 22
          [] d \in 33 .. 43 -> 97 + d - 33
          [] d \in 44 .. 57 -> 109 + d - 44]

One == 49

(* The decoder's own table, -1 for a character that is not a digit. *)
b58digits_map ==
    [c \in 0 .. 127 |->
        CASE c \in 49 .. 57   -> c - 49
          [] c \in 65 .. 72   -> c - 65 + 9
          [] c \in 74 .. 78   -> c - 74 + 17
          [] c \in 80 .. 90   -> c - 80 + 22
          [] c \in 97 .. 107  -> c - 97 + 33
          [] c \in 109 .. 122 -> c - 109 + 44
          [] OTHER            -> -1]
-----------------------------------------------------------------------------
\* Mutant of EncSize: the factor of the logarithm is cut off.
EncSizeShort(data) == ((Len(data) - LeadingCount(data, 0)) * 13) \div 10 + 1

(***************************************************************************)
(* Encoding.  Cell j of the scratch buffer is buf[j + 1]; high is the      *)
(* highest index the previous byte's carry did not reach.                  *)
(***************************************************************************)
EncSize(data) == ((Len(data) - LeadingCount(data, 0)) * 138) \div 100 + 1

EncStart(data) ==
    [buf  |-> [k \in 1 .. EncSize(data) |-> 0],
     high |-> EncSize(data) - 1]

(* The carries of a loop over cells, from the last one to the first, that  *)
(* multiplies them by a factor and adds c: carry[k] is left after k cells. *)
Carries(cells, base, factor, c) ==
    LET n == Len(cells)
        carry[k \in 0 .. n] ==
            IF k = 0 THEN c ELSE (carry[k - 1] + factor * cells[n - k + 1]) \div base
    IN  carry

(* What the loop leaves in the last of the cells, when it ends after some  *)
(* turns.                                                                  *)
Scaled(cells, base, factor, carry, turns) ==
    LET n == Len(cells)
    IN  [j \in 1 .. n |-> IF j > n - turns THEN (carry[n - j] + factor * cells[j]) % base
                          ELSE cells[j]]

(* The inner loop goes on while j > high or there is a carry, and no       *)
(* further than cell 0; after k turns j is the size less 1 + k.            *)
Carry(buf, byte, high) ==
    LET size  == Len(buf)
        carry == Carries(buf, Base, Byte, byte)
        Goes(k) == size - 1 - k > high \/ carry[k] # 0
        turns == CHOOSE k \in 0 .. size : /\ k < size => ~Goes(k)
                                          /\ \A m \in 0 .. k - 1 : Goes(m)
    IN  [buf  |-> Scaled(buf, Base, Byte, carry, turns),
         high |-> IF turns = size THEN 0 ELSE size - 1 - turns]

EncByte(st, byte) == Carry(st.buf, byte, st.high)

\* Mutant of EncFinish: room is asked for two zero bytes at the end.
EncFinishRoomy(st, data, b58sz) ==
    LET zcount == LeadingCount(data, 0)
        size   == Len(st.buf)
        j      == LeadingCount(st.buf, 0)
    IN  IF b58sz <= zcount + size - j + 1
          THEN [ok |-> FALSE, b58 |-> <<>>, b58sz |-> zcount + size - j + 2]
          ELSE [ok    |-> TRUE,
                b58   |-> [k \in 1 .. zcount |-> One] \o
                          [k \in 1 .. size - j |->
                              b58digits_ordered[st.buf[j + k]]],
                b58sz |-> zcount + size - j + 1]

EncFinish(st, data, b58sz) ==
    LET zcount == LeadingCount(data, 0)
        size   == Len(st.buf)
        j      == LeadingCount(st.buf, 0)
    IN  IF b58sz <= zcount + size - j
          THEN [ok |-> FALSE, b58 |-> <<>>, b58sz |-> zcount + size - j + 1]
          ELSE [ok    |-> TRUE,
                b58   |-> [k \in 1 .. zcount |-> One] \o
                          [k \in 1 .. size - j |->
                              b58digits_ordered[st.buf[j + k]]],
                b58sz |-> zcount + size - j + 1]
-----------------------------------------------------------------------------
(***************************************************************************)
(* Decoding into a buffer of binsz bytes: outi is the big-endian array of  *)
(* limbs, the first of which may hold only binsz % WordBytes bytes.        *)
(***************************************************************************)
OutiSize(binsz) == (binsz + WordBytes - 1) \div WordBytes
BytesLeft(binsz) == binsz % WordBytes

DecStart(binsz) == [ok |-> TRUE, outi |-> [j \in 1 .. OutiSize(binsz) |-> 0]]

IsDigit(ch) == ch < 128 /\ b58digits_map[ch] # -1

\* Mutant of OverMask: the unused bytes of the first limb are not looked at.
OverMaskNever(outi, binsz) == FALSE

(* The first limb has more bytes than the buffer leaves for it. *)
OverMask(outi, binsz) ==
    /\ BytesLeft(binsz) # 0
    /\ outi[1] >= Power(Byte, BytesLeft(binsz))

(* outi * 58 + c, unless it outgrows the limbs or the buffer. *)
DecChar(st, ch, binsz) ==
    IF ~st.ok \/ ~IsDigit(ch)
      THEN [st EXCEPT !.ok = FALSE]
      ELSE LET n     == Len(st.outi)
               carry == Carries(st.outi, Word, Base, b58digits_map[ch])
               outi  == Scaled(st.outi, Word, Base, carry, n)
           IN  [ok   |-> carry[n] = 0 /\ ~OverMask(outi, binsz),
                outi |-> outi]

(* The big-endian bytes of the limbs, one after the other. *)
LimbBytes(outi) ==
    [k \in 1 .. Len(outi) * WordBytes |->
        LET limb  == (k - 1) \div WordBytes
            below == WordBytes - 1 - ((k - 1) % WordBytes)
        IN  (outi[limb + 1] \div Power(Byte, below)) % Byte]

(* The flag, the bytes and the canonical count written through binszp. *)
DecFinish(st, b58, binsz) ==
    LET wide == LimbBytes(st.outi)
        bin  == SubSeq(wide, Len(wide) - binsz + 1, Len(wide))
    IN  IF ~st.ok
          THEN [ok |-> FALSE, bin |-> <<>>, binsz |-> binsz]
          ELSE [ok    |-> TRUE,
                bin   |-> bin,
                binsz |-> binsz - LeadingCount(bin, 0) + LeadingCount(b58, One)]
=============================================================================
