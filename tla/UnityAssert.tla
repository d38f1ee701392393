---------------------------- MODULE UnityAssert -----------------------------
(***************************************************************************)
(* What the assertions of test-framework/unity.c decide and report.  A     *)
(* byte has ByteBits bits, so that the integers of the code, up to eight   *)
(* bytes wide (UNITY_INT, with UNITY_SUPPORT_64), fit TLC's.               *)
(***************************************************************************)
EXTENDS Integers, Sequences, FiniteSets

CONSTANTS
    ByteBits,       \* bits of a byte
    Printable,      \* the characters that are printed as themselves
    MaxFloat,       \* the largest finite float
    Precision       \* one over UNITY_FLOAT_PRECISION

(* A byte is two nibbles. *)
ASSUME ByteAssumption ==
    /\ ByteBits \in Nat \ {0} /\ ByteBits % 2 = 0
    /\ MaxFloat \in Nat /\ Precision \in Nat \ {0}
    /\ Printable \subseteq Int

(* A number as printed: sign, base and digits. *)
NoText == [sign |-> 0, base |-> 0, digits |-> <<>>]
None == [verdict |-> "none", element |-> 0, expected |-> NoText, actual |-> NoText]
-----------------------------------------------------------------------------
(* Integers.                                                               *)

Width(bytes) == ByteBits * bytes

(* 2 to the n, for all widths of integers. *)
Pow2[n \in 0 .. Width(8)] == IF n = 0 THEN 1 ELSE 2 * Pow2[n - 1]

UINT(x, bytes) == x % Pow2[Width(bytes)]
INT(x, bytes) ==
    LET u == UINT(x, bytes) IN IF u < Pow2[Width(bytes) - 1] THEN u ELSE u - Pow2[Width(bytes)]
UNITY_UINT(x) == UINT(x, 8)
UNITY_INT(x) == INT(x, 8)

IntWidth == 4       \* UNITY_INT_WIDTH / 8

(* UNITY_DISPLAY_STYLE_T: a range and a number of bytes.  INT and UINT are *)
(* the styles without a width of their own.                                *)
Styles ==
    [range : {"INT", "UINT", "HEX"}, bytes : {1, 2, 4, 8}, named : {TRUE}]
      \union [range : {"INT", "UINT"}, bytes : {IntWidth}, named : {FALSE}]
      \union {[range |-> "CHAR", bytes |-> 1, named |-> TRUE]}

IsInt(style) == style.range \in {"INT", "CHAR"}

\* Mutant of Cast: HEX values are always cast to signed types.
CastSigned(macro, style, x) ==
    IF style.bytes = 8 \/ ~style.named THEN UNITY_INT(x)
    ELSE IF style.range # "UINT" THEN INT(x, style.bytes)
    ELSE UNITY_INT(UINT(x, style.bytes))

(* The casts of the macros of unity_internals.h.  EQUAL_HEXn is the one    *)
(* that casts hexadecimal values to signed types.                          *)
Cast(macro, style, x) ==
    IF style.bytes = 8 \/ ~style.named THEN UNITY_INT(x)
    ELSE IF IsInt(style) \/ (style.range = "HEX" /\ macro = "EQUAL")
         THEN INT(x, style.bytes)
         ELSE UNITY_INT(UINT(x, style.bytes))

CastDelta(style, array, d) ==
    IF style.bytes = 8 \/ ~style.named THEN UNITY_UINT(d)
    ELSE IF array /\ style.range = "UINT" /\ style.bytes = 1 THEN UINT(d, 2)
    ELSE UINT(d, style.bytes)
-----------------------------------------------------------------------------
(* Printing numbers.                                                       *)

(* The divisor after k turns of the loop; a number has fewer digits than   *)
(* bits.                                                                   *)
InitialDivisor(number) ==
    LET divisor[k \in 0 .. Width(8)] ==
            IF k = 0 THEN 1
            ELSE LET d == divisor[k - 1]
                 IN  IF number \div d > 9 THEN UNITY_UINT(d * 10) ELSE d
    IN  divisor[Width(8)]

(* One digit for every turn, until the divisor is 0. *)
DigitsFrom(number, initial) ==
    LET divisor[k \in 0 .. Width(8)] == IF k = 0 THEN initial ELSE divisor[k - 1] \div 10
        turns == CHOOSE n \in 1 .. Width(8) :
                    divisor[n] = 0 /\ \A m \in 1 .. n - 1 : divisor[m] > 0
    IN  [k \in 1 .. turns |-> (number \div divisor[k - 1]) % 10]

UnityPrintNumberUnsigned(number) ==
    [sign |-> 1, base |-> 10, digits |-> DigitsFrom(number, InitialDivisor(number))]

\* Mutant of UnityPrintNumber: the negated number is not made unsigned first.
UnityPrintNumberNegated(number) ==
    IF number < 0
    THEN [UnityPrintNumberUnsigned(IF number = UNITY_INT(-number) THEN 0 ELSE -number)
            EXCEPT !.sign = -1]
    ELSE UnityPrintNumberUnsigned(number)

UnityPrintNumber(number) ==
    IF number < 0
    THEN [UnityPrintNumberUnsigned(UNITY_UINT(-UNITY_UINT(number))) EXCEPT !.sign = -1]
    ELSE UnityPrintNumberUnsigned(number)

(* A nibble is half a byte; there are never more than those of UNITY_UINT. *)
UnityPrintNumberHex(number, nibbles_to_print) ==
    LET nibbles == IF nibbles_to_print > 16 THEN 16 ELSE nibbles_to_print
        bits == ByteBits \div 2
    IN  [sign |-> 1, base |-> Pow2[bits],
         digits |-> [k \in 1 .. nibbles |-> (number \div Pow2[bits * (nibbles - k)]) % Pow2[bits]]]

UnityPrintNumberByStyle(number, style) ==
    IF style.range = "CHAR"
    THEN IF number \in Printable
         THEN [sign |-> 1, base |-> Pow2[ByteBits], digits |-> <<number>>]
         ELSE UnityPrintNumberHex(UNITY_UINT(number), 2)
    ELSE IF style.range = "INT" THEN UnityPrintNumber(number)
    ELSE IF style.range = "UINT" THEN UnityPrintNumberUnsigned(UNITY_UINT(number))
    ELSE UnityPrintNumberHex(UNITY_UINT(number), style.bytes * 2)

Masked == 2      \* printed as X
Bit(x, k) == (UNITY_UINT(x) \div Pow2[k]) % 2
UnityPrintMask(mask, number) ==
    [sign |-> 1, base |-> 2,
     digits |-> [k \in 1 .. Width(IntWidth) |->
                    IF Bit(mask, Width(IntWidth) - k) = 1 THEN Bit(number, Width(IntWidth) - k)
                    ELSE Masked]]
-----------------------------------------------------------------------------
(* Assertions: each returns what it decides and reports, of numbers the    *)
(* text too.                                                               *)

Pass == [None EXCEPT !.verdict = "pass"]
Fail(element, expected, actual) ==
    [verdict |-> "fail", element |-> element, expected |-> expected, actual |-> actual]
Pointless == Fail(0, NoText, NoText)

UnityAssertBits(mask, expected, actual) ==
    IF \E k \in 0 .. Width(8) - 1 : Bit(mask, k) = 1 /\ Bit(expected, k) # Bit(actual, k)
    THEN Fail(0, UnityPrintMask(mask, expected), UnityPrintMask(mask, actual))
    ELSE Pass

UnityAssertEqualNumber(expected, actual, style) ==
    IF expected # actual
    THEN Fail(0, UnityPrintNumberByStyle(expected, style), UnityPrintNumberByStyle(actual, style))
    ELSE Pass

(* compare is the set of UNITY_EQUAL_TO, UNITY_GREATER_THAN and            *)
(* UNITY_SMALLER_THAN it has, none for UNITY_NOT_EQUAL.                    *)
UnityAssertGreaterOrLessOrEqualNumber(threshold, actual, compare, style) ==
    LET a == IF IsInt(style) THEN actual ELSE UNITY_UINT(actual)
        t == IF IsInt(style) THEN threshold ELSE UNITY_UINT(threshold)
        failed == \/ threshold = actual
                  \/ a > t /\ "SMALLER" \in compare
                  \/ a < t /\ "GREATER" \in compare
    IN  IF threshold = actual /\ "EQUAL" \in compare THEN Pass
        ELSE IF failed
        THEN Fail(0, UnityPrintNumberByStyle(threshold, style), UnityPrintNumberByStyle(actual, style))
        ELSE Pass

(* The comparison of UnityAssertNumbersWithin and, element by element, of  *)
(* UnityAssertNumbersArrayWithin.                                          *)
Within(delta, expected, actual, style) ==
    LET above == IF IsInt(style) THEN actual > expected
                 ELSE UNITY_UINT(actual) > UNITY_UINT(expected)
    IN  IF above THEN UNITY_UINT(UNITY_UINT(actual) - UNITY_UINT(expected)) <= delta
        ELSE UNITY_UINT(UNITY_UINT(expected) - UNITY_UINT(actual)) <= delta

UnityAssertNumbersWithin(delta, expected, actual, style) ==
    IF Within(delta, expected, actual, style) THEN Pass
    ELSE Fail(0, UnityPrintNumberByStyle(expected, style), UnityPrintNumberByStyle(actual, style))

(* Pointers are "null" or the name of an array of mem. *)
UnityIsOneArrayNull(expected, actual) ==
    expected # actual /\ (expected = "null" \/ actual = "null")

Least(S) == CHOOSE k \in S : \A m \in S : k <= m

(* The array assertions read elements as signed integers of the style's    *)
(* width; Agrees compares a pair.  What they report has its sign extension *)
(* removed for the unsigned styles narrower than an int.                   *)
ForEachElement(Agrees(_, _), mem, expected, actual, num_elements, style, each) ==
    LET Read(p, k) == INT(mem[p][k], style.bytes)
        expect_val(k) == Read(expected, IF each THEN 1 ELSE k)
        Shown(v) == IF style.range = "UINT" /\ style.bytes < IntWidth THEN UINT(v, style.bytes) ELSE v
        differ == {k \in 1 .. num_elements : ~Agrees(expect_val(k), Read(actual, k))}
    IN  IF num_elements = 0 THEN Pointless
        ELSE IF expected = actual THEN Pass
        ELSE IF UnityIsOneArrayNull(expected, actual) THEN Pointless
        ELSE IF differ = {} THEN Pass
        ELSE LET k == Least(differ)
             IN  Fail(k, UnityPrintNumberByStyle(Shown(expect_val(k)), style),
                         UnityPrintNumberByStyle(Shown(Read(actual, k)), style))

\* Mutant of UnityAssertEqualIntArray: the last of several elements is not compared.
UnityAssertEqualIntArrayButLast(mem, expected, actual, num_elements, style, each) ==
    ForEachElement(LAMBDA e, a : e = a, mem, expected, actual,
                   IF num_elements > 1 THEN num_elements - 1 ELSE num_elements, style, each)

UnityAssertEqualIntArray(mem, expected, actual, num_elements, style, each) ==
    ForEachElement(LAMBDA e, a : e = a, mem, expected, actual, num_elements, style, each)

UnityAssertNumbersArrayWithin(delta, mem, expected, actual, num_elements, style, each) ==
    ForEachElement(LAMBDA e, a : Within(delta, e, a, style),
                   mem, expected, actual, num_elements, style, each)

(* EACH_EQUAL_... compares with one value, kept in UnityQuickCompare. *)
UnityNumToPtr(num, size) == <<UINT(num, size)>>
-----------------------------------------------------------------------------
(* Strings of characters above 0, without their NUL, or the null pointer.  *)

NullString == <<-1>>

Char(s, i) == IF i <= Len(s) THEN s[i] ELSE 0
IsNull(s) == s = NullString

\* Mutant of StringsDiffer: the loop stops where one of the strings ends.
StringsDifferShorter(expected, actual, limit) ==
    IF ~IsNull(expected) /\ ~IsNull(actual)
    THEN \E i \in 1 .. limit :
            /\ \A j \in 1 .. i : Char(expected, j) # 0 /\ Char(actual, j) # 0
            /\ Char(expected, i) # Char(actual, i)
    ELSE expected # actual

(* The loop over both strings, up to limit characters. *)
StringsDiffer(expected, actual, limit) ==
    IF ~IsNull(expected) /\ ~IsNull(actual)
    THEN \E i \in 1 .. limit :
            /\ \A j \in 1 .. i : Char(expected, j) # 0 \/ Char(actual, j) # 0
            /\ Char(expected, i) # Char(actual, i)
    ELSE expected # actual

NoLimit(expected, actual) == Len(expected) + Len(actual) + 1

UnityAssertEqualString(expected, actual) ==
    IF StringsDiffer(expected, actual, NoLimit(expected, actual))
    THEN Fail(0, NoText, NoText) ELSE Pass

UnityAssertEqualStringLen(expected, actual, length) ==
    IF StringsDiffer(expected, actual, length) THEN Fail(0, NoText, NoText) ELSE Pass

(* With ARRAY_TO_VAL expected is the one string, kept in mem[expected][1], *)
(* itself: a null string is the pointer "null".                            *)
UnityAssertEqualStringArray(mem, expected, actual, num_elements, each) ==
    LET expd(k) == mem[expected][IF each THEN 1 ELSE k]
        act(k) == mem[actual][k]
        differ == {k \in 1 .. num_elements : StringsDiffer(expd(k), act(k), NoLimit(expd(k), act(k)))}
    IN  IF num_elements = 0 THEN Pointless
        ELSE IF expected = actual THEN Pass
        ELSE IF UnityIsOneArrayNull(expected, actual) THEN Pointless
        ELSE IF differ = {} THEN Pass
        ELSE Fail(Least(differ), NoText, NoText)

(* Two pointers walk over the bytes; with ARRAY_TO_VAL the expected one    *)
(* returns to its start after each element.                                *)
UnityAssertEqualMemory(mem, expected, actual, length, num_elements, each) ==
    LET ptr_exp(k) == mem[expected][IF each THEN ((k - 1) % length) + 1 ELSE k]
        ptr_act(k) == mem[actual][k]
        differ == {k \in 1 .. num_elements * length : ptr_exp(k) # ptr_act(k)}
    IN  IF num_elements = 0 \/ length = 0 THEN Pointless
        ELSE IF expected = actual THEN Pass
        ELSE IF UnityIsOneArrayNull(expected, actual) THEN Pointless
        ELSE IF differ = {} THEN Pass
        ELSE Fail(((Least(differ) - 1) \div length) + 1, NoText, NoText)
-----------------------------------------------------------------------------
(* Floats: not a number, an infinity, or a number of up to MaxFloat.       *)

NaN == [kind |-> "nan", value |-> 0]
Inf(sign) == [kind |-> "inf", value |-> sign]
Float(n) == IF n > MaxFloat THEN Inf(1) ELSE IF n < -MaxFloat THEN Inf(-1)
            ELSE [kind |-> "finite", value |-> n]
isnan(x) == x.kind = "nan"
isinf(x) == x.kind = "inf"

Minus(x, y) ==
    IF isnan(x) \/ isnan(y) \/ (isinf(x) /\ isinf(y) /\ x = y) THEN NaN
    ELSE IF isinf(x) THEN x
    ELSE IF isinf(y) THEN Inf(-y.value)
    ELSE Float(x.value - y.value)
Magnitude(x) == IF x.value < 0 THEN [x EXCEPT !.value = -@] ELSE x

\* Mutant of UnityFloatsWithin: the difference may have overflowed.
UnityFloatsWithinOverflow(delta, expected, actual) ==
    LET diff == Magnitude(Minus(actual, expected))
        larger == /\ ~isnan(delta) /\ ~isinf(delta)
                  /\ diff.value * Precision > Magnitude(delta).value
    IN  \/ isinf(expected) /\ isinf(actual) /\ (expected.value < 0 <=> actual.value < 0)
        \/ isnan(expected) /\ isnan(actual)
        \/ ~(isnan(diff) \/ larger)

(* delta is in units of UNITY_FLOAT_PRECISION. *)
UnityFloatsWithin(delta, expected, actual) ==
    LET diff == Magnitude(Minus(actual, expected))
        larger == /\ ~isnan(delta) /\ ~isinf(delta)
                  /\ diff.value * Precision > Magnitude(delta).value
    IN  \/ isinf(expected) /\ isinf(actual) /\ (expected.value < 0 <=> actual.value < 0)
        \/ isnan(expected) /\ isnan(actual)
        \/ ~(isnan(diff) \/ isinf(diff) \/ larger)

UnityAssertFloatsWithin(delta, expected, actual) ==
    IF UnityFloatsWithin(delta, expected, actual) THEN Pass ELSE Fail(0, NoText, NoText)

(* The tolerance is the expected element times UNITY_FLOAT_PRECISION. *)
UnityAssertEqualFloatArray(mem, expected, actual, num_elements, each) ==
    LET ptr_expected(k) == mem[expected][IF each THEN 1 ELSE k]
        differ == {k \in 1 .. num_elements :
                      ~UnityFloatsWithin(ptr_expected(k), ptr_expected(k), mem[actual][k])}
    IN  IF num_elements = 0 THEN Pointless
        ELSE IF expected = actual THEN Pass
        ELSE IF UnityIsOneArrayNull(expected, actual) THEN Pointless
        ELSE IF differ = {} THEN Pass
        ELSE Fail(Least(differ), NoText, NoText)

Traits == {"INF", "NEG_INF", "NAN", "DET", "INVALID"}
UnityAssertFloatSpecial(actual, trait, should_be_trait) ==
    LET is_trait ==
            CASE trait = "INF" -> isinf(actual) /\ actual.value > 0
              [] trait = "NEG_INF" -> isinf(actual) /\ actual.value < 0
              [] trait = "NAN" -> isnan(actual)
              [] trait = "DET" -> ~isinf(actual) /\ ~isnan(actual)
              [] OTHER -> ~should_be_trait
    IN  IF is_trait # should_be_trait THEN Fail(0, NoText, NoText) ELSE Pass
=============================================================================
