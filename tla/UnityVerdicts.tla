--------------------------- MODULE UnityVerdicts ----------------------------
(***************************************************************************)
(* The assertions of UnityAssert as steps of a test that has not failed    *)
(* yet, each called with any of the arguments the constants allow, and     *)
(* what their names promise.                                               *)
(***************************************************************************)
EXTENDS UnityAssert

CONSTANTS
    Values, Masks, Deltas,  \* numbers passed to the assertions
    Cells(_),               \* the elements, of so many bytes, of arrays of numbers
    Strings,                \* strings, null included
    Floats, FloatCells,     \* floats, and those that arrays hold
    Elements                \* the largest num_elements, and length

ASSUME ArgumentsAssumption ==
    /\ Values \subseteq Int /\ Masks \subseteq Int /\ Deltas \subseteq Int /\ Elements \in Nat
    /\ \A bytes \in {1, 2, 4, 8} : Cells(bytes) \subseteq Int
    /\ Strings \subseteq Seq(Nat \ {0}) \union {NullString}
    /\ Floats \union FloatCells \subseteq
          {NaN, Inf(1), Inf(-1)} \union {Float(n) : n \in -MaxFloat .. MaxFloat}

VARIABLES
    call,     \* the assertion the last step called, with its arguments
    result    \* what it decided and printed

assertVars == <<call, result>>
NoCall == call = None /\ result = None

(* Memory holds two arrays and UnityQuickCompare; an assertion is given    *)
(* two of its arrays, twice the same one, or null.                         *)
Memories(S) == [a : [1 .. Elements -> S], b : [1 .. Elements -> S], quick : {<<>>}]
Pointers == {<<"a", "b">>, <<"a", "a">>, <<"null", "a">>, <<"a", "null">>, <<"null", "null">>}

Compare ==
    [NOT_EQUAL        |-> {},
     GREATER_THAN     |-> {"GREATER"},
     GREATER_OR_EQUAL |-> {"GREATER", "EQUAL"},
     SMALLER_THAN     |-> {"SMALLER"},
     SMALLER_OR_EQUAL |-> {"SMALLER", "EQUAL"}]

NumberCall(ops) ==
    \E op \in ops, style \in Styles, e, a \in Values, delta \in Deltas :
        /\ op # "WITHIN" => delta = 0
        /\ call' = [op |-> op, style |-> style, e |-> e, a |-> a, delta |-> delta]

BitsCall ==
    \E mask \in Masks, e, a \in Values : call' = [op |-> "BITS", mask |-> mask, e |-> e, a |-> a]

ArrayCall ==
    \E style \in Styles, num \in 0 .. Elements, p \in Pointers :
        \E mem \in Memories(Cells(style.bytes)) :
            call' = [op |-> "EQUAL_ARRAY", style |-> style, mem |-> mem, p |-> p[1], q |-> p[2],
                     num |-> num]

ArrayWithinCall ==
    \E style \in Styles, num \in 0 .. Elements, p \in Pointers, delta \in Deltas :
        \E mem \in Memories(Cells(style.bytes)) :
            call' = [op |-> "ARRAY_WITHIN", style |-> style, mem |-> mem, p |-> p[1], q |-> p[2],
                     num |-> num, delta |-> delta]

EachCall ==
    \E style \in Styles, num \in 0 .. Elements, value \in Values :
        \E mem \in Memories(Cells(style.bytes)) :
            call' = [op |-> "EACH_EQUAL", style |-> style, mem |-> [mem EXCEPT !.b = mem.a],
                     p |-> "quick", q |-> "a", num |-> num, value |-> value]

StringCall == \E s, t \in Strings : call' = [op |-> "STRING", s |-> s, t |-> t]

StringLenCall ==
    \E s, t \in Strings, length \in 0 .. Elements + 1 :
        call' = [op |-> "STRING_LEN", s |-> s, t |-> t, length |-> length]

(* EACH_EQUAL_STRING passes the string where the others pass an array: it  *)
(* is not the array of the elements, and null is the null pointer.         *)
StringArrayCall ==
    \E mem \in Memories(Strings), p \in Pointers, num \in 0 .. Elements, each \in BOOLEAN :
        /\ each /\ p[1] = "a" => p[2] # "a" /\ ~IsNull(mem.a[1])
        /\ call' = [op |-> "STRING_ARRAY", strings |-> mem, p |-> p[1], q |-> p[2], num |-> num,
                    each |-> each]

MemoryCall ==
    \E x, y \in [1 .. Elements * Elements -> {0, 1}], p \in Pointers, length, num \in 0 .. Elements,
       each \in BOOLEAN :
        call' = [op |-> "MEMORY", bytes |-> [a |-> x, b |-> y], p |-> p[1], q |-> p[2],
                length |-> length, num |-> num, each |-> each]

FloatCall ==
    \E tolerance, x, y \in Floats : call' = [op |-> "FLOAT_WITHIN", tolerance |-> tolerance, x |-> x, y |-> y]

FloatArrayCall ==
    \E mem \in Memories(FloatCells), p \in Pointers, num \in 0 .. Elements, each \in BOOLEAN :
        call' = [op |-> "FLOAT_ARRAY", floats |-> mem, p |-> p[1], q |-> p[2], num |-> num,
                 each |-> each]

(* UNITY_FLOAT_INVALID_TRAIT is even, so it always asserts the absence. *)
TraitCall ==
    \E x \in Floats, trait \in Traits, should \in BOOLEAN :
        /\ trait = "INVALID" => ~should
        /\ call' = [op |-> "FLOAT_IS", x |-> x, trait |-> trait, should |-> should]

EqualNumber ==
    /\ NumberCall({"EQUAL"})
    /\ result' = UnityAssertEqualNumber(Cast("EQUAL", call'.style, call'.e),
                                        Cast("EQUAL", call'.style, call'.a), call'.style)

CompareNumber ==
    /\ NumberCall(DOMAIN Compare)
    /\ result' = UnityAssertGreaterOrLessOrEqualNumber(
                    Cast(call'.op, call'.style, call'.e), Cast(call'.op, call'.style, call'.a),
                    Compare[call'.op], call'.style)

NumbersWithin ==
    /\ NumberCall({"WITHIN"})
    /\ result' = UnityAssertNumbersWithin(
                    CastDelta(call'.style, FALSE, call'.delta), Cast("WITHIN", call'.style, call'.e),
                    Cast("WITHIN", call'.style, call'.a), call'.style)

Bits ==
    /\ BitsCall
    /\ result' = UnityAssertBits(UNITY_INT(call'.mask), UNITY_INT(call'.e), UNITY_INT(call'.a))

EqualIntArray ==
    /\ ArrayCall
    /\ result' = UnityAssertEqualIntArray(call'.mem, call'.p, call'.q, call'.num, call'.style, FALSE)

EachEqual ==
    /\ EachCall
    /\ LET mem == [call'.mem EXCEPT !["quick"] =
                      UnityNumToPtr(Cast("EQUAL", call'.style, call'.value), call'.style.bytes)]
       IN  result' = UnityAssertEqualIntArray(mem, "quick", call'.q, call'.num, call'.style, TRUE)

NumbersArrayWithin ==
    /\ ArrayWithinCall
    /\ result' = UnityAssertNumbersArrayWithin(CastDelta(call'.style, TRUE, call'.delta),
                                               call'.mem, call'.p, call'.q, call'.num, call'.style, FALSE)

EqualString ==
    /\ StringCall
    /\ result' = UnityAssertEqualString(call'.s, call'.t)

EqualStringLen ==
    /\ StringLenCall
    /\ result' = UnityAssertEqualStringLen(call'.s, call'.t, call'.length)

EqualStringArray ==
    /\ StringArrayCall
    /\ result' = UnityAssertEqualStringArray(call'.strings, call'.p, call'.q, call'.num, call'.each)

EqualMemory ==
    /\ MemoryCall
    /\ result' = UnityAssertEqualMemory(call'.bytes, call'.p, call'.q, call'.length, call'.num, call'.each)

FloatsWithin ==
    /\ FloatCall
    /\ result' = UnityAssertFloatsWithin(call'.tolerance, call'.x, call'.y)

EqualFloatArray ==
    /\ FloatArrayCall
    /\ result' = UnityAssertEqualFloatArray(call'.floats, call'.p, call'.q, call'.num, call'.each)

FloatSpecial ==
    /\ TraitCall
    /\ result' = UnityAssertFloatSpecial(call'.x, call'.trait, call'.should)

(* One assertion of a test, with its arguments. *)
Asserts ==
    \/ EqualNumber \/ CompareNumber \/ NumbersWithin \/ Bits
    \/ EqualIntArray \/ EachEqual \/ NumbersArrayWithin
    \/ EqualString \/ EqualStringLen \/ EqualStringArray \/ EqualMemory
    \/ FloatsWithin \/ EqualFloatArray \/ FloatSpecial
-----------------------------------------------------------------------------
Decided(ops) == result # None /\ call.op \in ops
Passed == result.verdict = "pass"
Distance(x, y) == IF x < y THEN y - x ELSE x - y

(* The number a style stands for: signed or not, of its width, eight bytes *)
(* when the style names none; elements of arrays always have the width.    *)
Reads(style, bytes, x) == IF IsInt(style) THEN INT(x, bytes) ELSE UINT(x, bytes)
BytesOf(style) == IF style.named THEN style.bytes ELSE 8
Means(style, x) == Reads(style, BytesOf(style), x)
Element(p, k) == Reads(call.style, call.style.bytes, call.mem[p][k])

(***************************************************************************)
(* An assertion on two numbers passes exactly when the relation it is      *)
(* named for holds between the numbers its type stands for, for every      *)
(* type, at every wrap of the casts and of the unsigned subtraction;       *)
(* UnityAssertBits, for masks as wide as an int, exactly when the bits it  *)
(* prints of them under the mask are the same.                             *)
(***************************************************************************)
NumbersAreCompared ==
    /\ (Decided({"BITS"}) /\ call.mask \in 0 .. Pow2[Width(IntWidth)] - 1) =>
        (Passed <=> UnityPrintMask(call.mask, call.e) = UnityPrintMask(call.mask, call.a))
    /\ Decided({"EQUAL", "WITHIN"} \union DOMAIN Compare) =>
        LET e == Means(call.style, call.e)
            a == Means(call.style, call.a)
        IN  Passed <=>
              CASE call.op = "EQUAL" -> a = e
                [] call.op = "NOT_EQUAL" -> a # e
                [] call.op = "GREATER_THAN" -> a > e
                [] call.op = "GREATER_OR_EQUAL" -> a >= e
                [] call.op = "SMALLER_THAN" -> a < e
                [] call.op = "SMALLER_OR_EQUAL" -> a <= e
                [] call.op = "WITHIN" ->
                     Distance(a, e) <= UINT(call.delta, BytesOf(call.style))

(* Two arrays are compared when there is something to compare. *)
Comparable(p, q) == p # "null" /\ q # "null"
FirstOf(S) == Least(S)

(***************************************************************************)
(* An array assertion passes exactly when the arrays are the same one, or  *)
(* both exist and all their elements agree, never for no elements; when it *)
(* fails between two arrays it names the first element that differs.       *)
(* ARRAY_WITHIN of UINTn and HEXn is not covered: the code reads their     *)
(* elements through signed pointers.                                       *)
(***************************************************************************)
ArraysAreCompared ==
    (/\ Decided({"EQUAL_ARRAY", "EACH_EQUAL", "ARRAY_WITHIN"})
     /\ call.op = "ARRAY_WITHIN" => IsInt(call.style)) =>
        LET Expected(k) ==
                IF call.op = "EACH_EQUAL" THEN Reads(call.style, call.style.bytes, call.value)
                ELSE Element(call.p, k)
            Agree(k) ==
                IF call.op = "ARRAY_WITHIN"
                THEN Distance(Expected(k), Element(call.q, k)) <= UINT(call.delta, BytesOf(call.style))
                ELSE Expected(k) = Element(call.q, k)
            differ == {k \in 1 .. call.num : ~Agree(k)}
        IN  IF call.num > 0 /\ call.p # call.q /\ Comparable(call.p, call.q)
            THEN /\ Passed <=> differ = {}
                 /\ ~Passed => result.element = FirstOf(differ)
            ELSE Passed <=> (call.num > 0 /\ call.p = call.q)

(* The number a reader makes of what was printed. *)
ReadDigits(digits, base) ==
    LET value[k \in 0 .. Len(digits)] == IF k = 0 THEN 0 ELSE base * value[k - 1] + digits[k]
    IN  value[Len(digits)]
ReadNumber(text) == text.sign * ReadDigits(text.digits, text.base)

(* It is the number x of the style; a character that cannot be printed is  *)
(* shown by its code.                                                      *)
Shows(text, style, x) ==
    IF style.range = "CHAR" THEN UINT(ReadNumber(text), 1) = UINT(x, 1)
    ELSE /\ ReadNumber(text) = x
         /\ text.base = 10 /\ x # 0 => text.digits[1] # 0

(***************************************************************************)
(* The report of an assertion on two numbers, or on two arrays, shows the  *)
(* numbers that were compared, the smallest negative ones and zero         *)
(* included.  Not covered: arrays of unsigned 32-bit numbers, of which the *)
(* code prints the sign extension, EACH_EQUAL and ARRAY_WITHIN.            *)
(***************************************************************************)
ReportShowsTheNumbers ==
    /\ (Decided({"EQUAL", "WITHIN"} \union DOMAIN Compare) /\ ~Passed) =>
          /\ Shows(result.expected, call.style, Means(call.style, call.e))
          /\ Shows(result.actual, call.style, Means(call.style, call.a))
    /\ (Decided({"EQUAL_ARRAY"}) /\ result.element > 0
          /\ ~(call.style.range = "UINT" /\ call.style.bytes = 4)) =>
          /\ Shows(result.expected, call.style, Element(call.p, result.element))
          /\ Shows(result.actual, call.style, Element(call.q, result.element))

Prefix(s, n) == IF Len(s) <= n THEN s ELSE SubSeq(s, 1, n)

(***************************************************************************)
(* String assertions pass exactly for equal strings, or strings with equal *)
(* prefixes, null being equal only to null; on arrays, when they are the   *)
(* same one or all their strings are equal, never for no strings.          *)
(* EACH_EQUAL of the null string is a comparison with a null array: it     *)
(* fails even when all the strings are null.  Memory assertions on two     *)
(* different addresses pass for equal blocks, with ARRAY_TO_VAL for every  *)
(* block equal to the one expected.                                        *)
(***************************************************************************)
StringsAreCompared ==
    /\ Decided({"STRING"}) => (Passed <=> call.s = call.t)
    /\ Decided({"STRING_LEN"}) =>
          (Passed <=> (IsNull(call.s) <=> IsNull(call.t))
                        /\ (IsNull(call.s) \/ Prefix(call.s, call.length) = Prefix(call.t, call.length)))
    /\ Decided({"STRING_ARRAY"}) =>
          (Passed <=>
              /\ call.num > 0
              /\ \/ call.p = call.q
                 \/ /\ Comparable(call.p, call.q)
                    /\ \A k \in 1 .. call.num :
                          call.strings[call.p][IF call.each THEN 1 ELSE k] = call.strings[call.q][k])
    /\ (Decided({"MEMORY"}) /\ call.p # call.q /\ Comparable(call.p, call.q)) =>
          (Passed <=>
              /\ call.num > 0 /\ call.length > 0
              /\ \A block \in 0 .. call.num - 1 :
                    LET from == block * call.length + 1
                        to == (block + 1) * call.length
                    IN  SubSeq(call.bytes[call.q], from, to) =
                          IF call.each THEN SubSeq(call.bytes[call.p], 1, call.length)
                          ELSE SubSeq(call.bytes[call.p], from, to))

(***************************************************************************)
(* Floats are within delta exactly when they are the same infinity, both   *)
(* not a number, or finite and no further apart than delta without         *)
(* overflow; EQUAL_FLOAT on arrays takes delta from the expected element.  *)
(* Every float has exactly one of the four traits, and lacks a trait       *)
(* exactly when the assertion that it has it fails.                        *)
(***************************************************************************)
FloatsAreCompared ==
    LET Near(delta, e, a) ==
            \/ e = a
            \/ /\ e.kind = "finite" /\ a.kind = "finite"
               /\ Distance(e.value, a.value) <= MaxFloat
               /\ delta.kind # "finite"
                    \/ Distance(e.value, a.value) * Precision <= Distance(delta.value, 0)
    IN  /\ Decided({"FLOAT_WITHIN"}) => (Passed <=> Near(call.tolerance, call.x, call.y))
        /\ (Decided({"FLOAT_ARRAY"}) /\ call.p # call.q /\ Comparable(call.p, call.q)) =>
              (Passed <=> call.num > 0 /\ \A k \in 1 .. call.num :
                  LET e == call.floats[call.p][IF call.each THEN 1 ELSE k]
                  IN  Near(e, e, call.floats[call.q][k]))
        /\ Decided({"FLOAT_IS"}) =>
              LET Has(trait) == UnityAssertFloatSpecial(call.x, trait, TRUE) = Pass
              IN  /\ Cardinality({t \in Traits \ {"INVALID"} : Has(t)}) = 1
                  /\ call.trait = "INVALID" => ~Passed
                  /\ call.trait # "INVALID" => (Passed <=> (Has(call.trait) <=> call.should))

=============================================================================
