---------------------------- MODULE ClientConfig ----------------------------
(***************************************************************************)
(* Config_new_from_file of the C client (config/config.c).  A character is *)
(* an atom: a key name, "http", "https" and "//" are one each, and so is   *)
(* every digit.  A file is a sequence of lines without their newline.      *)
(***************************************************************************)
EXTENDS Integers, Sequences, FiniteSets, SequencesExt

CONSTANTS
    MAX_LINE_LENGTH, MAX_TOKEN_NAME_LENGTH, MAX_TOKEN_VALUE_LENGTH, MAX_STRING,
    Files,      \* the files that may be read
    Stacks      \* what a character array may hold before anything is written to it

VARIABLES
    pc,         \* "reading", "returned", "exited" or "undefined"
    file,       \* the file, as it was opened
    rest,       \* the lines not read yet
    cfg         \* the Config on the stack

vars == <<pc, file, rest, cfg>>

Strings == {"node_public_url", "validator_url", "pem_file"}
Unset == 0

Digits == <<"0", "1", "2", "3", "4", "5", "6", "7", "8", "9">>
IsDigit(c) == \E d \in 1 .. 10 : Digits[d] = c
ValueOf(c) == (CHOOSE d \in 1 .. 10 : Digits[d] = c) - 1
IsSpace(c) == c = " "

trim_white_space(str) ==
    LET solid == {k \in 1 .. Len(str) : ~IsSpace(str[k])}
    IN  IF solid = {} THEN <<>>
        ELSE SubSeq(str, CHOOSE k \in solid : \A m \in solid : k <= m,
                         CHOOSE k \in solid : \A m \in solid : k >= m)

RECURSIVE Number(_)
Number(digits) ==
    IF digits = <<>> THEN 0 ELSE 10 * Number(Front(digits)) + ValueOf(Last(digits))

(* The number the string starts with, after an optional sign. *)
atoi(str) ==
    LET signed == str # <<>> /\ Head(str) \in {"+", "-"}
        body == IF signed THEN Tail(str) ELSE str
        n == CHOOSE n \in 0 .. Len(body) :
                /\ \A k \in 1 .. n : IsDigit(body[k])
                /\ n < Len(body) => ~IsDigit(body[n + 1])
        value == Number(SubSeq(body, 1, n))
    IN  IF signed /\ Head(str) = "-" THEN -value ELSE value

\* Mutant of PortExpression: 6553[0-6].
PortExpressionBeyond(p) ==
    LET In(k, low, high) == ValueOf(p[k]) \in low .. high
    IN  /\ \A k \in 1 .. Len(p) : IsDigit(p[k])
        /\ \/ Len(p) \in 1 .. 4 /\ In(1, 1, 9)
           \/ Len(p) = 5 /\ In(1, 1, 5)
           \/ Len(p) = 5 /\ In(1, 6, 6) /\ In(2, 0, 4)
           \/ Len(p) = 5 /\ In(1, 6, 6) /\ In(2, 5, 5) /\ In(3, 0, 4)
           \/ Len(p) = 5 /\ In(1, 6, 6) /\ In(2, 5, 5) /\ In(3, 5, 5) /\ In(4, 0, 2)
           \/ Len(p) = 5 /\ In(1, 6, 6) /\ In(2, 5, 5) /\ In(3, 5, 5) /\ In(4, 3, 3) /\ In(5, 0, 6)

(* ([1-9][0-9]{0,3}|[1-5][0-9]{4}|6[0-4][0-9]{3}|65[0-4][0-9]{2}|          *)
(*  655[0-2][0-9]|6553[0-5])                                               *)
PortExpression(p) ==
    LET In(k, low, high) == ValueOf(p[k]) \in low .. high
    IN  /\ \A k \in 1 .. Len(p) : IsDigit(p[k])
        /\ \/ Len(p) \in 1 .. 4 /\ In(1, 1, 9)
           \/ Len(p) = 5 /\ In(1, 1, 5)
           \/ Len(p) = 5 /\ In(1, 6, 6) /\ In(2, 0, 4)
           \/ Len(p) = 5 /\ In(1, 6, 6) /\ In(2, 5, 5) /\ In(3, 0, 4)
           \/ Len(p) = 5 /\ In(1, 6, 6) /\ In(2, 5, 5) /\ In(3, 5, 5) /\ In(4, 0, 2)
           \/ Len(p) = 5 /\ In(1, 6, 6) /\ In(2, 5, 5) /\ In(3, 5, 5) /\ In(4, 3, 3) /\ In(5, 0, 5)

(* ^https?:\/\/\S+:<port>$ *)
is_valid_url(url) ==
    \E colon \in 5 .. Len(url) :
        /\ url[1] \in {"http", "https"} /\ url[2] = ":" /\ url[3] = "//"
        /\ \A k \in 4 .. colon - 1 : ~IsSpace(url[k])
        /\ url[colon] = ":"
        /\ PortExpression(SubSeq(url, colon + 1, Len(url)))

\* Mutant of Overwrite: the last character is left out, for a NUL.
OverwriteShort(dst, src) == [k \in 1 .. Len(dst) |-> IF k < Len(src) THEN src[k] ELSE dst[k]]

(* strncpy(dst, src, strlen(src)) writes no NUL after the copy. *)
Overwrite(dst, src) == [k \in 1 .. Len(dst) |-> IF k <= Len(src) THEN src[k] ELSE dst[k]]

Refuse == pc' = "exited" /\ UNCHANGED cfg

(* The copy of a value longer than its array is undefined. *)
AssignString(key, value) ==
    IF Len(value) > MAX_STRING
    THEN pc' = "undefined" /\ UNCHANGED cfg
    ELSE cfg' = [cfg EXCEPT ![key] = Overwrite(@, value)] /\ UNCHANGED pc

assign_to_config(name, token) ==
    LET key == trim_white_space(name)
        value == trim_white_space(token)
        port == atoi(value)
    IN  IF Len(value) > MAX_TOKEN_VALUE_LENGTH THEN Refuse
        ELSE \/ /\ key = <<"port">>
                /\ port \in 1 .. 65535
                /\ cfg' = [cfg EXCEPT !.port = port]
                /\ UNCHANGED pc
             \/ /\ key = <<"port">>
                /\ port \notin 1 .. 65535
                /\ Refuse
             \/ \E url \in {"node_public_url", "validator_url"} :
                   /\ key = <<url>>
                   /\ IF is_valid_url(value) THEN AssignString(url, value) ELSE Refuse
             \/ /\ key = <<"pem_file">>
                /\ AssignString("pem_file", value)
             \/ /\ key \notin {<<"port">>} \union {<<s>> : s \in Strings}
                /\ Refuse

(* strtok(line, ":") skips leading colons and ends at the next one; then   *)
(* strtok(NULL, "") is all that follows it, NULL when nothing does.        *)
TokenStart(line) == CHOOSE k \in 1 .. Len(line) + 1 :
    /\ \A m \in 1 .. k - 1 : line[m] = ":"
    /\ k <= Len(line) => line[k] # ":"
TokenEnd(line) == CHOOSE k \in TokenStart(line) .. Len(line) + 1 :
    /\ \A m \in TokenStart(line) .. k - 1 : line[m] # ":"
    /\ k <= Len(line) => line[k] = ":"

(* One turn of the loop over fgets. *)
ReadLine ==
    /\ pc = "reading"
    /\ rest # <<>>
    /\ LET whole == Head(rest)
           read == IF Len(whole) < MAX_LINE_LENGTH THEN whole
                   ELSE SubSeq(whole, 1, MAX_LINE_LENGTH - 1)
           line == trim_white_space(read)
           name == SubSeq(line, TokenStart(line), TokenEnd(line) - 1)
           token == SubSeq(line, TokenEnd(line) + 1, Len(line))
       IN  /\ rest' = IF Len(whole) > Len(read)
                      THEN <<SubSeq(whole, Len(read) + 1, Len(whole))>> \o Tail(rest)
                      ELSE Tail(rest)
           /\ IF Len(name) > MAX_TOKEN_NAME_LENGTH THEN Refuse
              ELSE IF Len(name) = MAX_TOKEN_NAME_LENGTH
                   THEN pc' = "undefined" /\ UNCHANGED cfg  \* name[len] is past the array
              ELSE IF name = <<>> \/ token = <<>> THEN UNCHANGED <<pc, cfg>>
              ELSE assign_to_config(name, token)
    /\ UNCHANGED file

Return ==
    /\ pc = "reading"
    /\ rest = <<>>
    /\ pc' = "returned"
    /\ UNCHANGED <<file, rest, cfg>>

(* fopen fails. *)
CannotOpen ==
    /\ pc = "reading"
    /\ rest = file
    /\ pc' = "exited"
    /\ UNCHANGED <<file, rest, cfg>>

Init ==
    /\ pc = "reading"
    /\ file \in Files
    /\ rest = file
    /\ \E stack \in Stacks :
          cfg = [port |-> Unset, node_public_url |-> stack, validator_url |-> stack,
                 pem_file |-> stack]

Next == ReadLine \/ Return \/ CannotOpen

Spec == Init /\ [][Next]_vars
-----------------------------------------------------------------------------
(* How a setting is written: colons and blanks may precede the key, blanks *)
(* may surround the key and the value.                                     *)
Blank(s) == \A k \in 1 .. Len(s) : IsSpace(s[k])

Writes(line, key, value) ==
    \E k \in 1 .. Len(line) :
        /\ line[k] = key
        /\ \E i \in 0 .. k - 1 : \E j \in i .. k - 1 :
              /\ Blank(SubSeq(line, 1, i))
              /\ \A m \in i + 1 .. j : line[m] = ":"
              /\ Blank(SubSeq(line, j + 1, k - 1))
        /\ \E c \in k + 1 .. Len(line) :
              /\ line[c] = ":"
              /\ Blank(SubSeq(line, k + 1, c - 1))
              /\ value = trim_white_space(SubSeq(line, c + 1, Len(line)))
              /\ value # <<>>

ValueIn(line) ==
    LET colons == {c \in 1 .. Len(line) : line[c] = ":"}
    IN  {trim_white_space(SubSeq(line, c + 1, Len(line))) : c \in colons}

(* The value the file gives the key, from the last line that writes it. *)
Written(key) ==
    {<<n, v>> \in UNION {{n} \X ValueIn(file[n]) : n \in 1 .. Len(file)} :
        /\ Writes(file[n], key, v)
        /\ \A m \in n + 1 .. Len(file) : \A w \in ValueIn(file[m]) : ~Writes(file[m], key, w)}

ShortLines == \A n \in 1 .. Len(file) : Len(file[n]) < MAX_LINE_LENGTH

(***************************************************************************)
(* What the file says is what the Config holds: each array starts with the *)
(* value of the last line that sets it, and holds what the stack held when *)
(* no line does, whatever colons, blanks and other lines surround it.      *)
(***************************************************************************)
ConfigIsTheFile ==
    (pc = "returned" /\ ShortLines) =>
        /\ \A key \in Strings :
              IF Written(key) = {} THEN cfg[key] \in Stacks
              ELSE \A w \in Written(key) : IsPrefix(w[2], cfg[key])
        /\ IF Written("port") = {} THEN cfg.port = Unset
           ELSE \A w \in Written("port") : cfg.port = atoi(w[2])

(* The decimal form of a number between 1 and 65535. *)
IsPort(p) ==
    /\ p # <<>>
    /\ \A k \in 1 .. Len(p) : IsDigit(p[k])
    /\ p[1] # "0"
    /\ Number(p) \in 1 .. 65535

(***************************************************************************)
(* "url_re matches http|https + :// + one or more non-white-space-         *)
(* characters + : + port number between 1 and 65535": a URL that is        *)
(* accepted ends in the decimal form of such a number, and a URL that ends *)
(* in one is not refused for it.                                           *)
(***************************************************************************)
UrlPortIsAPort ==
    \A p \in {SubSeq(file[n], 8, Len(file[n])) : n \in 1 .. Len(file)} :
        file = << <<"validator_url", ":", "http", ":", "//", "h", ":">> \o p >> =>
            /\ pc = "returned" => IsPort(p)
            /\ pc = "exited" /\ rest = <<>> => ~IsPort(p)

=============================================================================
