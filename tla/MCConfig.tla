------------------------------ MODULE MCConfig ------------------------------
(* The buffer sizes are those of the code divided by 512.  Files of up to  *)
(* three lines mix settings that are valid, invalid, unknown, empty, too   *)
(* long or without a colon; files of one line cover the ports.             *)
EXTENDS ClientConfig

Repeat(c, n) == [k \in 1 .. n |-> c]
Url(port) == <<"http", ":", "//", "h", ":">> \o port

MCLines ==
    { <<"port", " ", ":", " ", "8", "0">>, <<"port", ":", "9", "x">>, <<"port", ":", "-", "1">>,
      <<"port", ":", "+", "7">>, <<"port", ":">>, <<"port">>, <<>>, <<" ", ":">>,
      <<":", ":", "port", ":", "5">>, <<" ", ":", " ", "pem_file", " ", ":", "y", " ">>,
      <<"pem_file", ":", "a", ":", "b">>, <<"pem_file", ":", "c">>, <<"other", ":", "a">>,
      <<"pem_file", ":">> \o Repeat("a", MAX_STRING + 1),
      <<"pem_file", ":">> \o Repeat("a", MAX_TOKEN_VALUE_LENGTH + 1),
      <<"pem_file">> \o Repeat(" ", MAX_LINE_LENGTH) \o <<":", "a">>,
      Repeat("a", MAX_TOKEN_NAME_LENGTH) \o <<":", "a">>,
      Repeat("a", MAX_TOKEN_NAME_LENGTH + 1) \o <<":", "a">>,
      <<"node_public_url", ":">> \o Url(<<"1">>), <<"node_public_url", ":", "x">>,
      <<"validator_url", ":", "https", ":", "//", "h", ":", "h", ":", "8", "0">>,
      <<"validator_url", ":", "http", ":", "//", "h", " ", "h", ":", "8", "0">> }

PortDigits == {"0", "1", "2", "3", "4", "5", "6", "9"}
PortStrings == UNION {[1 .. n -> PortDigits] : n \in 0 .. 5}
                 \union {<<"1", "0", "0", "0", "0", "0">>, <<"0", "6", "5", "5", "3", "5">>}

MCFiles ==
    UNION {[1 .. n -> MCLines] : n \in 0 .. 3}
      \union {<< <<"validator_url", ":">> \o Url(p)>> : p \in PortStrings}

MCDirtyStacks == {Repeat("NUL", MAX_STRING), Repeat("?", MAX_STRING)}
=============================================================================
