------------------------------- MODULE MCCodec -------------------------------
(***************************************************************************)
(* The calls of Codec.tla that TLC makes: characters whose bytes are the    *)
(* first and the last of each class of the decoder's table, every number of *)
(* eight bits, and those at the edges of sixteen.                          *)
(***************************************************************************)
EXTENDS Codec

MCByte ==
    {0, 127, 128, 143, 144, 159, 160, 191, 192, 193, 194, 223, 224, 225, 236, 237, 238, 239,
     240, 241, 243, 244, 245, 255}

Characters ==
    {[kind |-> "getutf8"], [kind |-> "matchutf8", low |-> 127, high |-> 2047],
     [kind |-> "matchutf8", low |-> 57344, high |-> 1114110]}

\* Decimal, hexadecimal, and hexadecimal with a dictionary that lacks digits.
Styles == {<<10, "dec">>, <<10, "hex">>, <<16, "hex">>, <<16, "dec">>}
Encoded ==
    {[kind |-> "encode", base |-> s[1], dict |-> s[2], bits |-> 8, number |-> n] :
        s \in Styles, n \in 0 .. 255}
    \cup {[kind |-> "encode", base |-> s[1], dict |-> s[2], bits |-> 16, number |-> n] :
        s \in Styles, n \in {255, 256, 4095, 4096, 9999, 10000, 65535}}

\* '0', '9', 'a', 'F', and 'g', which is no digit.
Symbols == {48, 57, 97, 70, 103}
Decoded ==
    {[kind |-> "decode", base |-> s[1], dict |-> s[2], bits |-> b, start |-> n, text |-> t] :
        s \in Styles, b \in {8, 16}, n \in {0, 1}, t \in UNION {[1 .. k -> Symbols] : k \in 0 .. 3}}
    \cup {[kind |-> "decode", base |-> 10, dict |-> "dec", bits |-> 16, start |-> 0, text |-> t] :
        t \in {<<54, 53, 53, 51, 53>>, <<54, 53, 53, 51, 54>>, <<57, 57, 57, 57, 57>>}}

MCCalls == Characters \cup Encoded \cup Decoded
=============================================================================
