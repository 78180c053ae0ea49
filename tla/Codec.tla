-------------------------------- MODULE Codec --------------------------------
(***************************************************************************)
(* The loops of source/pgenc/buffer.c that turn bytes into code points and  *)
(* numbers, and numbers into bytes: getutf8 and matchutf8, decode and       *)
(* encode, with the dictionaries and accumulators given to them.  A step is *)
(* one turn of a loop.                                                      *)
(*                                                                         *)
(* Where the bytes lie, and whether there is room for more of them, is in   *)
(* Buffer.tla and BufferText.tla.                                           *)
(***************************************************************************)
EXTENDS Integers, Sequences

CONSTANTS
    Byte,           \* the bytes that may follow in the window
    Calls           \* the calls that are made, a record each

\* How many values uint8_t to uint64_t have.
Modulus(bits) ==
    CASE bits = 8  -> 256
      [] bits = 16 -> 65536
      [] bits = 32 -> 65536 * 65536
      [] bits = 64 -> 65536 * 65536 * 65536 * 65536

\* The calls there are: a number has a width, a base of which there are digits, and
\* a dictionary.
Utf8Calls == {"getutf8", "matchutf8"}
OfNumber(c) == c.bits \in {8, 16, 32, 64} /\ c.base \in 2 .. 16 /\ c.dict \in {"dec", "hex"}
IsCall(c) ==
    \/ c.kind \in Utf8Calls
    \/ c.kind = "encode" /\ OfNumber(c) /\ c.number \in 0 .. Modulus(c.bits) - 1
    \/ /\ c.kind = "decode" /\ OfNumber(c) /\ "number" \notin DOMAIN c
       /\ c.start \in 0 .. Modulus(c.bits) - 1 /\ c.text \in Seq(0 .. 255)

ASSUME CodecAssumption == Byte \subseteq 0 .. 255 /\ \A c \in Calls : IsCall(c)

VARIABLES
    call,           \* the call: kind, and low and high, or base, dict, bits and
                    \* number, or base, dict, bits, start and text
    bytes,          \* the bytes it has read, or written
    state, codep,   \* utf_state and utf_codep
    value,          \* *result of decode, *value of encode
    status          \* "running", the error code, or "halted"

vars == <<call, bytes, state, codep, value, status>>
-----------------------------------------------------------------------------
\* utf8d: the class of a byte ...
Class(b) ==
    CASE b <= 127 -> 0
      [] b \in 128 .. 143 -> 1
      [] b \in 144 .. 159 -> 9
      [] b \in 160 .. 191 -> 7
      [] b \in 192 .. 193 -> 8
      [] b \in 194 .. 223 -> 2
      [] b = 224 -> 10
      [] b \in 225 .. 236 -> 3
      [] b = 237 -> 4
      [] b \in 238 .. 239 -> 3
      [] b = 240 -> 11
      [] b \in 241 .. 243 -> 6
      [] b = 244 -> 5
      [] OTHER -> 8

Accept == 0
Reject == 1

\* ... and the state after a byte of each class, from each state.
NextState(s, c) ==
    CASE s = 0 -> <<0, 1, 2, 3, 5, 8, 7, 1, 1, 1, 4, 6>>[c + 1]
      [] s = 2 -> IF c \in {1, 7, 9} THEN 0 ELSE 1
      [] s = 3 -> IF c \in {1, 7, 9} THEN 2 ELSE 1
      [] s = 4 -> IF c = 7 THEN 2 ELSE 1
      [] s = 5 -> IF c \in {1, 9} THEN 2 ELSE 1
      [] s = 6 -> IF c \in {7, 9} THEN 3 ELSE 1
      [] s = 7 -> IF c \in {1, 7, 9} THEN 3 ELSE 1
      [] s = 8 -> IF c = 1 THEN 3 ELSE 1
      [] OTHER -> 1

\* Mutant: the first byte of a character is masked like those after it.
PayloadOfAny(b) == b % 64

\* The bits of a first byte that its class leaves: (0xff >> type) & byte.
Payload(b) ==
    IF Class(b) >= 8 THEN 0
    ELSE b % <<256, 128, 64, 32, 16, 8, 4, 2>>[Class(b) + 1]

\* decode_utf8
DecodeByte(b) ==
    /\ codep' = IF state # Accept THEN (b % 64) + codep * 64 ELSE Payload(b)
    /\ state' = NextState(state, Class(b))

\* The predicate of matchutf8, pgc_par_run_utf8_match; getutf8 takes any.
Wanted(c) == call.kind = "getutf8" \/ (call.low <= c /\ c <= call.high)

Running(kinds) == status = "running" /\ call.kind \in kinds
\* pgc_buf_getutf8, pgc_buf_matchutf8: a turn with another byte.  After four of them
\* without a decision there is a SEL_HALT.
Utf8Byte(b) ==
    /\ Running(Utf8Calls)
    /\ bytes' = Append(bytes, b)
    /\ DecodeByte(b)
    /\ status' = IF state' = Accept THEN (IF Wanted(codep') THEN "OK" ELSE "CMP")
                 ELSE IF state' = Reject THEN "ENC"
                 ELSE IF Len(bytes') = 4 THEN "halted"
                 ELSE "running"
    /\ UNCHANGED <<call, value>>

\* The window ends before the character does.
Utf8Ends ==
    /\ Running(Utf8Calls)
    /\ status' = "OOB"
    /\ UNCHANGED <<call, bytes, state, codep, value>>
-----------------------------------------------------------------------------
\* pgc_buf_encode_dec and pgc_buf_encode_hex: the symbol of a digit.
Writable(dict, d) == d < IF dict = "dec" THEN 10 ELSE 16
Symbol(d) == IF d < 10 THEN 48 + d ELSE 97 + d - 10

\* pgc_buf_decode_dec and pgc_buf_decode_hex: the digit of a symbol; hex looks at
\* it in lower case.
Lower(s) == IF 65 <= s /\ s <= 90 THEN s + 32 ELSE s
Readable(dict, s) ==
    \/ 48 <= s /\ s <= 57
    \/ dict = "hex" /\ 97 <= Lower(s) /\ Lower(s) <= 102
DigitOf(s) == IF s <= 57 THEN s - 48 ELSE Lower(s) - 97 + 10

Wrap(n) == n % Modulus(call.bits)
Backwards(s) == [i \in DOMAIN s |-> s[Len(s) + 1 - i]]

\* Mutant: the loop ends when what is left is a single digit.
EncodeTurnShort ==
    LET digit == value % call.base
        rest == value \div call.base
        written == Append(bytes, Symbol(digit))
    IN  /\ Running({"encode"})
        /\ \/ /\ ~Writable(call.dict, digit)
              /\ value' = rest /\ status' = "ENC"
              /\ UNCHANGED bytes
           \/ /\ Writable(call.dict, digit)
              /\ value' = rest
              /\ IF rest >= call.base THEN bytes' = written /\ UNCHANGED status
                 ELSE bytes' = Backwards(written) /\ status' = "OK"
        /\ UNCHANGED <<call, state, codep>>

\* pgc_buf_encode: a turn of its loop with pgc_buf_encode_uint8 to _uint64, and
\* the reversal at the end.
EncodeTurn ==
    LET digit == value % call.base
        rest == value \div call.base
        written == Append(bytes, Symbol(digit))
    IN  /\ Running({"encode"})
        /\ \/ /\ ~Writable(call.dict, digit)
              /\ value' = rest /\ status' = "ENC"
              /\ UNCHANGED bytes
           \/ /\ Writable(call.dict, digit)
              /\ value' = rest
              /\ IF rest # 0 THEN bytes' = written /\ UNCHANGED status
                 ELSE bytes' = Backwards(written) /\ status' = "OK"
        /\ UNCHANGED <<call, state, codep>>

\* Mutant: the accumulator saturates at its largest number.
AccumulatedSaturating(digit) ==
    LET n == value * call.base + digit
    IN  IF n < Modulus(call.bits) THEN n ELSE Modulus(call.bits) - 1

\* pgc_buf_decode_uint8 to _uint64.
Accumulated(digit) == Wrap(Wrap(value * Wrap(call.base)) + digit)

\* pgc_buf_decode: a turn of its loop, and its end.
DecodeTurn ==
    /\ Running({"decode"}) /\ Len(bytes) < Len(call.text)
    /\ LET symbol == call.text[Len(bytes) + 1]
       IN  \/ /\ ~Readable(call.dict, symbol)
              /\ status' = "ENC"
              /\ UNCHANGED <<bytes, value>>
           \/ /\ Readable(call.dict, symbol)
              /\ bytes' = Append(bytes, symbol)
              /\ value' = Accumulated(DigitOf(symbol))
              /\ UNCHANGED status
    /\ UNCHANGED <<call, state, codep>>

DecodeEnds ==
    /\ Running({"decode"}) /\ Len(bytes) = Len(call.text)
    /\ status' = "OK"
    /\ UNCHANGED <<call, bytes, state, codep, value>>

\* What was encoded is decoded again, by a reader that starts from zero.
ReadBack ==
    /\ status = "OK" /\ call.kind = "encode"
    /\ call' = [kind |-> "decode", base |-> call.base, dict |-> call.dict,
                bits |-> call.bits, start |-> 0, text |-> bytes, number |-> call.number]
    /\ bytes' = <<>> /\ value' = 0 /\ status' = "running"
    /\ UNCHANGED <<state, codep>>

Init ==
    /\ call \in Calls
    /\ bytes = <<>>
    /\ state = Accept /\ codep = 0
    /\ value = CASE call.kind = "encode" -> call.number
                 [] call.kind = "decode" -> call.start
                 [] OTHER -> 0
    /\ status = "running"

Next ==
    \/ \E b \in Byte : Utf8Byte(b)
    \/ Utf8Ends
    \/ EncodeTurn \/ DecodeTurn \/ DecodeEnds \/ ReadBack

Spec == Init /\ [][Next]_vars
-----------------------------------------------------------------------------
\* UTF-8: the code points there are, and the bytes of each.
Scalar(c) == c \in Nat /\ c <= 1114111 /\ ~(55296 <= c /\ c <= 57343)
Encoding(c) ==
    IF c < 128 THEN <<c>>
    ELSE IF c < 2048 THEN <<192 + c \div 64, 128 + (c % 64)>>
    ELSE IF c < 65536 THEN <<224 + c \div 4096, 128 + ((c \div 64) % 64), 128 + (c % 64)>>
    ELSE <<240 + c \div 262144, 128 + ((c \div 4096) % 64),
           128 + ((c \div 64) % 64), 128 + (c % 64)>>

\* Some bytes begin a character when they begin the encoding of a code point; the
\* first of them says between which two it is to be sought.
Begins(s, c) == Len(s) <= Len(Encoding(c)) /\ \A i \in DOMAIN s : Encoding(c)[i] = s[i]
Sextet(s, i, b) == IF i <= Len(s) THEN s[i] % 64 ELSE b
Filled(s, n, b) ==
    IF n = 1 THEN s[1]
    ELSE IF n = 2 THEN (s[1] % 32) * 64 + Sextet(s, 2, b)
    ELSE IF n = 3 THEN (s[1] % 16) * 4096 + Sextet(s, 2, b) * 64 + Sextet(s, 3, b)
    ELSE (s[1] % 8) * 262144 + Sextet(s, 2, b) * 4096 + Sextet(s, 3, b) * 64
            + Sextet(s, 4, b)
Begun(s) ==
    LET n == IF s[1] < 192 THEN 1 ELSE IF s[1] < 224 THEN 2 ELSE IF s[1] < 240 THEN 3 ELSE 4
    IN  \E c \in Filled(s, n, 0) .. Filled(s, n, 63) : Scalar(c) /\ Begins(s, c)

\* The table decodes UTF-8: a character is accepted with the code point whose
\* encoding it is; bytes are invalid as soon as no character begins with them and
\* not before; they are cut off only where a character could have gone on; and the
\* loop never ends without having decided.  (getutf8, matchutf8)
DecodesUtf8 ==
    call.kind \in Utf8Calls =>
        /\ status # "halted"
        /\ status \in {"OK", "CMP"} =>
              /\ Scalar(codep) /\ bytes = Encoding(codep)
              /\ status = "OK" <=> Wanted(codep)
        /\ status = "ENC" => ~Begun(bytes)
        /\ status \in {"running", "OOB"} => bytes = <<>> \/ Begun(bytes)

\* The number that symbols stand for, after one that was there before.
Numeral(before, text, base) ==
    LET n[i \in 0 .. Len(text)] ==
          IF i = 0 THEN before ELSE n[i - 1] * base + DigitOf(text[i])
    IN  n[Len(text)]

\* An encoded number is that number, most significant digit first and without
\* leading zeros, and is refused only for a digit that the dictionary lacks.
EncodesNumber ==
    call.kind = "encode" =>
        /\ status = "OK" => /\ Numeral(0, bytes, call.base) = call.number
                            /\ Len(bytes) > 1 => bytes[1] # 48
        /\ status = "ENC" => call.dict = "dec" /\ call.base > 10

\* Decoding accumulates modulo the width of its result, whatever number was there
\* before, up to the first symbol that is no digit; and what was encoded is read
\* back as the same number.
DecodesNumber ==
    call.kind = "decode" =>
        /\ value = Wrap(Numeral(call.start, bytes, call.base))
        /\ status = "OK" => bytes = call.text
        /\ status = "OK" /\ "number" \in DOMAIN call => value = call.number
        /\ "number" \in DOMAIN call => status # "ENC"
=============================================================================
