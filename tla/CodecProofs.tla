----------------------------- MODULE CodecProofs -----------------------------
(***************************************************************************)
(* Theorems about Codec.tla, for every byte and every call: a number that   *)
(* is encoded is the number that its digits stand for, a number that is     *)
(* decoded is the one that was there, modulo the width of the result, and   *)
(* the table of the UTF-8 decoder accepts the encodings of the code points, *)
(* each with its code point, and nothing else.                              *)
(*                                                                         *)
(* The numbers go by induction on the digits: a set of the lengths for      *)
(* which the claim holds has every natural number (Induct), since the       *)
(* library's induction takes an operator.  The characters go by what a      *)
(* state of the table stands for: the range of code points that the bytes   *)
(* so far leave possible (Partial), which the next byte narrows.            *)
(***************************************************************************)
EXTENDS Codec, SequenceTheorems, WellFoundedInduction, TLAPS

\* Induction over the natural numbers, for sets.
LEMMA Least ==
    ASSUME NEW T, T \subseteq Nat, T # {}
    PROVE  \E x \in T : \A y \in T : x <= y
<1> DEFINE R == OpToRel(<, Nat)
<1>1. IsWellFoundedOn(R, Nat)
  BY NatLessThanWellFounded
<1> HIDE DEF R
<1>2. PICK x \in T : \A y \in T : ~(<<y, x>> \in R)
  BY <1>1, WFMin
<1>3. \A y \in T : x \in Nat /\ y \in Nat /\ ~(y < x)
  BY <1>2 DEF R, OpToRel
<1> QED
  BY <1>3

LEMMA Induct ==
    ASSUME NEW S, 0 \in S, \A n \in Nat : n \in S => n + 1 \in S
    PROVE  Nat \subseteq S
<1> SUFFICES ASSUME Nat \ S # {} PROVE FALSE
  OBVIOUS
<1>1. PICK x \in Nat \ S : \A y \in Nat \ S : x <= y
  BY Least
<1>2. x # 0 /\ x - 1 \in Nat
  BY <1>1
<1>3. x - 1 \in S
  BY <1>1, <1>2
<1> QED
  BY <1>2, <1>3

\* Functions that go on alike from equal beginnings.
LEMMA Agree ==
    ASSUME NEW m \in Nat, NEW f, NEW g, f[0] = g[0],
           \A i \in 1 .. m : f[i - 1] = g[i - 1] => f[i] = g[i]
    PROVE  \A i \in 0 .. m : f[i] = g[i]
<1> DEFINE S == {i \in Nat : i <= m => f[i] = g[i]}
<1>1. 0 \in S
  OBVIOUS
<1>2. ASSUME NEW i \in Nat, i \in S
      PROVE  i + 1 \in S
  <2>1. i + 1 <= m => i + 1 \in 1 .. m /\ (i + 1) - 1 = i
    OBVIOUS
  <2> QED
    BY <1>2, <2>1
<1> HIDE DEF S
<1>3. Nat \subseteq S
  BY <1>1, <1>2, Induct
<1> QED
  BY <1>3 DEF S
-----------------------------------------------------------------------------
\* The symbols of digits.
Symbols == (48 .. 57) \cup (65 .. 70) \cup (97 .. 102)

\* The numbers that the beginnings of a text stand for.
Evaluates(n, before, text, base) ==
    /\ n \in [0 .. Len(text) -> Nat]
    /\ n[0] = before
    /\ \A i \in 1 .. Len(text) : n[i] = n[i - 1] * base + DigitOf(text[i])

LEMMA DigitRange ==
    ASSUME NEW s \in Symbols
    PROVE  DigitOf(s) \in 0 .. 15
BY DEF Symbols, DigitOf, Lower

LEMMA NextNumber ==
    ASSUME NEW n \in Nat, NEW base \in Nat, NEW s \in Symbols
    PROVE  n * base + DigitOf(s) \in Nat
<1>1. DigitOf(s) \in Nat
  BY DigitRange
<1>2. n * base \in Nat
  OBVIOUS
<1> QED
  BY <1>1, <1>2

LEMMA Evaluated ==
    ASSUME NEW before \in Nat, NEW text \in Seq(Symbols), NEW base \in Nat
    PROVE  \E n : Evaluates(n, before, text, base)
<1> DEFINE Goes(n, m) ==
              /\ n \in [0 .. m -> Nat]
              /\ n[0] = before
              /\ \A i \in 1 .. m : n[i] = n[i - 1] * base + DigitOf(text[i])
           S == {m \in Nat : m <= Len(text) => \E n : Goes(n, m)}
<1>1. 0 \in S
  <2> DEFINE n == [i \in 0 .. 0 |-> before]
  <2>1. Goes(n, 0)
    OBVIOUS
  <2> QED
    BY <2>1
<1>2. ASSUME NEW m \in Nat, m \in S
      PROVE  m + 1 \in S
  <2> SUFFICES ASSUME m + 1 <= Len(text)
               PROVE  \E n : Goes(n, m + 1)
    <3>1. m + 1 \in Nat
      OBVIOUS
    <3> HIDE DEF Goes
    <3> QED
      BY <3>1
  <2>1. m <= Len(text) /\ m + 1 \in 1 .. Len(text) /\ text[m + 1] \in Symbols
    <3>1. Len(text) \in Nat /\ m + 1 <= Len(text)
      OBVIOUS
    <3> HIDE DEF S, Goes
    <3> QED
      BY <3>1
  <2>2. PICK k : Goes(k, m)
    BY <1>2, <2>1
  <2> DEFINE last == k[m] * base + DigitOf(text[m + 1])
             n == [i \in 0 .. m + 1 |-> IF i = m + 1 THEN last ELSE k[i]]
  <2>3. k[m] \in Nat
    BY <2>2
  <2>4. last \in Nat
    BY <2>1, <2>3, NextNumber
  <2> HIDE DEF last
  <2>5. n \in [0 .. m + 1 -> Nat] /\ n[0] = before
    BY <2>2, <2>4
  <2>6. ASSUME NEW i \in 1 .. m + 1
        PROVE  n[i] = n[i - 1] * base + DigitOf(text[i])
    <3>1. CASE i = m + 1
      <4>1. n[i] = last /\ n[i - 1] = k[m]
        BY <3>1
      <4> QED
        BY <3>1, <4>1 DEF last
    <3>2. CASE i \in 1 .. m
      <4>1. n[i] = k[i] /\ n[i - 1] = k[i - 1]
        BY <3>2
      <4> QED
        BY <2>2, <3>2, <4>1
    <3> QED
      BY <3>1, <3>2
  <2> HIDE DEF n
  <2>7. Goes(n, m + 1)
    BY <2>5, <2>6
  <2> QED
    BY <2>7
<1>3. Len(text) \in S
  <2> HIDE DEF S
  <2>1. Nat \subseteq S
    BY <1>1, <1>2, Induct
  <2> QED
    BY <2>1
<1> QED
  BY <1>3 DEF Evaluates

LEMMA NumeralIs ==
    ASSUME NEW before, NEW text, Len(text) \in Nat, NEW base,
           NEW n, Evaluates(n, before, text, base)
    PROVE  Numeral(before, text, base) = n[Len(text)]
<1> DEFINE By(f) == [i \in 0 .. Len(text) |->
                        IF i = 0 THEN before ELSE f[i - 1] * base + DigitOf(text[i])]
           c == CHOOSE f : f = By(f)
<1>1. n = By(n)
  BY DEF Evaluates
<1>2. c = By(c)
  BY <1>1
<1>3. Numeral(before, text, base) = c[Len(text)]
  BY DEF Numeral
<1> HIDE DEF c
<1>4. /\ c[0] = before
      /\ \A i \in 1 .. Len(text) : c[i] = c[i - 1] * base + DigitOf(text[i])
  BY <1>2
<1>5. \A i \in 0 .. Len(text) : c[i] = n[i]
  <2>1. c[0] = n[0]
    BY <1>4 DEF Evaluates
  <2>2. \A i \in 1 .. Len(text) : c[i - 1] = n[i - 1] => c[i] = n[i]
    BY <1>4 DEF Evaluates
  <2> QED
    BY <2>1, <2>2, Agree
<1> QED
  BY <1>3, <1>5

\* A text stands for a number.
LEMMA NumeralRange ==
    ASSUME NEW before \in Nat, NEW text \in Seq(Symbols), NEW base \in Nat
    PROVE  Numeral(before, text, base) \in Nat
<1>1. PICK n : Evaluates(n, before, text, base)
  BY Evaluated
<1>2. n[Len(text)] \in Nat
  BY <1>1 DEF Evaluates
<1> QED
  BY <1>1, <1>2, NumeralIs

LEMMA NoNumeral ==
    ASSUME NEW before \in Nat, NEW base \in Nat
    PROVE  Numeral(before, <<>>, base) = before
<1>1. <<>> \in Seq(Symbols) /\ Len(<<>>) = 0
  OBVIOUS
<1>2. PICK n : Evaluates(n, before, <<>>, base)
  BY <1>1, Evaluated
<1> QED
  BY <1>1, <1>2, NumeralIs DEF Evaluates

\* One more symbol at the end, as it is decoded ...
LEMMA NumeralLast ==
    ASSUME NEW before \in Nat, NEW text \in Seq(Symbols), NEW base \in Nat, NEW s \in Symbols
    PROVE  Numeral(before, Append(text, s), base) = Numeral(before, text, base) * base + DigitOf(s)
<1> DEFINE long == Append(text, s)
           len == Len(text)
<1>1. /\ long \in Seq(Symbols) /\ Len(long) = len + 1 /\ len \in Nat
      /\ \A i \in 1 .. len : long[i] = text[i]
      /\ long[len + 1] = s
  OBVIOUS
<1> HIDE DEF long
<1>2. PICK n : Evaluates(n, before, long, base)
  BY <1>1, Evaluated
<1> DEFINE k == [i \in 0 .. len |-> n[i]]
<1>3. Evaluates(k, before, text, base)
  <2>1. k \in [0 .. len -> Nat] /\ k[0] = before
    BY <1>1, <1>2 DEF Evaluates
  <2>2. ASSUME NEW i \in 1 .. len
        PROVE  k[i] = k[i - 1] * base + DigitOf(text[i])
    <3>1. k[i] = n[i] /\ k[i - 1] = n[i - 1] /\ i \in 1 .. Len(long) /\ long[i] = text[i]
      BY <1>1
    <3> QED
      BY <1>2, <3>1 DEF Evaluates
  <2> QED
    BY <2>1, <2>2 DEF Evaluates
<1>4. Numeral(before, text, base) = n[len]
  <2>1. k[len] = n[len]
    BY <1>1
  <2> HIDE DEF k
  <2> QED
    BY <1>1, <1>3, <2>1, NumeralIs
<1>5. Numeral(before, long, base) = n[len + 1]
  BY <1>1, <1>2, NumeralIs
<1>6. n[len + 1] = n[len] * base + DigitOf(s)
  <2>1. len + 1 \in 1 .. Len(long) /\ (len + 1) - 1 = len
    BY <1>1
  <2> QED
    BY <1>1, <1>2, <2>1 DEF Evaluates
<1> QED
  BY <1>4, <1>5, <1>6 DEF long

\* ... and at the beginning, as it is encoded.
LEMMA NumeralFirst ==
    ASSUME NEW before \in Nat, NEW text \in Seq(Symbols), NEW base \in Nat, NEW s \in Symbols,
           NEW long \in Seq(Symbols), Len(long) = Len(text) + 1, long[1] = s,
           \A i \in 1 .. Len(text) : long[i + 1] = text[i]
    PROVE  Numeral(before, long, base) = Numeral(before * base + DigitOf(s), text, base)
<1> DEFINE len == Len(text)
           first == before * base + DigitOf(s)
<1>1. len \in Nat
  OBVIOUS
<1>2. PICK n : Evaluates(n, before, long, base)
  BY Evaluated
<1> DEFINE k == [i \in 0 .. len |-> n[i + 1]]
<1>3. n \in [0 .. len + 1 -> Nat]
  BY <1>2 DEF Evaluates
<1>4. n[1] = first
  BY <1>1, <1>2 DEF Evaluates
<1> HIDE DEF first
<1>5. Evaluates(k, first, text, base)
  <2>1. k \in [0 .. len -> Nat] /\ k[0] = first
    BY <1>1, <1>3, <1>4
  <2>2. ASSUME NEW i \in 1 .. len
        PROVE  k[i] = k[i - 1] * base + DigitOf(text[i])
    <3>1. /\ k[i] = n[i + 1] /\ k[i - 1] = n[i] /\ i + 1 \in 1 .. Len(long)
          /\ (i + 1) - 1 = i /\ long[i + 1] = text[i]
      BY <1>1
    <3> QED
      BY <1>2, <3>1 DEF Evaluates
  <2> QED
    BY <2>1, <2>2 DEF Evaluates
<1>6. k[len] = n[len + 1]
  BY <1>1
<1> HIDE DEF k
<1>7. Numeral(first, text, base) = n[len + 1]
  BY <1>1, <1>5, <1>6, NumeralIs
<1>8. Numeral(before, long, base) = n[len + 1]
  BY <1>1, <1>2, NumeralIs
<1> QED
  BY <1>7, <1>8 DEF first
-----------------------------------------------------------------------------
LEMMA Larger ==
    ASSUME NEW m \in Nat, m > 255
    PROVE  65536 * m \in Nat /\ 65536 * m > 255
<1>1. 65536 * m \in Nat
  OBVIOUS
<1>2. 65536 * m > 255
  OBVIOUS
<1> QED
  BY <1>1, <1>2

LEMMA ModulusFacts ==
    ASSUME NEW bits \in {8, 16, 32, 64}
    PROVE  Modulus(bits) \in Nat /\ Modulus(bits) > 255
<1> DEFINE m32 == 65536 * 65536
           m48 == 65536 * m32
           m64 == 65536 * m48
<1>1. m32 \in Nat /\ m32 > 255
  BY Larger
<1> HIDE DEF m32
<1>2. m48 \in Nat /\ m48 > 255
  BY <1>1, Larger
<1> HIDE DEF m48
<1>3. m64 \in Nat /\ m64 > 255
  BY <1>2, Larger
<1> HIDE DEF m64
<1>4. CASE bits = 8 \/ bits = 16
  BY <1>4 DEF Modulus
<1>5. CASE bits = 32
  <2>1. Modulus(bits) = m32
    BY <1>5 DEF Modulus, m32
  <2> QED
    BY <1>1, <2>1
<1>6. CASE bits = 64
  <2>1. Modulus(bits) = m64
    BY <1>6 DEF Modulus, m32, m48, m64
  <2> QED
    BY <1>3, <2>1
<1> QED
  BY <1>4, <1>5, <1>6

LEMMA Divided ==
    ASSUME NEW m \in Nat, m > 0, NEW x \in Nat
    PROVE  /\ x \div m \in Nat /\ x % m \in 0 .. m - 1
           /\ x = (x \div m) * m + (x % m)
OBVIOUS

LEMMA WrapSmall ==
    ASSUME NEW m \in Nat, m > 0, NEW x \in 0 .. m - 1
    PROVE  x % m = x
OBVIOUS

LEMMA AddMultiple ==
    ASSUME NEW m \in Nat, m > 0, NEW q \in Nat, NEW x \in Nat
    PROVE  (q * m + x) % m = x % m
<1> DEFINE k == x \div m
           r == x % m
<1>1. x = m * k + r /\ r \in 0 .. m - 1 /\ k \in Nat
  OBVIOUS
<1> HIDE DEF k, r
<1>2. q * m + x = m * (q + k) + r
  BY <1>1
<1>3. (m * (q + k) + r) % m = r
  BY <1>1
<1> QED
  BY <1>2, <1>3 DEF r

\* The accumulator may wrap at every step or once at the end.
LEMMA WrapSum ==
    ASSUME NEW m \in Nat, m > 0, NEW x \in Nat, NEW d \in Nat
    PROVE  ((x % m) + d) % m = (x + d) % m
<1> DEFINE q == x \div m
           r == x % m
<1>1. x = q * m + r /\ r \in Nat /\ q \in Nat
  BY Divided
<1> HIDE DEF q, r
<1>2. x + d = q * m + (r + d) /\ r + d \in Nat
  BY <1>1
<1>3. (q * m + (r + d)) % m = (r + d) % m
  BY <1>1, <1>2, AddMultiple
<1> QED
  BY <1>2, <1>3 DEF r

LEMMA WrapProduct ==
    ASSUME NEW m \in Nat, m > 0, NEW x \in Nat, NEW y \in Nat
    PROVE  ((x % m) * y) % m = (x * y) % m
<1> DEFINE q == x \div m
           r == x % m
<1>1. x = q * m + r /\ r \in Nat /\ q \in Nat
  BY Divided
<1> HIDE DEF q, r
<1>2. q * y \in Nat /\ r * y \in Nat
  BY <1>1
<1>3. x * y = (q * y) * m + r * y
  <2>1. x * y = (q * m) * y + r * y
    BY <1>1
  <2>2. (q * m) * y = (q * y) * m
    BY <1>1
  <2> QED
    BY <2>1, <2>2
<1>4. ((q * y) * m + r * y) % m = (r * y) % m
  BY <1>2, AddMultiple
<1> QED
  BY <1>3, <1>4 DEF r

LEMMA Accumulates ==
    ASSUME NEW m \in Nat, m > 0, NEW n \in Nat, NEW base \in Nat, base < m, NEW d \in Nat
    PROVE  ((((n % m) * (base % m)) % m) + d) % m = (n * base + d) % m
<1>1. base % m = base
  BY WrapSmall
<1>2. n % m \in Nat /\ n * base \in Nat
  BY Divided
<1>3. ((n % m) * base) % m = (n * base) % m
  BY WrapProduct
<1>4. (((n * base) % m) + d) % m = (n * base + d) % m
  BY <1>2, WrapSum
<1> QED
  BY <1>1, <1>3, <1>4
-----------------------------------------------------------------------------
\* What the digits that were written still lack, and what they are in the end.
EncInv ==
    call.kind = "encode" =>
        /\ OfNumber(call) /\ call.number \in 0 .. Modulus(call.bits) - 1
        /\ bytes \in Seq(Symbols) /\ \A i \in DOMAIN bytes : Readable(call.dict, bytes[i])
        /\ status \in {"running", "OK", "ENC"}
        /\ status = "running" =>
              /\ value \in Nat /\ Numeral(value, Backwards(bytes), call.base) = call.number
              /\ bytes # <<>> => value # 0
        /\ status = "OK" => /\ Numeral(0, bytes, call.base) = call.number
                            /\ Len(bytes) > 1 => bytes[1] # 48
        /\ status = "ENC" => call.dict = "dec" /\ call.base > 10

\* What was read, and that all of a number that was written can be.
DecInv ==
    call.kind = "decode" =>
        /\ OfNumber(call) /\ call.start \in 0 .. Modulus(call.bits) - 1
        /\ call.text \in Seq(0 .. 255)
        /\ bytes \in Seq(Symbols) /\ Len(bytes) <= Len(call.text)
        /\ \A i \in 1 .. Len(bytes) : bytes[i] = call.text[i]
        /\ value = Wrap(Numeral(call.start, bytes, call.base))
        /\ status = "OK" => Len(bytes) = Len(call.text)
        /\ "number" \in DOMAIN call =>
              /\ call.start = 0 /\ call.number \in 0 .. Modulus(call.bits) - 1
              /\ Numeral(0, call.text, call.base) = call.number
              /\ \A i \in DOMAIN call.text : Readable(call.dict, call.text[i])
              /\ status # "ENC"

LEMMA BackwardsFacts ==
    ASSUME NEW s \in Seq(Symbols)
    PROVE  /\ Backwards(s) \in Seq(Symbols) /\ Len(Backwards(s)) = Len(s)
           /\ \A i \in 1 .. Len(s) : Backwards(s)[i] = s[Len(s) + 1 - i]
<1>1. Len(s) \in Nat /\ DOMAIN s = 1 .. Len(s) /\ \A i \in 1 .. Len(s) : s[i] \in Symbols
  OBVIOUS
<1>2. \A i \in 1 .. Len(s) : Len(s) + 1 - i \in 1 .. Len(s)
  BY <1>1
<1> DEFINE b == [i \in 1 .. Len(s) |-> s[Len(s) + 1 - i]]
<1>3. b \in [1 .. Len(s) -> Symbols]
  BY <1>1, <1>2
<1>4. b \in Seq(Symbols) /\ Len(b) = Len(s)
  BY <1>1, <1>3
<1>5. Backwards(s) = b
  BY <1>1 DEF Backwards
<1> QED
  BY <1>4, <1>5

LEMMA NothingBackwards == Backwards(<<>>) = <<>>
<1>1. <<>> \in Seq(Symbols) /\ Len(<<>>) = 0
  OBVIOUS
<1>2. Backwards(<<>>) \in Seq(Symbols) /\ Len(Backwards(<<>>)) = 0
  BY <1>1, BackwardsFacts
<1> HIDE DEF Backwards
<1> QED
  BY <1>2

LEMMA SymbolFacts ==
    ASSUME NEW d \in 0 .. 15
    PROVE  /\ Symbol(d) \in Symbols /\ DigitOf(Symbol(d)) = d
           /\ d # 0 => Symbol(d) # 48
           /\ \A dict \in {"dec", "hex"} : Writable(dict, d) => Readable(dict, Symbol(d))
BY DEF Symbol, Symbols, DigitOf, Lower, Writable, Readable

LEMMA ReadableFacts ==
    ASSUME NEW dict, NEW s \in 0 .. 255, Readable(dict, s)
    PROVE  s \in Symbols
BY DEF Readable, Symbols, Lower

LEMMA NumbersInitially == Init => EncInv /\ DecInv
<1> SUFFICES ASSUME Init PROVE EncInv /\ DecInv
  OBVIOUS
<1>1. IsCall(call) /\ bytes = <<>> /\ status = "running"
  BY CodecAssumption DEF Init
<1>2. bytes \in Seq(Symbols) /\ Len(bytes) = 0 /\ DOMAIN bytes = {}
  BY <1>1
<1>3. CASE call.kind = "encode"
  <2>1. /\ OfNumber(call) /\ call.number \in 0 .. Modulus(call.bits) - 1
        /\ value = call.number
    BY <1>1, <1>3 DEF IsCall, Init, Utf8Calls
  <2>2. Modulus(call.bits) \in Nat /\ call.base \in Nat
    BY <2>1, ModulusFacts DEF OfNumber
  <2>3. value \in Nat
    BY <2>1, <2>2
  <2>4. Backwards(bytes) = <<>>
    BY <1>1, NothingBackwards
  <2>5. Numeral(value, Backwards(bytes), call.base) = call.number
    BY <2>1, <2>2, <2>3, <2>4, NoNumeral
  <2> QED
    BY <1>1, <1>2, <1>3, <2>1, <2>3, <2>5 DEF EncInv, DecInv
<1>4. CASE call.kind = "decode"
  <2>1. /\ OfNumber(call) /\ call.start \in 0 .. Modulus(call.bits) - 1
        /\ call.text \in Seq(0 .. 255) /\ "number" \notin DOMAIN call
        /\ value = call.start
    <3>1. call.kind \notin Utf8Calls /\ call.kind # "encode"
      BY <1>4 DEF Utf8Calls
    <3>2. value = call.start
      BY <1>4, <3>1 DEF Init
    <3> QED
      BY <1>1, <3>1, <3>2, Zenon DEF IsCall
  <2>2. Modulus(call.bits) \in Nat /\ Modulus(call.bits) > 0 /\ call.base \in Nat
    <3>1. call.bits \in {8, 16, 32, 64} /\ call.base \in 2 .. 16
      BY <2>1, Zenon DEF OfNumber
    <3> QED
      BY <3>1, ModulusFacts
  <2>3. call.start \in Nat
    BY <2>1, <2>2
  <2>4. Numeral(call.start, bytes, call.base) = call.start
    BY <1>1, <2>2, <2>3, NoNumeral
  <2>5. value = Wrap(Numeral(call.start, bytes, call.base))
    BY <2>1, <2>2, <2>4, WrapSmall DEF Wrap
  <2>6. Len(bytes) <= Len(call.text)
    BY <1>2, <2>1
  <2> QED
    BY <1>1, <1>2, <1>4, <2>1, <2>5, <2>6 DEF EncInv, DecInv
<1> QED
  BY <1>3, <1>4 DEF EncInv, DecInv

\* A digit more, of a number that had so many left.
LEMMA EncodeStepKeeps ==
    ASSUME EncInv, EncodeTurn
    PROVE  EncInv' /\ DecInv'
<1> DEFINE digit == value % call.base
           rest == value \div call.base
           written == Append(bytes, Symbol(digit))
<1>1. /\ call.kind = "encode" /\ status = "running" /\ call' = call
      /\ OfNumber(call) /\ call.number \in 0 .. Modulus(call.bits) - 1
      /\ bytes \in Seq(Symbols) /\ \A i \in DOMAIN bytes : Readable(call.dict, bytes[i])
      /\ value \in Nat /\ Numeral(value, Backwards(bytes), call.base) = call.number
      /\ bytes # <<>> => value # 0
  BY DEF EncInv, EncodeTurn, Running
<1>2. /\ value' = rest
      /\ \/ ~Writable(call.dict, digit) /\ status' = "ENC" /\ bytes' = bytes
         \/ Writable(call.dict, digit) /\ rest # 0 /\ bytes' = written /\ status' = status
         \/ Writable(call.dict, digit) /\ rest = 0 /\ bytes' = Backwards(written) /\ status' = "OK"
  BY DEF EncodeTurn
<1>3. call.base \in 2 .. 16 /\ call.base \in Nat /\ call.base > 0
  BY <1>1 DEF OfNumber
<1>4. digit \in 0 .. call.base - 1 /\ rest \in Nat /\ value = rest * call.base + digit
  BY <1>1, <1>3, Divided
<1> HIDE DEF digit, rest
<1>5. digit \in 0 .. 15
  BY <1>3, <1>4
<1>6. /\ Symbol(digit) \in Symbols /\ DigitOf(Symbol(digit)) = digit
      /\ digit # 0 => Symbol(digit) # 48
      /\ Writable(call.dict, digit) => Readable(call.dict, Symbol(digit))
  BY <1>1, <1>5, SymbolFacts DEF OfNumber
<1>7. /\ written \in Seq(Symbols) /\ Len(written) = Len(bytes) + 1
      /\ \A i \in 1 .. Len(bytes) : written[i] = bytes[i]
      /\ written[Len(bytes) + 1] = Symbol(digit)
      /\ Len(bytes) \in Nat /\ DOMAIN bytes = 1 .. Len(bytes)
  BY <1>1, <1>6
<1> HIDE DEF written
<1>8. /\ Backwards(bytes) \in Seq(Symbols) /\ Len(Backwards(bytes)) = Len(bytes)
      /\ Backwards(written) \in Seq(Symbols) /\ Len(Backwards(written)) = Len(written)
      /\ \A i \in 1 .. Len(bytes) : Backwards(bytes)[i] = bytes[Len(bytes) + 1 - i]
      /\ \A i \in 1 .. Len(written) : Backwards(written)[i] = written[Len(written) + 1 - i]
  BY <1>1, <1>7, BackwardsFacts
<1>9. Backwards(written)[1] = Symbol(digit)
  BY <1>7, <1>8
<1>10. \A i \in 1 .. Len(Backwards(bytes)) : Backwards(written)[i + 1] = Backwards(bytes)[i]
  <2>1. ASSUME NEW i \in 1 .. Len(bytes)
        PROVE  Backwards(written)[i + 1] = Backwards(bytes)[i]
    <3>1. /\ i + 1 \in 1 .. Len(written) /\ Len(written) + 1 - (i + 1) = Len(bytes) + 1 - i
          /\ Len(bytes) + 1 - i \in 1 .. Len(bytes)
      BY <1>7
    <3> QED
      BY <1>7, <1>8, <3>1
  <2> QED
    BY <1>8, <2>1
<1>11. Numeral(rest, Backwards(written), call.base) = call.number
  <2>1. Numeral(rest, Backwards(written), call.base)
          = Numeral(rest * call.base + DigitOf(Symbol(digit)), Backwards(bytes), call.base)
    <3>1. Len(Backwards(written)) = Len(Backwards(bytes)) + 1
      BY <1>7, <1>8
    <3> QED
      BY <1>3, <1>4, <1>6, <1>8, <1>9, <1>10, <3>1, NumeralFirst
  <2> QED
    BY <1>1, <1>4, <1>6, <2>1
<1>12. DecInv'
  <2>1. call'.kind # "decode"
    BY <1>1
  <2> QED
    BY <2>1, Zenon DEF DecInv
<1>13. CASE ~Writable(call.dict, digit) /\ status' = "ENC" /\ bytes' = bytes
  <2>1. call.dict = "dec" /\ call.base > 10
    <3>1. call.dict \in {"dec", "hex"} /\ ~(digit < IF call.dict = "dec" THEN 10 ELSE 16)
      BY <1>1, <1>13, Zenon DEF Writable, OfNumber
    <3> QED
      BY <1>3, <1>4, <3>1
  <2> QED
    BY <1>1, <1>12, <1>13, <2>1 DEF EncInv
<1>14. CASE Writable(call.dict, digit) /\ rest # 0 /\ bytes' = written /\ status' = status
  <2>1. \A i \in DOMAIN written : Readable(call.dict, written[i])
    BY <1>1, <1>6, <1>7, <1>14
  <2>2. status' = "running" /\ value' = rest /\ call' = call /\ bytes' = written
    BY <1>1, <1>2, <1>14
  <2> QED
    BY <1>1, <1>4, <1>7, <1>11, <1>12, <1>14, <2>1, <2>2 DEF EncInv
<1>15. CASE Writable(call.dict, digit) /\ rest = 0 /\ bytes' = Backwards(written) /\ status' = "OK"
  <2>1. \A i \in DOMAIN Backwards(written) : Readable(call.dict, Backwards(written)[i])
    <3>1. ASSUME NEW i \in 1 .. Len(written)
          PROVE  Readable(call.dict, Backwards(written)[i])
      <4>1. Len(written) + 1 - i \in 1 .. Len(bytes) + 1
        BY <1>7
      <4>2. \A j \in 1 .. Len(bytes) + 1 : Readable(call.dict, written[j])
        BY <1>1, <1>6, <1>7, <1>15
      <4> QED
        BY <1>8, <4>1, <4>2
    <3> QED
      BY <1>8, <3>1
  <2>2. Len(Backwards(written)) > 1 => Backwards(written)[1] # 48
    <3>1. Len(Backwards(written)) > 1 => bytes # <<>>
      BY <1>7, <1>8
    <3>2. digit = value
      BY <1>3, <1>4, <1>15
    <3> QED
      BY <1>1, <1>6, <1>9, <3>1, <3>2
  <2> QED
    BY <1>1, <1>8, <1>11, <1>12, <1>15, <2>1, <2>2 DEF EncInv
<1> QED
  BY <1>2, <1>13, <1>14, <1>15
\* A symbol more, of a text that has one.
LEMMA DecodeStepKeeps ==
    ASSUME DecInv, DecodeTurn
    PROVE  EncInv' /\ DecInv'
<1> DEFINE m == Modulus(call.bits)
           symbol == call.text[Len(bytes) + 1]
<1>1. /\ call.kind = "decode" /\ call' = call /\ Len(bytes) < Len(call.text)
      /\ status = "running"
  BY DEF DecodeTurn, Running
<1>2. /\ OfNumber(call) /\ call.start \in 0 .. Modulus(call.bits) - 1
      /\ call.text \in Seq(0 .. 255)
      /\ bytes \in Seq(Symbols) /\ Len(bytes) <= Len(call.text)
      /\ \A i \in 1 .. Len(bytes) : bytes[i] = call.text[i]
      /\ value = Wrap(Numeral(call.start, bytes, call.base))
  BY <1>1, Zenon DEF DecInv
<1>n. "number" \in DOMAIN call =>
            /\ call.start = 0 /\ call.number \in 0 .. Modulus(call.bits) - 1
            /\ Numeral(0, call.text, call.base) = call.number
            /\ \A i \in DOMAIN call.text : Readable(call.dict, call.text[i])
  BY <1>1, Zenon DEF DecInv
<1>3. \/ ~Readable(call.dict, symbol) /\ status' = "ENC" /\ bytes' = bytes /\ value' = value
      \/ /\ Readable(call.dict, symbol) /\ bytes' = Append(bytes, symbol)
         /\ value' = Accumulated(DigitOf(symbol)) /\ status' = status
  BY DEF DecodeTurn
<1>4. /\ Len(bytes) \in Nat /\ Len(call.text) \in Nat
      /\ DOMAIN bytes = 1 .. Len(bytes) /\ DOMAIN call.text = 1 .. Len(call.text)
      /\ Len(bytes) + 1 \in 1 .. Len(call.text) /\ symbol \in 0 .. 255
  <2>1. call.text \in Seq(0 .. 255) /\ bytes \in Seq(Symbols) /\ Len(bytes) < Len(call.text)
    BY <1>1, <1>2
  <2>2. /\ Len(bytes) \in Nat /\ Len(call.text) \in Nat
        /\ Len(bytes) + 1 \in 1 .. Len(call.text)
    BY <2>1
  <2>3. DOMAIN bytes = 1 .. Len(bytes) /\ DOMAIN call.text = 1 .. Len(call.text)
    BY <2>1, LenProperties, Zenon
  <2>4. \A i \in 1 .. Len(call.text) : call.text[i] \in 0 .. 255
    <3>1. call.text \in [1 .. Len(call.text) -> 0 .. 255]
      BY <2>1, LenProperties, Zenon
    <3> QED
      BY <3>1, Zenon
  <2>5. symbol \in 0 .. 255
    BY <2>2, <2>4, Zenon
  <2> QED
    BY <2>2, <2>3, <2>5
<1>5. /\ m \in Nat /\ m > 255 /\ call.base \in Nat /\ call.base < m
      /\ call.start \in Nat
  <2>1. call.bits \in {8, 16, 32, 64} /\ call.base \in 2 .. 16
    BY <1>2, Zenon DEF OfNumber
  <2>2. m \in Nat /\ m > 255
    BY <2>1, ModulusFacts
  <2>3. call.start \in 0 .. m - 1
    BY <1>2
  <2> HIDE DEF m
  <2> QED
    BY <2>1, <2>2, <2>3
<1> HIDE DEF symbol
<1>6. EncInv'
  <2>1. call'.kind # "encode"
    BY <1>1
  <2> QED
    BY <2>1, Zenon DEF EncInv
<1>7. CASE ~Readable(call.dict, symbol) /\ status' = "ENC" /\ bytes' = bytes /\ value' = value
  <2>1. "number" \notin DOMAIN call
    <3>1. Len(bytes) + 1 \in DOMAIN call.text
      BY <1>4
    <3> QED
      BY <1>n, <1>7, <3>1, Zenon DEF symbol
  <2>2. value' = Wrap(Numeral(call.start, bytes, call.base))'
    BY <1>1, <1>2, <1>7 DEF Wrap, Numeral
  <2>3. DecInv'
    <3>1. "number" \notin DOMAIN call' /\ status' # "OK"
      BY <1>1, <1>7, <2>1
    <3> QED
      BY <1>1, <1>2, <1>7, <2>2, <3>1, Zenon DEF DecInv
  <2> QED
    BY <1>6, <2>3
<1>8. CASE /\ Readable(call.dict, symbol) /\ bytes' = Append(bytes, symbol)
           /\ value' = Accumulated(DigitOf(symbol)) /\ status' = status
  <2>1. symbol \in Symbols /\ DigitOf(symbol) \in Nat
    <3>1. symbol \in Symbols
      BY <1>4, <1>8, ReadableFacts
    <3> QED
      BY <3>1, DigitRange
  <2> DEFINE longer == Append(bytes, symbol)
             n == Numeral(call.start, bytes, call.base)
             k == Numeral(call.start, longer, call.base)
  <2>2. n \in Nat
    BY <1>2, <1>5, NumeralRange
  <2>3. k = n * call.base + DigitOf(symbol)
    BY <1>2, <1>5, <2>1, NumeralLast
  <2>4. /\ longer \in Seq(Symbols) /\ Len(longer) = Len(bytes) + 1
        /\ \A i \in 1 .. Len(bytes) : longer[i] = bytes[i]
        /\ longer[Len(bytes) + 1] = symbol
    BY <1>2, <2>1
  <2> HIDE DEF longer, n, k
  <2>5. Accumulated(DigitOf(symbol)) = k % m
    <3>1. value = n % m
      BY <1>2 DEF Wrap, n
    <3>2. ((((n % m) * (call.base % m)) % m) + DigitOf(symbol)) % m
            = (n * call.base + DigitOf(symbol)) % m
      <4> DEFINE d == DigitOf(symbol)
                 base == call.base
      <4>1. d \in Nat /\ base \in Nat /\ base < m /\ m \in Nat /\ m > 0
        BY <1>5, <2>1
      <4> HIDE DEF d, base, m
      <4>2. ((((n % m) * (base % m)) % m) + d) % m = (n * base + d) % m
        BY <2>2, <4>1, Accumulates
      <4> QED
        BY <4>2 DEF d, base
    <3> QED
      BY <2>3, <3>1, <3>2 DEF Accumulated, Wrap
  <2>6. /\ bytes' = longer /\ call' = call /\ status' = "running"
        /\ value' = Numeral(call.start, longer, call.base) % Modulus(call.bits)
    BY <1>1, <1>8, <2>5 DEF longer, k
  <2>7. \A i \in 1 .. Len(longer) : longer[i] = call.text[i]
    <3>1. ASSUME NEW i \in 1 .. Len(bytes) + 1
          PROVE  longer[i] = call.text[i]
      <4>1. CASE i \in 1 .. Len(bytes)
        BY <1>2, <2>4, <4>1
      <4>2. CASE i = Len(bytes) + 1
        BY <2>4, <4>2 DEF symbol
      <4> QED
        BY <1>4, <4>1, <4>2
    <3> QED
      BY <2>4, <3>1
  <2>8. Len(longer) <= Len(call.text)
    BY <1>1, <1>4, <2>4
  <2>9. (value = Wrap(Numeral(call.start, bytes, call.base)))'
    BY <2>6, Zenon DEF Wrap
  <2>10. DecInv'
    <3>1. (/\ OfNumber(call) /\ call.start \in 0 .. Modulus(call.bits) - 1
           /\ call.text \in Seq(0 .. 255)
           /\ bytes \in Seq(Symbols) /\ Len(bytes) <= Len(call.text)
           /\ \A i \in 1 .. Len(bytes) : bytes[i] = call.text[i])'
      BY <1>2, <2>4, <2>6, <2>7, <2>8, Zenon
    <3>2. ("number" \in DOMAIN call =>
              /\ call.start = 0 /\ call.number \in 0 .. Modulus(call.bits) - 1
              /\ Numeral(0, call.text, call.base) = call.number
              /\ \A i \in DOMAIN call.text : Readable(call.dict, call.text[i]))'
      BY <1>n, <2>6, Zenon
    <3>3. status' # "OK" /\ status' # "ENC"
      BY <2>6
    <3> QED
      BY <2>9, <3>1, <3>2, <3>3, Zenon DEF DecInv
  <2> QED
    BY <1>6, <2>10
<1> QED
  BY <1>3, <1>7, <1>8

LEMMA DecodeEndKeeps ==
    ASSUME DecInv, DecodeEnds
    PROVE  EncInv' /\ DecInv'
<1>1. /\ call.kind = "decode" /\ call' = call /\ Len(bytes) = Len(call.text)
      /\ status' = "OK" /\ bytes' = bytes /\ value' = value
  BY DEF DecodeEnds, Running
<1>2. EncInv'
  <2>1. call'.kind # "encode"
    BY <1>1
  <2> QED
    BY <2>1, Zenon DEF EncInv
<1>3. (value = Wrap(Numeral(call.start, bytes, call.base)))'
  <2>1. value = Wrap(Numeral(call.start, bytes, call.base))
    BY <1>1, Zenon DEF DecInv
  <2> QED
    BY <1>1, <2>1, Zenon DEF Wrap
<1>4. DecInv'
  BY <1>1, <1>3 DEF DecInv
<1> QED
  BY <1>2, <1>4

\* What was written is a text that its reader takes.
LEMMA ReadBackKeeps ==
    ASSUME EncInv, ReadBack
    PROVE  EncInv' /\ DecInv'
<1>1. call.kind = "encode" /\ status = "OK"
  BY DEF ReadBack
<1>2. /\ OfNumber(call) /\ call.number \in 0 .. Modulus(call.bits) - 1
      /\ bytes \in Seq(Symbols) /\ \A i \in DOMAIN bytes : Readable(call.dict, bytes[i])
      /\ Numeral(0, bytes, call.base) = call.number
  BY <1>1, Zenon DEF EncInv
<1>3. /\ call'.kind = "decode" /\ call'.base = call.base /\ call'.dict = call.dict
      /\ call'.bits = call.bits /\ call'.start = 0 /\ call'.text = bytes
      /\ call'.number = call.number
      /\ bytes' = <<>> /\ value' = 0 /\ status' = "running"
  BY DEF ReadBack
<1>4. call.bits \in {8, 16, 32, 64} /\ call.base \in 2 .. 16
  BY <1>2, Zenon DEF OfNumber
<1>5. /\ Modulus(call.bits) \in Nat /\ Modulus(call.bits) > 255
      /\ call.base \in Nat
  BY <1>4, ModulusFacts
<1>6. bytes \in Seq(0 .. 255)
  <2>1. Symbols \subseteq 0 .. 255
    BY DEF Symbols
  <2> QED
    BY <1>2, <2>1, SeqMonotonic, Zenon
<1>7. (value = Wrap(Numeral(call.start, bytes, call.base)))'
  <2>1. Numeral(0, <<>>, call.base) = 0
    BY <1>5, NoNumeral
  <2>2. 0 % Modulus(call.bits) = 0
    BY <1>5, WrapSmall
  <2> QED
    BY <1>3, <2>1, <2>2, Zenon DEF Wrap
<1>8. OfNumber(call)'
  BY <1>2, <1>3, Zenon DEF OfNumber
<1>9. (/\ call.start = 0 /\ call.number \in 0 .. Modulus(call.bits) - 1
       /\ Numeral(0, call.text, call.base) = call.number
       /\ \A i \in DOMAIN call.text : Readable(call.dict, call.text[i])
       /\ status # "ENC")'
  <2>1. status' # "ENC"
    BY <1>3
  <2> QED
    BY <1>2, <1>3, <2>1, Zenon
<1>10. (/\ call.start \in 0 .. Modulus(call.bits) - 1
        /\ call.text \in Seq(0 .. 255)
        /\ bytes \in Seq(Symbols) /\ Len(bytes) <= Len(call.text)
        /\ \A i \in 1 .. Len(bytes) : bytes[i] = call.text[i]
        /\ status = "OK" => Len(bytes) = Len(call.text))'
  <2>1. <<>> \in Seq(Symbols) /\ Len(<<>>) = 0 /\ Len(bytes) \in Nat
    BY <1>2
  <2> QED
    BY <1>3, <1>5, <1>6, <2>1
<1>11. DecInv'
  BY <1>7, <1>8, <1>9, <1>10, Zenon DEF DecInv
<1>12. EncInv'
  <2>1. call'.kind # "encode"
    BY <1>3
  <2> QED
    BY <2>1, Zenon DEF EncInv
<1> QED
  BY <1>11, <1>12

LEMMA NumbersStep ==
    ASSUME EncInv, DecInv, [Next]_vars
    PROVE  EncInv' /\ DecInv'
<1>1. ASSUME call' = call, call.kind \in Utf8Calls
      PROVE  EncInv' /\ DecInv'
  <2>1. call'.kind # "encode" /\ call'.kind # "decode"
    BY <1>1 DEF Utf8Calls
  <2> QED
    BY <2>1, Zenon DEF EncInv, DecInv
<1>2. ASSUME NEW b \in Byte, Utf8Byte(b)
      PROVE  EncInv' /\ DecInv'
  BY <1>1, <1>2 DEF Utf8Byte, Running
<1>3. CASE Utf8Ends
  BY <1>1, <1>3 DEF Utf8Ends, Running
<1>4. CASE UNCHANGED vars
  BY <1>4, Zenon DEF vars, EncInv, DecInv, Wrap, Backwards
<1> QED
  BY <1>2, <1>3, <1>4, EncodeStepKeeps, DecodeStepKeeps, DecodeEndKeeps, ReadBackKeeps
     DEF Next

THEOREM NumbersInvariance == Spec => [](EncInv /\ DecInv)
BY NumbersInitially, NumbersStep, PTL DEF Spec

\* Every number of every width comes out as its digits, and is refused only for
\* a dictionary that lacks one of them.  (pgc_buf_encode)
THEOREM NumbersAreWritten == Spec => []EncodesNumber
<1>1. EncInv => EncodesNumber
  BY DEF EncInv, EncodesNumber
<1> QED
  BY <1>1, NumbersInvariance, PTL

\* Every text comes in as its number modulo the width of the result, and one that
\* was encoded as the number it was encoded from.  (pgc_buf_decode)
THEOREM NumbersAreRead == Spec => []DecodesNumber
<1>1. DecInv => DecodesNumber
  <2> SUFFICES ASSUME DecInv, call.kind = "decode"
               PROVE  /\ value = Wrap(Numeral(call.start, bytes, call.base))
                      /\ status = "OK" => bytes = call.text
                      /\ status = "OK" /\ "number" \in DOMAIN call => value = call.number
                      /\ "number" \in DOMAIN call => status # "ENC"
    BY DEF DecodesNumber
  <2>1. /\ value = Wrap(Numeral(call.start, bytes, call.base))
        /\ "number" \in DOMAIN call => status # "ENC"
    BY DEF DecInv
  <2>2. status = "OK" => bytes = call.text
    <3> SUFFICES ASSUME status = "OK" PROVE bytes = call.text
      OBVIOUS
    <3>1. /\ call.text \in Seq(0 .. 255) /\ bytes \in Seq(Symbols)
          /\ Len(bytes) = Len(call.text)
          /\ \A i \in 1 .. Len(bytes) : bytes[i] = call.text[i]
      BY DEF DecInv
    <3>2. /\ bytes = [i \in 1 .. Len(bytes) |-> bytes[i]]
          /\ call.text = [i \in 1 .. Len(call.text) |-> call.text[i]]
      BY <3>1
    <3> QED
      BY <3>1, <3>2
  <2>3. status = "OK" /\ "number" \in DOMAIN call => value = call.number
    <3> SUFFICES ASSUME status = "OK", "number" \in DOMAIN call
                 PROVE  value = call.number
      OBVIOUS
    <3>1. /\ call.start = 0 /\ call.number \in 0 .. Modulus(call.bits) - 1
          /\ Numeral(0, call.text, call.base) = call.number
          /\ call.bits \in {8, 16, 32, 64}
      BY DEF DecInv, OfNumber
    <3>2. value = call.number % Modulus(call.bits)
      BY <2>1, <2>2, <3>1, Zenon DEF Wrap
    <3>3. Modulus(call.bits) \in Nat /\ Modulus(call.bits) > 0
      BY <3>1, ModulusFacts
    <3> QED
      BY <3>1, <3>2, <3>3, WrapSmall
  <2> QED
    BY <2>1, <2>2, <2>3
<1> QED
  BY <1>1, NumbersInvariance, PTL
-----------------------------------------------------------------------------
\* What a state of the decoder's table stands for: how many bytes are missing, the
\* weight of the next one, and which six bits that one may bring.
Missing(st) == IF st = 2 THEN 1 ELSE IF st \in 3 .. 5 THEN 2 ELSE 3
Weight(st) == IF st = 2 THEN 1 ELSE IF st \in 3 .. 5 THEN 64 ELSE 4096
From(st) == IF st = 4 THEN 32 ELSE IF st = 6 THEN 16 ELSE 0
To(st) == IF st = 5 THEN 31 ELSE IF st = 8 THEN 15 ELSE 63
After(st) == IF st = 2 THEN 0 ELSE IF st \in 3 .. 5 THEN 2 ELSE 3

\* The code points that can still be the one, with p for the bits there are.
Possible(st, p, c) ==
    (p * 64 + From(st)) * Weight(st) <= c /\ c < (p * 64 + To(st) + 1) * Weight(st)

\* The first byte says how many there are, and every other one has six bits, of the
\* weight that those after it leave.
Bits(c, weight) == 128 + ((c \div weight) % 64)
First(c) ==
    IF c < 128 THEN c ELSE IF c < 2048 THEN 192 + c \div 64
    ELSE IF c < 65536 THEN 224 + c \div 4096 ELSE 240 + c \div 262144
Size(c) == IF c < 128 THEN 1 ELSE IF c < 2048 THEN 2 ELSE IF c < 65536 THEN 3 ELSE 4

\* A character that is cut off: the code points that its bytes begin are the possible
\* ones, and all of them have as many bytes.
Partial(s, st, p) ==
    /\ st \in 2 .. 8 /\ p \in Nat
    /\ s \in Seq(0 .. 255) /\ Len(s) \in 1 .. 3 /\ Len(s) + Missing(st) <= 4
    /\ \A c \in Nat : Scalar(c) /\ Begins(s, c) <=> Possible(st, p, c)
    /\ \A c \in Nat : Possible(st, p, c) => Size(c) = Len(s) + Missing(st)

Utf8Inv ==
    call.kind \in Utf8Calls =>
        /\ status \in {"running", "OK", "CMP", "ENC", "OOB"}
        /\ status \in {"running", "OOB"} =>
              (bytes = <<>> /\ state = Accept) \/ Partial(bytes, state, codep)
        /\ status \in {"OK", "CMP"} =>
              /\ Scalar(codep) /\ bytes = Encoding(codep)
              /\ status = "OK" <=> Wanted(codep)
        /\ status = "ENC" => ~Begun(bytes)

LEMMA Bytes ==
    ASSUME NEW c \in Nat
    PROVE  /\ Len(Encoding(c)) = Size(c) /\ Size(c) \in 1 .. 4
           /\ DOMAIN Encoding(c) = 1 .. Size(c)
           /\ Encoding(c)[1] = First(c)
           /\ Size(c) = 2 => Encoding(c)[2] = Bits(c, 1)
           /\ Size(c) = 3 => Encoding(c)[2] = Bits(c, 64) /\ Encoding(c)[3] = Bits(c, 1)
           /\ Size(c) = 4 => /\ Encoding(c)[2] = Bits(c, 4096) /\ Encoding(c)[3] = Bits(c, 64)
                             /\ Encoding(c)[4] = Bits(c, 1)
<1>a. Bits(c, 1) = 128 + (c % 64)
  BY SMT DEF Bits
<1>1. CASE c < 128
  <2>1. Encoding(c) = <<c>>
    BY SMT, <1>1 DEF Encoding
  <2>2. Size(c) = 1 /\ First(c) = c
    BY SMT, <1>1 DEF Size, First
  <2> QED
    BY SMT, <2>1, <2>2
<1>2. CASE 128 <= c /\ c < 2048
  <2>1. Encoding(c) = <<192 + c \div 64, 128 + (c % 64)>>
    BY SMT, <1>2 DEF Encoding
  <2>2. Encoding(c) = <<First(c), Bits(c, 1)>>
    BY SMT, <1>2, <1>a, <2>1 DEF First
  <2>3. Size(c) = 2
    BY SMT, <1>2 DEF Size
  <2> QED
    BY SMT, <2>2, <2>3
<1>3. CASE 2048 <= c /\ c < 65536
  <2>1. Encoding(c) = <<224 + c \div 4096, 128 + ((c \div 64) % 64), 128 + (c % 64)>>
    BY SMT, <1>3 DEF Encoding
  <2>2. 224 + c \div 4096 = First(c) /\ 128 + ((c \div 64) % 64) = Bits(c, 64)
    BY SMT, <1>3 DEF First, Bits
  <2>3. Encoding(c) = <<First(c), Bits(c, 64), Bits(c, 1)>>
    BY SMT, <1>a, <2>1, <2>2
  <2>4. Size(c) = 3
    BY SMT, <1>3 DEF Size
  <2> QED
    BY SMT, <2>3, <2>4
<1>4. CASE 65536 <= c
  <2>1. Encoding(c) = <<240 + c \div 262144, 128 + ((c \div 4096) % 64),
                        128 + ((c \div 64) % 64), 128 + (c % 64)>>
    BY SMT, <1>4 DEF Encoding
  <2>2. /\ 240 + c \div 262144 = First(c) /\ 128 + ((c \div 4096) % 64) = Bits(c, 4096)
        /\ 128 + ((c \div 64) % 64) = Bits(c, 64)
    BY SMT, <1>4 DEF First, Bits
  <2>3. Encoding(c) = <<First(c), Bits(c, 4096), Bits(c, 64), Bits(c, 1)>>
    BY SMT, <1>a, <2>1, <2>2
  <2>4. Size(c) = 4
    BY SMT, <1>4 DEF Size
  <2> QED
    BY SMT, <2>3, <2>4
<1> QED
  BY SMT, <1>1, <1>2, <1>3, <1>4

LEMMA IsText ==
    ASSUME NEW c \in Nat
    PROVE  Encoding(c) \in Seq(Int)
<1>1. /\ c \div 64 \in Int /\ c \div 4096 \in Int /\ c \div 262144 \in Int
      /\ c % 64 \in Int /\ (c \div 64) % 64 \in Int /\ (c \div 4096) % 64 \in Int
  BY SMT
<1>2. CASE c < 128
  BY SMT, <1>2 DEF Encoding
<1>3. CASE 128 <= c /\ c < 2048
  BY SMT, <1>1, <1>3 DEF Encoding
<1>4. CASE 2048 <= c /\ c < 65536
  BY SMT, <1>1, <1>4 DEF Encoding
<1>5. CASE 65536 <= c
  BY SMT, <1>1, <1>5 DEF Encoding
<1> QED
  BY SMT, <1>2, <1>3, <1>4, <1>5

LEMMA Continuations ==
    ASSUME NEW c \in Nat, NEW st \in 2 .. 8, NEW k \in 1 .. 3,
           Size(c) = k + Missing(st)
    PROVE  Encoding(c)[k + 1] = Bits(c, Weight(st))
<1>1. \/ Missing(st) = 1 /\ Weight(st) = 1
      \/ Missing(st) = 2 /\ Weight(st) = 64
      \/ Missing(st) = 3 /\ Weight(st) = 4096
  BY SMT DEF Missing, Weight
<1>2. Size(c) \in 1 .. 4
  BY SMT, Bytes
<1>3. CASE Missing(st) = 1 /\ Weight(st) = 1
  <2>1. k + 1 = Size(c) /\ Size(c) \in 2 .. 4
    BY SMT, <1>2, <1>3
  <2>2. Encoding(c)[Size(c)] = Bits(c, 1)
    <3>1. CASE Size(c) = 2
      BY SMT, <3>1, Bytes
    <3>2. CASE Size(c) = 3
      BY SMT, <3>2, Bytes
    <3>3. CASE Size(c) = 4
      BY SMT, <3>3, Bytes
    <3> QED
      BY SMT, <2>1, <3>1, <3>2, <3>3
  <2> QED
    BY <1>3, <2>1, <2>2, Zenon
<1>4. CASE Missing(st) = 2 /\ Weight(st) = 64
  <2>1. k + 1 = Size(c) - 1 /\ Size(c) \in 3 .. 4
    BY SMT, <1>2, <1>4
  <2>2. Encoding(c)[Size(c) - 1] = Bits(c, 64)
    <3>1. CASE Size(c) = 3
      BY SMT, <3>1, Bytes
    <3>2. CASE Size(c) = 4
      <4>1. Encoding(c)[3] = Bits(c, 64) /\ Size(c) - 1 = 3
        BY SMT, <3>2, Bytes
      <4> QED
        BY <4>1, Zenon
    <3> QED
      BY SMT, <2>1, <3>1, <3>2
  <2> QED
    BY <1>4, <2>1, <2>2, Zenon
<1>5. CASE Missing(st) = 3 /\ Weight(st) = 4096
  <2>1. k + 1 = 2 /\ Size(c) = 4
    BY SMT, <1>2, <1>5
  <2> QED
    BY SMT, <1>5, <2>1, Bytes
<1> QED
  BY SMT, <1>1, <1>3, <1>4, <1>5

\* The table, after the first byte ...
LEMMA NextStates ==
    ASSUME NEW st \in 2 .. 8, NEW b \in 0 .. 255
    PROVE  NextState(st, Class(b)) =
              IF 128 + From(st) <= b /\ b <= 128 + To(st) THEN After(st) ELSE Reject
<1>1. /\ b \in 128 .. 143 => Class(b) = 1
      /\ b \in 144 .. 159 => Class(b) = 9
      /\ b \in 160 .. 191 => Class(b) = 7
      /\ ~(b \in 128 .. 191) => Class(b) \notin {1, 7, 9}
  BY SMT DEF Class
<1> DEFINE d == Class(b)
<1> HIDE DEF d
<1>2. CASE st = 2
  BY SMT, <1>1, <1>2 DEF NextState, From, To, After, Reject, d
<1>3. CASE st = 3
  BY SMT, <1>1, <1>3 DEF NextState, From, To, After, Reject, d
<1>4. CASE st = 4
  BY SMT, <1>1, <1>4 DEF NextState, From, To, After, Reject, d
<1>5. CASE st = 5
  BY SMT, <1>1, <1>5 DEF NextState, From, To, After, Reject, d
<1>6. CASE st = 6
  BY SMT, <1>1, <1>6 DEF NextState, From, To, After, Reject, d
<1>7. CASE st = 7
  BY SMT, <1>1, <1>7 DEF NextState, From, To, After, Reject, d
<1>8. CASE st = 8
  BY SMT, <1>1, <1>8 DEF NextState, From, To, After, Reject, d
<1> QED
  BY SMT, <1>2, <1>3, <1>4, <1>5, <1>6, <1>7, <1>8

\* ... what the next byte tells of a possible code point ...
LEMMA NextBits ==
    ASSUME NEW st \in 2 .. 8, NEW p \in Nat, NEW c \in Nat
    PROVE  /\ Possible(st, p, c) => (c \div Weight(st)) % 64 \in From(st) .. To(st)
           /\ \A d \in From(st) .. To(st) :
                 IF st = 2 THEN Possible(st, p, c) /\ c % 64 = d <=> c = p * 64 + d
                 ELSE Possible(st, p, c) /\ (c \div Weight(st)) % 64 = d
                         <=> Possible(After(st), p * 64 + d, c)
<1>1. CASE st = 2
  BY SMT, <1>1 DEF Possible, Weight, From, To
<1>2. CASE st = 3
  BY SMT, <1>2 DEF Possible, Weight, From, To, After
<1>3. CASE st = 4
  BY SMT, <1>3 DEF Possible, Weight, From, To, After
<1>4. CASE st = 5
  BY SMT, <1>4 DEF Possible, Weight, From, To, After
<1>5. CASE st = 6
  BY SMT, <1>5 DEF Possible, Weight, From, To, After
<1>6. CASE st = 7
  BY SMT, <1>6 DEF Possible, Weight, From, To, After
<1>7. CASE st = 8
  BY SMT, <1>7 DEF Possible, Weight, From, To, After
<1> QED
  BY SMT, <1>1, <1>2, <1>3, <1>4, <1>5, <1>6, <1>7

\* ... what the first one does.
LEMMA FirstStates ==
    ASSUME NEW x \in 0 .. 11
    PROVE  NextState(0, x) =
              IF x = 0 THEN 0 ELSE IF x \in {1, 7, 8, 9} THEN 1 ELSE IF x = 2 THEN 2
              ELSE IF x = 3 THEN 3 ELSE IF x = 4 THEN 5 ELSE IF x = 5 THEN 8
              ELSE IF x = 6 THEN 7 ELSE IF x = 10 THEN 4 ELSE 6
<1>0. CASE x = 0
  BY SMT, <1>0 DEF NextState
<1>1. CASE x = 1
  BY SMT, <1>1 DEF NextState
<1>2. CASE x = 2
  BY SMT, <1>2 DEF NextState
<1>3. CASE x = 3
  BY SMT, <1>3 DEF NextState
<1>4. CASE x = 4
  BY SMT, <1>4 DEF NextState
<1>5. CASE x = 5
  BY SMT, <1>5 DEF NextState
<1>6. CASE x = 6
  BY SMT, <1>6 DEF NextState
<1>7. CASE x = 7
  BY SMT, <1>7 DEF NextState
<1>8. CASE x = 8
  BY SMT, <1>8 DEF NextState
<1>9. CASE x = 9
  BY SMT, <1>9 DEF NextState
<1>10. CASE x = 10
  BY SMT, <1>10 DEF NextState
<1>11. CASE x = 11
  BY SMT, <1>11 DEF NextState
<1> QED
  BY SMT, <1>0, <1>1, <1>2, <1>3, <1>4, <1>5, <1>6, <1>7, <1>8, <1>9, <1>10, <1>11

LEMMA Payloads ==
    ASSUME NEW b \in 0 .. 255
    PROVE  /\ Payload(b) \in Nat
           /\ Class(b) = 0 => Payload(b) = b % 256
           /\ Class(b) = 2 => Payload(b) = b % 64
           /\ Class(b) = 3 => Payload(b) = b % 32
           /\ Class(b) = 4 => Payload(b) = b % 16
           /\ Class(b) = 5 => Payload(b) = b % 8
           /\ Class(b) = 6 => Payload(b) = b % 4
           /\ Class(b) >= 8 => Payload(b) = 0
<1> DEFINE x == Class(b)
<1>a. x \in 0 .. 11
  BY SMT DEF Class
<1> HIDE DEF x
<1>0. CASE x = 0
  <2>1. Payload(b) = b % 256
    BY SMT, <1>0 DEF Payload, x
  <2> QED
    BY SMT, <1>0, <2>1 DEF x
<1>1. CASE x = 1
  <2>1. Payload(b) = b % 128
    BY SMT, <1>1 DEF Payload, x
  <2> QED
    BY SMT, <1>1, <2>1 DEF x
<1>2. CASE x = 2
  <2>1. Payload(b) = b % 64
    BY SMT, <1>2 DEF Payload, x
  <2> QED
    BY SMT, <1>2, <2>1 DEF x
<1>3. CASE x = 3
  <2>1. Payload(b) = b % 32
    BY SMT, <1>3 DEF Payload, x
  <2> QED
    BY SMT, <1>3, <2>1 DEF x
<1>4. CASE x = 4
  <2>1. Payload(b) = b % 16
    BY SMT, <1>4 DEF Payload, x
  <2> QED
    BY SMT, <1>4, <2>1 DEF x
<1>5. CASE x = 5
  <2>1. Payload(b) = b % 8
    BY SMT, <1>5 DEF Payload, x
  <2> QED
    BY SMT, <1>5, <2>1 DEF x
<1>6. CASE x = 6
  <2>1. Payload(b) = b % 4
    BY SMT, <1>6 DEF Payload, x
  <2> QED
    BY SMT, <1>6, <2>1 DEF x
<1>7. CASE x = 7
  <2>1. Payload(b) = b % 2
    BY SMT, <1>7 DEF Payload, x
  <2> QED
    BY SMT, <1>7, <2>1 DEF x
<1>8. CASE x >= 8
  <2>1. Payload(b) = 0
    BY SMT, <1>8 DEF Payload, x
  <2> QED
    BY SMT, <1>a, <1>8, <2>1 DEF x
<1> QED
  BY SMT, <1>a, <1>0, <1>1, <1>2, <1>3, <1>4, <1>5, <1>6, <1>7, <1>8

LEMMA FirstRanges ==
    ASSUME NEW c \in Nat, c <= 1114111
    PROVE  /\ c < 128 => First(c) = c
           /\ 128 <= c /\ c < 2048 =>
                 /\ First(c) \in 194 .. 223
                 /\ (First(c) - 192) * 64 <= c /\ c < (First(c) - 191) * 64
           /\ 2048 <= c /\ c < 65536 =>
                 /\ First(c) \in 224 .. 239
                 /\ (First(c) - 224) * 4096 <= c /\ c < (First(c) - 223) * 4096
           /\ 65536 <= c =>
                 /\ First(c) \in 240 .. 244
                 /\ (First(c) - 240) * 262144 <= c /\ c < (First(c) - 239) * 262144
BY SMT DEF First

LEMMA FirstOf ==
    ASSUME NEW c \in Nat, c <= 1114111, NEW b \in 128 .. 255
    PROVE  /\ b \notin 194 .. 244 => First(c) # b
           /\ b \in 194 .. 223 => (First(c) = b <=> (b - 192) * 64 <= c /\ c < (b - 191) * 64)
           /\ b \in 224 .. 239 =>
                 (First(c) = b <=> /\ 2048 <= c
                                   /\ (b - 224) * 4096 <= c /\ c < (b - 223) * 4096)
           /\ b \in 240 .. 244 =>
                 (First(c) = b <=> /\ 65536 <= c
                                   /\ (b - 240) * 262144 <= c /\ c < (b - 239) * 262144)
<1> DEFINE f == First(c)
<1>1. CASE c < 128
  <2>1. f = c
    BY SMT, <1>1, FirstRanges
  <2> HIDE DEF f
  <2> QED
    BY SMT, <1>1, <2>1 DEF f
<1>2. CASE 128 <= c /\ c < 2048
  <2>1. f \in 194 .. 223 /\ (f - 192) * 64 <= c /\ c < (f - 191) * 64
    BY SMT, <1>2, FirstRanges
  <2> HIDE DEF f
  <2> QED
    BY SMT, <1>2, <2>1 DEF f
<1>3. CASE 2048 <= c /\ c < 65536
  <2>1. f \in 224 .. 239 /\ (f - 224) * 4096 <= c /\ c < (f - 223) * 4096
    BY SMT, <1>3, FirstRanges
  <2> HIDE DEF f
  <2> QED
    BY SMT, <1>3, <2>1 DEF f
<1>4. CASE 65536 <= c
  <2>1. f \in 240 .. 244 /\ (f - 240) * 262144 <= c /\ c < (f - 239) * 262144
    BY SMT, <1>4, FirstRanges
  <2> HIDE DEF f
  <2> QED
    BY SMT, <1>4, <2>1 DEF f
<1> QED
  BY SMT, <1>1, <1>2, <1>3, <1>4

LEMMA Beginnings ==
    ASSUME NEW b \in 0 .. 255
    PROVE  LET st == NextState(0, Class(b))
               p == Payload(b)
           IN  /\ st \in 0 .. 8 /\ p \in Nat
               /\ st = 0 => b < 128 /\ p = b
               /\ st = 1 => \A c \in Nat : Scalar(c) => First(c) # b
               /\ st \in 2 .. 8 =>
                     /\ \A c \in Nat : Scalar(c) /\ First(c) = b <=> Possible(st, p, c)
                     /\ \A c \in Nat : Possible(st, p, c) => Size(c) = 1 + Missing(st)
<1> DEFINE st == NextState(0, Class(b))
           p == Payload(b)
           Right == /\ st \in 0 .. 8 /\ p \in Nat
                    /\ st = 0 => b < 128 /\ p = b
                    /\ st = 1 => \A c \in Nat : Scalar(c) => First(c) # b
                    /\ st \in 2 .. 8 =>
                          /\ \A c \in Nat : Scalar(c) /\ First(c) = b <=> Possible(st, p, c)
                          /\ \A c \in Nat : Possible(st, p, c) => Size(c) = 1 + Missing(st)
<1>1. CASE b \in 0 .. 127
  <2>1. Class(b) = 0
    BY SMT, <1>1 DEF Class
  <2>2. st = 0 /\ p = b
    BY SMT, <1>1, <2>1, FirstStates, Payloads
  <2> QED
    BY SMT, <1>1, <2>2
<1>2. CASE b \in (128 .. 193) \cup (245 .. 255)
  <2>1. Class(b) \in {1, 7, 8, 9}
    BY SMT, <1>2 DEF Class
  <2>2. st = 1 /\ p \in Nat
    BY SMT, <1>2, <2>1, FirstStates, Payloads
  <2>3. ASSUME NEW c \in Nat, Scalar(c)
        PROVE  First(c) # b
    <3>1. c <= 1114111
      BY SMT, <2>3 DEF Scalar
    <3> QED
      BY SMT, <1>2, <3>1, FirstOf
  <2> QED
    BY SMT, <2>2, <2>3
<1>3. CASE b \in 194 .. 223
  <2>1. Class(b) = 2
    BY SMT, <1>3 DEF Class
  <2>2. st = 2 /\ p = b - 192
    BY SMT, <1>3, <2>1, FirstStates, Payloads
  <2>3. ASSUME NEW c \in Nat
        PROVE  Scalar(c) /\ First(c) = b <=> Possible(2, b - 192, c)
    <3>1. CASE c <= 1114111
      BY SMT, <1>3, <3>1, FirstOf DEF Scalar, Possible, Weight, From, To
    <3>2. CASE ~(c <= 1114111)
      BY SMT, <1>3, <3>2 DEF Scalar, Possible, Weight, From, To
    <3> QED
      BY SMT, <3>1, <3>2
  <2>4. \A c \in Nat : Possible(2, b - 192, c) => Size(c) = 1 + Missing(2)
    BY SMT, <1>3 DEF Size, Missing, Possible, Weight, From, To
  <2> QED
    BY SMT, <1>3, <2>2, <2>3, <2>4
<1>4. CASE b \in (225 .. 236) \cup (238 .. 239)
  <2>1. Class(b) = 3
    BY SMT, <1>4 DEF Class
  <2>2. st = 3 /\ p = b - 224
    BY SMT, <1>4, <2>1, FirstStates, Payloads
  <2>3. ASSUME NEW c \in Nat
        PROVE  Scalar(c) /\ First(c) = b <=> Possible(3, b - 224, c)
    <3>1. CASE c <= 1114111
      BY SMT, <1>4, <3>1, FirstOf DEF Scalar, Possible, Weight, From, To
    <3>2. CASE ~(c <= 1114111)
      BY SMT, <1>4, <3>2 DEF Scalar, Possible, Weight, From, To
    <3> QED
      BY SMT, <3>1, <3>2
  <2>4. \A c \in Nat : Possible(3, b - 224, c) => Size(c) = 1 + Missing(3)
    BY SMT, <1>4 DEF Size, Missing, Possible, Weight, From, To
  <2> QED
    BY SMT, <1>4, <2>2, <2>3, <2>4
<1>5. CASE b = 224
  <2>1. Class(b) = 10
    BY SMT, <1>5 DEF Class
  <2>2. st = 4 /\ p = 0
    BY SMT, <1>5, <2>1, FirstStates, Payloads
  <2>3. ASSUME NEW c \in Nat
        PROVE  Scalar(c) /\ First(c) = 224 <=> Possible(4, 0, c)
    <3>1. CASE c <= 1114111
      BY SMT, <3>1, FirstOf DEF Scalar, Possible, Weight, From, To
    <3>2. CASE ~(c <= 1114111)
      BY SMT, <3>2 DEF Scalar, Possible, Weight, From, To
    <3> QED
      BY SMT, <3>1, <3>2
  <2>4. \A c \in Nat : Possible(4, 0, c) => Size(c) = 1 + Missing(4)
    BY SMT DEF Size, Missing, Possible, Weight, From, To
  <2> QED
    BY SMT, <1>5, <2>2, <2>3, <2>4
<1>6. CASE b = 237
  <2>1. Class(b) = 4
    BY SMT, <1>6 DEF Class
  <2>2. st = 5 /\ p = 13
    BY SMT, <1>6, <2>1, FirstStates, Payloads
  <2>3. ASSUME NEW c \in Nat
        PROVE  Scalar(c) /\ First(c) = 237 <=> Possible(5, 13, c)
    <3>1. CASE c <= 1114111
      BY SMT, <3>1, FirstOf DEF Scalar, Possible, Weight, From, To
    <3>2. CASE ~(c <= 1114111)
      BY SMT, <3>2 DEF Scalar, Possible, Weight, From, To
    <3> QED
      BY SMT, <3>1, <3>2
  <2>4. \A c \in Nat : Possible(5, 13, c) => Size(c) = 1 + Missing(5)
    BY SMT DEF Size, Missing, Possible, Weight, From, To
  <2> QED
    BY SMT, <1>6, <2>2, <2>3, <2>4
<1>7. CASE b = 240
  <2>1. Class(b) = 11
    BY SMT, <1>7 DEF Class
  <2>2. st = 6 /\ p = 0
    BY SMT, <1>7, <2>1, FirstStates, Payloads
  <2>3. ASSUME NEW c \in Nat
        PROVE  Scalar(c) /\ First(c) = 240 <=> Possible(6, 0, c)
    <3>1. CASE c <= 1114111
      BY SMT, <3>1, FirstOf DEF Scalar, Possible, Weight, From, To
    <3>2. CASE ~(c <= 1114111)
      BY SMT, <3>2 DEF Scalar, Possible, Weight, From, To
    <3> QED
      BY SMT, <3>1, <3>2
  <2>4. \A c \in Nat : Possible(6, 0, c) => Size(c) = 1 + Missing(6)
    BY SMT DEF Size, Missing, Possible, Weight, From, To
  <2> QED
    BY SMT, <1>7, <2>2, <2>3, <2>4
<1>8. CASE b \in 241 .. 243
  <2>1. Class(b) = 6
    BY SMT, <1>8 DEF Class
  <2>2. st = 7 /\ p = b - 240
    BY SMT, <1>8, <2>1, FirstStates, Payloads
  <2>3. ASSUME NEW c \in Nat
        PROVE  Scalar(c) /\ First(c) = b <=> Possible(7, b - 240, c)
    <3>1. CASE c <= 1114111
      BY SMT, <1>8, <3>1, FirstOf DEF Scalar, Possible, Weight, From, To
    <3>2. CASE ~(c <= 1114111)
      BY SMT, <1>8, <3>2 DEF Scalar, Possible, Weight, From, To
    <3> QED
      BY SMT, <3>1, <3>2
  <2>4. \A c \in Nat : Possible(7, b - 240, c) => Size(c) = 1 + Missing(7)
    BY SMT, <1>8 DEF Size, Missing, Possible, Weight, From, To
  <2> QED
    BY SMT, <1>8, <2>2, <2>3, <2>4
<1>9. CASE b = 244
  <2>1. Class(b) = 5
    BY SMT, <1>9 DEF Class
  <2>2. st = 8 /\ p = 4
    BY SMT, <1>9, <2>1, FirstStates, Payloads
  <2>3. ASSUME NEW c \in Nat
        PROVE  Scalar(c) /\ First(c) = 244 <=> Possible(8, 4, c)
    <3>1. CASE c <= 1114111
      BY SMT, <3>1, FirstOf DEF Scalar, Possible, Weight, From, To
    <3>2. CASE ~(c <= 1114111)
      BY SMT, <3>2 DEF Scalar, Possible, Weight, From, To
    <3> QED
      BY SMT, <3>1, <3>2
  <2>4. \A c \in Nat : Possible(8, 4, c) => Size(c) = 1 + Missing(8)
    BY SMT DEF Size, Missing, Possible, Weight, From, To
  <2> QED
    BY SMT, <1>9, <2>2, <2>3, <2>4
<1>10. Right
  BY SMT, <1>1, <1>2, <1>3, <1>4, <1>5, <1>6, <1>7, <1>8, <1>9
<1> QED
  BY SMT, <1>10
-----------------------------------------------------------------------------
LEMMA Extended ==
    ASSUME NEW s \in Seq(0 .. 255), NEW b \in 0 .. 255, NEW c \in Nat, Scalar(c)
    PROVE  Begins(Append(s, b), c) <=>
              Begins(s, c) /\ Len(s) + 1 <= Size(c) /\ Encoding(c)[Len(s) + 1] = b
<1>1. Len(Encoding(c)) = Size(c) /\ Size(c) \in 1 .. 4
  BY SMT, Bytes
<1> DEFINE t == Append(s, b)
<1>2. /\ Len(s) \in Nat /\ DOMAIN s = 1 .. Len(s)
      /\ Len(t) = Len(s) + 1 /\ DOMAIN t = 1 .. Len(s) + 1
      /\ \A i \in 1 .. Len(s) : t[i] = s[i]
      /\ t[Len(s) + 1] = b
  BY SMT
<1> HIDE DEF t
<1>3. \A i \in 1 .. Len(s) + 1 : i \in 1 .. Len(s) \/ i = Len(s) + 1
  BY SMT, <1>2
<1>4. ASSUME Begins(t, c)
      PROVE  Begins(s, c) /\ Len(s) + 1 <= Size(c) /\ Encoding(c)[Len(s) + 1] = b
  BY SMT, <1>1, <1>2, <1>4 DEF Begins
<1>5. ASSUME Begins(s, c), Len(s) + 1 <= Size(c), Encoding(c)[Len(s) + 1] = b
      PROVE  Begins(t, c)
  BY SMT, <1>1, <1>2, <1>3, <1>5 DEF Begins
<1> QED
  BY <1>4, <1>5 DEF t

\* Nothing, a whole character, or the beginning of one.
Nobodys(s) == \A c \in Nat : ~(Scalar(c) /\ Begins(s, c))
Decided(s, st, p) ==
    /\ st \in 0 .. 8 /\ p \in Nat
    /\ st = Accept => Scalar(p) /\ s = Encoding(p)
    /\ st = Reject => Nobodys(s)
    /\ st \in 2 .. 8 => Partial(s, st, p)

LEMMA FirstByte ==
    ASSUME NEW b \in 0 .. 255
    PROVE  Decided(Append(<<>>, b), NextState(0, Class(b)), Payload(b))
<1> DEFINE st == NextState(0, Class(b))
           p == Payload(b)
           s == Append(<<>>, b)
<1>1. /\ st \in 0 .. 8 /\ p \in Nat
      /\ st = 0 => b < 128 /\ p = b
      /\ st = 1 => \A c \in Nat : Scalar(c) => First(c) # b
      /\ st \in 2 .. 8 =>
            /\ \A c \in Nat : Scalar(c) /\ First(c) = b <=> Possible(st, p, c)
            /\ \A c \in Nat : Possible(st, p, c) => Size(c) = 1 + Missing(st)
  BY Beginnings, Zenon
<1> HIDE DEF st, p
<1>2. s \in Seq(0 .. 255) /\ Len(s) = 1 /\ s = <<b>>
  BY SMT
<1>3. ASSUME NEW c \in Nat, Scalar(c)
      PROVE  Begins(s, c) <=> First(c) = b
  <2>1. <<>> \in Seq(0 .. 255) /\ Len(<<>>) = 0 /\ DOMAIN <<>> = {}
    BY SMT
  <2>3. /\ Len(Encoding(c)) = Size(c) /\ Size(c) \in 1 .. 4 /\ Encoding(c)[1] = First(c)
    BY SMT, Bytes
  <2>4. Begins(<<>>, c)
    BY SMT, <2>1, <2>3 DEF Begins
  <2>5. Begins(s, c) <=>
           Begins(<<>>, c) /\ Len(<<>>) + 1 <= Size(c) /\ Encoding(c)[Len(<<>>) + 1] = b
    BY <1>3, <2>1, Extended, Zenon
  <2> QED
    BY SMT, <2>1, <2>3, <2>4, <2>5
<1>4. CASE st = 0
  <2>1. Encoding(b) = <<b>> /\ Scalar(b)
    BY SMT, <1>1, <1>4 DEF Encoding, Scalar
  <2> QED
    BY SMT, <1>1, <1>2, <1>4, <2>1 DEF Decided, Accept, Reject, st, p
<1> HIDE DEF s
<1>5. CASE st = 1
  <2>1. Nobodys(s)
    BY <1>1, <1>3, <1>5 DEF Nobodys
  <2> QED
    BY SMT, <1>1, <1>5, <2>1 DEF Decided, Accept, Reject, st, p, s
<1>6. CASE st \in 2 .. 8
  <2>1. Missing(st) \in 1 .. 3
    BY SMT DEF Missing
  <2>2. \A c \in Nat : Possible(st, p, c) => Size(c) = Len(s) + Missing(st)
    BY SMT, <1>1, <1>2, <1>6
  <2>3. ASSUME NEW c \in Nat
        PROVE  Scalar(c) /\ Begins(s, c) <=> Possible(st, p, c)
    BY <1>1, <1>3, <1>6, Zenon
  <2>4. Partial(s, st, p)
    BY SMT, <1>1, <1>2, <1>6, <2>1, <2>2, <2>3 DEF Partial
  <2> QED
    BY SMT, <1>1, <1>6, <2>4 DEF Decided, Accept, Reject, st, p, s
<1> QED
  BY SMT, <1>1, <1>4, <1>5, <1>6

LEMMA NextByte ==
    ASSUME NEW s, NEW st, NEW p, Partial(s, st, p), NEW b \in 0 .. 255
    PROVE  Decided(Append(s, b), NextState(st, Class(b)), (b % 64) + p * 64)
<1> DEFINE t == Append(s, b)
           next == NextState(st, Class(b))
           d == b - 128
           q == p * 64 + d
           Byte2(c) == (c \div Weight(st)) % 64
<1>1. /\ st \in 2 .. 8 /\ p \in Nat
      /\ s \in Seq(0 .. 255) /\ Len(s) \in 1 .. 3 /\ Len(s) + Missing(st) <= 4
  BY Zenon DEF Partial
<1>2. /\ \A c \in Nat : Scalar(c) /\ Begins(s, c) <=> Possible(st, p, c)
      /\ \A c \in Nat : Possible(st, p, c) => Size(c) = Len(s) + Missing(st)
  BY Zenon DEF Partial
<1>3. t \in Seq(0 .. 255) /\ Len(t) = Len(s) + 1
  BY SMT, <1>1
<1> HIDE DEF t
<1>4. next = IF 128 + From(st) <= b /\ b <= 128 + To(st) THEN After(st) ELSE Reject
  BY <1>1, NextStates, Zenon
<1> HIDE DEF next
<1>5. /\ Missing(st) \in 1 .. 3 /\ From(st) \in 0 .. 63 /\ To(st) \in 0 .. 63
      /\ From(st) <= To(st)
  BY SMT DEF Missing, From, To
\* The next byte of every possible code point.
<1>6. ASSUME NEW c \in Nat, Possible(st, p, c)
      PROVE  /\ Scalar(c) /\ Begins(s, c) /\ Byte2(c) \in From(st) .. To(st)
             /\ Len(s) + 1 <= Size(c) /\ Encoding(c)[Len(s) + 1] = 128 + Byte2(c)
  <2>1. Scalar(c) /\ Begins(s, c) /\ Size(c) = Len(s) + Missing(st)
    BY <1>2, <1>6, Zenon
  <2>3. Encoding(c)[Len(s) + 1] = Bits(c, Weight(st))
    BY <1>1, <2>1, Continuations, Zenon
  <2>4. Byte2(c) \in From(st) .. To(st)
    BY <1>1, <1>6, NextBits, Zenon
  <2>5. Len(s) + 1 <= Size(c)
    BY SMT, <1>1, <1>5, <2>1
  <2> QED
    BY <2>1, <2>3, <2>4, <2>5, Zenon DEF Bits
<1>7. ASSUME NEW c \in Nat
      PROVE  Scalar(c) /\ Begins(t, c) <=> Possible(st, p, c) /\ 128 + Byte2(c) = b
  <2>1. Scalar(c) => (Begins(t, c) <=>
           Begins(s, c) /\ Len(s) + 1 <= Size(c) /\ Encoding(c)[Len(s) + 1] = b)
    BY <1>1, Extended, Zenon DEF t
  <2> QED
    BY <1>2, <1>6, <2>1, Zenon
<1>8. CASE ~(128 + From(st) <= b /\ b <= 128 + To(st))
  <2>1. next = Reject
    BY <1>4, <1>8, Zenon
  <2>2. ASSUME NEW c \in Nat, Scalar(c), Begins(t, c)
        PROVE  FALSE
    <3>1. Byte2(c) \in From(st) .. To(st) /\ 128 + Byte2(c) = b
      BY <1>6, <1>7, <2>2, Zenon
    <3> HIDE DEF Byte2
    <3> QED
      BY SMT, <1>5, <1>8, <3>1
  <2>3. Nobodys(t)
    BY <2>2, Zenon DEF Nobodys
  <2>4. (b % 64) + p * 64 \in Nat
    BY SMT, <1>1
  <2> QED
    BY SMT, <2>1, <2>3, <2>4 DEF Decided, Accept, Reject, t, next
<1>9. CASE 128 + From(st) <= b /\ b <= 128 + To(st)
  <2>1. next = After(st) /\ d \in From(st) .. To(st) /\ d \in 0 .. 63
    BY SMT, <1>4, <1>5, <1>9
  <2>2. (b % 64) + p * 64 = q /\ q \in Nat
    BY SMT, <1>1, <2>1
  <2>3. \A c \in Nat : 128 + Byte2(c) = b <=> Byte2(c) = d
    <3>1. ASSUME NEW c \in Nat
          PROVE  Byte2(c) \in Int
      <4>1. Weight(st) \in {1, 64, 4096}
        BY SMT DEF Weight
      <4> QED
        BY SMT, <4>1
    <3> HIDE DEF Byte2
    <3> QED
      BY SMT, <3>1
  <2> HIDE DEF q, Byte2
  <2>4. CASE st = 2
    <3>1. \A c \in Nat : Byte2(c) = c % 64
      <4>1. Weight(2) = 1
        BY SMT DEF Weight
      <4>2. \A c \in Nat : c \div 1 = c
        BY SMT
      <4> QED
        BY SMT, <2>4, <4>1, <4>2 DEF Byte2
    <3>2. Possible(st, p, q) /\ q % 64 = d
      BY SMT, <1>1, <2>1, <2>2, <2>4, NextBits DEF q
    <3>3. Scalar(q) /\ Begins(t, q) /\ Size(q) = Len(s) + 1
      <4>1. Missing(st) = 1
        BY SMT, <2>4 DEF Missing
      <4>2. Scalar(q) /\ Begins(t, q)
        BY <1>7, <2>2, <2>3, <3>1, <3>2, Zenon
      <4> QED
        BY SMT, <1>2, <2>2, <3>2, <4>1, <4>2
    <3>5. t = Encoding(q)
      <4>1. Len(Encoding(q)) = Len(t) /\ DOMAIN Encoding(q) = 1 .. Len(t)
        BY SMT, <1>3, <2>2, <3>3, Bytes
      <4>2. \A i \in 1 .. Len(t) : Encoding(q)[i] = t[i]
        BY SMT, <1>3, <3>3 DEF Begins
      <4>3. t = [i \in 1 .. Len(t) |-> t[i]]
        BY SMT, <1>3
      <4>4. Encoding(q) = [i \in 1 .. Len(t) |-> Encoding(q)[i]]
        <5>1. Encoding(q) \in Seq(Int)
          BY <2>2, IsText, Zenon
        <5> QED
          BY SMT, <4>1, <5>1
      <4> QED
        BY SMT, <4>2, <4>3, <4>4
    <3>6. next = 0
      BY SMT, <2>1, <2>4 DEF After
    <3>7. Decided(t, next, q)
      BY SMT, <2>2, <3>3, <3>5, <3>6 DEF Decided, Accept, Reject
    <3> QED
      BY <2>2, <3>7, Zenon DEF t, next
  <2>5. CASE st # 2
    <3>1. /\ After(st) \in 2 .. 3 /\ Missing(After(st)) = Missing(st) - 1
          /\ Missing(After(st)) \in 1 .. 3
      BY SMT, <1>1, <2>5 DEF After, Missing
    <3>0. /\ Missing(next) = Missing(st) - 1 /\ Missing(next) \in 1 .. 3
          /\ next \in 2 .. 3
      BY <2>1, <3>1, Zenon
    <3>2. ASSUME NEW c \in Nat
          PROVE  Possible(st, p, c) /\ Byte2(c) = d <=> Possible(After(st), q, c)
      <4>1. \A e \in From(st) .. To(st) :
               Possible(st, p, c) /\ (c \div Weight(st)) % 64 = e
                  <=> Possible(After(st), p * 64 + e, c)
        BY <1>1, <2>5, NextBits, Zenon
      <4> QED
        BY <2>1, <4>1, Zenon DEF q, Byte2
    <3>3. ASSUME NEW c \in Nat
          PROVE  Scalar(c) /\ Begins(t, c) <=> Possible(next, q, c)
      BY <1>7, <2>1, <2>3, <3>2, Zenon
    <3>4. ASSUME NEW c \in Nat, Possible(next, q, c)
          PROVE  Size(c) = Len(t) + Missing(next)
      <4>1. Size(c) = Len(s) + Missing(st)
        BY <1>2, <2>1, <3>2, <3>4, Zenon
      <4> QED
        BY SMT, <1>1, <1>3, <1>5, <3>0, <4>1
    <3>5. Len(t) \in 1 .. 3 /\ Len(t) + Missing(next) <= 4
      BY SMT, <1>1, <1>3, <1>5, <3>0
    <3>6. Partial(t, next, q)
      BY SMT, <1>3, <2>1, <2>2, <3>1, <3>3, <3>4, <3>5 DEF Partial
    <3>7. Decided(t, next, q)
      BY SMT, <2>1, <2>2, <3>1, <3>6 DEF Decided, Accept, Reject
    <3> QED
      BY <2>2, <3>7, Zenon DEF t, next
  <2> QED
    BY <2>4, <2>5
<1> QED
  BY <1>8, <1>9
-----------------------------------------------------------------------------
LEMMA Sixes ==
    ASSUME NEW c \in Nat
    PROVE  /\ c % 64 \in 0 .. 63 /\ (c \div 64) % 64 \in 0 .. 63 /\ (c \div 4096) % 64 \in 0 .. 63
           /\ c \div 64 \in Nat /\ c \div 4096 \in Nat /\ c \div 262144 \in Nat
           /\ c = (c \div 64) * 64 + (c % 64)
           /\ c \div 64 = (c \div 4096) * 64 + ((c \div 64) % 64)
           /\ c \div 4096 = (c \div 262144) * 64 + ((c \div 4096) % 64)
<1>1. c % 64 \in 0 .. 63 /\ c \div 64 \in Nat /\ c = (c \div 64) * 64 + (c % 64)
  BY SMT
<1>2. (c \div 64) % 64 \in 0 .. 63 /\ c \div 4096 \in Nat
      /\ c \div 64 = (c \div 4096) * 64 + ((c \div 64) % 64)
  BY SMT
<1>3. (c \div 4096) % 64 \in 0 .. 63 /\ c \div 262144 \in Nat
      /\ c \div 4096 = (c \div 262144) * 64 + ((c \div 4096) % 64)
  BY SMT
<1> QED
  BY SMT, <1>1, <1>2, <1>3

LEMMA Sextets ==
    ASSUME NEW s \in Seq(0 .. 255), NEW i \in 2 .. 4, NEW v \in 0 .. 63,
           i <= Len(s) => s[i] = 128 + v
    PROVE  /\ Sextet(s, i, 0) \in 0 .. 63 /\ Sextet(s, i, 63) \in 0 .. 63
           /\ Sextet(s, i, 0) <= v /\ v <= Sextet(s, i, 63)
<1>1. CASE i <= Len(s)
  <2>1. s[i] % 64 = v
    BY SMT, <1>1
  <2>2. Sextet(s, i, 0) = v /\ Sextet(s, i, 63) = v
    BY SMT, <1>1, <2>1 DEF Sextet
  <2>3. v <= v
    BY SMT
  <2> QED
    BY <2>2, <2>3, Zenon
<1>2. CASE ~(i <= Len(s))
  <2>1. Sextet(s, i, 0) = 0 /\ Sextet(s, i, 63) = 63
    BY SMT, <1>2 DEF Sextet
  <2> QED
    BY SMT, <2>1
<1> QED
  BY <1>1, <1>2, Zenon

\* A code point that some bytes begin lies where the first of them says.
LEMMA Sought ==
    ASSUME NEW s \in Seq(0 .. 255), Len(s) \in 1 .. 3, NEW c \in Nat, Scalar(c), Begins(s, c)
    PROVE  Begun(s)
<1> DEFINE f == s[1]
           n == IF f < 192 THEN 1 ELSE IF f < 224 THEN 2 ELSE IF f < 240 THEN 3 ELSE 4
           Within(m) == /\ Filled(s, m, 0) \in Int /\ Filled(s, m, 63) \in Int
                        /\ Filled(s, m, 0) <= c /\ c <= Filled(s, m, 63)
<1>1. /\ Len(s) <= Size(c) /\ f = First(c)
      /\ 2 <= Len(s) => s[2] = Encoding(c)[2]
      /\ 3 <= Len(s) => s[3] = Encoding(c)[3]
  <2>1. Len(s) <= Len(Encoding(c)) /\ \A i \in DOMAIN s : Encoding(c)[i] = s[i]
    BY Zenon DEF Begins
  <2>2. Len(Encoding(c)) = Size(c) /\ Encoding(c)[1] = First(c)
    BY SMT, Bytes
  <2>3. 1 \in DOMAIN s /\ (2 <= Len(s) => 2 \in DOMAIN s)
        /\ (3 <= Len(s) => 3 \in DOMAIN s)
    BY SMT
  <2> QED
    BY <2>1, <2>2, <2>3, Zenon
<1> HIDE DEF f
<1>2. c <= 1114111
  BY SMT DEF Scalar
<1>s. c \div 1 = c
  BY SMT
<1>t. ~(4 <= Len(s))
  <2>1. \A k \in 1 .. 3 : ~(4 <= k)
    BY SMT
  <2> QED
    BY <2>1, Zenon
<1>3. ASSUME Size(c) = 1
      PROVE  Within(n)
  <2>1. c < 128
    BY SMT, <1>3 DEF Size
  <2>2. f = c
    BY SMT, <1>1, <2>1 DEF First
  <2>3. n = 1
    BY SMT, <2>1, <2>2
  <2>4. Filled(s, 1, 0) = f /\ Filled(s, 1, 63) = f
    BY SMT DEF Filled, f
  <2>5. Within(1)
    BY SMT, <2>2, <2>4
  <2> HIDE DEF n, Within
  <2> QED
    BY <2>3, <2>5, Zenon
<1>4. ASSUME Size(c) = 2
      PROVE  Within(n)
  <2> DEFINE q == c \div 64
             z == c % 64
  <2>1. 128 <= c /\ c < 2048
    BY SMT, <1>4 DEF Size
  <2>2. First(c) = 192 + q /\ Bits(c, 1) = 128 + z
    <3>1. First(c) = 192 + q
      BY SMT, <2>1 DEF First
    <3> QED
      BY SMT, <1>s, <3>1 DEF Bits
  <2>3. q \in 0 .. 31 /\ z \in 0 .. 63 /\ c = q * 64 + z
    BY SMT, <2>1
  <2>4. Encoding(c)[2] = Bits(c, 1)
    BY SMT, <1>4, Bytes
  <2> HIDE DEF q, z
  <2>5. f = 192 + q /\ (2 <= Len(s) => s[2] = 128 + z)
    BY <1>1, <2>2, <2>4, Zenon
  <2>6. n = 2 /\ f % 32 = q
    BY SMT, <2>3, <2>5
  <2> DEFINE l2 == Sextet(s, 2, 0)
             h2 == Sextet(s, 2, 63)
  <2>7. l2 \in 0 .. 63 /\ h2 \in 0 .. 63 /\ l2 <= z /\ z <= h2
    <3>1. z \in 0 .. 63 /\ (2 <= Len(s) => s[2] = 128 + z) /\ 2 \in 2 .. 4
      BY SMT, <2>3, <2>5
    <3> QED
      BY <3>1, Sextets, Zenon
  <2>8. Filled(s, 2, 0) = (f % 32) * 64 + l2 /\ Filled(s, 2, 63) = (f % 32) * 64 + h2
    BY SMT DEF Filled, f
  <2> HIDE DEF n, l2, h2
  <2>9. Within(2)
    BY SMT, <2>3, <2>6, <2>7, <2>8
  <2> HIDE DEF Within
  <2> QED
    BY <2>6, <2>9, Zenon
<1>5. ASSUME Size(c) = 3
      PROVE  Within(n)
  <2> DEFINE q == c \div 4096
             y == (c \div 64) % 64
             z == c % 64
             m == c \div 64
  <2>1. 2048 <= c /\ c < 65536
    BY SMT, <1>5 DEF Size
  <2>2. First(c) = 224 + q /\ Bits(c, 64) = 128 + y /\ Bits(c, 1) = 128 + z
    <3>1. First(c) = 224 + q
      BY SMT, <2>1 DEF First
    <3> QED
      BY SMT, <1>s, <3>1 DEF Bits
  <2>3. q \in 0 .. 15
    BY SMT, <2>1
  <2>4. /\ y \in 0 .. 63 /\ z \in 0 .. 63 /\ m \in Nat
        /\ c = m * 64 + z /\ m = q * 64 + y
    BY SMT, Sixes
  <2>5. Encoding(c)[2] = Bits(c, 64) /\ Encoding(c)[3] = Bits(c, 1)
    BY SMT, <1>5, Bytes
  <2> HIDE DEF q, y, z, m
  <2>6. /\ f = 224 + q
        /\ 2 <= Len(s) => s[2] = 128 + y
        /\ 3 <= Len(s) => s[3] = 128 + z
    BY SMT, <1>1, <2>2, <2>5
  <2>7. n = 3 /\ f % 16 = q
    BY SMT, <2>3, <2>6
  <2> DEFINE l2 == Sextet(s, 2, 0)
             h2 == Sextet(s, 2, 63)
             l3 == Sextet(s, 3, 0)
             h3 == Sextet(s, 3, 63)
  <2>8. l2 \in 0 .. 63 /\ h2 \in 0 .. 63 /\ l2 <= y /\ y <= h2
    <3>1. y \in 0 .. 63 /\ (2 <= Len(s) => s[2] = 128 + y) /\ 2 \in 2 .. 4
      BY SMT, <2>4, <2>6
    <3> QED
      BY <3>1, Sextets, Zenon
  <2>9. l3 \in 0 .. 63 /\ h3 \in 0 .. 63 /\ l3 <= z /\ z <= h3
    <3>1. z \in 0 .. 63 /\ (3 <= Len(s) => s[3] = 128 + z) /\ 3 \in 2 .. 4
      BY SMT, <2>4, <2>6
    <3> QED
      BY <3>1, Sextets, Zenon
  <2>10. /\ Filled(s, 3, 0) = (f % 16) * 4096 + l2 * 64 + l3
         /\ Filled(s, 3, 63) = (f % 16) * 4096 + h2 * 64 + h3
    BY SMT DEF Filled, f
  <2> HIDE DEF n, l2, h2, l3, h3
  <2>11. Within(3)
    <3>1. Filled(s, 3, 0) = q * 4096 + l2 * 64 + l3 /\ Filled(s, 3, 63) = q * 4096 + h2 * 64 + h3
      BY SMT, <2>7, <2>10
    <3> QED
      BY SMT, <2>3, <2>4, <2>8, <2>9, <3>1
  <2> HIDE DEF Within
  <2> QED
    BY <2>7, <2>11, Zenon
<1>6. ASSUME Size(c) = 4
      PROVE  Within(n)
  <2> DEFINE q == c \div 262144
             x == (c \div 4096) % 64
             y == (c \div 64) % 64
             z == c % 64
             m == c \div 64
             k == c \div 4096
  <2>1. 65536 <= c
    BY SMT, <1>6 DEF Size
  <2>2. First(c) = 240 + q /\ Bits(c, 4096) = 128 + x /\ Bits(c, 64) = 128 + y
    <3>1. First(c) = 240 + q
      BY SMT, <2>1 DEF First
    <3> QED
      BY SMT, <3>1 DEF Bits
  <2>3. q \in 0 .. 7
    BY SMT, <1>2
  <2>4. /\ x \in 0 .. 63 /\ y \in 0 .. 63 /\ z \in 0 .. 63 /\ m \in Nat /\ k \in Nat
        /\ c = m * 64 + z /\ m = k * 64 + y /\ k = q * 64 + x
    BY SMT, Sixes
  <2>5. Encoding(c)[2] = Bits(c, 4096) /\ Encoding(c)[3] = Bits(c, 64)
    BY SMT, <1>6, Bytes
  <2> HIDE DEF q, x, y, z, m, k
  <2>6. /\ f = 240 + q
        /\ 2 <= Len(s) => s[2] = 128 + x
        /\ 3 <= Len(s) => s[3] = 128 + y
    BY SMT, <1>1, <2>2, <2>5
  <2>7. n = 4 /\ f % 8 = q
    BY SMT, <2>3, <2>6
  <2> DEFINE l2 == Sextet(s, 2, 0)
             h2 == Sextet(s, 2, 63)
             l3 == Sextet(s, 3, 0)
             h3 == Sextet(s, 3, 63)
             l4 == Sextet(s, 4, 0)
             h4 == Sextet(s, 4, 63)
  <2>8. l2 \in 0 .. 63 /\ h2 \in 0 .. 63 /\ l2 <= x /\ x <= h2
    <3>1. x \in 0 .. 63 /\ (2 <= Len(s) => s[2] = 128 + x) /\ 2 \in 2 .. 4
      BY SMT, <2>4, <2>6
    <3> QED
      BY <3>1, Sextets, Zenon
  <2>9. l3 \in 0 .. 63 /\ h3 \in 0 .. 63 /\ l3 <= y /\ y <= h3
    <3>1. y \in 0 .. 63 /\ (3 <= Len(s) => s[3] = 128 + y) /\ 3 \in 2 .. 4
      BY SMT, <2>4, <2>6
    <3> QED
      BY <3>1, Sextets, Zenon
  <2>10. l4 \in 0 .. 63 /\ h4 \in 0 .. 63 /\ l4 <= z /\ z <= h4
    <3>1. z \in 0 .. 63 /\ (4 <= Len(s) => s[4] = 128 + z) /\ 4 \in 2 .. 4
      BY SMT, <1>t, <2>4
    <3> QED
      BY <3>1, Sextets, Zenon
  <2>11. /\ Filled(s, 4, 0) = (f % 8) * 262144 + l2 * 4096 + l3 * 64 + l4
         /\ Filled(s, 4, 63) = (f % 8) * 262144 + h2 * 4096 + h3 * 64 + h4
    BY SMT DEF Filled, f
  <2> HIDE DEF n, l2, h2, l3, h3, l4, h4
  <2>12. Within(4)
    <3>1. /\ Filled(s, 4, 0) = q * 262144 + l2 * 4096 + l3 * 64 + l4
          /\ Filled(s, 4, 63) = q * 262144 + h2 * 4096 + h3 * 64 + h4
      BY SMT, <2>7, <2>11
    <3> QED
      BY SMT, <2>3, <2>4, <2>8, <2>9, <2>10, <3>1
  <2> HIDE DEF Within
  <2> QED
    BY <2>7, <2>12, Zenon
<1> HIDE DEF n
<1>7. Within(n)
  <2>1. Size(c) = 1 \/ Size(c) = 2 \/ Size(c) = 3 \/ Size(c) = 4
    BY SMT DEF Size
  <2> HIDE DEF Within
  <2> QED
    BY <1>3, <1>4, <1>5, <1>6, <2>1, Zenon
<1>8. c \in Filled(s, n, 0) .. Filled(s, n, 63)
  BY SMT, <1>7
<1>9. \E d \in Filled(s, n, 0) .. Filled(s, n, 63) : Scalar(d) /\ Begins(s, d)
  BY <1>8, Zenon
<1> QED
  BY <1>9, Zenon DEF Begun, n, f

LEMMA CutOffHasBegun ==
    ASSUME NEW s, NEW st, NEW p, Partial(s, st, p)
    PROVE  Begun(s)
<1>1. /\ st \in 2 .. 8 /\ p \in Nat
      /\ s \in Seq(0 .. 255) /\ Len(s) \in 1 .. 3
      /\ \A c \in Nat : Scalar(c) /\ Begins(s, c) <=> Possible(st, p, c)
  BY Zenon DEF Partial
<1> DEFINE c == (p * 64 + From(st)) * Weight(st)
<1>2. c \in Nat /\ Possible(st, p, c)
  <2>1. /\ From(st) \in Nat /\ To(st) \in Nat /\ From(st) <= To(st)
        /\ Weight(st) \in {1, 64, 4096}
    BY SMT DEF From, To, Weight
  <2> QED
    BY SMT, <1>1, <2>1 DEF Possible
<1> HIDE DEF c
<1> QED
  BY <1>1, <1>2, Sought, Zenon

LEMMA NobodysHasNotBegun ==
    ASSUME NEW s, Nobodys(s)
    PROVE  ~Begun(s)
<1> SUFFICES ASSUME NEW c, Scalar(c), Begins(s, c)
             PROVE  FALSE
  BY DEF Begun
<1>1. c \in Nat
  BY SMT DEF Scalar
<1> QED
  BY <1>1, Zenon DEF Nobodys

LEMMA CharactersInitially == Init => Utf8Inv
<1> SUFFICES ASSUME Init PROVE Utf8Inv
  OBVIOUS
<1>1. status = "running" /\ bytes = <<>> /\ state = Accept
  BY Zenon DEF Init
<1> QED
  BY <1>1 DEF Utf8Inv

LEMMA CharacterStepKeeps ==
    ASSUME Utf8Inv, NEW b \in Byte, Utf8Byte(b)
    PROVE  Utf8Inv'
<1>1. /\ status = "running" /\ call.kind \in Utf8Calls /\ call' = call
      /\ bytes' = Append(bytes, b) /\ b \in 0 .. 255
      /\ codep' = IF state # Accept THEN (b % 64) + codep * 64 ELSE Payload(b)
      /\ state' = NextState(state, Class(b))
  BY CodecAssumption DEF Utf8Byte, Running, DecodeByte
<1>2. status' = IF state' = Accept THEN (IF Wanted(codep') THEN "OK" ELSE "CMP")
                ELSE IF state' = Reject THEN "ENC"
                ELSE IF Len(bytes') = 4 THEN "halted"
                ELSE "running"
  BY Zenon DEF Utf8Byte
<1>3. Decided(bytes', state', codep')
  <2>1. CASE bytes = <<>> /\ state = Accept
    <3>1. bytes' = Append(<<>>, b) /\ codep' = Payload(b) /\ state' = NextState(0, Class(b))
      BY <1>1, <2>1, Zenon DEF Accept
    <3> QED
      BY <1>1, <3>1, FirstByte, Zenon
  <2>2. CASE Partial(bytes, state, codep)
    <3>1. state # Accept
      BY <2>2 DEF Partial, Accept
    <3> QED
      BY <1>1, <2>2, <3>1, NextByte, Zenon
  <2> QED
    BY <1>1, <2>1, <2>2, Zenon DEF Utf8Inv
<1>4. Wanted(codep') <=> Wanted(codep)'
  BY <1>1, Zenon DEF Wanted
<1>5. CASE state' = Accept
  <2>1. Scalar(codep') /\ bytes' = Encoding(codep')
    BY <1>3, <1>5, Zenon DEF Decided
  <2>2. status' \in {"OK", "CMP"} /\ (status' = "OK" <=> Wanted(codep)')
    BY <1>2, <1>4, <1>5
  <2> QED
    BY <2>1, <2>2 DEF Utf8Inv
<1>6. CASE state' = Reject
  <2>1. ~Begun(bytes)'
    BY <1>3, <1>6, NobodysHasNotBegun, Zenon DEF Decided
  <2>2. status' = "ENC"
    BY <1>2, <1>6 DEF Accept, Reject
  <2> QED
    BY <2>1, <2>2 DEF Utf8Inv
<1>7. CASE state' # Accept /\ state' # Reject
  <2>1. state' \in 2 .. 8
    BY <1>3, <1>7 DEF Decided, Accept, Reject
  <2>2. Partial(bytes', state', codep')
    BY <1>3, <2>1, Zenon DEF Decided
  <2>3. Len(bytes') # 4
    <3>1. Len(bytes') \in 1 .. 3
      BY <2>2, Zenon DEF Partial
    <3> QED
      BY <3>1
  <2>4. status' = "running"
    BY <1>2, <1>7, <2>3, Zenon
  <2> QED
    BY <2>2, <2>4 DEF Utf8Inv
<1> QED
  BY <1>5, <1>6, <1>7

LEMMA CharactersStep ==
    ASSUME Utf8Inv, [Next]_vars
    PROVE  Utf8Inv'
<1>1. ASSUME call' = call, call.kind \notin Utf8Calls
      PROVE  Utf8Inv'
  BY <1>1, Zenon DEF Utf8Inv
<1>2. CASE Utf8Ends
  <2>1. /\ status = "running" /\ status' = "OOB" /\ UNCHANGED <<call, bytes, state, codep, value>>
        /\ call.kind \in Utf8Calls
    BY <1>2 DEF Utf8Ends, Running
  <2>2. (bytes = <<>> /\ state = Accept) \/ Partial(bytes, state, codep)
    BY <2>1, Zenon DEF Utf8Inv
  <2>3. ((bytes = <<>> /\ state = Accept) \/ Partial(bytes, state, codep))'
    BY <2>1, <2>2, Zenon DEF Partial
  <2> QED
    BY <2>1, <2>3 DEF Utf8Inv
<1>3. CASE EncodeTurn \/ DecodeTurn \/ DecodeEnds
  <2>1. call' = call /\ call.kind \in {"encode", "decode"}
    BY <1>3 DEF EncodeTurn, DecodeTurn, DecodeEnds, Running
  <2> QED
    BY <1>1, <2>1 DEF Utf8Calls
<1>4. CASE ReadBack
  <2>1. call'.kind = "decode"
    BY <1>4 DEF ReadBack
  <2>2. call'.kind \notin Utf8Calls
    BY <2>1 DEF Utf8Calls
  <2> QED
    BY <2>2, Zenon DEF Utf8Inv
<1>5. CASE UNCHANGED vars
  <2>1. /\ call' = call /\ bytes' = bytes /\ state' = state /\ codep' = codep
        /\ status' = status
    BY <1>5 DEF vars
  <2>2. Partial(bytes, state, codep)' <=> Partial(bytes, state, codep)
    BY <2>1, Zenon
  <2>3. Begun(bytes)' <=> Begun(bytes)
    BY <2>1, Zenon
  <2>4. Wanted(codep)' <=> Wanted(codep)
    BY <2>1, Zenon DEF Wanted
  <2> QED
    BY <2>1, <2>2, <2>3, <2>4, Zenon DEF Utf8Inv
<1> QED
  BY <1>2, <1>3, <1>4, <1>5, CharacterStepKeeps DEF Next

\* For every sequence of bytes: what is accepted is a code point and its encoding,
\* what is refused begins no character, what is cut off does, and four bytes always
\* decide.  (pgc_buf_getutf8, pgc_buf_matchutf8)
THEOREM CharactersAreDecoded == Spec => []DecodesUtf8
<1>1. Utf8Inv => DecodesUtf8
  <2> SUFFICES ASSUME Utf8Inv, call.kind \in Utf8Calls
               PROVE  /\ status # "halted"
                      /\ status \in {"OK", "CMP"} =>
                            /\ Scalar(codep) /\ bytes = Encoding(codep)
                            /\ status = "OK" <=> Wanted(codep)
                      /\ status = "ENC" => ~Begun(bytes)
                      /\ status \in {"running", "OOB"} => bytes = <<>> \/ Begun(bytes)
    BY Zenon DEF DecodesUtf8
  <2>1. status \in {"running", "OOB"} => bytes = <<>> \/ Begun(bytes)
    BY CutOffHasBegun, Zenon DEF Utf8Inv
  <2> QED
    BY <2>1 DEF Utf8Inv
<1>2. Spec => []Utf8Inv
  BY CharactersInitially, CharactersStep, PTL DEF Spec
<1> QED
  BY <1>1, <1>2, PTL
==============================================================================
