----------------------------- MODULE ByteStream -----------------------------
(***************************************************************************)
(* What a struct pgc_buf promises its callers, with no storage in it: a    *)
(* stream of bytes that only grows at its end, a window  low .. len - 1    *)
(* of it that can still be read, a cursor in that window, and the reply    *)
(* to the last call.  At most Max bytes are kept; what lies before the     *)
(* cursor is given up only when a call asks for room that is not there.    *)
(*                                                                         *)
(* Buffer.tla implements this module.                                      *)
(***************************************************************************)
EXTENDS Integers

CONSTANTS
    Byte,       \* the byte values
    Digit,      \* those a decode dictionary knows
    Max,        \* bytes kept at most
    MaxChunk,   \* bound: the largest count one call asks for
    MaxEnd      \* bound: the stream is never longer

VARIABLES
    low,        \* first position still readable
    cursor,     \* position of the next byte read
    len,        \* bytes appended since the beginning
    window,     \* the readable bytes, by position
    asked,      \* the last call, with its argument
    reply       \* what it returned: a code and the bytes handed out

streamVars == <<low, cursor, len, window, asked, reply>>

Chunk(n) == [0 .. n - 1 -> Byte]
Nothing  == [k \in {} |-> k]
Slice(p, n) == [k \in 0 .. n - 1 |-> window[p + k]]
Asked(call, arg) == asked' = <<call, arg>>
Answer(code, data) == reply' = [code |-> code, data |-> data]

StreamInit ==
    /\ low = 0 /\ cursor = 0
    /\ len \in 0 .. Max
    /\ window \in Chunk(len)
    /\ asked = <<"init", len>>
    /\ reply = [code |-> "OK", data |-> Nothing]

\* Room for n more bytes exists once the consumed ones are given up, which
\* happens when it has to and only then.
Room(n) == len + n - cursor <= Max
Keep(n) == IF len + n - low <= Max THEN low ELSE cursor

\* r bytes arrive at the end, and what lies before position b is given up.
Extend(b, r, c) ==
    /\ len' = len + r
    /\ low' = b
    /\ window' = [i \in b .. len + r - 1 |->
                    IF i < len THEN window[i] ELSE c[i - len]]

\* r bytes arrive out of the n that room was made for.
Arrive(n, r, c) == Extend(Keep(n), r, c)

Refuse(code) ==
    /\ Answer(code, Nothing)
    /\ UNCHANGED <<low, cursor, len, window>>

\* An append of exactly n bytes.
Append(n) ==
    \/ ~Room(n) /\ Refuse("OOB")
    \/ /\ Room(n)
       /\ \E c \in Chunk(n) : Arrive(n, n, c)
       /\ Answer("OK", Nothing)
       /\ UNCHANGED cursor

\* An append of at most n bytes from a source that can run dry or fail; then
\* nothing arrives, though the consumed bytes may be gone.
Fill(n) ==
    \/ ~Room(n) /\ Refuse("OOB")
    \/ /\ Room(n)
       /\ \/ /\ \E r \in 0 .. n : \E c \in Chunk(r) : Arrive(n, r, c)
             /\ Answer("OK", Nothing)
          \/ /\ Arrive(n, 0, Nothing)
             /\ \E code \in {"EOF", "SYS", "USER"} : Answer(code, Nothing)
       /\ UNCHANGED cursor

\* The cursor moves to any readable position and to no other.
Move(p) ==
    \/ ~(low <= p /\ p <= len) /\ Refuse("OOB")
    \/ /\ low <= p /\ p <= len
       /\ cursor' = p
       /\ Answer("OK", Nothing)
       /\ UNCHANGED <<low, len, window>>

\* The next n bytes are handed out.
Consume(n) ==
    \/ cursor + n > len /\ Refuse("OOB")
    \/ /\ cursor + n <= len
       /\ cursor' = cursor + n
       /\ Answer("OK", Slice(cursor, n))
       /\ UNCHANGED <<low, len, window>>

\* The next n bytes are handed out as the digits of a number; the first that is
\* no digit ends the call, with those before it handed out and the cursor kept.
Number(n) ==
    \/ /\ cursor + n <= len
       /\ \E k \in 0 .. n - 1 :
             /\ \A j \in 0 .. k - 1 : window[cursor + j] \in Digit
             /\ window[cursor + k] \notin Digit
             /\ Answer("ENC", Slice(cursor, k))
       /\ UNCHANGED <<low, cursor, len, window>>
    \/ /\ cursor + n <= len => \A k \in 0 .. n - 1 : window[cursor + k] \in Digit
       /\ Consume(n)

\* Up to n bytes are handed to a sink; when it fails, what it took was handed
\* out all the same and the cursor stays.
Send(n) ==
    \/ cursor + n > len /\ Refuse("OOB")
    \/ /\ cursor + n <= len
       /\ \E r \in 0 .. n :
             \/ cursor' = cursor + r /\ Answer("OK", Slice(cursor, r))
             \/ /\ \E code \in {"SYS", "USER"} : Answer(code, Slice(cursor, r))
                /\ UNCHANGED cursor
       /\ UNCHANGED <<low, len, window>>

\* The next byte is stepped over when it is one of P.
MatchOne(P) ==
    \/ cursor = len /\ Refuse("OOB")
    \/ cursor < len /\ window[cursor] \notin P /\ Refuse("CMP")
    \/ /\ cursor < len /\ window[cursor] \in P
       /\ cursor' = cursor + 1
       /\ Answer("OK", Nothing)
       /\ UNCHANGED <<low, len, window>>

\* The next n bytes are compared and stepped over when they are c.
Compare(n, c) ==
    \/ cursor + n > len /\ Refuse("OOB")
    \/ cursor + n <= len /\ Slice(cursor, n) # c /\ Refuse("CMP")
    \/ /\ cursor + n <= len /\ Slice(cursor, n) = c
       /\ cursor' = cursor + n
       /\ Answer("OK", Nothing)
       /\ UNCHANGED <<low, len, window>>

\* A text of n bytes arrives whole or not at all, and consumed bytes are given up
\* either way.  Only when it takes the last room may its last byte be another one
\* (vsnprintf wants that place for its NUL).
Printf(n, c) ==
    /\ \/ ~Room(n) /\ Extend(cursor, 0, Nothing) /\ Answer("OOB", Nothing)
       \/ Extend(cursor, 0, Nothing) /\ Answer("SYS", Nothing)
       \/ /\ Room(n)
          /\ \E d \in Chunk(n) :
                /\ \A k \in 0 .. n - 1 :
                      d[k] = c[k] \/ (k = n - 1 /\ len + n - cursor = Max)
                /\ Extend(cursor, n, d)
          /\ Answer("OK", Nothing)
    /\ UNCHANGED cursor

\* A number whose digits come as c, the least significant first, arrives with the
\* most significant one first.  When consumed bytes had to be given up for it, only
\* the count of what arrives is promised: the code stores the digits elsewhere then.
Encode(n, c) ==
    /\ \/ ~Room(n) /\ Extend(cursor, 0, Nothing) /\ Answer("OOB", Nothing)
       \/ \E k \in 1 .. n : Room(k) /\ Arrive(k, 0, Nothing) /\ Answer("ENC", Nothing)
       \/ /\ Room(n)
          /\ \E d \in Chunk(n) :
                /\ Keep(n) = low => \A k \in 0 .. n - 1 : d[k] = c[n - 1 - k]
                /\ Arrive(n, n, d)
          /\ Answer("OK", Nothing)
    /\ UNCHANGED cursor

\* The next n bytes are lent to a second reader.
Lend(n) ==
    /\ cursor + n <= len
    /\ Answer("OK", Nothing)
    /\ UNCHANGED <<low, cursor, len, window>>

\* The next occurrence of c is stepped over; without one, no byte that could
\* begin one is.  (buffer.h promises the cursor at its beginning instead, which
\* the code does not keep: Buffer!ScanStopsAtMatch is that promise, and fails.)
Find(n, c) ==
    LET hits == {p \in cursor .. len - n : Slice(p, n) = c}
    IN  /\ \/ \E p \in hits : /\ \A q \in hits : p <= q
                              /\ cursor' = p + n
                              /\ Answer("OK", Nothing)
           \/ /\ hits = {}
              /\ cursor' = IF cursor + n > len THEN cursor ELSE len - n + 1
              /\ Answer("OOB", Nothing)
        /\ UNCHANGED <<low, len, window>>

StreamNext ==
    \/ \E n \in 0 .. MaxChunk :
          \/ Asked("append", n) /\ Append(n)
          \/ Asked("fill", n) /\ Fill(n)
          \/ Asked("consume", n) /\ Consume(n)
          \/ Asked("number", n) /\ Number(n)
          \/ Asked("send", n) /\ Send(n)
          \/ \E c \in Chunk(n) : \/ Asked("compare", c) /\ Compare(n, c)
                                 \/ Asked("find", c) /\ Find(n, c)
                                 \/ Asked("print", c) /\ Printf(n, c)
                                 \/ Asked("encode", c) /\ Encode(n, c)
          \/ Asked("lens", n) /\ Lend(n)
    \/ \E P \in SUBSET Byte : Asked("match", P) /\ MatchOne(P)
    \/ \E p \in 0 .. MaxEnd + 1 : Asked("move", p) /\ Move(p)

StreamSpec == StreamInit /\ [][StreamNext]_streamVars
=============================================================================
