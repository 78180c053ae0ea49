----------------------------- MODULE BufferText -----------------------------
(***************************************************************************)
(* The two calls of source/pgenc/buffer.c that write text in place: vprintf *)
(* and encode.  They do not go through the append path of Buffer.tla: one   *)
(* compacts always and lets vsnprintf end the text with a NUL, the other    *)
(* computes its address once and ensures the room digit by digit.           *)
(***************************************************************************)
EXTENDS Buffer

CONSTANT Nul                \* the byte vsnprintf ends its output with

ASSUME TextAssumption == Nul \in Byte /\ Nul \notin Digit

VARIABLE overrun            \* a byte was stored behind the storage

textVars == <<begin, offset, end, mem, asked, reply, overrun>>
TextView == <<View, overrun>>

Smaller(i, j) == IF i < j THEN i ELSE j
Text(n) == [0 .. n - 1 -> Byte \ {Nul}]
Reversed(n, c) == [k \in 0 .. n - 1 |-> c[n - 1 - k]]
-----------------------------------------------------------------------------
\* pgc_buf_vprintf of a text c of n bytes.  The unread bytes are moved to the
\* start; vsnprintf keeps at most room - 1 bytes, puts a NUL behind them and
\* returns n, or fails after some of them; only n > room counts as truncated.
VPrintf(n, c) ==
    LET unread == end - offset
        room == Max - unread
        kept == Smaller(n, room - 1)
    IN  /\ begin' = offset
        /\ \/ /\ mem' = IF room = 0 THEN Backcopy
                        ELSE Store(Store(Backcopy, unread, kept, c),
                                   unread + kept, 1, [k \in 0 .. 0 |-> Nul])
              /\ \/ n > room /\ end' = end /\ Return("OOB", Nothing)
                 \/ n <= room /\ end' = end + n /\ Return("OK", Nothing)
           \/ /\ \E r \in 0 .. n : (r = 0 \/ r < room) /\ mem' = Store(Backcopy, unread, r, c)
              /\ end' = end
              /\ Return("SYS", Nothing)
        /\ UNCHANGED <<offset, overrun>>

\* pgc_buf_encode of a number whose n digits come out as c, the least
\* significant first.  Room is ensured for one digit more at each turn, so the
\* window may be compacted under the digits, but they are all stored at the
\* address taken before the first turn, and reversed there.  The dictionary may
\* refuse any of the digits.
Encode(n, c) ==
    LET at == end - begin
        room == Max - (end - offset)
        Digits(k) == begin' = EnsuredBegin(k) /\ overrun' = (overrun \/ at + k > Max)
    IN  /\ \/ /\ room < n
              /\ Digits(room)
              /\ mem' = Store(EnsuredMem(room), at, room, c)
              /\ end' = end
              /\ Return("OOB", Nothing)
           \/ \E k \in 1 .. Smaller(n, room) :
              /\ begin' = EnsuredBegin(k)
              /\ overrun' = (overrun \/ at + k - 1 > Max)
              /\ mem' = Store(EnsuredMem(k), at, k - 1, c)
              /\ end' = end
              /\ Return("ENC", Nothing)
           \/ /\ n <= room
              /\ Digits(n)
              /\ mem' = Store(EnsuredMem(n), at, n, Reversed(n, c))
              /\ end' = end + n
              /\ Return("OK", Nothing)
        /\ UNCHANGED offset

TextInit == Init /\ overrun = FALSE
TextNext ==
    \/ Next /\ UNCHANGED overrun
    \/ \E n \in 0 .. MaxChunk :
          /\ end + n <= MaxEnd
          /\ \/ \E c \in Text(n) : Asked("print", c) /\ VPrintf(n, c)
             \/ n > 0 /\ \E c \in [0 .. n - 1 -> Digit] : Asked("encode", c) /\ Encode(n, c)

TextSpec == TextInit /\ [][TextNext]_textVars
-----------------------------------------------------------------------------
\* buffer.h:306 of pgc_buf_encode: an attempt to write past the end of the
\* buffer is refused.  (The code computes the address before it compacts, and
\* goes on to store behind the storage.)
EncodeStaysInStorage == ~overrun
=============================================================================
