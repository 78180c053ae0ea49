------------------------------- MODULE Buffer -------------------------------
(***************************************************************************)
(* source/pgenc/buffer.c: the I/O buffer every parser reads from.          *)
(*                                                                         *)
(* begin, offset and end count bytes of the stream since pgc_buf_init; the *)
(* byte at position i is kept in mem[i - begin].  A call that needs room   *)
(* compacts: the unread bytes are moved to the start of the storage and    *)
(* begin becomes offset (PGC_BUF_ENSURE).  One action is one call.         *)
(*                                                                         *)
(* vprintf and encode are in BufferText.tla, a second buffer over the      *)
(* bytes of this one in BufferLens.tla, with the specification of it all.  *)
(***************************************************************************)
EXTENDS Integers

CONSTANTS
    Byte,       \* the byte values
    Digit,      \* those a decode dictionary knows
    Junk,       \* what storage holds before it is written
    Max,        \* buf->max, the length of the storage
    MaxChunk,   \* bound: the largest count a call is given
    MaxEnd      \* bound: buf->end never passes it

ASSUME BufferAssumption ==
    /\ Max \in Nat /\ MaxChunk \in Nat \ {0} /\ MaxEnd \in Nat
    /\ Digit \subseteq Byte
    /\ Junk \notin Byte

VARIABLES
    begin, offset, end,     \* the fields of struct pgc_buf
    mem,                    \* the storage at buf->addr
    asked,                  \* history: the last call, with its argument
    reply                   \* its error code, and the bytes it copied out

vars == <<begin, offset, end, mem, asked, reply>>
\* What the next call depends on.
View == <<begin, offset, end, mem>>

Codes == {"OK", "OOB", "CMP", "ENC", "EOF", "SYS", "USER"}
Chunk(n) == [0 .. n - 1 -> Byte]
Nothing == [k \in {} |-> k]
Storage == [0 .. Max - 1 -> Byte \cup {Junk}]

Asked(call, arg) == asked' = <<call, arg>>
Return(code, data) == reply' = [code |-> code, data |-> data]
Fail(code) == Return(code, Nothing) /\ UNCHANGED <<begin, offset, end, mem>>
-----------------------------------------------------------------------------
\* memcpy(addr + at, c, n); storage ends at Max.
Store(m, at, n, c) ==
    [k \in 0 .. Max - 1 |-> IF at <= k /\ k < at + n THEN c[k - at] ELSE m[k]]

\* The n bytes from position p on, read at addr + (p - begin).
Bytes(p, n) == [k \in 0 .. n - 1 |-> mem[p - begin + k]]

\* Mutant: the byte count of the move is off by one.
BackcopyShort ==
    [k \in 0 .. Max - 1 |->
        IF k < end - offset - 1 THEN mem[k + (offset - begin)] ELSE mem[k]]

\* pgc_buf_backcopy: what memmove leaves in the storage.
Backcopy ==
    [k \in 0 .. Max - 1 |->
        IF k < end - offset THEN mem[k + (offset - begin)] ELSE mem[k]]

\* Mutant: the capacity test is off by one.
FitsOneMore(n) == end + n - offset <= Max + 1

\* PGC_BUF_ENSURE(b, end + n): whether n more bytes fit, and the begin and the
\* storage the call goes on with when they do.
Fits(n) == end + n - offset <= Max
Compacts(n) == Max < end + n - begin
EnsuredBegin(n) == IF Compacts(n) THEN offset ELSE begin
EnsuredMem(n) == IF Compacts(n) THEN Backcopy ELSE mem

\* The first r bytes of a chunk land behind the window, after room for n of
\* them was ensured.
Fill(n, r, c) ==
    /\ begin' = EnsuredBegin(n)
    /\ mem' = Store(EnsuredMem(n), end - EnsuredBegin(n), r, c)
    /\ UNCHANGED offset

Available(n) == offset + n <= end
-----------------------------------------------------------------------------
\* pgc_buf_init over storage whose first end bytes are already written.
Init ==
    /\ begin = 0 /\ offset = 0
    /\ end \in 0 .. Max
    /\ \E c \in Chunk(end) :
          mem = [k \in 0 .. Max - 1 |-> IF k < end THEN c[k] ELSE Junk]
    /\ asked = <<"init", end>>
    /\ reply = [code |-> "OK", data |-> Nothing]

Seek(p) ==
    \/ ~(begin <= p /\ p <= end) /\ Fail("OOB")
    \/ /\ begin <= p /\ p <= end
       /\ offset' = p
       /\ Return("OK", Nothing)
       /\ UNCHANGED <<begin, end, mem>>

Put(n, c) ==
    \/ ~Fits(n) /\ Fail("OOB")
    \/ /\ Fits(n) /\ end + n <= MaxEnd
       /\ Fill(n, n, c)
       /\ end' = end + n
       /\ Return("OK", Nothing)

Get(n) ==
    \/ ~Available(n) /\ Fail("OOB")
    \/ /\ Available(n)
       /\ offset' = offset + n
       /\ Return("OK", Bytes(offset, n))
       /\ UNCHANGED <<begin, end, mem>>

GetChar == Get(1)

Cmp(n, c) ==
    \/ ~Available(n) /\ Fail("OOB")
    \/ Available(n) /\ Bytes(offset, n) # c /\ Fail("CMP")
    \/ /\ Available(n) /\ Bytes(offset, n) = c
       /\ offset' = offset + n
       /\ Return("OK", Nothing)
       /\ UNCHANGED <<begin, end, mem>>

\* P holds the bytes the predicate accepts.
Match(P) ==
    \/ ~Available(1) /\ Fail("OOB")
    \/ Available(1) /\ mem[offset - begin] \notin P /\ Fail("CMP")
    \/ /\ Available(1) /\ mem[offset - begin] \in P
       /\ offset' = offset + 1
       /\ Return("OK", Nothing)
       /\ UNCHANGED <<begin, end, mem>>

\* Mutant: after a mismatch the whole compared chunk is skipped.
ScanByChunks(n, c) ==
    LET hits == {p \in offset .. end - n :
                    Bytes(p, n) = c /\ (n > 0 => (p - offset) % n = 0)}
    IN  /\ \/ \E p \in hits : /\ \A q \in hits : p <= q
                              /\ offset' = p + n
                              /\ Return("OK", Nothing)
           \/ /\ hits = {}
              /\ offset' = IF Available(n) THEN end - n + 1 ELSE offset
              /\ Return("OOB", Nothing)
        /\ UNCHANGED <<begin, end, mem>>

\* The loop of cmp and seek(beg + 1): it stops behind the first match, or at
\* the first position where fewer than n bytes are left.
Scan(n, c) ==
    LET hits == {p \in offset .. end - n : Bytes(p, n) = c}
    IN  /\ \/ \E p \in hits : /\ \A q \in hits : p <= q
                              /\ offset' = p + n
                              /\ Return("OK", Nothing)
           \/ /\ hits = {}
              /\ offset' = IF Available(n) THEN end - n + 1 ELSE offset
              /\ Return("OOB", Nothing)
        /\ UNCHANGED <<begin, end, mem>>

\* The callback stores r bytes and returns r, or stores some and returns a
\* negative code of its own.
CbRead(n) ==
    \/ ~Fits(n) /\ Fail("OOB")
    \/ /\ Fits(n) /\ end + n <= MaxEnd
       /\ \E r \in 0 .. n : \E c \in Chunk(r) :
             /\ Fill(n, r, c)
             /\ \/ end' = end + r /\ Return("OK", Nothing)
                \/ end' = end /\ Return("USER", Nothing)

\* Mutant: a short read counts for all the bytes that were asked for.
FReadWhole(n) ==
    \/ ~Fits(n) /\ Fail("OOB")
    \/ /\ Fits(n) /\ end + n <= MaxEnd
       /\ \E r \in 0 .. n : \E c \in Chunk(r) :
             /\ Fill(n, r, c)
             /\ \/ end' = end /\ Return("SYS", Nothing)
                \/ r = 0 /\ end' = end /\ Return("EOF", Nothing)
                \/ (r > 0 \/ n = 0) /\ end' = end + n /\ Return("OK", Nothing)

\* fread stores r bytes.  The error indicator is looked at first, then the end
\* of the file, which counts only when nothing came.
FRead(n) ==
    \/ ~Fits(n) /\ Fail("OOB")
    \/ /\ Fits(n) /\ end + n <= MaxEnd
       /\ \E r \in 0 .. n : \E c \in Chunk(r) :
             /\ Fill(n, r, c)
             /\ \/ end' = end /\ Return("SYS", Nothing)
                \/ r = 0 /\ end' = end /\ Return("EOF", Nothing)
                \/ (r > 0 \/ n = 0) /\ end' = end + r /\ Return("OK", Nothing)

\* The sink takes r of the n bytes; a negative result leaves the cursor.
CbWrite(n) ==
    \/ ~Available(n) /\ Fail("OOB")
    \/ /\ Available(n)
       /\ \E r \in 0 .. n :
             \/ offset' = offset + r /\ Return("OK", Bytes(offset, r))
             \/ offset' = offset /\ Return("USER", Bytes(offset, r))
       /\ UNCHANGED <<begin, end, mem>>

\* fwrite is short only when it fails.
FWrite(n) ==
    \/ ~Available(n) /\ Fail("OOB")
    \/ /\ Available(n)
       /\ \/ offset' = offset + n /\ Return("OK", Bytes(offset, n))
          \/ /\ \E r \in 0 .. n : Return("SYS", Bytes(offset, r))
             /\ UNCHANGED offset
       /\ UNCHANGED <<begin, end, mem>>

\* The digits are accumulated one by one; the first byte the dictionary does
\* not know ends the call with those before it accumulated.
Decode(n) ==
    \/ ~Available(n) /\ Fail("OOB")
    \/ /\ Available(n)
       /\ \/ /\ \A k \in 0 .. n - 1 : mem[offset - begin + k] \in Digit
             /\ offset' = offset + n
             /\ Return("OK", Bytes(offset, n))
          \/ /\ \E k \in 0 .. n - 1 :
                   /\ mem[offset - begin + k] \notin Digit
                   /\ \A j \in 0 .. k - 1 : mem[offset - begin + j] \in Digit
                   /\ Return("ENC", Bytes(offset, k))
             /\ UNCHANGED offset
       /\ UNCHANGED <<begin, end, mem>>

Next ==
    \/ \E p \in 0 .. MaxEnd + 1 : Asked("move", p) /\ Seek(p)
    \/ \E n \in 0 .. MaxChunk :
          \/ Asked("consume", n) /\ Get(n)
          \/ Asked("fill", n) /\ (CbRead(n) \/ FRead(n))
          \/ Asked("send", n) /\ (CbWrite(n) \/ FWrite(n))
          \/ Asked("number", n) /\ Decode(n)
          \/ \E c \in Chunk(n) : \/ Asked("append", n) /\ Put(n, c)
                                 \/ Asked("compare", c) /\ Cmp(n, c)
                                 \/ Asked("find", c) /\ Scan(n, c)
    \/ Asked("consume", 1) /\ GetChar
    \/ \E P \in SUBSET Byte : Asked("match", P) /\ Match(P)

\* Only appends and scans.
ScanSpec ==
    /\ Init
    /\ [][\E n \in 1 .. MaxChunk : \E c \in Chunk(n) :
             \/ Asked("append", n) /\ Put(n, c)
             \/ Asked("find", c) /\ Scan(n, c)]_vars
-----------------------------------------------------------------------------
\* The fields, the storage and the reply have their types, and the fields lie
\* as the comment on struct pgc_buf (buffer.h:10-14) says: begin <= offset, and
\* end - begin <= max.
TypeOK ==
    /\ begin \in Nat /\ offset \in Nat /\ end \in Nat
    /\ begin <= offset /\ offset <= end /\ end - begin <= Max
    /\ mem \in Storage
    /\ reply.code \in Codes

\* Every position of the window holds a byte that some call stored, whatever
\* mix of appends, short reads, failed reads, compactions and seeks came before.
WindowWritten == \A k \in 0 .. end - begin - 1 : mem[k] \in Byte

\* No call, not even one that fails, changes a byte that is still readable
\* after it; and no call makes an unread byte unreadable.
BytesSurvive ==
    [][/\ begin <= begin' /\ begin' <= offset
       /\ end <= end'
       /\ \A i \in begin' .. end - 1 : mem'[i - begin'] = mem[i - begin]]_vars

\* The buffer implements the storage-free stream: every reply, every byte
\* handed out or taken in and every refusal is the stream's, and consumed bytes are
\* given up only by a call that needs their room, or by one that prints.
Window == [i \in begin .. end - 1 |-> mem[i - begin]]
Stream == INSTANCE ByteStream WITH
             low <- begin, cursor <- offset, len <- end, window <- Window
ImplementsStream == Stream!StreamSpec

\* buffer.h:163-164 of pgc_buf_scan: after a scan that found the sequence, the
\* offset is at the beginning of the match.  (The code leaves it behind the match.)
ScanStopsAtMatch ==
    \A n \in 1 .. MaxChunk : \A c \in Chunk(n) :
        asked = <<"find", c>> /\ reply.code = "OK" =>
            offset + n <= end /\ Bytes(offset, n) = c
=============================================================================
