----------------------------- MODULE BufferLens -----------------------------
(***************************************************************************)
(* pgc_buf_lens of source/pgenc/buffer.c: a second buffer over the next     *)
(* bytes of a first one, its source.  It has no storage of its own and      *)
(* nothing tells it what happens to that of the source, which is filled,    *)
(* printed to and compacted while the lens is in use.                       *)
(*                                                                         *)
(* A lens is there to read: a call that fills it would store into the       *)
(* window of the source, and is not modelled.                               *)
(***************************************************************************)
EXTENDS BufferText

VARIABLE lens       \* <<>>, or a lens: the index at which its storage begins in that
                    \* of the source, and (history) the bytes it was taken for

lensVars == <<begin, offset, end, mem, asked, reply, overrun, lens>>
LensView == <<TextView, lens>>

\* Mutant: the address is that of the offset, not of the byte at the offset.
LensAtOffset(n) ==
    /\ n <= end - offset
    /\ lens' = <<[at |-> offset, bytes |-> Bytes(offset, n)]>>
    /\ Return("OK", Nothing)
    /\ UNCHANGED <<begin, offset, end, mem, overrun>>

\* A lens of n bytes from the offset on.  More than there are fails an assertion.
Lens(n) ==
    /\ n <= end - offset
    /\ lens' = <<[at |-> offset - begin, bytes |-> Bytes(offset, n)]>>
    /\ Return("OK", Nothing)
    /\ UNCHANGED <<begin, offset, end, mem, overrun>>

\* Any other call is one on the source.  When it compacts, whoever has a lens must
\* take another.
OnSource ==
    /\ TextNext
    /\ lens' = IF begin' = begin THEN lens ELSE <<>>

LensInit == TextInit /\ lens = <<>>
LensNext ==
    \/ OnSource
    \/ \E n \in 1 .. MaxChunk : Asked("lens", n) /\ Lens(n)

LensSpec == LensInit /\ [][LensNext]_lensVars
-----------------------------------------------------------------------------
\* As long as the source has not been compacted its lens shows the bytes that the
\* source had at its offset, whatever was read, appended, printed or encoded since,
\* also by calls that failed half-way.  (A compaction moves the bytes away under it.)
LensShowsSource ==
    \A i \in DOMAIN lens : \A k \in DOMAIN lens[i].bytes :
        mem[lens[i].at + k] = lens[i].bytes[k]
=============================================================================
