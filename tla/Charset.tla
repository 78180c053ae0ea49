------------------------------ MODULE Charset ------------------------------
(***************************************************************************)
(* source/pgenc/charset.c: sets of characters as words of bits.            *)
(*                                                                         *)
(* The program has a few sets at addresses and calls the operations with   *)
(* any of them; the destination may be an argument too.  The loops over    *)
(* all characters read the arguments while they write the destination, so  *)
(* each turn is a step.                                                    *)
(***************************************************************************)
EXTENDS Integers

CONSTANTS
    Address,                \* where the program's sets are
    WordCount, WordBits,    \* the words of a set and the bits of a word
    Predicates              \* the characters of each predicate of pgc_cset_iso

Size == WordCount * WordBits
Char == 0 .. Size - 1

ASSUME CharsetAssumption ==
    /\ WordCount \in Nat \ {0} /\ WordBits \in Nat \ {0}
    /\ Predicates \subseteq SUBSET Char

VARIABLES
    words,      \* the bits that are set, in each word of the set at an address
    call,       \* the last call, and the character its loop has come to
    before      \* history: the members of all sets when it was made

vars == <<words, call, before>>
-----------------------------------------------------------------------------
\* struct pgc_cset
Words == [0 .. WordCount - 1 -> SUBSET (0 .. WordBits - 1)]

\* Mutant: the character is not masked.
BitOfWhole(c) == c

\* c >> 5 and c & 31
WordOf(c) == c \div WordBits
BitOf(c) == c % WordBits

\* pgc_cset_in
In(set, c) == BitOf(c) \in set[WordOf(c)]

\* pgc_cset_set, pgc_cset_unset, pgc_cset_zero
With(set, c) == [set EXCEPT ![WordOf(c)] = @ \cup {BitOf(c)}]
Without(set, c) == [set EXCEPT ![WordOf(c)] = @ \ {BitOf(c)}]
Zero == [w \in 0 .. WordCount - 1 |-> {}]

Members(set) == {c \in Char : In(set, c)}

\* Mutant: the loop writes into what the destination held.
ClearedNot(dest) == words

\* The destination is cleared, the rest is as it was.
Cleared(dest) == [words EXCEPT ![dest] = Zero]
-----------------------------------------------------------------------------
Idle == call.c = Size

\* A call that is made when no other one runs.
Made(op, dest, fst, snd, arg, c) ==
    /\ Idle
    /\ call' = [op |-> op, dest |-> dest, fst |-> fst, snd |-> snd, arg |-> arg, c |-> c]
    /\ before' = [a \in Address |-> Members(words[a])]

\* pgc_cset_zero, pgc_cset_cpy, pgc_cset_set, pgc_cset_unset
ZeroAll(dest) ==
    /\ Made("zero", dest, dest, dest, {}, Size)
    /\ words' = Cleared(dest)
Copy(dest, src) ==
    /\ Made("cpy", dest, src, src, {}, Size)
    /\ words' = [words EXCEPT ![dest] = words[src]]
SetOne(dest, c) ==
    /\ Made("set", dest, dest, dest, {c}, Size)
    /\ words' = [words EXCEPT ![dest] = With(words[dest], c)]
UnsetOne(dest, c) ==
    /\ Made("unset", dest, dest, dest, {c}, Size)
    /\ words' = [words EXCEPT ![dest] = Without(words[dest], c)]

\* pgc_cset_isect, pgc_cset_union, pgc_cset_diff, pgc_cset_iso: the destination is
\* cleared first.
BeginCombine(op, dest, fst, snd) ==
    /\ Made(op, dest, fst, snd, {}, 0)
    /\ words' = Cleared(dest)
BeginIso(dest, pred) ==
    /\ Made("iso", dest, dest, dest, pred, 0)
    /\ words' = Cleared(dest)

\* The condition of the loop, on the sets as they are by then.
Chosen(c) ==
    LET fst == In(words[call.fst], c)
        snd == In(words[call.snd], c)
    IN  \/ call.op = "isect" /\ fst /\ snd
        \/ call.op = "union" /\ (fst \/ snd)
        \/ call.op = "diff" /\ fst /\ ~snd
        \/ call.op = "iso" /\ c \in call.arg

\* PGC_CSET_FOR
Turn ==
    /\ ~Idle
    /\ words' = IF Chosen(call.c)
                THEN [words EXCEPT ![call.dest] = With(words[call.dest], call.c)]
                ELSE words
    /\ call' = [call EXCEPT !.c = call.c + 1]
    /\ UNCHANGED before

Init ==
    /\ words = [a \in Address |-> Zero]
    /\ \E a \in Address :
          call = [op |-> "zero", dest |-> a, fst |-> a, snd |-> a, arg |-> {}, c |-> Size]
    /\ before = [a \in Address |-> {}]

One == \E dest \in Address :
    \/ ZeroAll(dest)
    \/ \E src \in Address : Copy(dest, src)
    \/ \E c \in Char : SetOne(dest, c) \/ UnsetOne(dest, c)
Loops == \E dest \in Address :
    \/ \E op \in {"isect", "union", "diff"}, fst, snd \in Address :
          BeginCombine(op, dest, fst, snd)
    \/ \E pred \in Predicates : BeginIso(dest, pred)

Next == One \/ Loops \/ Turn

Spec == Init /\ [][Next]_vars
-----------------------------------------------------------------------------
TypeOK ==
    /\ words \in [Address -> Words]
    /\ before \in [Address -> SUBSET Char]
    /\ call \in [op : {"zero", "cpy", "set", "unset", "isect", "union", "diff", "iso"},
                 dest : Address, fst : Address, snd : Address,
                 arg : SUBSET Char, c : 0 .. Size]

\* The set that charset.h says a call constructs, of the sets as they were before it.
Result ==
    CASE call.op = "zero"  -> {}
      [] call.op = "cpy"   -> before[call.fst]
      [] call.op = "set"   -> before[call.dest] \cup call.arg
      [] call.op = "unset" -> before[call.dest] \ call.arg
      [] call.op = "iso"   -> call.arg
      [] call.op = "isect" -> before[call.fst] \cap before[call.snd]
      [] call.op = "union" -> before[call.fst] \cup before[call.snd]
      [] call.op = "diff"  -> before[call.fst] \ before[call.snd]

\* The destination is no argument of the loop.  (charset.h:70-105 does not ask for
\* that, but the loops clear the destination first, and with it such an argument.)
Apart ==
    call.op \in {"isect", "union", "diff"} => call.dest \notin {call.fst, call.snd}

\* Each operation leaves every set but its destination alone, and in the destination
\* the set it is for, where the destination is apart from the arguments; on the way
\* that has its members below the character that the loop has come to.
\* (pgc_cset_*, PGC_CSET_FOR)
Computes ==
    \A a \in Address :
        IF a = call.dest
        THEN Apart => Members(words[a]) = {c \in Result : c < call.c}
        ELSE Members(words[a]) = before[a]

=============================================================================
