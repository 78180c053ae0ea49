------------------------------ MODULE Captures ------------------------------
(***************************************************************************)
(* source/pgenc/lang/parse.c on the parser engine: building the syntax     *)
(* tree while the grammar runs.                                            *)
(*                                                                         *)
(* The functions of CALL nodes run the engine on their argument and then   *)
(* either read what it consumed (pgc_lang_readterm) or wrap what was       *)
(* captured meanwhile into a node (pgc_lang_readexp); those of some HOOK   *)
(* nodes set the tag that the next wrapped expression gets.  Trees live on *)
(* a stack of their own.                                                   *)
(*                                                                         *)
(* A CALL node has one more field here, fun: what its function reads and   *)
(* the tag it gives; a hook has one, sets: the tag it sets, or NoTag.      *)
(***************************************************************************)
EXTENDS Parser, SequencesExt

CONSTANTS
    AllocSizes,             \* the lengths of the allocator's stack
    NodeSize, CellSize,     \* sizeof(struct pgc_ast), sizeof(struct pgc_ast_lst)
    ByteBits, WordBits,     \* the bits of a uint8_t and of a uint32_t
    Digit,                  \* the value of each symbol that is a hexadecimal digit
    NoTag                   \* no tag, and what is in utag before any hook ran

Readers == {"char", "str", "utf8", "hex8", "hex32", "uint32"}

ASSUME CapturesAssumption ==
    /\ AllocSizes \subseteq Nat
    /\ ByteBits \in Nat /\ WordBits \in Nat
    /\ NodeSize \in Nat \ {0} /\ CellSize \in Nat \ {0}
    /\ \A s \in DOMAIN Digit : Digit[s] \in 0 .. 15
    /\ \A g \in Grammars : \A n \in Node :
          /\ g[n].tag = "CALL" =>
                \/ g[n].fun.kind = "exp" /\ g[n].fun.ops \subseteq {"MERGE", "POLY"}
                \/ g[n].fun.kind = "term" /\ g[n].fun.reader \in Readers

VARIABLES
    list,       \* parst->list: what has been captured, each with its lowest address
    alloc,      \* parst->alloc->offset: the allocator's free bytes
    utag,       \* parst->utag
    marks       \* the locals of the CALL functions that are active, innermost last

captureVars == <<list, alloc, utag, marks>>
allVars == <<vars, captureVars>>
-----------------------------------------------------------------------------
\* A CALL function whose pgc_par_run_ex has returned goes on before any node
\* runs: of the active runs, all but the outermost belong to a mark.
Finishing == Len(marks) = Len(bases) /\ marks # <<>>
Mark == marks[Len(marks)]
Fun == par[Mark.node].fun

Mark0(n) == [node |-> n, list |-> list, alloc |-> alloc, start |-> offset]

\* The function takes its locals away and returns.
Return(code, o, free, captured) ==
    /\ Finishing
    /\ marks' = SubSeq(marks, 1, Len(marks) - 1)
    /\ res' = code /\ offset' = o
    /\ alloc' = free /\ list' = captured
    /\ UNCHANGED <<given, frames, bases, begin, status, exhausted, utag>>
Finish(code, o, free, captured) == Return(code, o, free, captured) /\ UNCHANGED lost

\* pgc_buf_seek to where the sub-parser began refuses: that has left the window.
SeekRefused(free) ==
    /\ ~InWindow(Mark.start)
    /\ Return("OOB", offset, free, list)
    /\ lost' = TRUE

\* pgc_lang_append of a new cell for a tree: the node and the cell are pushed, and
\* stay pushed when the next push finds no room.
Capture(o, free, tree) ==
    \/ /\ free < NodeSize
       /\ Finish("OOM", o, free, list)
    \/ /\ free >= NodeSize /\ free - NodeSize < CellSize
       /\ Finish("OOM", o, free - NodeSize, list)
    \/ /\ free >= NodeSize + CellSize
       /\ LET left == free - NodeSize - CellSize
          IN  Finish("OK", o, left, Append(list, [at |-> left, tree |-> tree]))
-----------------------------------------------------------------------------
\* pgc_lang_readchar.  The cursor is left behind the character, wherever the
\* sub-parser left it.
ReadChar(start) ==
    \/ SeekRefused(alloc)
    \/ /\ InWindow(start) /\ start = Len(input)
       /\ Finish("OOB", start, alloc, list)
    \/ /\ InWindow(start) /\ start < Len(input)
       /\ Capture(start + 1, alloc, [tag |-> Fun.tag, text |-> <<input[start + 1]>>])

\* pgc_lang_readstr: room for the text and its NUL, then the text, then the node.
ReadStr(start) ==
    LET room == offset - start + 1
        text == SubSeq(input, start + 1, offset)
    IN  \/ alloc < room /\ Finish("OOM", offset, alloc, list)
        \/ alloc >= room /\ SeekRefused(alloc - room)
        \/ /\ alloc >= room /\ InWindow(start)
           /\ Capture(offset, alloc - room, [tag |-> Fun.tag, text |-> text])

\* pgc_lang_readutf8: the one code point at the start.
ReadUtf8(start) ==
    \/ SeekRefused(alloc)
    \/ /\ InWindow(start) /\ start = Len(input)
       /\ Finish("OOB", start, alloc, list)
    \/ /\ InWindow(start) /\ start < Len(input) /\ input[start + 1] \in Invalid
       /\ Finish("ENC", start, alloc, list)
    \/ /\ InWindow(start) /\ start < Len(input) /\ input[start + 1] \notin Invalid
       /\ Capture(start + 1, alloc, [tag |-> Fun.tag, text |-> <<input[start + 1]>>])

\* The number that pgc_buf_decode accumulates in w bits from the text.
IsDigit(s, base) == s \in DOMAIN Digit /\ Digit[s] < base
Decoded(text, base, w) ==
    FoldLeft(LAMBDA number, s : (number * base + Digit[s]) % 2 ^ w, 0, text)

\* pgc_lang_readenc: the node is pushed first and its cell last.
ReadEnc(start, base, w) ==
    LET text == SubSeq(input, start + 1, offset)
        free == alloc - NodeSize
    IN  \/ alloc < NodeSize /\ Finish("OOM", offset, alloc, list)
        \/ alloc >= NodeSize /\ SeekRefused(free)
        \/ /\ alloc >= NodeSize /\ InWindow(start)
           /\ \E s \in Range(text) : ~IsDigit(s, base)
           /\ Finish("ENC", start, free, list)
        \/ /\ alloc >= NodeSize /\ InWindow(start)
           /\ \A s \in Range(text) : IsDigit(s, base)
           /\ Capture(offset, alloc,
                      [tag |-> Fun.tag, num |-> Decoded(text, base, w)])

\* The end of pgc_lang_readterm: what the sub-parser consumed is read.
FinishTerm ==
    /\ Finishing /\ Fun.kind = "term"
    /\ \/ res # "OK" /\ Finish(res, offset, alloc, list)
       \/ /\ res = "OK"
          /\ CASE Fun.reader = "char"   -> ReadChar(Mark.start)
               [] Fun.reader = "str"    -> ReadStr(Mark.start)
               [] Fun.reader = "utf8"   -> ReadUtf8(Mark.start)
               [] Fun.reader = "hex8"   -> ReadEnc(Mark.start, 16, ByteBits)
               [] Fun.reader = "hex32"  -> ReadEnc(Mark.start, 16, WordBits)
               [] Fun.reader = "uint32" -> ReadEnc(Mark.start, 10, WordBits)

\* Mutant: a list of one is merged whatever the options are.
MergesAlways == Len(list) <= 1

\* Nothing or one tree was captured, and the function does not wrap that.
Merges == "MERGE" \in Fun.ops /\ Len(list) <= 1

\* Mutant: the list is put back only when the sub-parser succeeded.
ListAfterFailureKept == list

\* The list that the caller of a failed expression gets back.
ListAfterFailure == Mark.list

\* Mutant: a merged expression is put in front.
MergedInFront == list \o Mark.list

\* The caller's list with the expression that need not be wrapped.
Merged == Mark.list \o list

\* The tag of a node for an expression.
WrappedTag == IF "POLY" \in Fun.ops THEN utag ELSE Fun.tag

\* The node that wraps what was captured is captured in the caller's list.
Wrap ==
    LET tree == [tag |-> WrappedTag, kids |-> [i \in DOMAIN list |-> list[i].tree]]
        left == alloc - NodeSize - CellSize
    IN  \/ alloc < NodeSize /\ Finish("OOM", offset, alloc, Mark.list)
        \/ /\ alloc >= NodeSize /\ alloc - NodeSize < CellSize
           /\ Finish("OOM", offset, alloc - NodeSize, Mark.list)
        \/ /\ alloc >= NodeSize + CellSize
           /\ Finish("OK", offset, left, Append(Mark.list, [at |-> left, tree |-> tree]))

\* The end of pgc_lang_readexp.
FinishExp ==
    /\ Finishing /\ Fun.kind = "exp"
    /\ \/ res # "OK" /\ Finish(res, offset, Mark.alloc, ListAfterFailure)
       \/ res = "OK" /\ Merges /\ Finish("OK", offset, alloc, Merged)
       \/ res = "OK" /\ ~Merges /\ Wrap
-----------------------------------------------------------------------------
\* A CALL node: its function notes where it is and runs the engine; if there is
\* no room for that it returns the error with nothing changed.
CallFunction ==
    /\ RunCall
    /\ \/ /\ Len(bases') > Len(bases)
          /\ marks' = Append(marks, Mark0(Top.node))
          /\ list' = IF par[Top.node].fun.kind = "exp" THEN <<>> ELSE list
       \/ /\ bases' = bases
          /\ UNCHANGED <<marks, list>>
    /\ UNCHANGED <<alloc, utag>>

\* A hook of this module sets the tag.
LeafOrHook ==
    /\ RunLeaf
    /\ utag' = IF par[Top.node].tag = "HOOK" /\ par[Top.node].hook.sets # NoTag
               THEN par[Top.node].hook.sets ELSE utag
    /\ UNCHANGED <<list, alloc, marks>>

EngineStep ==
    \/ CallFunction
    \/ LeafOrHook
    \/ (Start \/ Leave \/ RunAnd \/ RunOr \/ RunRep) /\ UNCHANGED captureVars

CaptureInit ==
    /\ Init
    /\ list = <<>> /\ marks = <<>>
    /\ alloc \in AllocSizes
    /\ utag = NoTag

CaptureNext ==
    \/ ~Finishing /\ EngineStep
    \/ FinishTerm
    \/ FinishExp

CaptureSpec == CaptureInit /\ [][CaptureNext]_allVars
-----------------------------------------------------------------------------
\* The locals of the active CALL functions and the allocator are in step.
Entries(l) == Range(l)
CaptureTypeOK ==
    /\ TypeOK
    /\ alloc \in Nat
    /\ \A e \in Entries(list) : e.at \in Nat
    /\ \A i \in DOMAIN marks :
          /\ par[marks[i].node].tag = "CALL"
          /\ marks[i].alloc \in Nat /\ marks[i].start \in Nat
          /\ marks[i].start <= offset
    /\ Len(marks) <= Len(bases)
    /\ status = "running" => Len(marks) >= Len(bases) - 1

\* No tree that can still be reached was freed: what is in the list, or in one
\* that a waiting pgc_lang_readexp puts back, lies in the allocator's used part,
\* and what such a function would free is none of what its caller has captured.
NothingFreed ==
    /\ \A e \in Entries(list) : alloc <= e.at
    /\ \A i \in DOMAIN marks :
          /\ alloc <= marks[i].alloc
          /\ \A e \in Entries(marks[i].list) : marks[i].alloc <= e.at

=============================================================================
