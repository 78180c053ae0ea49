------------------------------- MODULE Syntax -------------------------------
(***************************************************************************)
(* source/pgenc/syntax.c and the lists of source/pgenc/ast.c: syntax trees *)
(* as nodes and cells in the memory of malloc, built, searched, printed    *)
(* and freed.                                                              *)
(*                                                                         *)
(* The calls that build a tree are instructions of a program, like the     *)
(* body of pgc_lang_proto: each takes its arguments from values, the       *)
(* program's temporaries, and leaves its result there.                     *)
(***************************************************************************)
EXTENDS Integers, Sequences, FiniteSets, SequencesExt

CONSTANTS
    Programs,       \* instructions that leave one tree, a source, what there is
                    \* before each of them and in the end, and that source
    Names, Indices, \* the names and places of statements that are looked for
    SymbolOf        \* the symbol of each digit, 0 .. 15

VARIABLES
    program,        \* the program
    code,           \* its instructions that are still to be executed
    values,         \* addresses of the trees and lists it holds
    heap,           \* the nodes and cells that malloc returned and free has not got
    loop,           \* the locals of pgc_ast_rev or pgc_ast_cat while one runs
    status,         \* "building", "using", "printing", "freeing", "freed", "halted"
    answer,         \* the last result of pgc_syn_findstmt or pgc_ast_at
    todo,           \* texts and nodes that pgc_syn_fprint has still to print
    out,            \* the symbols printed
    res,            \* what pgc_syn_fprint returned: "none" yet, "OK" or "IO" (-1)
    frames          \* the active calls of pgc_syn_free, the innermost last

vars == <<program, code, values, heap, loop, status, answer, todo, out, res, frames>>
memory == <<values, heap, loop>>
uses == <<answer, todo, out, res, frames>>

NULL == 0
LeafTags == {"ID", "NUM", "CHAR", "LIT", "HOOK"}
PairTags == {"UNION", "DIFF", "UTF", "AND", "OR", "RANGE", "REP", "CALL", "SET", "LET", "DEF"}

\* What C's types say of an instruction: which temporaries it takes, and leaves,
\* where before is whether they are a struct pgc_ast * or a struct pgc_ast_lst *.
Typed(call, before, after) ==
    LET top(k) == before[Len(before) + 1 - k]
        leaves(n, type) ==
            n <= Len(before) /\ after = Append(SubSeq(before, 1, Len(before) - n), type)
    IN  \/ call.op = "leaf" /\ call.tag \in LeafTags /\ leaves(0, "tree")
        \/ /\ call.op = "pair" /\ call.tag \in PairTags
           /\ leaves(2, "tree") /\ top(1) = "tree" /\ top(2) = "tree"
        \/ call.op = "singleton" /\ call.tag = "DEC" /\ leaves(1, "tree") /\ top(1) = "tree"
        \/ call.op = "src" /\ leaves(1, "tree") /\ top(1) = "list"
        \/ call.op = "nil" /\ leaves(0, "list")
        \/ call.op = "cons" /\ leaves(2, "list") /\ top(1) = "tree" /\ top(2) = "list"
        \/ call.op = "rev" /\ leaves(1, "list") /\ top(1) = "list"
        \/ /\ call.op = "cat" /\ call.taken \in BOOLEAN
           /\ leaves(2, "list") /\ top(1) = "list" /\ top(2) = "list"

ASSUME SyntaxAssumption ==
    \A p \in Programs :
        /\ p.calls \in Seq(Range(p.calls))
        /\ p.types \in [1 .. Len(p.calls) + 1 -> Seq({"tree", "list"})]
        /\ p.types[1] = <<>> /\ p.types[Len(p.calls) + 1] = <<"tree">>
        /\ \A i \in 1 .. Len(p.calls) : Typed(p.calls[i], p.types[i], p.types[i + 1])

\* Mutant: the value goes to the wrong member of the union.
LeafOfList(tag, data) == [tag |-> tag, lst |-> data]

\* struct pgc_ast with a value or a list, struct pgc_ast_lst
Leaf(tag, data) == [tag |-> tag, data |-> data]
ListNode(tag, lst) == [tag |-> tag, lst |-> lst]
Cell(val, nxt) == [val |-> val, nxt |-> nxt]
-----------------------------------------------------------------------------
\* The k-th address that malloc returns from now on: any that is not in use.
Fresh(k) == Cardinality(DOMAIN heap) + k
Allocate(objects) ==
    heap' = [a \in DOMAIN heap \cup {Fresh(k) : k \in DOMAIN objects} |->
                IF a \in DOMAIN heap THEN heap[a] ELSE objects[a - Cardinality(DOMAIN heap)]]

Held(k) == values[Len(values) + 1 - k]
Replace(k, results) == values' = SubSeq(values, 1, Len(values) - k) \o results

Instruction == Head(code)
Executes(op) ==
    /\ status = "building" /\ loop = <<>> /\ code # <<>>
    /\ Instruction.op = op
Done == code' = Tail(code) /\ UNCHANGED <<program, status, uses>>

\* pgc_syn_newid, _newnum, _newchar, _newlit, _newhook
NewLeaf ==
    /\ Executes("leaf")
    /\ Allocate(<<Leaf(Instruction.tag, Instruction.data)>>)
    /\ Replace(0, <<Fresh(1)>>)
    /\ UNCHANGED loop /\ Done

\* Mutant: the arguments change places.
PairSwapped(fst, snd) == <<Cell(snd, Fresh(2)), Cell(fst, NULL)>>

\* The cells of pgc_syn_newpair.
Pair(fst, snd) == <<Cell(fst, Fresh(2)), Cell(snd, NULL)>>

NewPair ==
    /\ Executes("pair")
    /\ Allocate(Append(Pair(Held(2), Held(1)), ListNode(Instruction.tag, Fresh(1))))
    /\ Replace(2, <<Fresh(3)>>)
    /\ UNCHANGED loop /\ Done

\* pgc_syn_newsingleton, for pgc_syn_newdec
NewSingleton ==
    /\ Executes("singleton")
    /\ Allocate(<<Cell(Held(1), NULL), ListNode(Instruction.tag, Fresh(1))>>)
    /\ Replace(1, <<Fresh(2)>>)
    /\ UNCHANGED loop /\ Done

\* pgc_syn_newsrc
NewSrc ==
    /\ Executes("src")
    /\ Allocate(<<ListNode("SRC", Held(1))>>)
    /\ Replace(1, <<Fresh(1)>>)
    /\ UNCHANGED loop /\ Done

\* An empty list, and pgc_syn_cons of lang/proto.c.
Nil ==
    /\ Executes("nil")
    /\ Replace(0, <<NULL>>)
    /\ UNCHANGED <<heap, loop>> /\ Done
ConsCell ==
    /\ Executes("cons")
    /\ Allocate(<<Cell(Held(1), Held(2))>>)
    /\ Replace(2, <<Fresh(1)>>)
    /\ UNCHANGED loop /\ Done
-----------------------------------------------------------------------------
\* pgc_ast_rev
StartRev ==
    /\ Executes("rev")
    /\ loop' = <<[lst |-> Held(1), res |-> NULL]>>
    /\ Replace(1, <<>>)
    /\ UNCHANGED <<program, code, status, heap, uses>>

Turning(field) == loop # <<>> /\ field \in DOMAIN loop[1]

\* Mutant: the cell is linked before the one after it is remembered.
RevTurnUnsaved ==
    /\ Turning("res") /\ loop[1].lst # NULL
    /\ heap' = [heap EXCEPT ![loop[1].lst].nxt = loop[1].res]
    /\ loop' = <<[lst |-> loop[1].res, res |-> loop[1].lst]>>
    /\ UNCHANGED <<program, code, values, status, uses>>

RevTurn ==
    /\ Turning("res") /\ loop[1].lst # NULL
    /\ heap' = [heap EXCEPT ![loop[1].lst].nxt = loop[1].res]
    /\ loop' = <<[lst |-> heap[loop[1].lst].nxt, res |-> loop[1].lst]>>
    /\ UNCHANGED <<program, code, values, status, uses>>

EndRev ==
    /\ Turning("res") /\ loop[1].lst = NULL
    /\ loop' = <<>>
    /\ Replace(0, <<loop[1].res>>)
    /\ UNCHANGED heap /\ Done

\* pgc_ast_cat returns the second list when the first is empty, and the last cell of
\* the first one otherwise.  An instruction says which the program goes on with: the
\* result, as ast.h has it (taken), or its own pointer to the first list.
CatNothing ==
    /\ Executes("cat") /\ Held(2) = NULL
    /\ Replace(2, <<Held(1)>>)
    /\ UNCHANGED <<heap, loop>> /\ Done
StartCat ==
    /\ Executes("cat") /\ Held(2) # NULL
    /\ loop' = <<[fst |-> Held(2), at |-> Held(2), snd |-> Held(1)]>>
    /\ Replace(2, <<>>)
    /\ UNCHANGED <<program, code, status, heap, uses>>
CatTurn ==
    /\ Turning("at") /\ heap[loop[1].at].nxt # NULL
    /\ loop' = <<[loop[1] EXCEPT !.at = heap[loop[1].at].nxt]>>
    /\ UNCHANGED <<program, code, values, status, heap, uses>>
EndCat ==
    /\ Turning("at") /\ heap[loop[1].at].nxt = NULL
    /\ heap' = [heap EXCEPT ![loop[1].at].nxt = loop[1].snd]
    /\ loop' = <<>>
    /\ Replace(0, <<IF Instruction.taken THEN loop[1].at ELSE loop[1].fst>>)
    /\ Done

Built ==
    /\ status = "building" /\ loop = <<>> /\ code = <<>>
    /\ status' = "using"
    /\ UNCHANGED <<program, code, memory, uses>>
-----------------------------------------------------------------------------
Root == values[1]

\* The list at a cell, as a sequence of cells.
Chain(a) ==
    Front(FoldLeft(LAMBDA cells, k : IF Last(cells) = NULL THEN cells
                                     ELSE Append(cells, heap[Last(cells)].nxt),
                   <<a>>, [k \in 1 .. Cardinality(DOMAIN heap) |-> k]))

\* pgc_syn_getname, pgc_syn_getfst and the other accessors
First(a) == heap[heap[a].lst].val
Second(a) == heap[heap[heap[a].lst].nxt].val
NameOf(a) == heap[First(a)].data

\* pgc_syn_findstmt: the first of the statements with the name, or NULL.
FindStmt(name) ==
    LET cells == Chain(heap[Root].lst)
        hits == {i \in DOMAIN cells : NameOf(heap[cells[i]].val) = name}
    IN  /\ status = "using"
        /\ answer' = [name |-> name,
                      stmt |-> IF hits = {} THEN NULL
                               ELSE heap[cells[CHOOSE i \in hits : \A j \in hits : i <= j]].val]
        /\ UNCHANGED <<program, code, memory, status, todo, out, res, frames>>

\* pgc_ast_at and pgc_ast_len on the statements.  Past the end it gives NULL once,
\* and after that an assertion fails.
At(i) ==
    LET cells == Chain(heap[Root].lst)
    IN  /\ status = "using"
        /\ IF i <= Len(cells)
           THEN /\ answer' = [index |-> i, len |-> Len(cells),
                              cell |-> IF i < Len(cells) THEN cells[i + 1] ELSE NULL]
                /\ UNCHANGED status
           ELSE status' = "halted" /\ UNCHANGED answer
        /\ UNCHANGED <<program, code, memory, todo, out, res, frames>>
-----------------------------------------------------------------------------
\* %u and %X of a number below the square of the base.
Numeral(n, base) ==
    IF n < base THEN <<SymbolOf[n]>> ELSE <<SymbolOf[n \div base], SymbolOf[n % base]>>

\* %X of an int8_t, which is an int by then: eight digits if it is negative.
SignedNumeral(n) ==
    IF n >= 128 THEN [i \in 1 .. 6 |-> SymbolOf[15]] \o Numeral(n, 16) ELSE Numeral(n, 16)

Text(symbols) == [text |-> symbols]
Subtree(a) == [node |-> a]
Data(a) == heap[a].data

\* pgc_syn_fprintid, _fprintnum, _fprintbyte, _fprintlit, _fprinthook
LeafText(a) ==
    CASE heap[a].tag = "ID"   -> Data(a)
      [] heap[a].tag = "NUM"  -> Numeral(Data(a), 10)
      [] heap[a].tag = "CHAR" -> <<"%">> \o SignedNumeral(Data(a))
      [] heap[a].tag = "LIT"  -> <<"quote">> \o Data(a) \o <<"quote">>
      [] heap[a].tag = "HOOK" -> <<"@">> \o Data(a)

\* Mutant: nothing says where the expression ends.
PairTextBare(a, delimiter) == <<Subtree(First(a)), Text(delimiter), Subtree(Second(a))>>

\* pgc_syn_fprintpair
PairText(a, delimiter) ==
    <<Text(<<"(">>), Subtree(First(a)), Text(delimiter), Subtree(Second(a)), Text(<<")">>)>>

\* pgc_syn_fprintutf, _fprintrange
SpanText(a, base, before) ==
    <<Text(before \o Numeral(Data(First(a)), base) \o <<"_">> \o
           Numeral(Data(Second(a)), base))>>

\* pgc_syn_fprintstmtpair, _fprintdec
StatementText(a, keyword) ==
    <<Text(<<keyword, " ">>), Subtree(First(a)), Text(<<" ", "=", " ">>),
      Subtree(Second(a)), Text(<<";">>)>>
DecText(a) == <<Text(<<"dec", " ">>), Subtree(First(a)), Text(<<";">>)>>

\* pgc_syn_fprintsrc: each statement and a carriage return and a line feed.
SourceText(a) ==
    LET cells == Chain(heap[a].lst)
    IN  FoldLeft(LAMBDA texts, c : texts \o <<Subtree(heap[c].val), Text(<<" ", " ">>)>>,
                 <<>>, cells)

\* The cases of pgc_syn_fprint; CALL is none of them.
Pieces(a) ==
    LET tag == heap[a].tag
    IN  CASE tag \in LeafTags -> <<Text(LeafText(a))>>
          [] tag = "UNION" -> PairText(a, <<" ", "+", " ">>)
          [] tag = "DIFF"  -> PairText(a, <<" ", "-", " ">>)
          [] tag = "AND"   -> PairText(a, <<" ">>)
          [] tag = "OR"    -> PairText(a, <<" ", "|", " ">>)
          [] tag = "UTF"   -> SpanText(a, 16, <<"&">>)
          [] tag = "RANGE" -> SpanText(a, 10, <<>>)
          [] tag = "REP"   -> <<Subtree(First(a)), Subtree(Second(a))>>
          [] tag = "SET"   -> StatementText(a, "set")
          [] tag = "LET"   -> StatementText(a, "let")
          [] tag = "DEF"   -> StatementText(a, "def")
          [] tag = "DEC"   -> DecText(a)
          [] tag = "SRC"   -> SourceText(a)

\* pgc_syn_fprint of the tree.
Print0 ==
    /\ status = "using" /\ res = "none"
    /\ status' = "printing" /\ todo' = <<Subtree(Root)>> /\ out' = <<>>
    /\ UNCHANGED <<program, code, memory, answer, res, frames>>

Printing(field) == status = "printing" /\ todo # <<>> /\ field \in DOMAIN Head(todo)

PrintNode ==
    /\ Printing("node") /\ heap[Head(todo).node].tag # "CALL"
    /\ todo' = Pieces(Head(todo).node) \o Tail(todo)
    /\ UNCHANGED <<program, code, memory, status, answer, out, res, frames>>

\* SEL_HALT
PrintHalts ==
    /\ Printing("node") /\ heap[Head(todo).node].tag = "CALL"
    /\ status' = "halted"
    /\ UNCHANGED <<program, code, memory, uses>>

\* fputs, fputc, fprintf: all functions return -1 when one of them fails.
PrintText ==
    /\ Printing("text")
    /\ \/ /\ todo' = Tail(todo) /\ out' = out \o Head(todo).text
          /\ UNCHANGED <<status, res>>
       \/ /\ todo' = <<>> /\ res' = "IO" /\ status' = "using"
          /\ UNCHANGED out
    /\ UNCHANGED <<program, code, memory, answer, frames>>

Printed ==
    /\ status = "printing" /\ todo = <<>>
    /\ status' = "using" /\ res' = "OK"
    /\ UNCHANGED <<program, code, memory, answer, todo, out, frames>>
-----------------------------------------------------------------------------
\* The locals of a call of pgc_syn_free: the cell that pgc_syn_freelst is at.
Freeing(a) == [node |-> a, at |-> IF heap[a].tag \in LeafTags THEN NULL ELSE heap[a].lst]
Frame == Last(frames)

Free ==
    /\ status = "using"
    /\ status' = "freeing" /\ frames' = <<Freeing(Root)>>
    /\ UNCHANGED <<program, code, memory, answer, todo, out, res>>

\* pgc_syn_freelst calls pgc_syn_free for the value of a cell.
FreeValue ==
    /\ status = "freeing" /\ Frame.at # NULL
    /\ frames' = Append(frames, Freeing(heap[Frame.at].val))
    /\ UNCHANGED <<program, code, memory, status, answer, todo, out, res>>

\* Mutant: the cell is not freed.
ReleasedNodeOnly == {Frame.node}

\* What is freed when the list of a node, if it has one, is gone: the node, and the
\* cell from which pgc_syn_freelst called.
Released ==
    {Frame.node} \cup (IF Len(frames) > 1 THEN {frames[Len(frames) - 1].at} ELSE {})

FreeNode ==
    /\ status = "freeing" /\ Frame.at = NULL
    /\ heap' = [a \in DOMAIN heap \ Released |-> heap[a]]
    /\ IF Len(frames) > 1
       THEN /\ frames' = [i \in 1 .. Len(frames) - 1 |->
                            IF i < Len(frames) - 1 THEN frames[i]
                            ELSE [frames[i] EXCEPT !.at = heap[frames[i].at].nxt]]
            /\ UNCHANGED <<values, status>>
       ELSE frames' = <<>> /\ values' = <<>> /\ status' = "freed"
    /\ UNCHANGED <<program, code, loop, answer, todo, out, res>>

Init ==
    /\ program \in Programs /\ code = program.calls
    /\ values = <<>> /\ heap = <<>> /\ loop = <<>>
    /\ status = "building"
    /\ answer = <<>> /\ todo = <<>> /\ out = <<>> /\ res = "none" /\ frames = <<>>

Build ==
    \/ NewLeaf \/ NewPair \/ NewSingleton \/ NewSrc \/ Nil \/ ConsCell
    \/ StartRev \/ RevTurn \/ EndRev
    \/ CatNothing \/ StartCat \/ CatTurn \/ EndCat \/ Built
Search == (\E name \in Names : FindStmt(name)) \/ (\E i \in Indices : At(i))
Output == Print0 \/ PrintNode \/ PrintHalts \/ PrintText \/ Printed
Release == Free \/ FreeValue \/ FreeNode

Next == Build \/ Search \/ Output \/ Release

Spec == Init /\ [][Next]_vars
-----------------------------------------------------------------------------
\* The variables have their types.
TypeOK ==
    /\ status \in {"building", "using", "printing", "freeing", "freed", "halted"}
    /\ res \in {"none", "OK", "IO"}
    /\ \A a \in DOMAIN heap :
          \/ DOMAIN heap[a] = {"tag", "data"} /\ heap[a].tag \in LeafTags
          \/ DOMAIN heap[a] = {"tag", "lst"} /\ heap[a].tag \in PairTags \cup {"DEC", "SRC"}
          \/ DOMAIN heap[a] = {"val", "nxt"}
    /\ status # "building" => code = <<>> /\ loop = <<>>

\* How often an address is in a node, a cell or a variable of the program.
Pointers(a) == {field \in {"val", "nxt", "lst"} \cap DOMAIN heap[a] : heap[a][field] # NULL}
References(x) ==
    Cardinality({edge \in (DOMAIN heap) \X {"val", "nxt", "lst"} :
                    edge[2] \in Pointers(edge[1]) /\ heap[edge[1]][edge[2]] = x})
    + Cardinality({i \in DOMAIN values : values[i] = x})
    + Cardinality({field \in {"lst", "res", "fst", "snd"} :
                      Turning(field) /\ loop[1][field] = x})

\* ast.h:354-358 of pgc_ast_cat: it returns the concatenated list, which begins with
\* the first cell of the first list.  (The code returns the last cell of that list.)
CatReturnsTheList ==
    [][Turning("at") /\ loop' = <<>> /\ Instruction.taken => Last(values') = loop[1].fst]_vars

\* The result of pgc_ast_cat is only taken where it is the list: where the first list
\* had one cell, as in tests/pgenc/ast.c:158.
TakenIsWhole ==
    Turning("at") /\ heap[loop[1].at].nxt = NULL /\ Instruction.taken =>
        loop[1].at = loop[1].fst

\* Until pgc_syn_free runs, every node and cell is referred to exactly once, in the
\* middle of pgc_ast_rev and pgc_ast_cat too: nothing is lost on the way, and
\* nothing is shared, which pgc_syn_free would free twice.
OwnedOnce ==
    status # "freeing" => \A a \in DOMAIN heap : References(a) = 1

\* The calls of pgc_syn_free that are active still have the node and the cell that
\* they go on with, so nothing is read or freed again that was freed; and in the end
\* everything is.  (pgc_syn_free, pgc_syn_freelst)
ReleasedOnce ==
    /\ status = "freeing" =>
          \A i \in DOMAIN frames :
              frames[i].node \in DOMAIN heap /\ frames[i].at \in DOMAIN heap \cup {NULL}
    /\ status = "freed" => DOMAIN heap = {}
=============================================================================
