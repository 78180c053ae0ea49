------------------------------ MODULE MCSyntax ------------------------------
(***************************************************************************)
(* Syntax.tla on the programs that build a few sources, and the reading of *)
(* what is printed of them by the grammar of the grammar language.         *)
(***************************************************************************)
EXTENDS Syntax, Language, TLC

T == INSTANCE CaptureTree WITH
        Invalid <- {}, NoTag <- "NoTag", ByteBits <- 8, WordBits <- 16,
        Digit <- [s \in {"1", "2", "a"} |-> CASE s = "1" -> 1 [] s = "2" -> 2 [] s = "a" -> 10]

MCSymbolOf ==
    [d \in 0 .. 15 |-> CASE d = 1 -> "1" [] d = 2 -> "2" [] d = 10 -> "a" [] OTHER -> "f"]

L(tag, data) == [tag |-> tag, data |-> data]
K(tag, kids) == [tag |-> tag, kids |-> kids]
Name(s) == L("ID", s)
N == Name(<<"n">>)
A1 == Name(<<"a", "1">>)
Number(n) == L("NUM", n)
Span(tag, lo, hi) == K(tag, <<Number(lo), Number(hi)>>)
Times(sub) == K("REP", <<Span("RANGE", 1, 12), sub>>)

Leafs == {N, A1, L("CHAR", 1), L("CHAR", 26), L("CHAR", 161), L("HOOK", <<"n", "_">>)}
Expressions2 ==
    {K(tag, <<x, y>>) : tag \in {"AND", "OR"}, x \in Leafs, y \in {N, L("CHAR", 18)}} \cup
    {Times(x) : x \in Leafs}
Expressions3 ==
    {K("AND", <<Times(K("OR", <<N, A1>>)), K("OR", <<Span("UTF", 1, 18), Times(N)>>)>>),
     K("OR", <<K("AND", <<L("CHAR", 1), L("CHAR", 2)>>), K("AND", <<N, K("OR", <<A1, N>>)>>)>>),
     Times(Times(N)), Times(Span("UTF", 1, 2)), Times(K("AND", <<Times(N), N>>)),
     K("AND", <<N, L("LIT", <<"a">>)>>), K("CALL", <<A1, N>>), K("OR", <<N, K("CALL", <<N, N>>)>>),
     Span("UTF", 26, 162)}
SetExpressions3 ==
    {A1, L("CHAR", 161), K("UNION", <<N, K("DIFF", <<L("CHAR", 18), A1>>)>>),
     K("DIFF", <<K("UNION", <<N, L("CHAR", 26)>>), K("UNION", <<A1, N>>)>>)}

Let == K("LET", <<A1, N>>)
Dec == K("DEC", <<N>>)
Sources ==
    {<<K("LET", <<N, x>>)>> : x \in Leafs \cup Expressions2 \cup Expressions3} \cup
    {<<K("SET", <<N, x>>), Let>> : x \in SetExpressions3} \cup
    {<<>>, <<Dec>>, <<Dec, Let, K("DEF", <<N, Times(N)>>)>>,
     <<Let, K("SET", <<A1, K("UNION", <<N, L("CHAR", 2)>>)>>), Dec>>}
-----------------------------------------------------------------------------
\* The call that makes the node of a tree, after those for its parts.
Making(t) ==
    IF "op" \in DOMAIN t THEN <<t>>
    ELSE IF "data" \in DOMAIN t THEN <<[op |-> "leaf", tag |-> t.tag, data |-> t.data]>>
    ELSE Append(t.kids, [op |-> IF t.tag = "DEC" THEN "singleton" ELSE "pair", tag |-> t.tag])

\* The calls that build a tree of at most six levels, arguments first.
Expanded(calls) == FlattenSeq([i \in DOMAIN calls |-> Making(calls[i])])
Further(calls) == Expanded(Expanded(calls))
Constructed(t) == Further(Further(Further(<<t>>)))

\* A list is consed from its last element, or the other way round and reversed as
\* in pgc_lang_proto.
Consed(list) ==
    FoldLeft(LAMBDA calls, t : calls \o Constructed(t) \o <<[op |-> "cons"]>>,
             <<[op |-> "nil"]>>, list)
Forwards(list) == Consed(Reverse(list))
Backwards(list) == Append(Consed(list), [op |-> "rev"])
Joined(list, k, taken) ==
    Forwards(SubSeq(list, 1, k)) \o Backwards(SubSeq(list, k + 1, Len(list)))
    \o <<[op |-> "cat", taken |-> taken]>>

\* The types of the temporaries after a call.
Leaving(types, call) ==
    CASE call.op = "leaf" -> Append(types, "tree")
      [] call.op = "nil" -> Append(types, "list")
      [] call.op \in {"singleton", "src"} -> Append(Front(types), "tree")
      [] call.op = "pair" -> Append(Front(Front(types)), "tree")
      [] call.op = "rev" -> types
      [] call.op \in {"cons", "cat"} -> Append(Front(Front(types)), "list")
Types(calls) ==
    FoldLeft(LAMBDA all, call : Append(all, Leaving(Last(all), call)), <<<<>>>>, calls)

Calling(list, k, taken) ==
    LET calls == Append(Joined(list, k, taken), [op |-> "src"])
    IN  [source |-> list, calls |-> calls, types |-> Types(calls)]

\* The result of pgc_ast_cat is taken where the first list has no more than one cell,
\* and in the other programs everywhere.
MCPrograms == UNION {{Calling(list, k, k <= 1) : k \in 0 .. Len(list)} : list \in Sources}
TakingPrograms == UNION {{Calling(list, k, TRUE) : k \in 0 .. Len(list)} : list \in Sources}
MCNames == {<<"n">>, <<"a", "1">>, <<"a">>}
MCIndices == 0 .. 4
-----------------------------------------------------------------------------
RECURSIVE TermAt(_)
\* The tree at an address.
TermAt(a) ==
    IF heap[a].tag \in LeafTags THEN L(heap[a].tag, Data(a))
    ELSE LET cells == Chain(heap[a].lst)
         IN  K(heap[a].tag, [i \in DOMAIN cells |-> TermAt(heap[cells[i]].val)])

\* The tree is the one that the calls describe, however its list was put together,
\* and stays it whatever is printed and looked for.  A statement that is found is
\* the first with its name, and none is found only if there is none; the cells are
\* those of the statements in their order.
\* (pgc_syn_new*, pgc_ast_rev, pgc_ast_cat, pgc_ast_at, pgc_syn_findstmt)
TreeAsAsked ==
    status \in {"using", "printing"} =>
        LET Source == program.source
            stmt(i) == heap[Chain(heap[Root].lst)[i]].val
            named(i) == Source[i].kids[1].data = answer.name
        IN  /\ TermAt(Root) = K("SRC", Source)
            /\ answer # <<>> /\ "stmt" \in DOMAIN answer =>
                 \/ answer.stmt = NULL /\ \A i \in DOMAIN Source : ~named(i)
                 \/ \E i \in DOMAIN Source :
                       /\ answer.stmt = stmt(i) /\ named(i)
                       /\ \A j \in 1 .. i - 1 : ~named(j)
            /\ answer # <<>> /\ "cell" \in DOMAIN answer =>
                 /\ answer.len = Len(Source)
                 /\ IF answer.index = Len(Source) THEN answer.cell = NULL
                    ELSE TermAt(heap[answer.cell].val) = Source[answer.index + 1]
-----------------------------------------------------------------------------
RECURSIVE Readable(_), Captured(_)

\* The trees whose text the grammar reads: no literal, for which the language has
\* no word; no negative character, which is printed with eight digits of which two
\* are read; and no repetition of what is neither in parentheses nor a word.
Readable(t) ==
    /\ t.tag # "LIT"
    /\ t.tag = "CHAR" => t.data < 128
    /\ t.tag = "REP" => t.kids[2].tag \notin {"REP", "UTF", "HOOK"}
    /\ "kids" \in DOMAIN t => \A i \in DOMAIN t.kids : Readable(t.kids[i])

\* The tree as the captures build it.
Captured(t) ==
    IF "kids" \in DOMAIN t
    THEN [tag |-> t.tag, kids |-> [i \in DOMAIN t.kids |-> Captured(t.kids[i])]]
    ELSE IF t.tag \in {"NUM", "CHAR"} THEN [tag |-> t.tag, num |-> t.data]
    ELSE [tag |-> t.tag, text |-> t.data]

Grammar == Words @@ SetExpressions @@ Expressions @@ Statements @@ Repetition @@
           [root |-> Statements.src]

\* What pgc_syn_fprint prints and reports as printed is a source of the grammar
\* language, and reading it gives the same trees.
PrintedReadsBack ==
    status = "using" /\ res = "OK" /\ (\A i \in DOMAIN program.source : Readable(program.source[i])) =>
        LET read == T!Tree(Grammar, out, "root", 0)
        IN  /\ read.res = "OK" /\ read.offset = Len(out)
            /\ read.trees = [i \in DOMAIN program.source |-> Captured(program.source[i])]
=============================================================================
