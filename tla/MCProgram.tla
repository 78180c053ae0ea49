------------------------------ MODULE MCProgram ------------------------------
(***************************************************************************)
(* Program.tla on small sources and on the syntax of proto.c, and what the *)
(* declarations mean that it prints for them.                              *)
(***************************************************************************)
EXTENDS Program, SequencesExt

Id(name) == [tag |-> "ID", text |-> name]
Char(n) == [tag |-> "CHAR", num |-> n]
Num(n) == [tag |-> "NUM", num |-> n]
Hook(name) == [tag |-> "HOOK", text |-> name]
Node(tag, x, y) == [tag |-> tag, kids |-> <<x, y>>]
Rep(x) == Node("REP", Node("RANGE", Num(0), Num(3)), x)

P == INSTANCE Proto
MCPredicates == P!CType
MCBuilt == P!Syntax

Leaves == {Id("s"), Id("e"), Id("b"), Char(49), Hook("h")}
Few == {Id("b"), Char(50), Hook("h")}
Flat ==
    {Node(tag, x, y) : tag \in {"AND", "OR"}, x \in Few, y \in Leaves} \cup
    {Node("CALL", Id("f"), x) : x \in Leaves} \cup
    {Rep(x) : x \in Leaves}
Deep ==
    {Node("AND", x, y) : x \in {Rep(Id("s")), Node("OR", Char(49), Id("e"))},
                         y \in {Node("CALL", Id("g"), Hook("h")), Rep(Char(50))}} \cup
    {Node("CALL", Id("f"), Node("OR", Rep(Id("b")), Node("AND", Char(97), Char(49)))),
     Rep(Node("OR", Node("AND", Char(49), Char(50)), Node("AND", Hook("h"), Id("s"))))}
Alone ==
    {Char(98), Hook("h"), [tag |-> "LIT", text |-> "word"], Node("UTF", Num(1), Num(2)), Id("s")}
SetExps ==
    {Id("isdigit"), Id("s"), Id("unknown"), Char(49),
     Node("UNION", Id("isdigit"), Node("DIFF", Id("s"), Char(97))),
     Node("DIFF", Node("UNION", Id("s"), Char(50)), Id("isdigit")),
     Node("DIFF", Id("s"), Id("unknown")),
     Node("UNION", Node("UNION", Char(49), Char(50)), Node("UNION", Char(95), Id("isalpha")))}

Before == <<Node("SET", Id("s"), Id("isalpha")),
            [tag |-> "DEC", kids |-> <<Id("b")>>], Node("EXT", Id("lib"), Id("e"))>>
MCSources ==
    {Before \o <<Node("LET", Id("a"), x), Node("DEF", Id("b"), y)>> :
        x \in Flat \cup Deep \cup Alone, y \in {Node("OR", Id("a"), Id("b")), Rep(Id("a"))}} \cup
    {Before \o <<Node("SET", Id("t"), x), Node("LET", Id("a"), Rep(Id("t"))),
                 Node("SET", Id("u"), y)>> :
        x \in SetExps, y \in SetExps \cup {Node("UNION", Id("t"), Id("s"))}} \cup
    {\* One name for a hook and a call, a call of an expression, a name too early.
     <<Node("LET", Id("a"), Node("AND", Hook("f"), Node("CALL", Id("f"), Char(49))))>>,
     <<Node("LET", Id("a"), Node("CALL", Node("AND", Char(49), Char(50)), Char(97)))>>,
     <<Node("LET", Id("a"), Node("CALL", Char(49), Char(50)))>>,
     <<Node("LET", Id("a"), Rep(Id("b"))), Node("LET", Id("b"), Char(49))>>,
     \* A file without statements, and what is generated without a file.
     <<>>, P!Syntax}

\* Bound: the prototypes of a source with many functions are printed in one
\* order, and none is missed.
OneOrder ==
    LET names == FoldSet(LAMBDA n, seq : Append(seq, n), <<>>, DOMAIN functions)
        declared == {n \in DOMAIN functions :
                        \E i \in DOMAIN out : out[i].id = Function(functions[n], n)}
    IN  Len(names) > 5 /\ pc = "declaring" =>
            missed = {} /\ declared = {names[i] : i \in 1 .. Cardinality(declared)}
-----------------------------------------------------------------------------
RECURSIVE MCWithin(_), MCDescribed(_), MCMembers(_, _, _)
\* What has the equations of Meaning.
MCWithin(syn) == AllOf(MCWithin, syn)
MCDescribed(syn) == NodeSaid(MCDescribed, syn)
MCMembers(list, syn, i) == SetSaid(MCMembers, list, syn, i)

MCNodes ==
    UNION {UNION {MCWithin(list[i].kids[2]) : i \in {j \in DOMAIN list : Defines(list[j])}} :
              list \in MCSources}
=============================================================================
