----------------------------- MODULE MCCaptures -----------------------------
(***************************************************************************)
(* Captures.tla on the grammar of the grammar language, from its source,   *)
(* its expressions and a few readers that it does not use.                 *)
(***************************************************************************)
EXTENDS Captures, Language, TLC

CONSTANTS Longer        \* how long the inputs are that are all tried

T == INSTANCE CaptureTree

MCDigit == [s \in {"1", "2", "a"} |-> CASE s = "1" -> 1 [] s = "2" -> 2 [] s = "a" -> 10]

\* Readers that self.g does not use, or not on such text: a code point, a character
\* of a longer word, a number that is none, a word whose beginning a hook has
\* pushed out of the window, a character of nothing.
Probes ==
    [wide |-> Term("CHAR", "char", "idpat"), point |-> Term("NUM", "utf8", "print"),
     bad |-> And("open", "bad1"), bad1 |-> Term("NUM", "uint32", "print"),
     gone |-> Term("ID", "str", "gone1"), gone1 |-> And("alpha", "refill"),
     refill |-> [tag |-> "HOOK", hook |-> [reads |-> 0, returns |-> "OK", discards |-> TRUE,
                                           sets |-> NoTag]],
     nothing |-> Term("CHAR", "char", "ws"),
     probe |-> And("wide", "probe1"), probe1 |-> And("point", "probe2"),
     probe2 |-> Or("bad", "probe3"), probe3 |-> Or("gone", "nothing")]

Self(root) ==
    Words @@ SetExpressions @@ Expressions @@ Statements @@ Repetition @@ Probes @@ [root |-> root]
ProtoGrammar == Compiled(P!Syntax)
Proto(name) == ProtoGrammar @@ [root |-> ProtoGrammar[name]]

\* Every grammar has every name; those it does not use are at its end.
MCNode == DOMAIN Self(Statements.src) \cup DOMAIN Proto("src")
Padded(g) == [n \in MCNode |-> IF n \in DOMAIN g THEN g[n] ELSE Byte("#")]
MCRoot == "root"
MCGrammars ==
    {Padded(g) : g \in {Self(Expressions.exp), Self(Statements.src), Self(Probes.probe),
                        Proto("exp"), Proto("src")}}

\* The root tells the grammar.
WithoutGrammar ==
    <<par["root"], input, size, frames, bases, begin, offset, res, status, exhausted, lost,
      captureVars>>

Tried == UNION {[1 .. k -> {"n", "1", "_", "|", "(", ")"}] : k \in 0 .. Longer}
Chosen ==
    {<<"n", "|", "n", "$", "n">>, <<"1", "_", "1", "n", "|">>, <<"1", "_", "1", "1">>,
     <<"1", "_", "1", "n", " ", "|", "n">>, <<"(", "n", ")", "(", "n", ")">>,
     <<"n", "|", "(", "n", "|">>, <<"'", "(", "'", "'", "a">>, <<"%", "n", "$", "@">>,
     <<"n", "=", "(", "a">>, <<"n", "=", "n", "n">>, <<"1", "_", "2", "a", " ", "n">>, <<"1", "_", "2", "(", "n", "|", "a", ")", "$", "a">>,
     <<"n", "$", "a", "|", "'", ")", "'">>, <<"'", "n", "|", "a">>, <<"%", "a", "1", "@", "n">>,
     <<"&", "a", "_", "1", "2", "|", "n">>, <<"(", "(", "n", "a", ")", "|", "n", ")", "n">>,
     <<"dec", "n", ";", "let", "a", "=", "n", "|", "1", "_", "1", "a", ";", "n">>,
     <<"let", "n", "=", "a", "n", ";", " ", "let", "n", "=", "a", "|", "n">>,
     <<"set", "n", "=", "a", "+", "(", "n", "-", "%", "1", ")", ";", "set", "n", "=", "'", "+">>,
     <<"ext", "n", " ", "a", ";", "#", "'", "n", "a", "def", "a", "=", "n", ";">>,
     <<"#", "n", "n", "n", "set", "n", "=", "'", "a", "'", ";", "def", "n", "=", "(", "a">>,
     <<" ", "dec", " ", "a", "1", ";", "dec", "n", "=">>}
MCInputs == Tried \cup Chosen
-----------------------------------------------------------------------------
RECURSIVE WellFormed(_)

\* The shapes that the accessors of syntax.c and the functions of lang/gen.c rely
\* on: two arguments where they take the first and the second, a range where
\* they take a range, expressions where they generate one.
WellFormed(t) ==
    LET two(first, second) ==
          Len(t.kids) = 2 /\ t.kids[1].tag \in first /\ t.kids[2].tag \in second
        exp == {"ID", "CHAR", "AND", "OR", "REP", "HOOK", "UTF", "CALL"}
        setexp == {"ID", "CHAR", "UNION", "DIFF"}
    IN  /\ t.tag \notin {NoTag, "NONE"}
        /\ t.tag \in {"AND", "OR", "CALL"} => two(exp, exp)
        /\ t.tag \in {"UNION", "DIFF"} => two(setexp, setexp)
        /\ t.tag \in {"RANGE", "UTF"} => two({"NUM"}, {"NUM"})
        /\ t.tag = "REP" => two({"RANGE"}, exp)
        /\ t.tag \in {"LET", "DEF"} => two({"ID"}, exp)
        /\ t.tag = "SET" => two({"ID"}, setexp)
        /\ t.tag = "EXT" => two({"ID"}, {"ID"})
        /\ t.tag = "DEC" => Len(t.kids) = 1 /\ t.kids[1].tag = "ID"
        /\ "kids" \in DOMAIN t => \A i \in DOMAIN t.kids : WellFormed(t.kids[i])

Trees == [i \in DOMAIN list |-> list[i].tree]
Parsed == status = "returned" /\ res = "OK"

\* proto.c:223-226 puts the tag of a repetition on the expression around it.
WrapsRepetitions == par["rep"].tag = "CALL"

RECURSIVE HasRange(_)
HasRange(t) ==
    t.tag = "RANGE" \/ ("kids" \in DOMAIN t /\ \E i \in DOMAIN t.kids : HasRange(t.kids[i]))

\* What a parse that succeeds hands to the generator are trees it can print:
\* statements of a source, one expression otherwise.  In the grammar of
\* proto.c this is so where there is no repetition.
SyntaxIsWellFormed ==
    Parsed => /\ \A i \in DOMAIN Trees :
                    WellFormed(Trees[i]) \/ (HasRange(Trees[i]) /\ ~WrapsRepetitions)
              /\ par["root"] \in {Statements.src, ProtoGrammar["src"]} =>
                    \A i \in DOMAIN Trees : Trees[i].tag \in {"LET", "DEC", "DEF", "SET", "EXT"}

\* The grammar of the grammar language builds the trees it stands for, though the
\* captures of alternatives that are given up stay in the list and one variable
\* holds the tag for all expressions: and a parse for whose trees there is no
\* memory says so, whatever choices and repetitions it was in.
AgreesWithTree ==
    LET expected == T!Tree(par, input, Root, 0)
    IN  status = "returned" /\ ~exhausted /\ ~lost /\ res # "OOM" =>
           /\ res = expected.res /\ offset = expected.offset
           /\ res = "OK" => Trees = expected.trees
=============================================================================
