---------------------------- MODULE CaptureTree ----------------------------
(***************************************************************************)
(* The trees that a grammar with captures stands for, as a recursive       *)
(* definition: an alternative that is given up leaves nothing behind, and  *)
(* every expression has a tag of its own.  lang/parse.c has neither: its   *)
(* list and its tag are those of the parse, and only a failed expression   *)
(* takes its captures back.                                                *)
(***************************************************************************)
EXTENDS Terminals

CONSTANTS Digit, NoTag, ByteBits, WordBits

Backtracks(code) == code \in {"CMP", "OOB"}

Result(code, o, trees, tag) == [res |-> code, offset |-> o, trees |-> trees, tag |-> tag]
Failed(code, o) == Result(code, o, <<>>, NoTag)

RECURSIVE Number(_, _)
Number(text, base) ==
    IF text = <<>> THEN 0
    ELSE base * Number(SubSeq(text, 1, Len(text) - 1), base) + Digit[text[Len(text)]]

\* What is read of the text between two offsets, and where that leaves the
\* cursor.
ReadText(fun, input, from, to) ==
    LET text == SubSeq(input, from + 1, to)
    IN  Result("OK", to, <<[tag |-> fun.tag, text |-> text]>>, NoTag)
ReadOne(fun, input, from) ==
    CASE from = Len(input) -> Failed("OOB", from)
      [] from < Len(input) /\ fun.reader = "utf8" /\ input[from + 1] \in Invalid ->
            Failed("ENC", from)
      [] OTHER -> ReadText(fun, input, from, from + 1)
ReadNumber(fun, input, from, to, base, bits) ==
    LET text == SubSeq(input, from + 1, to)
        digit(s) == s \in DOMAIN Digit /\ Digit[s] < base
    IN  IF \A i \in DOMAIN text : digit(text[i])
        THEN Result("OK", to, <<[tag |-> fun.tag, num |-> Number(text, base) % 2 ^ bits]>>,
                    NoTag)
        ELSE Failed("ENC", from)

Read(fun, input, from, to) ==
    CASE fun.reader = "str" -> ReadText(fun, input, from, to)
      [] fun.reader \in {"char", "utf8"} -> ReadOne(fun, input, from)
      [] fun.reader = "hex8" -> ReadNumber(fun, input, from, to, 16, ByteBits)
      [] fun.reader = "hex32" -> ReadNumber(fun, input, from, to, 16, WordBits)
      [] fun.reader = "uint32" -> ReadNumber(fun, input, from, to, 10, WordBits)

\* Two parsers one after the other.
Then(first, second) ==
    Result(second.res, second.offset, first.trees \o second.trees,
           IF second.tag = NoTag THEN first.tag ELSE second.tag)

\* What a CALL node makes of the result of its argument, which began at o.
Captured(fun, input, o, inner) ==
    IF fun.kind = "term" THEN Then(inner, Read(fun, input, o, inner.offset))
    ELSE IF "MERGE" \in fun.ops /\ Len(inner.trees) <= 1
    THEN [inner EXCEPT !.tag = NoTag]
    ELSE [inner EXCEPT
            !.trees = <<[tag |-> IF "POLY" \in fun.ops THEN inner.tag ELSE fun.tag,
                         kids |-> inner.trees]>>,
            !.tag = NoTag]

RECURSIVE Tree(_, _, _, _), TreeRep(_, _, _, _, _)

Tree(g, input, n, o) ==
    LET p == g[n]
    IN  CASE p.tag \in TerminalTags ->
                LET out == RunTerminal(p, input, o)
                IN  Result(out.res, out.offset, <<>>,
                           IF p.tag = "HOOK" THEN p.hook.sets ELSE NoTag)
          [] p.tag = "CALL" ->
                LET inner == Tree(g, input, p.var, o)
                IN  IF inner.res = "OK" THEN Captured(p.fun, input, o, inner)
                    ELSE Failed(inner.res, inner.offset)
          [] p.tag = "AND" ->
                LET first == Tree(g, input, p.arg1, o)
                IN  IF first.res = "OK" THEN Then(first, Tree(g, input, p.arg2, first.offset))
                    ELSE first
          [] p.tag = "OR" ->
                LET first == Tree(g, input, p.arg1, o)
                IN  IF Backtracks(first.res) THEN Tree(g, input, p.arg2, o)
                    ELSE first
          [] p.tag = "REP" -> TreeRep(g, input, p, o, 1)

\* The k-th turn of a repetition and those after it.
TreeRep(g, input, p, o, k) ==
    LET turn == Tree(g, input, p.sub, o)
    IN  CASE turn.res = "OK" /\ k = p.max -> turn
          [] turn.res = "OK" /\ k # p.max ->
                Then(turn, TreeRep(g, input, p, turn.offset, k + 1))
          [] Backtracks(turn.res) /\ k > p.min -> Result("OK", o, <<>>, NoTag)
          [] turn.res # "OK" /\ ~(Backtracks(turn.res) /\ k > p.min) ->
                Failed(turn.res, turn.offset)
=============================================================================
