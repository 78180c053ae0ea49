------------------------------ MODULE MCParser ------------------------------
(***************************************************************************)
(* Parser.tla on small grammars, against the recursive engine.             *)
(***************************************************************************)
EXTENDS PegReference, TLC

CONSTANTS a, b, x           \* the input symbols; x does not decode

And(p, q) == [tag |-> "AND", arg1 |-> p, arg2 |-> q]
Or(p, q) == [tag |-> "OR", arg1 |-> p, arg2 |-> q]
Rep(p, lo, hi) == [tag |-> "REP", sub |-> p, min |-> lo, max |-> hi]
Call(p) == [tag |-> "CALL", var |-> p]
Hook(n, code, d) ==
    [tag |-> "HOOK", hook |-> [reads |-> n, returns |-> code, discards |-> d]]

\* The nodes without sub-parsers, one of each kind, hooks that fail after
\* reading, that fail with an error no choice goes back on, and that discard.
Leaves ==
    [A |-> [tag |-> "BYTE", byte |-> a],
     S |-> [tag |-> "SET", set |-> {a, b}],
     AB |-> [tag |-> "CMP", str |-> <<a, b>>],
     U |-> [tag |-> "UTF8", set |-> {b}],
     Empty |-> Hook(0, "OK", FALSE),
     Spoil |-> Hook(1, "CMP", FALSE),
     Abort |-> Hook(0, "SYN", FALSE),
     Refill |-> Hook(1, "OK", TRUE)]

MCNode == {"top", "mid", "low"} \cup DOMAIN Leaves
MCRoot == "top"
MCInvalid == {x}

Pairs(P) == {And(p, q) : p \in P, q \in P} \cup {Or(p, q) : p \in P, q \in P}
Reps(P) == {Rep(p, lo, hi) : p \in P, lo \in {0, 1}, hi \in {1, 2}}
Calls(P) == {Call(p) : p \in P}
Uses(q, p) == q.tag = "REP" \/ q.tag = "CALL" \/ p \in {q.arg1, q.arg2}

Low == {And("A", "U"), Or("AB", "A"), Or("Refill", "S"), Rep("S", 1, 2),
        Rep("Empty", 0, 2), And("Refill", "Spoil")}
Mid == {q \in Pairs({"low", "A", "Abort", "Spoil"}) : Uses(q, "low")}
         \cup Reps({"low"}) \cup Calls({"low"})
High == {q \in Pairs({"mid", "U", "AB"}) : Uses(q, "mid")}
         \cup Reps({"mid"}) \cup Calls({"mid"})

\* Every way to put three composite nodes on top of each other out of these,
\* and the grammar of nested brackets, which calls itself.
Layered == {[top |-> t, mid |-> m, low |-> l] @@ Leaves : t \in High, m \in Mid, l \in Low}
Nested(again) ==
    [top |-> Or("mid", "U"), mid |-> And("A", "low"), low |-> And(again, "A"),
     Empty |-> Call("top")] @@ Leaves

MCGrammars == Layered \cup {Nested("Empty"), Nested("top")}
MCInputs == {<<>>, <<a>>, <<b>>, <<x>>, <<a, b>>, <<a, a, b>>, <<a, a, b, a, a>>}
-----------------------------------------------------------------------------
RECURSIVE Eval(_, _, _, _), EvalRep(_, _, _, _, _)

\* The one outcome that has the rules of PegReference, if the recursion ends;
\* "none" if it comes to a CALL node.
Eval(g, inp, m, o) ==
    LET p == g[m]
    IN  CASE p.tag \in TerminalTags -> RunTerminal(p, inp, o)
          [] p.tag = "CALL" -> Outcome("none", o)
          [] p.tag = "AND" ->
                LET first == Eval(g, inp, p.arg1, o)
                IN  IF first.res = "OK" THEN Eval(g, inp, p.arg2, first.offset) ELSE first
          [] p.tag = "OR" ->
                LET first == Eval(g, inp, p.arg1, o)
                IN  IF Backtracks(first.res) THEN Eval(g, inp, p.arg2, o) ELSE first
          [] p.tag = "REP" -> EvalRep(g, inp, p, o, 1)
EvalRep(g, inp, p, o, n) ==
    LET turn == Eval(g, inp, p.sub, o)
    IN  CASE turn.res = "OK" /\ n >= p.max -> turn
          [] turn.res = "OK" /\ n < p.max -> EvalRep(g, inp, p, turn.offset, n + 1)
          [] turn.res # "OK" /\ (~Backtracks(turn.res) \/ n <= p.min) -> turn
          [] Backtracks(turn.res) /\ n > p.min -> Outcome("OK", o)

Some(outcome) == IF outcome.res = "none" THEN {} ELSE {outcome}
MCResults(g, inp, m, o) == Some(Eval(g, inp, m, o))
MCTurns(g, inp, m, o, n) == Some(EvalRep(g, inp, g[m], o, n))

\* parser.h:162-164 and 181-184 of pgc_par_run and pgc_par_runs: failure is a
\* negative error code, and what else is returned says how much was successfully
\* parsed.  (Want of stack is OOB, which choices and repetitions take for an
\* alternative that did not match: they go on, and may succeed with less.)
SuccessIsGenuine ==
    status = "returned" /\ res = "OK" /\ Comparable =>
        Outcome(res, offset) \in Results(par, input, Root, 0)
=============================================================================
