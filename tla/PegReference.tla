---------------------------- MODULE PegReference ----------------------------
(***************************************************************************)
(* source/pgenc/parser.c, the recursive engine that parser_nr.c replaced.  *)
(* It has no stack to run out of, and it takes every seek for a success.   *)
(*                                                                         *)
(* Results and Turns hold what its functions return: they have whatever a  *)
(* function makes of what they have for its calls.  What is true of every  *)
(* such pair is true of the smallest, which has nothing but that.          *)
(***************************************************************************)
EXTENDS Parser

CONSTANTS
    Results(_, _, _, _),    \* of pgc_par_run on a grammar, input, node and offset
    Turns(_, _, _, _, _)    \* of the n-th turn of pgc_par_run_rep and those after it

\* pgc_par_run_and: its loop does for arg2 what pgc_par_run does.
RunsAnd(g, inp, p, o) ==
    UNION {IF first.res = "OK" THEN Results(g, inp, p.arg2, first.offset) ELSE {first} :
              first \in Results(g, inp, p.arg1, o)}

\* pgc_par_run_or
RunsOr(g, inp, p, o) ==
    UNION {IF Backtracks(first.res) THEN Results(g, inp, p.arg2, o) ELSE {first} :
              first \in Results(g, inp, p.arg1, o)}

\* pgc_par_run.  A CALL node has no result: its function is given NULL for a
\* stack ("ERROR!!!", parser.c:195-197), and the pgc_par_run_ex it is there to
\* call pushes on that.
Runs(g, inp, m, o) ==
    LET p == g[m]
    IN  CASE p.tag \in TerminalTags -> {RunTerminal(p, inp, o)}
          [] p.tag = "CALL" -> {}
          [] p.tag = "AND" -> RunsAnd(g, inp, p, o)
          [] p.tag = "OR" -> RunsOr(g, inp, p, o)
          [] p.tag = "REP" -> Turns(g, inp, m, o, 1)

\* A turn of the loop of pgc_par_run_rep.
RunsTurn(g, inp, m, o, n) ==
    LET p == g[m]
        goesOn(turn) == turn.res = "OK" /\ n < p.max
        ends(turn) == IF Backtracks(turn.res) /\ n > p.min THEN Outcome("OK", o) ELSE turn
    IN  UNION {IF goesOn(turn) THEN Turns(g, inp, m, turn.offset, n + 1) ELSE {ends(turn)} :
                  turn \in Results(g, inp, p.sub, o)}

ASSUME ReferenceAssumption ==
    \A g \in Grammars, inp \in Inputs : \A m \in Node, o \in 0 .. Len(inp) :
        /\ Runs(g, inp, m, o) \subseteq Results(g, inp, m, o)
        /\ g[m].tag = "REP" =>
              \A n \in 1 .. g[m].max :
                  RunsTurn(g, inp, m, o, n) \subseteq Turns(g, inp, m, o, n)
-----------------------------------------------------------------------------
\* The grammars the two engines can be compared on.  The recursive one has no
\* nested runs, and in parser_nr.c a maximum of zero is none: step is one when
\* it is first compared with it.
Comparable ==
    \A m \in Node :
        /\ par[m].tag # "CALL"
        /\ par[m].tag = "REP" => par[m].max # 0

\* Unless it ran out of stack or its input left the window, the engine with the
\* explicit stack returns what the recursive one returns, cursor included, for a
\* grammar without CALL nodes whose repetitions have a maximum.
\* (pgc_par_run_ex, pgc_par_run)
AgreesWithReference ==
    status = "returned" /\ ~exhausted /\ ~lost /\ Comparable =>
        Outcome(res, offset) \in Results(par, input, Root, 0)
=============================================================================
