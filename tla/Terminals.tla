----------------------------- MODULE Terminals -----------------------------
(***************************************************************************)
(* The parsers that have no sub-parser, as source/pgenc/parser_nr.c runs   *)
(* them on a buffer: each returns an error code and where it leaves the    *)
(* cursor.  Both engines (parser_nr.c and parser.c) run them alike.        *)
(*                                                                         *)
(* A parser node p is a record with the fields of struct pgc_par that its  *)
(* tag selects.  The input is a sequence of symbols; the ones in Invalid   *)
(* do not decode as UTF-8.                                                 *)
(***************************************************************************)
EXTENDS Integers, Sequences

CONSTANT Invalid

TerminalTags == {"BYTE", "SET", "UTF8", "CMP", "HOOK"}

Outcome(code, o) == [res |-> code, offset |-> o]

\* pgc_buf_match of one byte against a set.
MatchByte(S, input, o) ==
    IF o + 1 > Len(input) THEN Outcome("OOB", o)
    ELSE IF input[o + 1] \in S THEN Outcome("OK", o + 1)
    ELSE Outcome("CMP", o)

\* pgc_buf_matchutf8: a symbol that does not decode is an error of its own.
MatchUtf8(S, input, o) ==
    IF o < Len(input) /\ input[o + 1] \in Invalid THEN Outcome("ENC", o)
    ELSE MatchByte(S, input, o)

\* pgc_buf_cmp of a string.
CmpString(str, input, o) ==
    IF o + Len(str) > Len(input) THEN Outcome("OOB", o)
    ELSE IF \A k \in 1 .. Len(str) : input[o + k] = str[k]
         THEN Outcome("OK", o + Len(str))
    ELSE Outcome("CMP", o)

\* A hook is the user's code.  This one reads some symbols, as far as there are
\* any, and returns a code of its choice.
RunHook(hook, input, o) ==
    IF o + hook.reads > Len(input) THEN Outcome("OOB", o)
    ELSE Outcome(hook.returns, o + hook.reads)

RunTerminal(p, input, o) ==
    CASE p.tag = "BYTE" -> MatchByte({p.byte}, input, o)
      [] p.tag = "SET"  -> MatchByte(p.set, input, o)
      [] p.tag = "UTF8" -> MatchUtf8(p.set, input, o)
      [] p.tag = "CMP"  -> CmpString(p.str, input, o)
      [] p.tag = "HOOK" -> RunHook(p.hook, input, o)
=============================================================================
