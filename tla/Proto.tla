-------------------------------- MODULE Proto --------------------------------
(***************************************************************************)
(* source/pgenc/lang/proto.c: the syntax of the first grammar of the       *)
(* grammar language, which the generator is given when there is no file.   *)
(*                                                                         *)
(* Trees are records as in Generator.  A tuple of parts stands for AND3 to *)
(* AND5, OR3 to OR5: the code nests them to the right.                     *)
(***************************************************************************)
EXTENDS Integers, Sequences, SequencesExt

ID(name) == [tag |-> "ID", text |-> name]
BYTE(n) == [tag |-> "CHAR", num |-> n]
NUM(n) == [tag |-> "NUM", num |-> n]
HOOK(name) == [tag |-> "HOOK", text |-> name]
LIT(word) == [tag |-> "LIT", text |-> word]
Pair(tag, fst, snd) == [tag |-> tag, kids |-> <<fst, snd>>]

\* pgc_syn_newand3 to newand5, pgc_syn_newor3 to newor5.
Nested(tag, parts) ==
    FoldRight(LAMBDA x, rest : Pair(tag, x, rest), Front(parts), Last(parts))
AND(parts) == Nested("AND", parts)
OR(parts) == Nested("OR", parts)
Union(fst, snd) == Pair("UNION", fst, snd)
REP(min, max, sub) == Pair("REP", Pair("RANGE", NUM(min), NUM(max)), sub)
CALL(name, sub) == Pair("CALL", ID(name), sub)

Let(name, exp) == Pair("LET", ID(name), exp)
Def(name, exp) == Pair("DEF", ID(name), exp)
Set(name, exp) == Pair("SET", ID(name), exp)
Dec(name) == [tag |-> "DEC", kids |-> <<ID(name)>>]

IDs(names) == [i \in DOMAIN names |-> ID(names[i])]
-----------------------------------------------------------------------------
\* Lines 96 to 165: spaces, names, characters, numbers.
Words == <<
    Set("wsc", ID("isspace")),
    Let("ws", REP(0, 128, ID("wsc"))),
    Set("alpha", ID("isalpha")),
    Set("idc", Union(ID("alpha"), BYTE(95))),
    Let("idnh", REP(1, 128, ID("idc"))),
    Let("id", CALL("pgc_lang_capid", ID("idnh"))),
    Set("xdigit", ID("isxdigit")),
    Let("xdigits", REP(1, 2, ID("xdigit"))),
    Let("xbyte", CALL("pgc_lang_capxbyte", ID("xdigits"))),
    Let("pctbyte", AND(<<BYTE(37), ID("xbyte")>>)),
    Set("print", ID("isprint")),
    Let("charlit", AND(<<BYTE(39), CALL("pgc_lang_capchar", ID("print")), BYTE(39)>>)),
    Set("digit", ID("isdigit")),
    Let("digits", REP(1, 10, ID("digit"))),
    Let("num", CALL("pgc_lang_capnum", ID("digits"))),
    Let("range", CALL("pgc_lang_caprange", AND(<<ID("num"), BYTE(95), ID("num")>>))),
    Let("utfvalue", CALL("pgc_lang_caputf", REP(1, 6, ID("xdigit")))),
    Let("utfrange", CALL("pgc_lang_caputfrange",
        AND(<<BYTE(38), ID("utfvalue"), BYTE(95), ID("utfvalue")>>)))>>

\* Lines 167 to 204: the expressions for sets.
SetExpressions == <<
    Dec("setexp"),
    Let("setparen", AND(<<BYTE(40), ID("setexp"), BYTE(41)>>)),
    Let("setterm", OR(IDs(<<"setparen", "pctbyte", "charlit", "id">>))),
    Let("setunion", AND(<<AND(<<BYTE(43), ID("setexp")>>), HOOK("pgc_lang_setunion")>>)),
    Let("setdiff", AND(<<AND(<<BYTE(45), ID("setexp")>>), HOOK("pgc_lang_setdiff")>>)),
    Let("setop", OR(IDs(<<"setunion", "setdiff">>))),
    Def("setexp", CALL("pgc_lang_capsetexp",
        AND(IDs(<<"ws", "setterm", "ws">>) \o <<REP(0, 1, ID("setop"))>>)))>>

\* Lines 206 to 269: the expressions.
Expressions == <<
    Dec("exp"),
    Let("paren", AND(<<BYTE(40), ID("exp"), BYTE(41)>>)),
    Let("term", OR(IDs(<<"pctbyte", "charlit", "paren", "id">>))),
    Let("rep", AND(<<ID("range"), ID("term"), HOOK("pgc_lang_setrep")>>)),
    Let("hook", AND(<<BYTE(64), CALL("pgc_lang_caphook", ID("idnh"))>>)),
    Let("phrase", OR(IDs(<<"rep", "hook", "utfrange", "term">>))),
    Let("or", AND(<<BYTE(124), ID("exp"), HOOK("pgc_lang_setor")>>)),
    Let("and", AND(<<ID("exp"), HOOK("pgc_lang_setand")>>)),
    Let("call", AND(<<BYTE(36), ID("exp"), HOOK("pgc_lang_setcall")>>)),
    Let("op", OR(IDs(<<"call", "or", "and">>))),
    Def("exp", CALL("pgc_lang_capexp",
        AND(IDs(<<"ws", "phrase", "ws">>) \o <<REP(0, 1, ID("op"))>>)))>>

\* Lines 271 to 331: the statements.
Binding(word, exp, hook) ==
    Let(word, AND(<<LIT(word), ID("wsidwseq"), ID(exp), BYTE(59), HOOK(hook)>>))
Statements == <<
    Let("wsidws", AND(IDs(<<"ws", "id", "ws">>))),
    Let("dec", AND(<<LIT("dec"), ID("wsidws"), BYTE(59), HOOK("pgc_lang_setdec")>>)),
    Let("wsidwseq", AND(<<ID("wsidws"), BYTE(61)>>)),
    Binding("def", "exp", "pgc_lang_setdef"),
    Binding("set", "setexp", "pgc_lang_setset"),
    Binding("let", "exp", "pgc_lang_setlet"),
    Let("stmt", CALL("pgc_lang_capstmt", OR(IDs(<<"def", "dec", "let", "set">>)))),
    Let("cmt", AND(<<BYTE(35), REP(0, 1024, ID("print"))>>)),
    Let("src", AND(<<ID("ws"), REP(0, 1000000,
        AND(<<OR(IDs(<<"cmt", "stmt">>)), ID("ws")>>))>>))>>

\* pgc_lang_proto: the list, which was built back to front, turned around.
Syntax == Words \o SetExpressions \o Expressions \o Statements
-----------------------------------------------------------------------------
\* The predicates of ctype.h on ASCII.
CType ==
    [isspace |-> {32} \cup 9 .. 13,
     isdigit |-> 48 .. 57,
     isalpha |-> (65 .. 90) \cup (97 .. 122),
     isxdigit |-> (48 .. 57) \cup (65 .. 70) \cup (97 .. 102),
     isprint |-> 32 .. 126]
=============================================================================
