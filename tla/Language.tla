------------------------------ MODULE Language ------------------------------
(***************************************************************************)
(* The grammar of the grammar language, grammar/self.g, as a graph of      *)
(* parser nodes like the one that lang/gen.c prints for it, and the graph  *)
(* for the statements of source/pgenc/lang/proto.c.                        *)
(*                                                                         *)
(* A keyword is one symbol; character classes have a few members each;     *)
(* repetitions of characters and statements end sooner than in self.g.     *)
(***************************************************************************)
EXTENDS Sequences, SequencesExt, TLC

P == INSTANCE Proto

Byte(s) == [tag |-> "BYTE", byte |-> s]
Set(S) == [tag |-> "SET", set |-> S]
And(p, q) == [tag |-> "AND", arg1 |-> p, arg2 |-> q]
Or(p, q) == [tag |-> "OR", arg1 |-> p, arg2 |-> q]
Rep(p, lo, hi) == [tag |-> "REP", sub |-> p, min |-> lo, max |-> hi]
Exp(tag, ops, p) ==
    [tag |-> "CALL", var |-> p, fun |-> [kind |-> "exp", ops |-> ops, tag |-> tag]]
Term(tag, reader, p) ==
    [tag |-> "CALL", var |-> p, fun |-> [kind |-> "term", reader |-> reader, tag |-> tag]]
SetsTag(tag) ==
    [tag |-> "HOOK", hook |-> [reads |-> 0, returns |-> "OK", discards |-> FALSE, sets |-> tag]]

Letters == {"a", "n"}
Digits == {"1", "2"}
Printable == Letters \cup Digits \cup
             {"_", "(", ")", "|", "$", "@", "%", "&", "'", "=", ";", " ", "+", "-", "#"}

\* self.g:3-35, the words.
Words ==
    [sp |-> Set({" "}), ws |-> Rep("sp", 0, 2),
     alpha |-> Set(Letters), idc |-> Set(Letters \cup Digits \cup {"_"}),
     idcs |-> Rep("idc", 0, 2), idpat |-> And("alpha", "idcs"),
     id |-> Term("ID", "str", "idpat"),
     xdigit |-> Set({"1", "2", "a"}), xdigits |-> Rep("xdigit", 1, 2),
     xbyte |-> Term("CHAR", "hex8", "xdigits"),
     pct |-> Byte("%"), pctbyte |-> And("pct", "xbyte"),
     quote |-> Byte("'"), print |-> Set(Printable), printed |-> Term("CHAR", "char", "print"),
     charlit |-> And("quote", "charlit1"), charlit1 |-> And("printed", "quote"),
     digit |-> Set(Digits), digits |-> Rep("digit", 1, 2),
     num |-> Term("NUM", "uint32", "digits"),
     under |-> Byte("_"), range |-> Exp("RANGE", {}, "range1"),
     range1 |-> And("num", "range2"), range2 |-> And("under", "num"),
     utfvalue |-> Term("NUM", "hex32", "xdigits"), amp |-> Byte("&"),
     utfrange |-> Exp("UTF", {}, "utf1"), utf1 |-> And("amp", "utf2"),
     utf2 |-> And("utfvalue", "utf3"), utf3 |-> And("under", "utfvalue")]

\* self.g:38-50, the expressions for sets.
SetExpressions ==
    [setparen |-> And("open", "setparen1"), setparen1 |-> And("setexp", "close"),
     setterm |-> Or("setparen", "setterm1"), setterm1 |-> Or("pctbyte", "setterm2"),
     setterm2 |-> Or("charlit", "id"),
     plus |-> Byte("+"), setunion |-> And("plus", "union1"),
     union1 |-> And("setexp", "setsunion"), setsunion |-> SetsTag("UNION"),
     minus |-> Byte("-"), setdiff |-> And("minus", "diff1"),
     diff1 |-> And("setexp", "setsdiff"), setsdiff |-> SetsTag("DIFF"),
     setop |-> Or("setunion", "setdiff"), setops |-> Rep("setop", 0, 1),
     setexp |-> Exp("NONE", {"POLY", "MERGE"}, "setexp1"), setexp1 |-> And("ws", "setexp2"),
     setexp2 |-> And("setterm", "setexp3"), setexp3 |-> And("ws", "setops")]

\* self.g:52-72, the expressions, but for rep.
Expressions ==
    [open |-> Byte("("), close |-> Byte(")"),
     paren |-> And("open", "paren1"), paren1 |-> And("exp", "close"),
     term |-> Or("pctbyte", "term1"), term1 |-> Or("charlit", "term2"),
     term2 |-> Or("paren", "id"),
     at |-> Byte("@"), name |-> Term("HOOK", "str", "idpat"), hook |-> And("at", "name"),
     phrase |-> Or("rep", "phrase1"), phrase1 |-> Or("hook", "phrase2"),
     phrase2 |-> Or("utfrange", "term"),
     bar |-> Byte("|"), or |-> And("bar", "or1"), or1 |-> And("exp", "setor"),
     setor |-> SetsTag("OR"),
     dollar |-> Byte("$"), call |-> And("dollar", "call1"), call1 |-> And("exp", "setcall"),
     setcall |-> SetsTag("CALL"),
     and |-> And("exp", "setand"), setand |-> SetsTag("AND"),
     op |-> Or("call", "op1"), op1 |-> Or("or", "and"), ops |-> Rep("op", 0, 1),
     exp |-> Exp("NONE", {"POLY", "MERGE"}, "exp1"), exp1 |-> And("ws", "exp2"),
     exp2 |-> And("phrase", "exp3"), exp3 |-> And("ws", "ops")]

\* self.g:74-92, the statements.
Statements ==
    [semi |-> Byte(";"), equal |-> Byte("="),
     wsidws |-> And("ws", "wsid1"), wsid1 |-> And("id", "ws"),
     wsidwseq |-> And("wsidws", "equal"),
     kwdec |-> Byte("dec"), dec |-> And("kwdec", "dec1"), dec1 |-> And("wsidws", "dec2"),
     dec2 |-> And("semi", "setdec"), setdec |-> SetsTag("DEC"),
     kwdef |-> Byte("def"), def |-> And("kwdef", "def1"), def1 |-> And("wsidwseq", "def2"),
     def2 |-> And("exp", "def3"), def3 |-> And("semi", "setdef"), setdef |-> SetsTag("DEF"),
     kwset |-> Byte("set"), set |-> And("kwset", "set1"), set1 |-> And("wsidwseq", "set2"),
     set2 |-> And("setexp", "set3"), set3 |-> And("semi", "setset"), setset |-> SetsTag("SET"),
     kwlet |-> Byte("let"), let |-> And("kwlet", "let1"), let1 |-> And("wsidwseq", "let2"),
     let2 |-> And("exp", "let3"), let3 |-> And("semi", "setlet"), setlet |-> SetsTag("LET"),
     kwext |-> Byte("ext"), ext |-> And("kwext", "ext1"), ext1 |-> And("wsidws", "ext2"),
     ext2 |-> And("id", "ext3"), ext3 |-> And("semi", "setext"), setext |-> SetsTag("EXT"),
     stmt |-> Exp("NONE", {"POLY"}, "stmt1"), stmt1 |-> Or("def", "stmt2"),
     stmt2 |-> Or("dec", "stmt3"), stmt3 |-> Or("let", "stmt4"), stmt4 |-> Or("set", "ext"),
     hash |-> Byte("#"), cmt |-> And("hash", "cmt1"), cmt1 |-> Rep("print", 0, 3),
     src |-> And("ws", "src1"), src1 |-> Rep("src2", 0, 3), src2 |-> And("src3", "ws"),
     src3 |-> Or("cmt", "stmt")]

\* self.g:58.
Repetition == [rep |-> Exp("REP", {}, "rep1"), rep1 |-> And("range", "term"),
               setrep |-> SetsTag("REP")]
-----------------------------------------------------------------------------
\* The symbols that stand for characters.
Symbol ==
    [n \in {32, 35, 36, 37, 38, 39, 40, 41, 43, 45, 49, 50, 59, 61, 64, 95, 97, 110, 124} |->
        CASE n = 32 -> " " [] n = 35 -> "#" [] n = 36 -> "$" [] n = 37 -> "%" [] n = 38 -> "&"
          [] n = 39 -> "'" [] n = 40 -> "(" [] n = 41 -> ")" [] n = 43 -> "+" [] n = 45 -> "-"
          [] n = 49 -> "1" [] n = 50 -> "2" [] n = 59 -> ";" [] n = 61 -> "=" [] n = 64 -> "@"
          [] n = 95 -> "_" [] n = 97 -> "a" [] n = 110 -> "n" [] n = 124 -> "|"]
Symbols(S) == {Symbol[n] : n \in S \cap DOMAIN Symbol}

\* The functions of lang/parse.c that a grammar may call.
Calls(name, p) ==
    CASE name = "pgc_lang_capid" -> Term("ID", "str", p)
      [] name = "pgc_lang_caphook" -> Term("HOOK", "str", p)
      [] name = "pgc_lang_capxbyte" -> Term("CHAR", "hex8", p)
      [] name = "pgc_lang_capchar" -> Term("CHAR", "char", p)
      [] name = "pgc_lang_capnum" -> Term("NUM", "uint32", p)
      [] name = "pgc_lang_caputf" -> Term("NUM", "hex32", p)
      [] name = "pgc_lang_caprange" -> Exp("RANGE", {}, p)
      [] name = "pgc_lang_caputfrange" -> Exp("UTF", {}, p)
      [] name \in {"pgc_lang_capexp", "pgc_lang_capsetexp"} -> Exp("NONE", {"POLY", "MERGE"}, p)
      [] name = "pgc_lang_capstmt" -> Exp("NONE", {"POLY"}, p)
Hooks ==
    [pgc_lang_setunion |-> "UNION", pgc_lang_setdiff |-> "DIFF", pgc_lang_setrep |-> "REP",
     pgc_lang_setor |-> "OR", pgc_lang_setand |-> "AND", pgc_lang_setcall |-> "CALL",
     pgc_lang_setdec |-> "DEC", pgc_lang_setdef |-> "DEF", pgc_lang_setset |-> "SET",
     pgc_lang_setlet |-> "LET"]

\* The parser that the macro printed for an expression makes, and those in it.
\* The name of a part is that of its statement, or that of the whole with
\* more behind it.
RECURSIVE Nodes(_, _)
PartName(x, name) == IF x.tag = "ID" THEN x.text ELSE name
PartNodes(x, name) == IF x.tag = "ID" THEN <<>> ELSE Nodes(x, name)
Nodes(x, name) ==
    LET fst == name \o "l"   snd == name \o "r"
        arg1 == PartName(x.kids[1], fst)   arg2 == PartName(x.kids[2], snd)
        node == CASE x.tag = "AND" -> And(arg1, arg2)
                  [] x.tag = "OR" -> Or(arg1, arg2)
                  [] x.tag = "REP" ->
                        Rep(arg2, x.kids[1].kids[1].num, x.kids[1].kids[2].num)
                  [] x.tag = "CALL" -> Calls(x.kids[1].text, arg2)
                  [] x.tag = "CHAR" -> Byte(Symbol[x.num])
                  [] x.tag = "LIT" -> [tag |-> "CMP", str |-> <<x.text>>]
                  [] x.tag = "HOOK" -> SetsTag(Hooks[x.text])
    IN  (name :> node)
        @@ (IF x.tag \in {"AND", "OR"} THEN PartNodes(x.kids[1], fst) ELSE <<>>)
        @@ (IF x.tag \in {"AND", "OR", "REP", "CALL"} THEN PartNodes(x.kids[2], snd) ELSE <<>>)

\* The characters of a set expression, by the sets that are known.
RECURSIVE Members(_, _)
Members(x, known) ==
    CASE x.tag = "CHAR" -> {Symbol[x.num]}
      [] x.tag = "UNION" -> Members(x.kids[1], known) \cup Members(x.kids[2], known)
      [] x.tag = "ID" /\ x.text \in DOMAIN P!CType -> Symbols(P!CType[x.text])
      [] x.tag = "ID" /\ x.text \notin DOMAIN P!CType -> known[x.text].set

\* What a list of statements is to the engine.
Compiled(statements) ==
    FoldLeft(LAMBDA known, s :
                IF s.tag = "SET"
                THEN (s.kids[1].text :> Set(Members(s.kids[2], known))) @@ known
                ELSE IF s.tag \in {"LET", "DEF"}
                THEN Nodes(s.kids[2], s.kids[1].text) @@ known
                ELSE known,
             <<>>, statements)
=============================================================================
