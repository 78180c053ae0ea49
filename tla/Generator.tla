------------------------------ MODULE Generator ------------------------------
(***************************************************************************)
(* source/pgenc/lang/gen.c: printing the syntax tree as declarations in C. *)
(*                                                                         *)
(* The functions pgc_lang_gen_* call each other along a tree; their calls  *)
(* are the frames of a stack here, and what is printed is a sequence of    *)
(* declarations instead of text.  Printing can fail at any time.           *)
(*                                                                         *)
(* A tree is a record: tag and text for a name, tag and num for a          *)
(* character or number, tag and kids for the others.                       *)
(***************************************************************************)
EXTENDS Integers, Sequences, FiniteSets, Functions

CONSTANTS
    Sources,        \* the lists of statements, as the captures build them
    Nodes,          \* the expressions in them, and the parts of those
    Predicates      \* the characters of each name that pgc_lang_gen_setpred knows

VARIABLES
    source,         \* the statements
    pc,             \* "starting", "scanning", "declaring", "generating", "returned",
                    \* "aborted"
    todo,           \* the statements that the running loop has not come to
    current,        \* the statement that is being generated, if there is one
    stack,          \* the active calls, each with what its own calls gave it
    functions,      \* tbl of pgc_lang_gen_hooks: name to "hook" or "call"
    out,            \* the declarations printed
    uid,            \* st->uid
    sets,           \* st->sets, the sets defined so far
    allocated,      \* the sets that malloc returned and free has not got
    res,            \* the error code
    missed          \* history: the functions whose prototypes could not be printed

vars == <<source, pc, todo, current, stack, functions, out, uid, sets, allocated, res,
          missed>>
scanned == <<source, functions, missed>>
-----------------------------------------------------------------------------
\* Identifiers: PREFIX_name, pN_p, and those of the user's functions.
Named(name) == [parser |-> name]
Numbered(n) == [number |-> n]
Function(type, name) == [function |-> name, type |-> type]

\* A declaration of an identifier as something that refers to others.
Declaration(id, what, refs, data) == [id |-> id, what |-> what, refs |-> refs, data |-> data]
Extern(id) == Declaration(id, "extern", <<>>, <<>>)
Torn == Declaration([nothing |-> TRUE], "torn", <<>>, <<>>)

\* The parts of an expression that the generator goes into.
Parts(syn) ==
    IF syn.tag \in {"AND", "OR", "UNION", "DIFF"} THEN syn.kids
    ELSE IF syn.tag \in {"REP", "CALL"} THEN <<syn.kids[2]>>
    ELSE <<>>

Tags == {"AND", "OR", "REP", "CALL", "HOOK", "CHAR", "LIT", "UTF", "ID", "UNION", "DIFF"}

\* The captures build whole trees.
ASSUME GeneratorAssumption ==
    /\ \A syn \in Nodes : syn.tag \in Tags /\ Parts(syn) \in Seq(Nodes)
    /\ \A list \in Sources :
          /\ list \in Seq(Range(list))
          /\ \A i \in DOMAIN list :
                list[i].tag \in {"DEF", "LET", "SET"} => list[i].kids[2] \in Nodes

\* The numbers, characters and words in the macro of a node.
Data(syn) ==
    IF syn.tag = "REP" THEN <<syn.kids[1].kids[1].num, syn.kids[1].kids[2].num>>
    ELSE IF syn.tag = "UTF" THEN <<syn.kids[1].num, syn.kids[2].num>>
    ELSE IF syn.tag = "CHAR" THEN <<syn.num>>
    ELSE IF syn.tag = "LIT" THEN <<syn.text>>
    ELSE <<>>

\* The user's function in it.
Uses(syn) ==
    IF syn.tag = "HOOK" THEN <<Function("hook", syn.text)>>
    ELSE IF syn.tag = "CALL" THEN <<Function("call", syn.kids[1].text)>>
    ELSE <<>>
-----------------------------------------------------------------------------
Top == stack[Len(stack)]
Depth == Len(stack) - 1
Statement == current[1]
Complete == stack # <<>> /\ Len(Top.got) = Len(Parts(Top.syn))

Call(syn) == stack' = Append(stack, [syn |-> syn, got |-> <<>>])

\* The innermost call returns a result to the one that made it.
Give(result) ==
    stack' = [i \in 1 .. Depth |->
                IF i < Depth THEN stack[i]
                ELSE [stack[i] EXCEPT !.got = Append(stack[i].got, result)]]

\* Mutant: the first part is generated in place of the second.
DescendFirst ==
    /\ stack # <<>> /\ ~Complete
    /\ Call(Parts(Top.syn)[1])
    /\ UNCHANGED <<pc, todo, current, out, uid, sets, allocated, res, scanned>>

\* A function calls itself, or the one for the tag, on the next part.
Descend ==
    /\ stack # <<>> /\ ~Complete
    /\ Call(Parts(Top.syn)[Len(Top.got) + 1])
    /\ UNCHANGED <<pc, todo, current, out, uid, sets, allocated, res, scanned>>

\* Mutant: a set that is not finished is forgotten.
HeldForgotten == 0

\* The set that pgc_lang_gen_set frees when it cannot be finished.
Held == IF current # <<>> /\ Statement.tag = "SET" THEN 1 ELSE 0

\* Every function on the way returns; the sets in the table are freed.
Return(code) ==
    /\ pc' = "returned" /\ res' = code
    /\ stack' = <<>> /\ todo' = <<>> /\ current' = <<>>
    /\ allocated' = allocated - Held - Len(sets)
    /\ sets' = <<>>

\* Mutant: the error of the C library is not handed on.
PrintFailsQuietly(declarations) ==
    /\ \E k \in 0 .. Len(declarations) - 1 :
          out' = out \o SubSeq(declarations, 1, k) \o <<Torn>>
    /\ Return("OK")

\* Printing the declarations fails before all of them are printed.
PrintFails(declarations) ==
    /\ \E k \in 0 .. Len(declarations) - 1 :
          out' = out \o SubSeq(declarations, 1, k) \o <<Torn>>
    /\ Return("IO")
-----------------------------------------------------------------------------
\* pgc_lang_gen prints the #include, or fails to.
Include ==
    /\ pc = "starting"
    /\ \/ pc' = "scanning" /\ UNCHANGED <<todo, current, stack, out, sets, allocated, res>>
       \/ PrintFails(<<Torn>>)
    /\ UNCHANGED <<uid, scanned>>

\* pgc_lang_gen_hooks goes to the next statement.
ScanStatement ==
    /\ pc = "scanning" /\ stack = <<>> /\ todo # <<>>
    /\ todo' = Tail(todo)
    /\ IF Head(todo).tag \in {"DEF", "LET"} THEN Call(Head(todo).kids[2])
       ELSE UNCHANGED stack
    /\ UNCHANGED <<pc, current, out, uid, sets, allocated, res, scanned>>

\* A name is entered once, for the use that is seen first.
Enter(type, name) ==
    functions' = [n \in DOMAIN functions \cup {name} |->
                    IF n \in DOMAIN functions THEN functions[n] ELSE type]

\* Mutant: a hook is not entered.
EnterUsesCallsOnly(syn) ==
    \/ syn.tag = "CALL" /\ Enter("call", syn.kids[1].text)
    \/ syn.tag # "CALL" /\ UNCHANGED functions
EnterUses(syn) ==
    \/ syn.tag = "CALL" /\ Enter("call", syn.kids[1].text)
    \/ syn.tag = "HOOK" /\ Enter("hook", syn.text)
    \/ syn.tag \notin {"CALL", "HOOK"} /\ UNCHANGED functions

\* The end of pgc_lang_gen_hooks_scan.  What is called has to be a string.
IsNamed(syn) == syn.tag = "CALL" => "text" \in DOMAIN syn.kids[1]
Scanned ==
    /\ pc = "scanning" /\ Complete
    /\ IsNamed(Top.syn)
    /\ EnterUses(Top.syn)
    /\ Give(<<>>)
    /\ UNCHANGED <<source, pc, todo, current, out, uid, sets, allocated, res, missed>>

\* pgc_ast_tostr asserts that it is.
ScanAborts ==
    /\ pc = "scanning" /\ Complete
    /\ ~IsNamed(Top.syn)
    /\ pc' = "aborted"
    /\ UNCHANGED <<source, todo, current, stack, functions, out, uid, sets, allocated, res,
                   missed>>

EndScan ==
    /\ pc = "scanning" /\ stack = <<>> /\ todo = <<>>
    /\ pc' = "declaring"
    /\ UNCHANGED <<todo, current, stack, out, uid, sets, allocated, res, scanned>>

\* One prototype for each name, in the order of the table, which is any.  Nobody
\* looks whether it could be printed.
Undeclared ==
    {name \in DOMAIN functions \ missed :
        \A i \in DOMAIN out : out[i].id # Function(functions[name], name)}
DeclareFunction(name) ==
    /\ pc = "declaring"
    /\ \/ /\ out' = Append(out, Extern(Function(functions[name], name)))
          /\ UNCHANGED missed
       \/ /\ missed' = missed \cup {name}
          /\ UNCHANGED out
    /\ UNCHANGED <<source, pc, todo, current, stack, functions, uid, sets, allocated, res>>

EndDeclare ==
    /\ pc = "declaring" /\ Undeclared = {}
    /\ pc' = "generating" /\ todo' = source
    /\ UNCHANGED <<current, stack, out, uid, sets, allocated, res, scanned>>
-----------------------------------------------------------------------------
\* pgc_lang_gen_dec, pgc_lang_gen_ext
GenExtern ==
    /\ pc = "generating" /\ current = <<>> /\ todo # <<>>
    /\ Head(todo).tag \in {"DEC", "EXT"}
    /\ LET names == Head(todo).kids
           declaration == Extern(Named(names[Len(names)].text))
       IN  \/ /\ todo' = Tail(todo)
              /\ out' = Append(out, declaration)
              /\ UNCHANGED <<pc, current, stack, sets, allocated, res>>
           \/ PrintFails(<<declaration>>)
    /\ UNCHANGED <<uid, scanned>>

\* pgc_lang_gen_def, pgc_lang_gen_let, pgc_lang_gen_set.  A set is allocated first.
GenStatement ==
    /\ pc = "generating" /\ current = <<>> /\ todo # <<>>
    /\ Head(todo).tag \in {"DEF", "LET", "SET"}
    /\ todo' = Tail(todo)
    /\ current' = <<Head(todo)>>
    /\ Call(Head(todo).kids[2])
    /\ allocated' = IF Head(todo).tag = "SET" THEN allocated + 1 ELSE allocated
    /\ UNCHANGED <<pc, out, uid, sets, res, scanned>>

\* The name of the statement, st->fname.
Name == Statement.kids[1].text
Printing == pc = "generating" /\ current # <<>> /\ Complete /\ Statement.tag \in {"DEF", "LET"}

\* pgc_lang_gen_id, when something refers to the name.
GenReference ==
    /\ Printing /\ Top.syn.tag = "ID" /\ Depth > 0
    /\ Give(Named(Top.syn.text))
    /\ UNCHANGED <<pc, todo, current, out, uid, sets, allocated, res, scanned>>

\* The declaration is printed, and the statement is done or the identifier is
\* what its caller refers to.
Emit(declaration) ==
    \/ /\ out' = Append(out, declaration)
       /\ Give(declaration.id)
       /\ current' = IF Depth = 0 THEN <<>> ELSE current
       /\ UNCHANGED <<pc, todo, sets, allocated, res>>
    \/ PrintFails(<<declaration>>)

\* pgc_lang_gen_id, when the statement is nothing but a name: it is printed as it
\* is, without the prefix of the parsers.
GenAlias ==
    /\ Printing /\ Top.syn.tag = "ID" /\ Depth = 0
    /\ Emit(Declaration(Named(Name), "alias", <<[unprefixed |-> Top.syn.text]>>, <<>>))
    /\ UNCHANGED <<uid, scanned>>

\* Mutant: the number is that of the next parser too.
AdvanceNever == UNCHANGED uid

\* pgc_lang_gen_sig: the statement's own parser has its name, the others numbers.
Signed == IF Depth = 0 THEN Named(Name) ELSE Numbered(uid)
Advance == uid' = IF Depth = 0 THEN uid ELSE uid + 1

\* pgc_lang_gen_and, _or, _rep, _call, _char, _lit, _utf, _hook
GenNode ==
    /\ Printing /\ Top.syn.tag # "ID"
    /\ Emit(Declaration(Signed, Top.syn.tag, Top.got \o Uses(Top.syn), Data(Top.syn)))
    /\ Advance
    /\ UNCHANGED scanned
-----------------------------------------------------------------------------
Evaluating == pc = "generating" /\ current # <<>> /\ Complete /\ Statement.tag = "SET"

\* pgc_lang_gen_setid: a predicate before a set, and one of the sets of that name.
Looked(name) ==
    IF name \in DOMAIN Predicates THEN {Predicates[name]}
    ELSE {sets[i].members : i \in {j \in DOMAIN sets : sets[j].name = name}}

\* pgc_lang_gen_setexp: the sets it can return, none if it cannot.
Values(syn, got) ==
    IF syn.tag = "ID" THEN Looked(syn.text)
    ELSE IF syn.tag = "CHAR" THEN {{syn.num}}
    ELSE IF syn.tag = "UNION" THEN {got[1] \cup got[2]}
    ELSE {got[1] \ got[2]}

SetUnknown ==
    /\ Evaluating /\ Values(Top.syn, Top.got) = {}
    /\ Return("SYN")
    /\ UNCHANGED <<out, uid, scanned>>

SetPart ==
    /\ Evaluating /\ Depth > 0
    /\ \E members \in Values(Top.syn, Top.got) : Give(members)
    /\ UNCHANGED <<pc, todo, current, out, uid, sets, allocated, res, scanned>>

\* The words and the parser of the set are printed, and it is entered.
GenSet ==
    /\ Evaluating /\ Depth = 0
    /\ \E members \in Values(Top.syn, Top.got) :
          LET words == Declaration(Numbered(uid), "words", <<>>, <<members>>)
              parser == Declaration(Named(Name), "SET", <<Numbered(uid)>>, <<>>)
          IN  \/ /\ out' = out \o <<words, parser>>
                 /\ sets' = Append(sets, [name |-> Name, members |-> members])
                 /\ Give(members)
                 /\ current' = <<>>
                 /\ UNCHANGED <<pc, todo, allocated, res>>
              \/ PrintFails(<<words, parser>>)
    /\ uid' = uid + 1
    /\ UNCHANGED scanned

EndStatements ==
    /\ pc = "generating" /\ current = <<>> /\ todo = <<>>
    /\ Return("OK")
    /\ UNCHANGED <<out, uid, scanned>>

Init ==
    /\ source \in Sources
    /\ pc = "starting" /\ todo = source
    /\ current = <<>> /\ stack = <<>>
    /\ functions = <<>> /\ missed = {}
    /\ out = <<>> /\ uid = 0
    /\ sets = <<>> /\ allocated = 0
    /\ res = "OK"

Scan == Include \/ ScanStatement \/ Scanned \/ ScanAborts \/ EndScan
Declare == (\E name \in Undeclared : DeclareFunction(name)) \/ EndDeclare
Generate ==
    \/ GenExtern \/ GenStatement \/ GenReference \/ GenAlias \/ GenNode
    \/ SetUnknown \/ SetPart \/ GenSet \/ EndStatements

Next == Scan \/ Declare \/ Generate \/ Descend

Spec == Init /\ [][Next]_vars
-----------------------------------------------------------------------------
\* The variables have their types: the stack is a way down in one expression, of
\* which the parts to the left of it are done.
TypeOK ==
    /\ pc \in {"starting", "scanning", "declaring", "generating", "returned", "aborted"}
    /\ res \in {"OK", "IO", "SYN"}
    /\ uid \in Nat /\ allocated \in Nat
    /\ Range(functions) \subseteq {"hook", "call"} /\ missed \subseteq DOMAIN functions
    /\ \A i \in DOMAIN stack : Len(stack[i].got) <= Len(Parts(stack[i].syn))
    /\ \A i \in 1 .. Len(stack) - 1 :
          stack[i + 1].syn = Parts(stack[i].syn)[Len(stack[i].got) + 1]
    /\ pc = "generating" => (current = <<>> <=> stack = <<>>)

\* No memory is lost: the sets that are allocated are those in the table and the
\* one that is being made, and none is when pgc_lang_gen has returned, whatever
\* failed.  (pgc_lang_gen_set, pgc_lang_gen_stmts)
SetsReleased ==
    /\ pc # "returned" => allocated = Len(sets) + Held
    /\ pc = "returned" => allocated = 0

\* Every number that a declaration refers to is that of one declaration above it,
\* for any source, whole or cut off by a failure: no number is given twice, though
\* nested parsers and the words of sets draw from one counter and are numbered in
\* another order than the statements.  (pgc_lang_gen_sig, st->uid)
NumbersInScope ==
    /\ \A i \in DOMAIN out : \A id \in Range(out[i].refs) :
          "number" \in DOMAIN id => \E j \in 1 .. i - 1 : out[j].id = id
    /\ \A i, j \in DOMAIN out :
          "number" \in DOMAIN out[i].id /\ out[i].id = out[j].id => i = j
=============================================================================
