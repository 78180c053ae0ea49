------------------------------- MODULE Meaning -------------------------------
(***************************************************************************)
(* What a source of Generator.tla says, and what the declarations that are *)
(* printed for it say.                                                     *)
(*                                                                         *)
(* What an expression has in it, and what it stands for, go by recursion   *)
(* over trees of any depth: the three constants are whatever has the       *)
(* equations of MeaningAssumption.                                         *)
(***************************************************************************)
EXTENDS Generator

CONSTANTS
    Within(_),          \* an expression and all in it
    Described(_),       \* the parser that an expression describes
    Members(_, _, _)    \* the set that one describes in a statement of a source

\* The name that a statement introduces, and whether it introduces a parser.
Introduces(st) ==
    IF st.tag \in {"DEC", "EXT"} THEN st.kids[Len(st.kids)].text ELSE st.kids[1].text
HasExpression(st) == st.tag \in {"LET", "DEF"}
Defines(st) == st.tag \in {"LET", "DEF", "SET"}

\* The last set statement above the i-th that introduces a name.
SetsAbove(list, name, i) ==
    {j \in 1 .. i - 1 : list[j].tag = "SET" /\ Introduces(list[j]) = name}
LastOf(list, name, i) ==
    CHOOSE j \in SetsAbove(list, name, i) : \A k \in SetsAbove(list, name, i) : k <= j

\* The equations.  They have an operator for what they say of the parts.

\* An expression and all in its parts.
AllOf(In(_), syn) == {syn} \cup UNION {In(Parts(syn)[i]) : i \in DOMAIN Parts(syn)}

\* The macro of a node: what it is, what it refers to, and its numbers.
Said(what, refs, data) == [what |-> what, refs |-> refs, data |-> data]
NodeSaid(Des(_), syn) ==
    Said(syn.tag,
         [i \in DOMAIN Parts(syn) |->
            LET part == Parts(syn)[i]
            IN  IF part.tag = "ID" THEN Named(part.text) ELSE Des(part)] \o Uses(syn),
         Data(syn))

\* The set of a set expression in the i-th statement.
SetSaid(Mem(_, _, _), list, syn, i) ==
    CASE syn.tag = "CHAR" -> {syn.num}
      [] syn.tag = "UNION" -> Mem(list, syn.kids[1], i) \cup Mem(list, syn.kids[2], i)
      [] syn.tag = "DIFF" -> Mem(list, syn.kids[1], i) \ Mem(list, syn.kids[2], i)
      [] syn.tag = "ID" ->
            IF syn.text \in DOMAIN Predicates THEN Predicates[syn.text]
            ELSE LET last == LastOf(list, syn.text, i)
                 IN  Mem(list, list[last].kids[2], last)

\* A name in the i-th statement of a source is that of a set.
Known(list, syn, i) ==
    syn.tag = "ID" /\ syn.text \notin DOMAIN Predicates => SetsAbove(list, syn.text, i) # {}

\* All that the statements up to the i-th use are sets.
KnownTo(list, i) ==
    \A k \in 1 .. i : list[k].tag = "SET" =>
        \A x \in Within(list[k].kids[2]) : Known(list, x, k)

\* Set expressions have nothing else in them, and two parts: no other tree is
\* built for a set statement.  (setexp in self.g)
IsSetExpression(syn) ==
    /\ syn.tag \in {"CHAR", "UNION", "DIFF", "ID"}
    /\ syn.tag \in {"UNION", "DIFF"} => Len(syn.kids) = 2

ASSUME MeaningAssumption ==
    /\ \A syn \in Nodes : Within(syn) = AllOf(Within, syn)
    /\ \A syn \in Nodes : syn.tag # "ID" /\ (\A x \in Within(syn) : IsNamed(x)) =>
          Described(syn) = NodeSaid(Described, syn)
    /\ \A list \in Sources : \A i \in DOMAIN list : list[i].tag = "SET" =>
          \A syn \in Within(list[i].kids[2]) :
             /\ IsSetExpression(syn)
             /\ KnownTo(list, i) => Members(list, syn, i) = SetSaid(Members, list, syn, i)
-----------------------------------------------------------------------------
Expressions == UNION {Within(source[i].kids[2]) : i \in {j \in DOMAIN source : HasExpression(source[j])}}

\* Every name is that of an earlier statement.
Scoped ==
    \A i \in DOMAIN source : HasExpression(source[i]) =>
        \A x \in Within(source[i].kids[2]) : x.tag = "ID" =>
            \E j \in 1 .. i - 1 : Introduces(source[j]) = x.text

\* No function is used as a hook and as a call.
Consistent ==
    \A x, y \in Expressions :
        x.tag = "HOOK" /\ y.tag = "CALL" /\ IsNamed(y) => Uses(x)[1].function # Uses(y)[1].function

\* No two statements define the same name.
Single(list) ==
    \A i, j \in DOMAIN list :
        Defines(list[i]) /\ Defines(list[j]) /\ Introduces(list[i]) = Introduces(list[j])
            => i = j

\* Every identifier that a declaration refers to has been declared above it,
\* unless it is a function whose prototype could not be printed, and no number
\* is given twice: what is printed so far can be compiled, but for a statement
\* that is nothing but a name.  (gen.c:141 goes on without the prototype, gen.c:218
\* leaves out the prefix; pgc_lang_gen_hooks_scan, pgc_lang_gen_sig.)
InScope ==
    Scoped /\ Consistent =>
        /\ \A i \in DOMAIN out : \A id \in Range(out[i].refs) :
              \/ \E j \in 1 .. i - 1 : out[j].id = id
              \/ "function" \in DOMAIN id /\ id.function \in missed
              \/ "unprefixed" \in DOMAIN id /\ out[i].what = "alias"
        /\ \A i, j \in DOMAIN out :
              i # j /\ out[i].id = out[j].id => "parser" \in DOMAIN out[i].id
-----------------------------------------------------------------------------
\* The declarations of o, with what is numbered unfolded where it is referred to.
Above(o, k, id) == {j \in 1 .. k - 1 : "number" \in DOMAIN id /\ o[j].id = id}
Unfolded(o) ==
    LET said[k \in DOMAIN o] ==
            Said(o[k].what,
                 [i \in DOMAIN o[k].refs |->
                    LET id == o[k].refs[i]
                    IN  IF Above(o, k, id) = {} THEN id
                        ELSE said[CHOOSE j \in Above(o, k, id) : TRUE]],
                 o[k].data)
    IN  said

\* What the declaration of the i-th statement says is what its expression does.
Says(list, i, said) ==
    LET exp == list[i].kids[2]
    IN  CASE list[i].tag = "SET" ->
                said.what = "SET" /\ said.refs[1].data = <<Members(list, exp, i)>>
          [] HasExpression(list[i]) /\ exp.tag # "ID" -> said = Described(exp)
          [] HasExpression(list[i]) /\ exp.tag = "ID" ->
                said.refs = <<[unprefixed |-> exp.text]>>

SetsKnown == KnownTo(source, Len(source))

\* The definition of a name that a statement introduces, not its extern declaration.
Definition(name, k) == out[k].id = Named(name) /\ out[k].what # "extern"

\* When pgc_lang_gen succeeds, each statement's parser is the one its expression
\* describes, node for node, or a bare name for a name, and each set has the
\* characters that it describes, if no name is defined twice; a source with a set
\* that is not known is refused, and only one that calls what is no name stops the
\* program (gen.c:101).
MeansTheGrammar ==
    /\ pc = "aborted" => \E x \in Expressions : ~IsNamed(x)
    /\ pc = "returned" /\ res = "SYN" => ~SetsKnown
    /\ pc = "returned" /\ res = "OK" =>
          /\ SetsKnown
          /\ \A x \in Expressions : IsNamed(x)
          /\ Single(source) => \A i \in DOMAIN source : Defines(source[i]) =>
                LET name == Introduces(source[i])
                IN  /\ \E k \in DOMAIN out : Definition(name, k)
                    /\ \A k \in DOMAIN out : Definition(name, k) => Says(source, i, Unfolded(out)[k])

=============================================================================
