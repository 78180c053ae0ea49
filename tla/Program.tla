------------------------------- MODULE Program -------------------------------
(***************************************************************************)
(* The program: main.c, with the generator of lang/gen.c running where it  *)
(* is called, on the statements that were captured or built.               *)
(*                                                                         *)
(* source is from the beginning what the grammar file says, if it says     *)
(* anything that is parsed to the end.                                     *)
(***************************************************************************)
EXTENDS Main, Meaning

CONSTANT Built      \* the statements of pgc_lang_proto

ASSUME ProgramAssumption == Built \in Sources

programVars == <<mainVars, vars>>

\* The error of the C library that gen.c hands on.
Code(code) == IF code = "IO" THEN "SYS" ELSE code

\* The generator is at an end, and main.c gets what it returned, or ends with it.
Returned ==
    /\ pc \in {"returned", "aborted"}
    /\ pc = "aborted" <=> place' = "aborted"
    /\ pc = "returned" => e' = Code(res)
    /\ pc = "returned" /\ res = "OK" =>
          output' = IF missed = {} THEN "whole" ELSE "gapped"

\* A file without a byte has no statements, and statements are captured only
\* where there is memory for them.
Captured == end = 0 \/ "base" \in missing => source = <<>>

MainStep ==
    /\ MainNext
    /\ place' = "examining" => Captured
    /\ place = "generating" => Returned
    /\ UNCHANGED vars

GeneratorStep == place = "generating" /\ Next /\ UNCHANGED mainVars

\* Nothing is left to do.
Stopped == place \in {"exited", "aborted", "crashed"} /\ UNCHANGED programVars

ProgramInit == MainInit /\ Init /\ (~FromFile => source = Built)
ProgramNext == MainStep \/ GeneratorStep \/ Stopped
ProgramSpec == ProgramInit /\ [][ProgramNext]_programVars
-----------------------------------------------------------------------------
\* When the program returns, its output has what main.c takes it to have: nothing
\* where the generator was not called; a declaration that is cut off, or a set
\* that is not known, behind every error; otherwise the declarations of all
\* statements, and of all functions they use unless a prototype could not be
\* printed or one name is used in two ways.  No error is lost between the
\* innermost print and the exit status.  (pgc_lang_gen and its callees, main.c:118-134)
OutputIsOfTheSource ==
    place = "exited" =>
        /\ output \in {"untouched", "empty"} => out = <<>>
        /\ output = "torn" => Torn \in Range(out) \/ ~SetsKnown
        /\ output \in {"whole", "gapped", "cut"} =>
              /\ Torn \notin Range(out)
              /\ \A i \in DOMAIN source :
                    \E k \in DOMAIN out : out[k].id = Named(Introduces(source[i]))
        /\ output = "whole" /\ Consistent =>
              \A x \in Expressions : \A f \in Range(Uses(x)) :
                  \E k \in DOMAIN out : out[k].id = f
=============================================================================
