-------------------------------- MODULE Main --------------------------------
(***************************************************************************)
(* source/pgenc/main.c: the order in which the program opens, reads,       *)
(* parses, frees, generates and reports.                                   *)
(*                                                                         *)
(* What the parse and the generator do is in Captures and Generator; here  *)
(* they have the outcomes those modules have, and Program puts the second  *)
(* in its place.  Every call of the C library may fail; where nobody looks *)
(* and NULL is written through, the program crashes.  Contents are left    *)
(* out: of the grammar file there is its length, of the output how much of *)
(* it there is.                                                            *)
(***************************************************************************)
EXTENDS Integers, FiniteSets

CONSTANT MaxLength      \* bound: the bytes of a grammar file

ASSUME MainAssumption == MaxLength \in Nat

VARIABLES
    args,       \* the number of arguments after the program's name
    place,      \* the part of the code that is next; "exited", "aborted" or
                \* "crashed" in the end
    held,       \* the memory and the files that are not released
    missing,    \* the memory that malloc refused and nobody looked
    stale,      \* history: who used what was not there, as <<user, memory>>
    twice,      \* history: what was released without being held
    flen,       \* the length that was measured
    end,        \* pgc_buf_end of the input
    offset,     \* pgc_buf_tell of the input
    output,     \* "untouched", "empty", "torn", "gapped", "whole" or "cut"
    e,          \* the error code
    status      \* the exit status

mainVars ==
    <<args, place, held, missing, stale, twice, flen, end, offset, output, e, status>>
input == <<flen, end, offset>>

\* ftell has failed: (size_t)-1.
Huge == MaxLength + 1

FromFile == args >= 3
-----------------------------------------------------------------------------
\* malloc and fopen; free and fclose.  NULL may be freed.
Acquire(resources) == held' = held \cup resources /\ UNCHANGED twice
Release(resources) ==
    held' = held \ resources /\ twice' = twice \cup (resources \ (held \cup missing))

\* Who reads or writes memory, and which of it is not there.
Touches(user, memory) == stale' = stale \cup {<<user, m>> : m \in memory \ held}

Exit(code) == place' = "exited" /\ status' = code

\* pgc_parse_syntax returns an error.
Fails(code) == place' = "refused" /\ e' = code
-----------------------------------------------------------------------------
Usage ==
    /\ place = "starting" /\ args = 0
    /\ Exit("success")
    /\ UNCHANGED <<args, held, missing, stale, twice, input, output, e>>

\* The output is opened, and what was in it is gone, before anything is read.
OpenOutput ==
    /\ place = "starting" /\ args > 0
    /\ \/ /\ Acquire({"src_file"})
          /\ output' = "empty"
          /\ place' = IF FromFile THEN "allocating" ELSE "building"
          /\ UNCHANGED status
       \/ Exit("failure") /\ UNCHANGED <<held, twice, output>>
    /\ UNCHANGED <<args, missing, stale, input, e>>

\* Nobody looks whether malloc returned the allocator and its memory.
Allocate ==
    /\ place = "allocating"
    /\ missing' \in SUBSET {"alloc", "base"}
    /\ Acquire({"alloc", "base"} \ missing')
    /\ place' = "initializing"
    /\ UNCHANGED <<args, stale, input, output, e, status>>

\* pgc_stk_init writes the allocator.
Initialize ==
    /\ place = "initializing"
    /\ Touches("pgc_stk_init", {"alloc"})
    /\ place' = IF "alloc" \in held THEN "opening" ELSE "crashed"
    /\ UNCHANGED <<args, held, missing, twice, input, output, e, status>>

OpenGrammar ==
    /\ place = "opening"
    /\ \/ Acquire({"file"}) /\ place' = "measuring" /\ UNCHANGED e
       \/ Fails("SYS") /\ UNCHANGED <<held, twice>>
    /\ UNCHANGED <<args, missing, stale, input, output, status>>

\* SEL_IO returns where a seek fails, and leaves the file open.
Measure ==
    /\ place = "measuring"
    /\ \/ Fails("SYS") /\ UNCHANGED flen
       \/ flen' \in 0 .. Huge /\ place' = "reserving" /\ UNCHANGED e
    /\ UNCHANGED <<args, held, missing, stale, twice, end, offset, output, status>>

Reserve ==
    /\ place = "reserving"
    /\ \/ flen # Huge /\ Acquire({"addr"}) /\ place' = "reading" /\ UNCHANGED e
       \/ Release({"file"}) /\ Fails("SYS")
    /\ UNCHANGED <<args, missing, stale, input, output, status>>

\* pgc_buf_fread of the whole file, which may have become shorter.  Nothing
\* at all is an error only where something was asked for.
ReadInput ==
    /\ place = "reading"
    /\ \/ end' \in {n \in 0 .. flen : n > 0 \/ flen = 0} /\ place' = "parsing" /\ UNCHANGED e
       \/ Fails("SYS") /\ UNCHANGED end
    /\ Release({"file"})
    /\ UNCHANGED <<args, missing, stale, flen, offset, output, status>>

\* pgc_lang_parse: an error, or the offset behind the statements, of which there
\* may be none.  Where the allocator has no memory, nothing was captured.
Parse ==
    /\ place = "parsing"
    /\ Touches("pgc_lang_parse", {"addr", "alloc", "base"} \ missing)
    /\ \/ Fails("SYS") /\ UNCHANGED offset
       \/ offset' \in 0 .. end /\ place' = "examining" /\ UNCHANGED e
    /\ Release({"addr"})
    /\ UNCHANGED <<args, missing, flen, end, output, status>>

\* The first capture writes through the NULL that the allocator was given: below
\* the address 0xFFFFF, where nothing is mapped.
ParseCrashes ==
    /\ place = "parsing" /\ "base" \in missing
    /\ Touches("pgc_lang_parse", {"base"})
    /\ place' = "crashed"
    /\ UNCHANGED <<args, held, missing, twice, input, output, e, status>>

\* Mutant: statements in front of something else will do.
ExamineLeniently ==
    /\ place = "examining"
    /\ offset <= end
    /\ place' = "generating"
    /\ UNCHANGED <<args, held, missing, stale, twice, input, output, e, status>>

\* The rest that was not parsed is copied into the message.
Examine ==
    /\ place = "examining"
    /\ \/ offset = end /\ place' = "generating" /\ UNCHANGED <<stale, e>>
       \/ offset # end /\ Touches("report", {"addr"}) /\ Fails("SYN")
    /\ UNCHANGED <<args, held, missing, twice, input, output, status>>

\* main, after pgc_parse_syntax has returned an error.
GiveUp ==
    /\ place = "refused"
    /\ Release({"base", "alloc", "src_file"})
    /\ Exit("failure")
    /\ UNCHANGED <<args, missing, stale, input, output, e>>

\* pgc_lang_proto.
Build ==
    /\ place = "building"
    /\ Acquire({"prot"})
    /\ place' = "generating"
    /\ UNCHANGED <<args, missing, stale, input, output, e, status>>

\* The memory of the tree.
Tree == IF FromFile THEN {"base", "alloc"} ELSE {"prot"}

\* pgc_lang_gen: it stops in an assertion, fails on the way, or prints
\* everything, but for prototypes that could not be printed.  Each of these
\* comes from the steps of Generator.
Generated ==
    \/ place' = "aborted" /\ output' = "torn" /\ UNCHANGED e
    \/ place' = "printed" /\ output' = "torn" /\ e' \in {"SYS", "SYN"}
    \/ place' = "printed" /\ output' \in {"whole", "gapped"} /\ UNCHANGED e

\* Mutant: the tree is freed when it was captured, before it is generated.
CallGeneratorFreed ==
    /\ place = "generating"
    /\ Release(Tree)
    /\ stale' = stale \cup {<<"pgc_lang_gen", m>> : m \in Tree}
    /\ Generated
    /\ UNCHANGED <<args, missing, input, status>>

\* pgc_lang_gen is called and comes back.  Without memory for it the tree is empty.
CallGenerator ==
    /\ place = "generating"
    /\ Touches("pgc_lang_gen", Tree \ missing)
    /\ Generated
    /\ UNCHANGED <<args, held, missing, twice, input, status>>

\* Mutant: the allocator's memory is not freed.
FreeTreeInPart ==
    /\ place = "printed"
    /\ Release(Tree \ {"base"})
    /\ place' = "closing"
    /\ UNCHANGED <<args, missing, stale, input, output, e, status>>

FreeTree ==
    /\ place = "printed"
    /\ Release(Tree)
    /\ place' = "closing"
    /\ UNCHANGED <<args, missing, stale, input, output, e, status>>

\* fclose may fail to write what is left of the output.
Closed == output' \in {output} \cup (IF output = "torn" THEN {} ELSE {"cut"})

\* Mutant: the status does not depend on the error.
FinishWell ==
    /\ place = "closing"
    /\ Release({"src_file"})
    /\ Closed
    /\ Exit("success")
    /\ UNCHANGED <<args, missing, stale, input, e>>

\* Nobody looks whether closing wrote the last of the output.
Finish ==
    /\ place = "closing"
    /\ Release({"src_file"})
    /\ Closed
    /\ Exit(IF e = "OK" THEN "success" ELSE "failure")
    /\ UNCHANGED <<args, missing, stale, input, e>>
-----------------------------------------------------------------------------
MainInit ==
    /\ args \in 0 .. 3
    /\ place = "starting"
    /\ held = {} /\ missing = {} /\ stale = {} /\ twice = {}
    /\ flen = 0 /\ end = 0 /\ offset = 0
    /\ output = "untouched" /\ e = "OK" /\ status = "none"

MainNext ==
    \/ Usage \/ OpenOutput \/ Allocate \/ Initialize \/ OpenGrammar \/ Measure \/ Reserve
    \/ ReadInput \/ Parse \/ ParseCrashes \/ Examine \/ GiveUp \/ Build \/ CallGenerator
    \/ FreeTree \/ Finish

MainSpec == MainInit /\ [][MainNext]_mainVars
-----------------------------------------------------------------------------
\* The parse and the generator use memory that is there: the input is freed
\* after it was parsed, the tree after it was printed.  Of what was freed only
\* the report of what was not parsed reads, and then the program fails
\* (main.c:45 and 64); of what malloc refused (main.c:102-104), nothing is
\* read or written but where it stops the program, before anything is in the
\* output.
UsesWhatIsHeld ==
    \A use \in stale :
        \/ use = <<"report", "addr">> /\ e = "SYN" /\ status # "success"
        \/ /\ use \in {<<"pgc_stk_init", "alloc">>, <<"pgc_lang_parse", "base">>}
           /\ use[2] \in missing /\ place = "crashed" /\ output = "empty"

\* No memory is freed and no file is closed twice, on any way out, and what
\* is not released when the program returns is the input where it could not
\* be read and the grammar file where it could not be measured (main.c:25
\* and 39-42).
ReleasedOnce ==
    /\ twice = {}
    /\ place = "exited" => held \in {{}, {"addr"}, {"file"}}
    /\ place = "exited" /\ held # {} => status = "failure"

\* The program succeeds only with a grammar that was parsed to the end of
\* what was read, out of a file that could be measured, whatever failed on
\* the way (main.c:47-67).
SuccessIsOfTheWholeGrammar ==
    status = "success" /\ FromFile => offset = end /\ end <= flen /\ flen # Huge

\* The status tells what is in the output: after a failure it is never
\* complete, and after a success only a prototype that could not be printed
\* or a failure to close the file, which nobody looks at, can have made it
\* incomplete.  What was in the file before is there only after the usage
\* or where the file could not be opened (main.c:91, 123-134).
StatusTellsOutput ==
    place = "exited" =>
        /\ output \in {"whole", "gapped"} => status = "success"
        /\ output \in {"empty", "torn"} => status = "failure"
        /\ output = "untouched" => (status = "success" <=> args = 0)
=============================================================================
