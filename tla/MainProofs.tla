----------------------------- MODULE MainProofs -----------------------------
(***************************************************************************)
(* The four invariants of Main, for grammar files of every length, and     *)
(* that Program is both Main and Generator.                                *)
(*                                                                         *)
(* Each of them looks at the end of the program, or at a single read.  The *)
(* invariant says for every place in the code what is held there, what is  *)
(* known of the input, and what is in the output.                          *)
(***************************************************************************)
EXTENDS Program, TLAPS

MainTypeOK ==
    /\ args \in 0 .. 3
    /\ flen \in 0 .. Huge /\ end \in Nat /\ offset \in Nat

Places == {"starting", "allocating", "opening", "measuring", "reserving", "reading",
           "parsing", "examining", "refused", "building", "generating", "printed",
           "closing", "exited", "aborted", "crashed", "initializing"}

\* What pgc_parse_syntax leaves behind where it fails.
Leaks == {{}, {"addr"}, {"file"}}

\* The allocator and its memory, as far as malloc returned them.
Allocated == {"alloc", "base"} \ missing

\* What is held at each place.
HeldHere ==
    /\ place \in Places
    /\ missing \subseteq {"alloc", "base"}
    /\ place \in {"starting", "allocating", "building"} => missing = {}
    /\ "alloc" \in missing => place \in {"initializing", "crashed"}
    /\ missing # {} => FromFile
    /\ twice = {}
    /\ place = "starting" => held = {}
    /\ place \in {"allocating", "building", "closing"} => held = {"src_file"}
    /\ place \in {"initializing", "opening", "examining"} => held = {"src_file"} \cup Allocated
    /\ place \in {"measuring", "reserving"} => held = {"src_file", "file"} \cup Allocated
    /\ place = "reading" => held = {"src_file", "file", "addr"} \cup Allocated
    /\ place = "parsing" => held = {"src_file", "addr"} \cup Allocated
    /\ place = "refused" => \E leak \in Leaks : held = {"src_file"} \cup Allocated \cup leak
    /\ place \in {"generating", "printed"} => held = {"src_file"} \cup (Tree \ missing)
    /\ place = "exited" => held \in Leaks
    /\ place = "exited" /\ held # {} => status = "failure"

\* What is known of the input and of the result.
KnownHere ==
    /\ place = "building" => ~FromFile
    /\ place \in {"allocating", "initializing", "opening", "measuring", "reserving", "reading",
                  "parsing", "examining"} => FromFile
    /\ place \in {"reading", "parsing", "examining"} => flen # Huge
    /\ place \in {"parsing", "examining"} => end <= flen
    /\ place \in {"generating", "printed", "closing"} /\ FromFile =>
          offset = end /\ end <= flen /\ flen # Huge
    /\ place # "exited" => status = "none"
    /\ place = "refused" => e # "OK"
    /\ place \notin {"refused", "printed", "closing", "exited"} => e = "OK"
    /\ \A use \in stale :
          \/ /\ use = <<"report", "addr">> /\ e = "SYN"
             /\ place = "refused" \/ (place = "exited" /\ status = "failure")
          \/ /\ use \in {<<"pgc_stk_init", "alloc">>, <<"pgc_lang_parse", "base">>}
             /\ use[2] \in missing /\ place = "crashed"
    /\ place = "crashed" => output = "empty"

\* What is in the output.
OutputHere ==
    /\ place = "starting" => output = "untouched"
    /\ place \in {"allocating", "initializing", "opening", "measuring", "reserving", "reading",
                  "parsing", "examining", "refused", "building", "generating"} =>
          output = "empty" /\ args > 0
    /\ place \in {"printed", "closing"} => args > 0
    /\ place \in {"printed", "closing"} /\ e = "OK" => output \in {"whole", "gapped"}
    /\ place \in {"printed", "closing"} /\ e # "OK" => output = "torn"

IInv ==
    /\ MainTypeOK
    /\ HeldHere
    /\ KnownHere
    /\ OutputHere
    /\ SuccessIsOfTheWholeGrammar
    /\ StatusTellsOutput

LEMMA InitIInv == MainInit => IInv
BY MainAssumption DEF MainInit, IInv, MainTypeOK, HeldHere, KnownHere, OutputHere, Places, Leaks,
    SuccessIsOfTheWholeGrammar, StatusTellsOutput, Huge, FromFile

\* Every action keeps the invariant.
LEMMA Step == IInv /\ [MainNext]_mainVars => IInv'
<1>. SUFFICES ASSUME IInv, [MainNext]_mainVars PROVE IInv'
  OBVIOUS
<1>. USE MainAssumption DEF IInv, MainTypeOK, HeldHere, KnownHere, OutputHere, Places, Leaks,
    SuccessIsOfTheWholeGrammar, StatusTellsOutput, Huge, FromFile, input, Exit, Fails,
    Acquire, Release, Touches, Tree, Allocated
<1>1. CASE Usage
  BY <1>1 DEF Usage
<1>2. CASE OpenOutput
  BY <1>2 DEF OpenOutput
<1>3. CASE Allocate
  BY <1>3 DEF Allocate
<1>3b. CASE Initialize
  BY <1>3b DEF Initialize
<1>4. CASE OpenGrammar
  <2>1. CASE held' = held \cup {"file"} /\ place' = "measuring" /\ e' = e
    BY <1>4, <2>1 DEF OpenGrammar
  <2>2. CASE place' = "refused" /\ e' = "SYS" /\ UNCHANGED <<held, twice>>
    <3>1. \E leak \in Leaks : held' = {"src_file"} \cup Allocated' \cup leak
      BY <1>4, <2>2 DEF OpenGrammar
    <3>. QED
      BY <1>4, <2>2, <3>1 DEF OpenGrammar
  <2>. QED
    BY <1>4, <2>1, <2>2 DEF OpenGrammar
<1>5. CASE Measure
  BY <1>5 DEF Measure
<1>6. CASE Reserve
  BY <1>6 DEF Reserve
<1>7. CASE ReadInput
  BY <1>7 DEF ReadInput
<1>8. CASE Parse
  BY <1>8 DEF Parse
<1>8b. CASE ParseCrashes
  BY <1>8b DEF ParseCrashes
<1>9. CASE Examine
  <2>1. CASE offset = end /\ place' = "generating" /\ UNCHANGED <<stale, e>>
    BY <1>9, <2>1 DEF Examine
  <2>2. CASE offset # end /\ Touches("report", {"addr"}) /\ Fails("SYN")
    <3>1. \E leak \in Leaks : held' = {"src_file"} \cup Allocated' \cup leak
      BY <1>9, <2>2 DEF Examine
    <3>2. \A use \in stale' : use = <<"report", "addr">>
      BY <1>9, <2>2 DEF Examine
    <3>. QED
      BY <1>9, <2>2, <3>1, <3>2 DEF Examine
  <2>. QED
    BY <1>9, <2>1, <2>2 DEF Examine
<1>10. CASE GiveUp
  BY <1>10 DEF GiveUp
<1>11. CASE Build
  BY <1>11 DEF Build
<1>12. CASE CallGenerator
  BY <1>12 DEF CallGenerator, Generated
<1>13. CASE FreeTree
  BY <1>13 DEF FreeTree
<1>14. CASE Finish
  BY <1>14 DEF Finish, Closed
<1>15. CASE UNCHANGED mainVars
  BY <1>15 DEF mainVars
<1>. QED
  BY <1>1, <1>2, <1>3, <1>3b, <1>4, <1>5, <1>6, <1>7, <1>8, <1>8b, <1>9, <1>10, <1>11,
     <1>12, <1>13, <1>14, <1>15 DEF MainNext

THEOREM Invariant == MainSpec => []IInv
BY InitIInv, Step, PTL DEF MainSpec
-----------------------------------------------------------------------------
\* What is parsed and what is generated is read from memory that is held.  What was
\* freed is read by the report of what was not parsed, and then the program fails;
\* what malloc refused is written only where that ends the program.
THEOREM UsesOnlyWhatIsHeld == MainSpec => []UsesWhatIsHeld
<1>1. IInv => UsesWhatIsHeld
  BY DEF IInv, KnownHere, UsesWhatIsHeld
<1>. QED
  BY <1>1, Invariant, PTL

\* On every way out, with or without the allocator's memory, each file is closed and each piece of memory freed once,
\* but for the two that pgc_parse_syntax leaves behind.
THEOREM ReleasesOnce == MainSpec => []ReleasedOnce
<1>1. IInv => ReleasedOnce
  BY DEF IInv, HeldHere, ReleasedOnce, Leaks
<1>. QED
  BY <1>1, Invariant, PTL

\* The program succeeds only with a grammar that was parsed to its end.
THEOREM SucceedsWithTheWhole == MainSpec => []SuccessIsOfTheWholeGrammar
<1>1. IInv => SuccessIsOfTheWholeGrammar
  BY DEF IInv
<1>. QED
  BY <1>1, Invariant, PTL

\* The exit status and the output agree.
THEOREM StatusIsTrue == MainSpec => []StatusTellsOutput
<1>1. IInv => StatusTellsOutput
  BY DEF IInv
<1>. QED
  BY <1>1, Invariant, PTL
-----------------------------------------------------------------------------
\* What is true of main.c with any generator, and of the generator with any caller, is
\* true of the two together: a step of the program is a step of each, or changes
\* nothing of it.
THEOREM ProgramIsMain == ProgramSpec => MainSpec
<1>1. ProgramInit => MainInit
  BY DEF ProgramInit
<1>2. [ProgramNext]_programVars => [MainNext]_mainVars
  <2>1. MainStep => MainNext
    BY DEF MainStep
  <2>2. GeneratorStep \/ Stopped \/ UNCHANGED programVars => UNCHANGED mainVars
    BY DEF GeneratorStep, Stopped, programVars
  <2>. QED
    BY <2>1, <2>2 DEF ProgramNext
<1>. QED
  BY <1>1, <1>2, PTL DEF ProgramSpec, MainSpec

THEOREM ProgramGenerates == ProgramSpec => Spec
<1>1. ProgramInit => Init
  BY DEF ProgramInit
<1>2. [ProgramNext]_programVars => [Next]_vars
  <2>1. GeneratorStep => Next
    BY DEF GeneratorStep
  <2>2. MainStep \/ Stopped \/ UNCHANGED programVars => UNCHANGED vars
    BY DEF MainStep, Stopped, programVars
  <2>. QED
    BY <2>1, <2>2 DEF ProgramNext
<1>. QED
  BY <1>1, <1>2, PTL DEF ProgramSpec, Spec
=============================================================================
