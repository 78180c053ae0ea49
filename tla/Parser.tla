------------------------------- MODULE Parser -------------------------------
(***************************************************************************)
(* source/pgenc/parser_nr.c on source/pgenc/stack.c: the parser engine     *)
(* that keeps its own stack.                                               *)
(*                                                                         *)
(* A grammar is a graph of struct pgc_par nodes.  The engine pushes a      *)
(* frame per active node on a stack of bytes that grows down, and runs the *)
(* node on top until the stack is back where pgc_par_run_ex found it.  A   *)
(* CALL node's function runs pgc_par_run_ex again, on the same stack, as   *)
(* those of source/pgenc/lang do.  One action is one turn of the loop.     *)
(***************************************************************************)
EXTENDS Terminals

CONSTANTS
    Node,           \* the nodes of a grammar
    Root,           \* the one the engine is started on
    Grammars,       \* the grammars it is started with
    Inputs,         \* what is in the buffer
    StackSizes,     \* the lengths of the stack, in bytes
    PtrSize, AndSize, ChoiceSize    \* sizeof a node pointer and of the two frames

CompositeTags == {"AND", "OR", "REP"}
Codes == {"OK", "OOB", "OOM", "CMP", "ENC", "EOF", "SYN"}

IsNode(p) ==
    /\ p.tag \in TerminalTags \cup CompositeTags \cup {"CALL"}
    /\ p.tag \in {"AND", "OR"} => p.arg1 \in Node /\ p.arg2 \in Node
    /\ p.tag = "REP" =>
          p.sub \in Node /\ p.min \in Nat /\ p.max \in Nat /\ p.min <= p.max
    /\ p.tag = "CALL" => p.var \in Node
    /\ p.tag = "CMP" => Len(p.str) \in Nat
    /\ p.tag = "HOOK" =>
          /\ p.hook.reads \in Nat
          /\ p.hook.returns \in Codes
          /\ p.hook.discards \in BOOLEAN

ASSUME ParserAssumption ==
    /\ Root \in Node
    /\ \A g \in Grammars : \A n \in Node : IsNode(g[n])
    /\ \A input \in Inputs : Len(input) \in Nat
    /\ StackSizes \subseteq Nat
    /\ PtrSize \in Nat \ {0} /\ AndSize \in Nat \ {0} /\ ChoiceSize \in Nat \ {0}

VARIABLES
    par,            \* the grammar, which no step changes
    input,          \* the bytes of the buffer, which no step changes
    size,           \* stk->length
    frames,         \* the frames on the stack, the top one last
    bases,          \* base of each pgc_par_run_ex that is active, the innermost last
    begin, offset,  \* of the buffer
    res,            \* what the last node run returned
    status,         \* "called", "running" or "returned"
    exhausted,      \* history: some push found no room
    lost            \* history: some cursor to go back to had left the window

vars == <<par, input, size, frames, bases, begin, offset, res, status, exhausted, lost>>
given == <<par, input, size>>
-----------------------------------------------------------------------------
\* The bytes pgc_par_push takes for a node: its pointer, and its frame if it
\* has one.
FrameSize(n) ==
    CASE par[n].tag = "AND" -> PtrSize + AndSize
      [] par[n].tag \in {"OR", "REP"} -> PtrSize + ChoiceSize
      [] OTHER -> PtrSize

\* pgc_stk_offset: the bytes left.  Every frame records where it starts.
Free(fs) == IF fs = <<>> THEN size ELSE fs[Len(fs)].at
Top == frames[Len(frames)]
Rest == SubSeq(frames, 1, Len(frames) - 1)

Frame(n, at) == [node |-> n, at |-> at, step |-> 0, saved |-> 0]
Fits(n, fs) == FrameSize(n) <= Free(fs)

\* Mutant: the frame of the node is not counted, only its pointer.
PushThin(n, fs) == Append(fs, Frame(n, Free(fs) - PtrSize))
Push(n, fs) == Append(fs, Frame(n, Free(fs) - FrameSize(n)))

\* Mutant: pgc_buf_seek does not look at where the window begins.
InWindowOrBefore(o) == o <= Len(input)

\* pgc_buf_seek succeeds on the window alone.
InWindow(o) == begin <= o /\ o <= Len(input)
Backtracks(code) == code \in {"CMP", "OOB"}

\* pgc_par_push of node n on the frames fs, whose result is ignored by no one:
\* without room the frames are fs and the node that pushed returns OOB.
PushOn(n, fs) ==
    \/ /\ Fits(n, fs)
       /\ frames' = Push(n, fs)
       /\ res' = "OK"
       /\ UNCHANGED exhausted
    \/ /\ ~Fits(n, fs)
       /\ frames' = fs
       /\ res' = "OOB"
       /\ exhausted' = TRUE

\* A composite node that stays below the sub-parser it pushes, in its frame as
\* it is then; without room it is popped.
PushAbove(n, frame) ==
    \/ /\ Fits(n, frames)
       /\ frames' = Push(n, Append(Rest, frame))
       /\ res' = "OK"
       /\ UNCHANGED exhausted
    \/ /\ ~Fits(n, frames)
       /\ frames' = Rest
       /\ res' = "OOB"
       /\ exhausted' = TRUE

\* A node that is popped and returns code.
PopReturn(code) ==
    /\ frames' = Rest
    /\ res' = code
    /\ UNCHANGED exhausted

\* Mutant: the result of pgc_buf_seek is ignored, as parser.c does.
PopUnsought ==
    /\ ~InWindow(Top.saved)
    /\ PopReturn("OK")
    /\ lost' = TRUE
    /\ UNCHANGED offset

\* A node that is popped because pgc_buf_seek refused its saved offset.
PopLost ==
    /\ ~InWindow(Top.saved)
    /\ PopReturn("OOB")
    /\ lost' = TRUE
    /\ UNCHANGED offset
-----------------------------------------------------------------------------
\* pgc_par_run_ex on node n with the frames fs: its loop starts, or it returns
\* at once for want of room.
Enter(n, fs) ==
    \/ /\ Fits(n, fs)
       /\ frames' = Push(n, fs)
       /\ bases' = Append(bases, Free(fs))
       /\ res' = "EOF"
       /\ status' = "running"
       /\ UNCHANGED exhausted
    \/ /\ ~Fits(n, fs)
       /\ frames' = fs
       /\ res' = "OOB"
       /\ status' = IF bases = <<>> THEN "returned" ELSE "running"
       /\ exhausted' = TRUE
       /\ UNCHANGED bases

Start ==
    /\ status = "called"
    /\ Enter(Root, frames)
    /\ UNCHANGED <<given, begin, offset, lost>>

\* Mutant: the loop runs until the stack is empty.
LoopingToBottom == status = "running" /\ frames # <<>>

\* The loop's condition: a frame of this pgc_par_run_ex is on the stack.
Looping == /\ status = "running"
           /\ frames # <<>>
           /\ Free(frames) < bases[Len(bases)]
Running(tag) == Looping /\ par[Top.node].tag = tag

\* The loop is left and res returned, to the caller or to the CALL node.
Leave ==
    /\ status = "running" /\ ~Looping
    /\ bases' = SubSeq(bases, 1, Len(bases) - 1)
    /\ status' = IF Len(bases) = 1 THEN "returned" ELSE "running"
    /\ UNCHANGED <<given, frames, begin, offset, res, exhausted, lost>>

\* BYTE, UTF8, SET, CMP and HOOK are popped, then run.  A hook may have read
\* more input into a full buffer, which then begins at the cursor.
RunLeaf ==
    LET p == par[Top.node]
        out == RunTerminal(p, input, offset)
    IN  /\ Looping /\ p.tag \in TerminalTags
        /\ PopReturn(out.res)
        /\ offset' = out.offset
        /\ begin' = IF p.tag = "HOOK" /\ p.hook.discards THEN offset ELSE begin
        /\ UNCHANGED <<given, bases, status, lost>>

RunCall ==
    /\ Running("CALL")
    /\ Enter(par[Top.node].var, Rest)
    /\ UNCHANGED <<given, begin, offset, lost>>

RunAnd ==
    /\ Running("AND")
    /\ \/ /\ Top.step = 0
          /\ PushAbove(par[Top.node].arg1, [Top EXCEPT !.step = 1])
       \/ /\ Top.step = 1 /\ res # "OK"
          /\ PopReturn(res)
       \/ /\ Top.step = 1 /\ res = "OK"
          /\ PushOn(par[Top.node].arg2, Rest)
    /\ UNCHANGED <<given, bases, begin, offset, status, lost>>

\* Mutant: going back goes to the beginning of the buffer.
GoBackToBegin == InWindow(Top.saved) /\ offset' = begin

\* pgc_buf_seek to the offset in the frame.
GoBack == InWindow(Top.saved) /\ offset' = Top.saved

RunOr ==
    /\ Running("OR")
    /\ \/ /\ Top.step = 0
          /\ PushAbove(par[Top.node].arg1, [Top EXCEPT !.step = 1, !.saved = offset])
          /\ UNCHANGED <<offset, lost>>
       \/ /\ Top.step = 1 /\ ~Backtracks(res)
          /\ PopReturn(res)
          /\ UNCHANGED <<offset, lost>>
       \/ /\ Top.step = 1 /\ Backtracks(res)
          /\ PopLost
       \/ /\ Top.step = 1 /\ Backtracks(res)
          /\ GoBack
          /\ PushOn(par[Top.node].arg2, Rest)
          /\ UNCHANGED lost
    /\ UNCHANGED <<given, bases, begin, status>>

\* Mutant: one repetition short of the minimum is taken for enough.
EnoughTooSoon(p) == Backtracks(res) /\ p.min <= Top.step

\* A failed turn ends the repetition well: the turns before it were enough.
Enough(p) == Backtracks(res) /\ p.min < Top.step

\* Mutant: the turns are not counted.
NextTurnUncounted == [Top EXCEPT !.saved = offset]

\* The frame of a repetition whose sub-parser is pushed once more.
NextTurn == [Top EXCEPT !.step = Top.step + 1, !.saved = offset]

RunRep ==
    LET p == par[Top.node]
        failed == Top.step > 0 /\ res # "OK"
    IN  /\ Running("REP")
        /\ \/ /\ Top.step = 0 \/ (res = "OK" /\ Top.step # p.max)
              /\ PushAbove(p.sub, NextTurn)
              /\ UNCHANGED <<offset, lost>>
           \/ /\ Top.step > 0 /\ res = "OK" /\ Top.step = p.max
              /\ PopReturn("OK")
              /\ UNCHANGED <<offset, lost>>
           \/ /\ failed /\ ~Enough(p)
              /\ PopReturn(res)
              /\ UNCHANGED <<offset, lost>>
           \/ /\ failed /\ Enough(p)
              /\ PopLost
           \/ /\ failed /\ Enough(p)
              /\ GoBack
              /\ PopReturn("OK")
              /\ UNCHANGED lost
        /\ UNCHANGED <<given, bases, begin, status>>

Init ==
    /\ par \in Grammars /\ input \in Inputs /\ size \in StackSizes
    /\ frames = <<>> /\ bases = <<>>
    /\ begin = 0 /\ offset = 0
    /\ res = "EOF" /\ status = "called"
    /\ exhausted = FALSE /\ lost = FALSE

Next == Start \/ Leave \/ RunLeaf \/ RunCall \/ RunAnd \/ RunOr \/ RunRep

Spec == Init /\ [][Next]_vars

\* The engine is one thread that keeps running, and hooks return.
FairSpec == Spec /\ WF_vars(Next)
-----------------------------------------------------------------------------
\* The variables have their types, and the cursor stays in the buffer's window.
TypeOK ==
    /\ par \in Grammars /\ input \in Inputs /\ size \in StackSizes
    /\ frames \in Seq([node : Node, at : Nat, step : Nat, saved : Nat])
    /\ bases \in Seq(Nat)
    /\ begin \in Nat /\ offset \in Nat
    /\ begin <= offset /\ offset <= Len(input)
    /\ res \in Codes
    /\ status \in {"called", "running", "returned"}
    /\ exhausted \in BOOLEAN /\ lost \in BOOLEAN

\* The frames tile the stack from its end downwards, each with the bytes its
\* node takes: pops that free another amount than the push took (pop_term,
\* pop_and, pop_choice) would break it.
Tiled ==
    \A i \in DOMAIN frames :
        frames[i].at + FrameSize(frames[i].node) =
            IF i = 1 THEN size ELSE frames[i - 1].at

\* Below the top only composite nodes wait, each with its step taken: what the
\* top returns is what the frame under it is waiting for.
Waiting ==
    \A i \in DOMAIN frames :
        /\ i < Len(frames) => frames[i].step > 0
        /\ frames[i].step > 0 => par[frames[i].node].tag \in CompositeTags
        /\ par[frames[i].node].tag \in {"AND", "OR"} => frames[i].step <= 1

\* Every active pgc_par_run_ex, and no other, has its base where it found the
\* stack, and the inner ones have it further down: none can return into the
\* loop of another.
BasesNested ==
    /\ (status = "running") <=> (bases # <<>>)
    /\ status # "running" => frames = <<>>
    /\ \A j \in DOMAIN bases :
          /\ bases[j] = size \/ \E i \in DOMAIN frames : frames[i].at = bases[j]
          /\ j = 1 => bases[j] = size
          /\ j > 1 => bases[j] <= bases[j - 1]
          /\ Free(frames) <= bases[j]

StackDiscipline == Tiled /\ Waiting /\ BasesNested

\* The offsets that waiting choices and repetitions would go back to are ordered
\* like the frames, and none is ahead of the cursor: going back never skips
\* input, and the outermost way back is the first to leave the buffer's window.
Chooses(i) == par[frames[i].node].tag \in {"OR", "REP"} /\ frames[i].step > 0
SavedOrdered ==
    \A i \in DOMAIN frames : Chooses(i) =>
        /\ frames[i].saved <= offset
        /\ \A j \in DOMAIN frames :
              i <= j /\ Chooses(j) => frames[i].saved <= frames[j].saved

\* Once a hook's reading has pushed a saved offset out of the buffer's window
\* and a choice or repetition had to go back there, the parse fails for good:
\* the error it returns is one that outer choices go back on, but their offsets
\* are gone as well, so no alternative ever runs from the wrong place.
LostStaysLost == lost => res = "OOB" /\ status # "called"

\* A pgc_par_run_ex never changes a frame of its caller.
CallerUntouched ==
    [][bases # <<>> =>
         \A i \in DOMAIN frames : frames[i].at >= bases[Len(bases)] =>
            i \in DOMAIN frames' /\ frames'[i] = frames[i]]_vars

\* The engine returns, whatever the grammar does, as long as repetitions are
\* bounded and no node reaches itself before input is consumed.
Termination == <>(status = "returned")

=============================================================================
