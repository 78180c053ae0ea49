---------------------------- MODULE ParserProofs ----------------------------
(***************************************************************************)
(* Proofs about Parser.tla, for every grammar, input and stack length: the *)
(* type invariant, that saved offsets are ordered like the frames that     *)
(* hold them, that a parse that has lost its way back never succeeds, that *)
(* the engine takes its stack of bytes down as it put it up, and that a    *)
(* pgc_par_run_ex that a capture started never touches the frames of the   *)
(* one that called it.                                                     *)
(*                                                                         *)
(* Then about Captures.tla, for every allocator too: the captures keep what *)
(* the engine guarantees although they move the cursor and take frames of  *)
(* the same stack, and no tree that can still be reached lies in memory    *)
(* that the allocator may give out again.                                  *)
(*                                                                         *)
(* At last, that the engine returns what the rules of PegReference allow.  *)
(***************************************************************************)
EXTENDS Captures, PegReference, SequenceTheorems, TLAPS

USE ParserAssumption

Frm == [node : Node, at : Nat, step : Nat, saved : Nat]

\* The parts of the invariant, said of any stack of frames fs and cursor o.
Chooser(f) == par[f.node].tag \in {"OR", "REP"} /\ f.step > 0
WaitingIn(fs) ==
    \A i \in DOMAIN fs :
        /\ i < Len(fs) => fs[i].step > 0
        /\ fs[i].step > 0 => par[fs[i].node].tag \in CompositeTags
        /\ par[fs[i].node].tag \in {"AND", "OR"} => fs[i].step <= 1
OrderedIn(fs, o) ==
    \A i \in DOMAIN fs : Chooser(fs[i]) =>
        /\ fs[i].saved <= o
        /\ \A j \in DOMAIN fs : i <= j /\ Chooser(fs[j]) => fs[i].saved <= fs[j].saved
AllWait(fs) == \A i \in DOMAIN fs : fs[i].step > 0
Good(fs, o) == fs \in Seq(Frm) /\ WaitingIn(fs) /\ OrderedIn(fs, o)

\* A terminal leaves the cursor where it was or further on, inside the input.
LEMMA TerminalMovesOn ==
    ASSUME NEW p, IsNode(p), p.tag \in TerminalTags,
           NEW inp, Len(inp) \in Nat, NEW o \in Nat, o <= Len(inp)
    PROVE  /\ RunTerminal(p, inp, o).res \in Codes
           /\ RunTerminal(p, inp, o).offset \in Nat
           /\ o <= RunTerminal(p, inp, o).offset
           /\ RunTerminal(p, inp, o).offset <= Len(inp)
<1> DEFINE Fine(out) == /\ out.res \in Codes
                        /\ out.offset \in Nat /\ o <= out.offset /\ out.offset <= Len(inp)
<1>0. \A code \in Codes : \A q \in Nat :
         o <= q /\ q <= Len(inp) => Fine(Outcome(code, q))
  BY DEF Outcome
<1> HIDE DEF Fine
<1>1. \A S : Fine(MatchByte(S, inp, o))
  BY <1>0 DEF MatchByte, Codes
<1>2. \A S : Fine(MatchUtf8(S, inp, o))
  BY <1>0, <1>1 DEF MatchUtf8, Codes
<1>3. p.tag = "CMP" => Fine(CmpString(p.str, inp, o))
  BY <1>0 DEF CmpString, Codes, IsNode
<1>4. p.tag = "HOOK" => Fine(RunHook(p.hook, inp, o))
  BY <1>0 DEF RunHook, Codes, IsNode
<1>5. Fine(RunTerminal(p, inp, o))
  BY <1>1, <1>2, <1>3, <1>4 DEF RunTerminal, TerminalTags
<1> QED
  BY <1>5 DEF Fine

\* The stack without its top: what is left waits, and is ordered up to the
\* cursor and, when the top holds a saved offset, up to that offset too.
LEMMA RestIsGood ==
    ASSUME NEW o \in Nat, Good(frames, o), frames # <<>>
    PROVE  /\ Top \in Frm
           /\ Good(Rest, o) /\ AllWait(Rest)
           /\ Chooser(Top) => Good(Rest, Top.saved) /\ Top.saved <= o
           /\ \A q \in Nat : o <= q => Good(Rest, q)
<1>1. /\ frames \in Seq(Frm) /\ Len(frames) \in Nat /\ Len(frames) > 0
      /\ DOMAIN frames = 1 .. Len(frames)
  BY DEF Good
<1>2. Top \in Frm
  BY <1>1 DEF Top
<1>3. /\ Rest \in Seq(Frm) /\ Len(Rest) = Len(frames) - 1
      /\ DOMAIN Rest = 1 .. Len(frames) - 1
      /\ \A i \in 1 .. Len(frames) - 1 : Rest[i] = frames[i]
  BY <1>1 DEF Rest
<1>4. WaitingIn(Rest) /\ AllWait(Rest)
  BY <1>1, <1>3 DEF Good, WaitingIn, AllWait
<1>5. OrderedIn(Rest, o)
  BY <1>1, <1>3 DEF Good, OrderedIn
<1>6. Chooser(Top) => OrderedIn(Rest, Top.saved) /\ Top.saved <= o
  BY <1>1, <1>3 DEF Good, OrderedIn, Top
<1>7. \A q \in Nat : o <= q => OrderedIn(Rest, q)
  <2>1. \A i \in DOMAIN Rest : Rest[i] \in Frm
    BY <1>3
  <2>2. \A i \in DOMAIN Rest : Rest[i].saved \in Nat
    BY <2>1 DEF Frm
  <2> QED
    BY <1>5, <2>2 DEF OrderedIn
<1> QED
  BY <1>1, <1>2, <1>3, <1>4, <1>5, <1>6, <1>7 DEF Good

\* What is left of the stack is a number of bytes.
LEMMA FreeIsNat ==
    ASSUME NEW o, NEW fs, Good(fs, o), size \in Nat
    PROVE  Free(fs) \in Nat
<1>1. fs \in Seq(Frm) /\ Len(fs) \in Nat /\ DOMAIN fs = 1 .. Len(fs)
  BY DEF Good
<1>2. CASE fs = <<>>
  BY <1>2 DEF Free
<1>3. CASE fs # <<>>
  <2>1. fs[Len(fs)] \in Frm
    BY <1>1, <1>3
  <2> QED
    BY <1>3, <2>1 DEF Free, Frm
<1> QED
  BY <1>2, <1>3

\* A node pushed on frames that all wait.
LEMMA PushIsGood ==
    ASSUME NEW o \in Nat, NEW fs, Good(fs, o), AllWait(fs), NEW n \in Node,
           size \in Nat, Fits(n, fs), FrameSize(n) \in Nat
    PROVE  Good(Push(n, fs), o)
<1> DEFINE f == Frame(n, Free(fs) - FrameSize(n))
<1>1. fs \in Seq(Frm) /\ Len(fs) \in Nat /\ DOMAIN fs = 1 .. Len(fs)
  BY DEF Good
<1>2. Free(fs) \in Nat
  BY FreeIsNat
<1>3. f \in Frm /\ f.step = 0
  BY <1>2 DEF Fits, Frame, Frm
<1> HIDE DEF f
<1>4. /\ Append(fs, f) \in Seq(Frm) /\ Len(Append(fs, f)) = Len(fs) + 1
      /\ DOMAIN Append(fs, f) = 1 .. Len(fs) + 1
      /\ \A i \in 1 .. Len(fs) : Append(fs, f)[i] = fs[i]
      /\ Append(fs, f)[Len(fs) + 1] = f
  BY <1>1, <1>3
<1>5. WaitingIn(Append(fs, f))
  BY <1>1, <1>3, <1>4 DEF Good, WaitingIn, AllWait
<1>6. OrderedIn(Append(fs, f), o)
  BY <1>1, <1>3, <1>4 DEF Good, OrderedIn, Chooser
<1> QED
  BY <1>4, <1>5, <1>6 DEF Good, Push, f

\* A composite's frame put back under the sub-parser it pushes, with its step
\* taken and, if it is one to come back to, the cursor saved.
LEMMA FrameIsGood ==
    ASSUME NEW o \in Nat, NEW fs, Good(fs, o), AllWait(fs), NEW f \in Frm,
           f.step > 0, par[f.node].tag \in CompositeTags,
           par[f.node].tag \in {"AND", "OR"} => f.step <= 1,
           Chooser(f) => f.saved = o
    PROVE  Good(Append(fs, f), o) /\ AllWait(Append(fs, f)) /\ Free(Append(fs, f)) = f.at
<1>1. fs \in Seq(Frm) /\ Len(fs) \in Nat /\ DOMAIN fs = 1 .. Len(fs)
  BY DEF Good
<1>2. /\ Append(fs, f) \in Seq(Frm) /\ Len(Append(fs, f)) = Len(fs) + 1
      /\ DOMAIN Append(fs, f) = 1 .. Len(fs) + 1
      /\ \A i \in 1 .. Len(fs) : Append(fs, f)[i] = fs[i]
      /\ Append(fs, f)[Len(fs) + 1] = f
  BY <1>1
<1>3. WaitingIn(Append(fs, f)) /\ AllWait(Append(fs, f))
  BY <1>1, <1>2 DEF Good, WaitingIn, AllWait
<1>4. OrderedIn(Append(fs, f), o)
  BY <1>1, <1>2 DEF Good, OrderedIn
<1>5. Free(Append(fs, f)) = f.at
  BY <1>1, <1>2 DEF Free
<1> QED
  BY <1>2, <1>3, <1>4, <1>5 DEF Good
-----------------------------------------------------------------------------
\* The inductive invariant: besides what is to be shown, that a parse that lost
\* its way has only waiting frames left, none of which has an offset to go back
\* to that is still in the window.
Stranded ==
    lost => /\ res = "OOB" /\ status # "called"
            /\ AllWait(frames)
            /\ \A i \in DOMAIN frames : Chooser(frames[i]) => frames[i].saved < begin
Fresh == status = "called" => frames = <<>>
Inv ==
    /\ TypeOK
    /\ WaitingIn(frames) /\ OrderedIn(frames, offset)
    /\ Stranded
    /\ Fresh

LEMMA InvFacts ==
    ASSUME Inv
    PROVE  /\ Good(frames, offset)
           /\ size \in Nat /\ begin \in Nat /\ offset \in Nat
           /\ begin <= offset /\ offset <= Len(input) /\ Len(input) \in Nat
           /\ res \in Codes
           /\ \A n \in Node : IsNode(par[n])
           /\ \A n \in Node : FrameSize(n) \in Nat
<1>1. \A n \in Node : FrameSize(n) \in Nat
  BY DEF FrameSize
<1> QED
  BY <1>1 DEF Inv, TypeOK, Good, Frm

\* A step that keeps the grammar, the input, the stack and the window, and
\* whose parse is not lost before it nor after it.
LEMMA NotLost ==
    ASSUME Inv, UNCHANGED given, bases' \in Seq(Nat),
           NEW w \in Nat, begin' = w, NEW o \in Nat, offset' = o,
           w <= o, o <= Len(input),
           Good(frames', o), res' \in Codes,
           status' \in {"running", "returned"},
           exhausted' \in BOOLEAN, lost = FALSE, lost' = FALSE
    PROVE  Inv'
<1>1. TypeOK'
  BY DEF Inv, TypeOK, given, Good, Frm
<1>2. WaitingIn(frames)'
  BY DEF WaitingIn, Good, given
<1>3. OrderedIn(frames, offset)'
  BY DEF OrderedIn, Good, given, Chooser
<1> QED
  BY <1>1, <1>2, <1>3 DEF Inv, Stranded, Fresh

\* The node on top is popped with OOB by a parse that was lost, or is now.
LEMMA LosingPop ==
    ASSUME Inv, status = "running", frames # <<>>,
           lost \/ (Chooser(Top) /\ ~InWindow(Top.saved)),
           frames' = Rest, res' = "OOB", lost' = TRUE,
           UNCHANGED <<given, bases, begin, offset, status, exhausted>>
    PROVE  Inv'
<1>1. /\ Good(frames, offset) /\ offset \in Nat /\ begin \in Nat
      /\ offset <= Len(input) /\ Len(input) \in Nat
  BY InvFacts
<1>2. /\ Top \in Frm /\ Good(Rest, offset) /\ AllWait(Rest)
      /\ Chooser(Top) => Good(Rest, Top.saved) /\ Top.saved <= offset
  BY <1>1, RestIsGood
<1>3. \A i \in DOMAIN Rest : Chooser(Rest[i]) => Rest[i].saved < begin
  <2>1. CASE lost
    <3>1. DOMAIN Rest \subseteq DOMAIN frames /\ \A i \in DOMAIN Rest : Rest[i] = frames[i]
      BY <1>1 DEF Good, Rest
    <3> QED
      BY <2>1, <3>1 DEF Inv, Stranded
  <2>2. CASE Chooser(Top) /\ ~InWindow(Top.saved)
    <3>1. Top.saved \in Nat /\ Top.saved < begin
      BY <1>1, <1>2, <2>2 DEF InWindow, Frm
    <3>2. \A i \in DOMAIN Rest : Rest[i] \in Frm
      BY <1>2 DEF Good
    <3>3. \A i \in DOMAIN Rest : Rest[i].saved \in Nat
      BY <3>2 DEF Frm
    <3> QED
      BY <1>1, <1>2, <2>2, <3>1, <3>3 DEF Good, OrderedIn
  <2> QED
    BY <2>1, <2>2
<1>4. TypeOK'
  BY <1>2 DEF Inv, TypeOK, given, Good, Frm, Codes
<1>5. WaitingIn(frames)' /\ OrderedIn(frames, offset)'
  BY <1>2 DEF WaitingIn, OrderedIn, Good, given, Chooser
<1>6. Stranded'
  BY <1>2, <1>3 DEF Stranded, AllWait, Chooser, given
<1> QED
  BY <1>4, <1>5, <1>6 DEF Inv, Fresh

\* pgc_par_run_ex entered from the frames fs.
LEMMA Entering ==
    ASSUME Inv, ~lost, UNCHANGED <<given, begin, offset, lost>>,
           NEW fs, Good(fs, offset), AllWait(fs), NEW n \in Node, Enter(n, fs)
    PROVE  Inv'
<1>1. /\ size \in Nat /\ begin \in Nat /\ offset \in Nat
      /\ begin <= offset /\ offset <= Len(input)
      /\ FrameSize(n) \in Nat
  BY InvFacts
<1>2. lost = FALSE /\ lost' = FALSE /\ bases \in Seq(Nat) /\ exhausted \in BOOLEAN
  BY DEF Inv, TypeOK
<1>3. CASE Fits(n, fs)
  <2>1. Good(Push(n, fs), offset)
    BY <1>1, <1>3, PushIsGood
  <2>2. Free(fs) \in Nat
    BY <1>1, FreeIsNat
  <2>3. /\ frames' = Push(n, fs) /\ bases' = Append(bases, Free(fs)) /\ res' = "EOF"
        /\ status' = "running" /\ exhausted' = exhausted
    BY <1>3 DEF Enter
  <2>4. bases' \in Seq(Nat)
    BY <1>2, <2>2, <2>3
  <2>5. Good(frames', offset) /\ res' \in Codes
    BY <2>1, <2>3 DEF Codes
  <2>6. status' \in {"running", "returned"} /\ exhausted' \in BOOLEAN
    BY <1>2, <2>3
  <2> QED
    BY <1>1, <1>2, <2>4, <2>5, <2>6, NotLost
<1>4. CASE ~Fits(n, fs)
  <2>1. /\ frames' = fs /\ bases' = bases /\ res' = "OOB" /\ exhausted' = TRUE
        /\ status' \in {"running", "returned"}
    BY <1>4 DEF Enter
  <2> QED
    BY <1>1, <1>2, <2>1, NotLost DEF Codes
<1> QED
  BY <1>3, <1>4

\* A frame put back in the step it reached, and its sub-parser pushed above it.
LEMMA PushingAbove ==
    ASSUME Inv, ~lost, status = "running", frames # <<>>,
           UNCHANGED <<given, bases, begin, offset, status, lost>>,
           NEW n \in Node, NEW f \in Frm, f.at = Top.at, f.node = Top.node,
           f.step > 0, par[f.node].tag \in CompositeTags,
           par[f.node].tag \in {"AND", "OR"} => f.step <= 1,
           Chooser(f) => f.saved = offset,
           PushAbove(n, f)
    PROVE  Inv'
<1>1. /\ Good(frames, offset)
      /\ size \in Nat /\ begin \in Nat /\ offset \in Nat
      /\ begin <= offset /\ offset <= Len(input)
      /\ FrameSize(n) \in Nat
  BY InvFacts
<1>2. /\ lost = FALSE /\ lost' = FALSE /\ bases' \in Seq(Nat) /\ exhausted \in BOOLEAN
      /\ status' \in {"running", "returned"}
      /\ begin' = begin /\ offset' = offset /\ given' = given
  BY DEF Inv, TypeOK
<1>3. Good(Rest, offset) /\ AllWait(Rest)
  BY <1>1, RestIsGood
<1>4. /\ Good(Append(Rest, f), offset) /\ AllWait(Append(Rest, f))
      /\ Free(Append(Rest, f)) = f.at
  BY <1>1, <1>3, FrameIsGood
<1>5. Free(frames) = f.at
  BY DEF Free, Top
<1>6. CASE Fits(n, frames)
  <2>1. Fits(n, Append(Rest, f))
    BY <1>4, <1>5, <1>6 DEF Fits
  <2>2. Good(Push(n, Append(Rest, f)), offset)
    BY <1>1, <1>4, <2>1, PushIsGood
  <2>3. Good(frames', offset) /\ res' \in Codes /\ exhausted' \in BOOLEAN
    BY <1>2, <1>6, <2>2 DEF PushAbove, Codes
  <2> QED
    BY <1>1, <1>2, <2>3, NotLost
<1>7. CASE ~Fits(n, frames)
  <2>1. Good(frames', offset) /\ res' \in Codes /\ exhausted' \in BOOLEAN
    BY <1>3, <1>7 DEF PushAbove, Codes
  <2> QED
    BY <1>1, <1>2, <2>1, NotLost
<1> QED
  BY <1>6, <1>7

\* The top is popped, the cursor is where it was or back at the top's offset,
\* and what is left is joined by the next sub-parser or gets the result.
LEMMA PopGoOn ==
    ASSUME Inv, ~lost, status = "running", frames # <<>>,
           UNCHANGED <<given, bases, begin, status, lost>>,
           offset' = offset \/ (Chooser(Top) /\ GoBack),
           \/ \E code \in Codes : PopReturn(code)
           \/ \E n \in Node : PushOn(n, Rest)
    PROVE  Inv'
<1>1. /\ Good(frames, offset)
      /\ size \in Nat /\ begin \in Nat /\ offset \in Nat
      /\ begin <= offset /\ offset <= Len(input)
      /\ \A n \in Node : FrameSize(n) \in Nat
  BY InvFacts
<1>2. /\ lost = FALSE /\ lost' = FALSE /\ bases' \in Seq(Nat) /\ exhausted \in BOOLEAN
      /\ status' \in {"running", "returned"}
      /\ begin' = begin /\ given' = given
  BY DEF Inv, TypeOK
<1>3. /\ Top \in Frm /\ Good(Rest, offset) /\ AllWait(Rest)
      /\ Chooser(Top) => Good(Rest, Top.saved)
  BY <1>1, RestIsGood
<1>4. PICK o \in Nat : offset' = o /\ begin <= o /\ o <= Len(input) /\ Good(Rest, o)
  BY <1>1, <1>3 DEF GoBack, InWindow, Frm
<1>5. Good(frames', o) /\ res' \in Codes /\ exhausted' \in BOOLEAN
  <2>1. ASSUME NEW code \in Codes, PopReturn(code)
        PROVE  Good(frames', o) /\ res' \in Codes /\ exhausted' \in BOOLEAN
    BY <1>2, <1>4, <2>1 DEF PopReturn
  <2>2. ASSUME NEW n \in Node, PushOn(n, Rest)
        PROVE  Good(frames', o) /\ res' \in Codes /\ exhausted' \in BOOLEAN
    <3>1. Fits(n, Rest) => Good(Push(n, Rest), o)
      BY <1>1, <1>3, <1>4, PushIsGood
    <3> QED
      BY <1>2, <1>4, <2>2, <3>1 DEF PushOn, Codes
  <2> QED
    BY <2>1, <2>2
<1> QED
  BY <1>1, <1>2, <1>4, <1>5, NotLost
-----------------------------------------------------------------------------
LEMMA Initially == Init => Inv
<1> SUFFICES ASSUME Init PROVE Inv
  OBVIOUS
<1>1. /\ frames = <<>> /\ bases = <<>> /\ DOMAIN frames = {}
      /\ frames \in Seq(Frm) /\ bases \in Seq(Nat)
  BY DEF Init
<1>2. begin <= offset /\ offset <= Len(input)
  BY DEF Init
<1>3. TypeOK
  BY <1>1, <1>2 DEF Init, TypeOK, Codes, Frm
<1>4. WaitingIn(frames) /\ OrderedIn(frames, offset)
  BY <1>1 DEF WaitingIn, OrderedIn
<1> QED
  BY <1>1, <1>3, <1>4 DEF Init, Inv, Stranded, Fresh

\* In a parse that is lost, only composites with a step taken can be on top.
LEMMA LostTop ==
    ASSUME Inv, lost, frames # <<>>
    PROVE  /\ Top.step > 0 /\ par[Top.node].tag \in CompositeTags
           /\ Chooser(Top) => ~InWindow(Top.saved)
           /\ res = "OOB"
<1>1. /\ frames \in Seq(Frm) /\ Len(frames) \in DOMAIN frames
  BY DEF Inv, TypeOK, Frm
<1>2. frames[Len(frames)] \in Frm
  BY <1>1
<1> QED
  BY <1>1, <1>2 DEF Inv, Stranded, AllWait, WaitingIn, Top, InWindow, TypeOK, Frm

\* Every turn of the loop keeps the invariant, one step per action.
LEMMA Step ==
    ASSUME Inv, [Next]_vars
    PROVE  Inv'
<1>a. /\ Good(frames, offset)
      /\ size \in Nat /\ begin \in Nat /\ offset \in Nat
      /\ begin <= offset /\ offset <= Len(input) /\ Len(input) \in Nat
      /\ res \in Codes
      /\ \A n \in Node : IsNode(par[n])
  BY InvFacts
<1>b. ASSUME frames # <<>>
      PROVE  /\ Top \in Frm /\ Top.node \in Node /\ IsNode(par[Top.node])
             /\ Top.step \in Nat
             /\ Good(Rest, offset) /\ AllWait(Rest)
             /\ \A q \in Nat : offset <= q => Good(Rest, q)
             /\ par[Top.node].tag \in {"AND", "OR"} => Top.step <= 1
  <2>1. /\ Top \in Frm /\ Good(Rest, offset) /\ AllWait(Rest)
        /\ \A q \in Nat : offset <= q => Good(Rest, q)
    BY <1>a, <1>b, RestIsGood
  <2>2. Top.node \in Node /\ Top.step \in Nat
    BY <2>1 DEF Frm
  <2>3. frames \in Seq(Frm) /\ Len(frames) \in DOMAIN frames
    BY <1>a, <1>b DEF Good
  <2>4. par[Top.node].tag \in {"AND", "OR"} => Top.step <= 1
    BY <2>3 DEF Inv, WaitingIn, Top
  <2> QED
    BY <1>a, <2>1, <2>2, <2>4
<1>c. \A q \in Seq(Nat) : SubSeq(q, 1, Len(q) - 1) \in Seq(Nat)
  OBVIOUS
<1>1. ASSUME Start
      PROVE  Inv'
  <2>1. ~lost /\ Root \in Node
    BY <1>1 DEF Start, Inv, Stranded
  <2>2. AllWait(frames)
    BY <1>1 DEF Start, Inv, Fresh, AllWait
  <2> QED
    BY <1>a, <1>1, <2>1, <2>2, Entering DEF Start
<1>2. ASSUME Leave
      PROVE  Inv'
  <2>1. bases' \in Seq(Nat) /\ status' \in {"running", "returned"}
    BY <1>2, <1>c DEF Leave, Inv, TypeOK
  <2>2. UNCHANGED <<given, frames, begin, offset, res, exhausted, lost>>
    BY <1>2 DEF Leave
  <2>3. TypeOK'
    BY <2>1, <2>2 DEF Inv, TypeOK, given
  <2>4. WaitingIn(frames)' /\ OrderedIn(frames, offset)'
    BY <2>2 DEF Inv, WaitingIn, OrderedIn, Chooser, given
  <2>5. Stranded'
    BY <2>1, <2>2 DEF Inv, Stranded, AllWait, Chooser, given
  <2> QED
    BY <2>1, <2>3, <2>4, <2>5 DEF Inv, Fresh
<1>3. ASSUME RunLeaf
      PROVE  Inv'
  <2> DEFINE p == par[Top.node]
             out == RunTerminal(p, input, offset)
  <2>1. frames # <<>> /\ status = "running" /\ p.tag \in TerminalTags
    BY <1>3 DEF RunLeaf, Looping
  <2>2. ~lost
    BY <2>1, LostTop DEF TerminalTags, CompositeTags
  <2>3. /\ out.res \in Codes /\ out.offset \in Nat
        /\ offset <= out.offset /\ out.offset <= Len(input)
    BY <1>a, <1>b, <2>1, TerminalMovesOn
  <2>4. PICK w \in Nat : begin' = w /\ w <= offset
    BY <1>a, <1>3 DEF RunLeaf
  <2>5. /\ offset' = out.offset /\ frames' = Rest /\ res' = out.res
        /\ UNCHANGED <<given, bases, status, lost, exhausted>>
    BY <1>3 DEF RunLeaf, PopReturn
  <2>6. w <= out.offset
    BY <1>a, <2>3, <2>4
  <2>7. Good(frames', out.offset)
    BY <1>b, <2>1, <2>3, <2>5
  <2>8. /\ bases' \in Seq(Nat) /\ exhausted' \in BOOLEAN /\ lost = FALSE /\ lost' = FALSE
        /\ status' \in {"running", "returned"}
    BY <2>1, <2>2, <2>5 DEF Inv, TypeOK
  <2> HIDE DEF p, out
  <2> QED
    BY <2>3, <2>4, <2>5, <2>6, <2>7, <2>8, NotLost
<1>4. ASSUME RunCall
      PROVE  Inv'
  <2>1. frames # <<>> /\ par[Top.node].tag = "CALL"
    BY <1>4 DEF RunCall, Running, Looping
  <2>2. ~lost
    BY <2>1, LostTop DEF CompositeTags
  <2>3. par[Top.node].var \in Node
    BY <1>b, <2>1 DEF IsNode
  <2> QED
    BY <1>b, <1>4, <2>1, <2>2, <2>3, Entering DEF RunCall
<1>5. ASSUME RunAnd
      PROVE  Inv'
  <2>1. frames # <<>> /\ status = "running" /\ par[Top.node].tag = "AND"
    BY <1>5 DEF RunAnd, Running, Looping
  <2>2. par[Top.node].arg1 \in Node /\ par[Top.node].arg2 \in Node
    BY <1>b, <2>1 DEF IsNode
  <2>3. UNCHANGED <<given, bases, begin, offset, status, lost>>
    BY <1>5 DEF RunAnd
  <2>4. CASE lost
    <3>1. PopReturn("OOB")
      BY <1>5, <2>1, <2>4, LostTop DEF RunAnd
    <3> QED
      BY <2>1, <2>3, <2>4, <3>1, LosingPop DEF PopReturn, Inv, TypeOK
  <2>5. CASE ~lost /\ Top.step = 0
    <3> DEFINE f == [Top EXCEPT !.step = 1]
    <3>1. /\ f \in Frm /\ f.at = Top.at /\ f.node = Top.node /\ f.step = 1
      BY <1>b, <2>1 DEF Frm
    <3>2. PushAbove(par[Top.node].arg1, f)
      BY <1>5, <2>5 DEF RunAnd
    <3> HIDE DEF f
    <3> QED
      BY <2>1, <2>2, <2>3, <2>5, <3>1, <3>2, PushingAbove DEF CompositeTags, Chooser
  <2>6. CASE ~lost /\ Top.step # 0
    <3>1. \/ PopReturn(res)
          \/ PushOn(par[Top.node].arg2, Rest)
      BY <1>5, <2>6 DEF RunAnd
    <3> QED
      BY <1>a, <2>1, <2>2, <2>3, <2>6, <3>1, PopGoOn
  <2> QED
    BY <2>4, <2>5, <2>6
<1>6. ASSUME RunOr
      PROVE  Inv'
  <2>1. frames # <<>> /\ status = "running" /\ par[Top.node].tag = "OR"
    BY <1>6 DEF RunOr, Running, Looping
  <2>2. par[Top.node].arg1 \in Node /\ par[Top.node].arg2 \in Node
    BY <1>b, <2>1 DEF IsNode
  <2>3. UNCHANGED <<given, bases, begin, status>>
    BY <1>6 DEF RunOr
  <2>4. CASE Top.step = 1 /\ PopLost
    <3>1. Chooser(Top)
      BY <2>1, <2>4 DEF Chooser
    <3> QED
      BY <2>1, <2>3, <2>4, <3>1, LosingPop DEF PopLost, PopReturn
  <2>5. CASE lost /\ ~(Top.step = 1 /\ PopLost)
    <3>1. Top.step = 1 /\ Chooser(Top) /\ res = "OOB" /\ ~InWindow(Top.saved)
      BY <1>b, <2>1, <2>5, LostTop DEF Chooser
    <3>2. ~GoBack /\ Backtracks(res) /\ ~(Top.step = 0)
      BY <3>1 DEF GoBack, Backtracks
    <3> QED
      BY <1>6, <2>5, <3>1, <3>2 DEF RunOr
  <2>6. CASE ~lost /\ Top.step = 0
    <3> DEFINE f == [Top EXCEPT !.step = 1, !.saved = offset]
    <3>1. /\ f \in Frm /\ f.at = Top.at /\ f.node = Top.node /\ f.step = 1
          /\ f.saved = offset
      BY <1>a, <1>b, <2>1 DEF Frm
    <3>2. PushAbove(par[Top.node].arg1, f) /\ UNCHANGED <<offset, lost>>
      BY <1>6, <2>6 DEF RunOr
    <3> HIDE DEF f
    <3> QED
      BY <2>1, <2>2, <2>3, <2>6, <3>1, <3>2, PushingAbove DEF CompositeTags
  <2>7. CASE ~lost /\ Top.step = 1 /\ ~PopLost
    <3>1. /\ UNCHANGED lost
          /\ offset' = offset \/ GoBack
          /\ PopReturn(res) \/ PushOn(par[Top.node].arg2, Rest)
      BY <1>6, <2>7 DEF RunOr
    <3>2. Chooser(Top)
      BY <2>1, <2>7 DEF Chooser
    <3> QED
      BY <1>a, <2>1, <2>2, <2>3, <2>7, <3>1, <3>2, PopGoOn
  <2> QED
    BY <1>b, <2>1, <2>4, <2>5, <2>6, <2>7
<1>7. ASSUME RunRep
      PROVE  Inv'
  <2> DEFINE p == par[Top.node]
  <2>1. frames # <<>> /\ status = "running" /\ p.tag = "REP"
    BY <1>7 DEF RunRep, Running, Looping
  <2>2. p.sub \in Node /\ p.min \in Nat /\ p.max \in Nat
    BY <1>b, <2>1 DEF IsNode
  <2>3. UNCHANGED <<given, bases, begin, status>>
    BY <1>7 DEF RunRep
  <2>4. CASE Top.step > 0 /\ PopLost
    <3>1. Chooser(Top)
      BY <2>1, <2>4 DEF Chooser
    <3> QED
      BY <2>1, <2>3, <2>4, <3>1, LosingPop DEF PopLost, PopReturn
  <2>5. CASE Top.step > 0 /\ ~PopLost /\ lost
    <3>1. Chooser(Top) /\ res = "OOB" /\ ~InWindow(Top.saved)
      BY <2>1, <2>5, LostTop DEF Chooser
    <3>a. ~GoBack /\ ~(Top.step = 0) /\ ~(res = "OK")
      BY <1>b, <2>1, <2>5, <3>1 DEF GoBack
    <3>b. PopReturn(res) /\ UNCHANGED <<offset, lost>>
      BY <1>7, <2>5, <3>a DEF RunRep
    <3>2. /\ frames' = Rest /\ res' = "OOB" /\ UNCHANGED exhausted
          /\ UNCHANGED <<offset, lost>>
      BY <3>1, <3>b DEF PopReturn
    <3>3. lost' = TRUE
      BY <2>5, <3>2 DEF Inv, TypeOK
    <3> QED
      BY <2>1, <2>3, <2>5, <3>2, <3>3, LosingPop
  <2>6. CASE ~lost /\ PushAbove(p.sub, NextTurn) /\ UNCHANGED <<offset, lost>>
    <3> DEFINE k == Top.step + 1
               f == [Top EXCEPT !.step = k, !.saved = offset]
    <3>1. k \in Nat /\ k > 0
      BY <1>b, <2>1
    <3>2. PushAbove(p.sub, f)
      BY <2>6 DEF NextTurn
    <3> HIDE DEF k
    <3>3. /\ f \in Frm /\ f.at = Top.at /\ f.node = Top.node /\ f.step > 0
          /\ f.saved = offset
      BY <1>a, <1>b, <2>1, <3>1 DEF Frm
    <3> HIDE DEF f
    <3> QED
      BY <2>1, <2>2, <2>3, <2>6, <3>2, <3>3, PushingAbove DEF CompositeTags
  <2>7. CASE /\ ~lost /\ UNCHANGED lost
             /\ offset' = offset \/ (Top.step > 0 /\ GoBack)
             /\ PopReturn(res) \/ PopReturn("OK")
    <3>1. Top.step > 0 => Chooser(Top)
      BY <2>1 DEF Chooser
    <3>2. \E code \in Codes : PopReturn(code)
      BY <1>a, <2>7 DEF Codes
    <3> QED
      BY <2>1, <2>3, <2>7, <3>1, <3>2, PopGoOn
  <2>8. lost => Top.step > 0 /\ res # "OK"
    BY <2>1, LostTop
  <2> QED
    BY <1>7, <2>4, <2>5, <2>6, <2>7, <2>8 DEF RunRep
<1>8. CASE UNCHANGED vars
  BY <1>8 DEF vars, given, Inv, TypeOK, WaitingIn, OrderedIn, Stranded, AllWait,
              Chooser, Fresh
<1> QED
  BY <1>1, <1>2, <1>3, <1>4, <1>5, <1>6, <1>7, <1>8 DEF Next

\* The invariant holds of every run of the engine.
THEOREM Invariance == Spec => []Inv
BY Initially, Step, PTL DEF Spec

\* The variables keep their types, and the cursor stays in the window.
THEOREM TypeCorrect == Spec => []TypeOK
BY Invariance, PTL DEF Inv

\* Offsets to go back to are ordered like the frames, and behind the cursor.
THEOREM WaysBackAreOrdered == Spec => []SavedOrdered
<1>1. Inv => SavedOrdered
  BY DEF Inv, OrderedIn, SavedOrdered, Chooser, Chooses
<1> QED
  BY <1>1, Invariance, PTL

\* A parse whose way back has left the window fails for good.
THEOREM LostParsesFail == Spec => []LostStaysLost
<1>1. Inv => LostStaysLost
  BY DEF Inv, Stranded, LostStaysLost
<1> QED
  BY <1>1, Invariance, PTL
-----------------------------------------------------------------------------
\* Frames that tile the stack, and lie further and further down.  The second part
\* follows from the first by induction on the frames; as a part of the invariant
\* it needs none.
TiledIn(fs) ==
    \A i \in DOMAIN fs :
        fs[i].at + FrameSize(fs[i].node) = IF i = 1 THEN size ELSE fs[i - 1].at
Descending(fs) ==
    \A i \in DOMAIN fs :
        /\ fs[i].at < size
        /\ \A j \in DOMAIN fs : i < j => fs[j].at < fs[i].at
Stacked(fs) == fs \in Seq(Frm) /\ TiledIn(fs) /\ Descending(fs)

\* The bases of the active runs, on the frames fs.
Based(bs, fs) ==
    \A j \in DOMAIN bs :
        /\ bs[j] = size \/ \E i \in DOMAIN fs : fs[i].at = bs[j]
        /\ j = 1 => bs[j] = size
        /\ \A k \in DOMAIN bs : k <= j => bs[j] <= bs[k]
        /\ Free(fs) <= bs[j]

SInv ==
    /\ Stacked(frames) /\ Based(bases, frames)
    /\ (status = "running") <=> (bases # <<>>)
    /\ status # "running" => frames = <<>>

LEMMA SizeFacts ==
    ASSUME Inv
    PROVE  /\ size \in Nat /\ bases \in Seq(Nat) /\ frames \in Seq(Frm)
           /\ Len(frames) \in Nat /\ Len(bases) \in Nat
           /\ DOMAIN frames = 1 .. Len(frames) /\ DOMAIN bases = 1 .. Len(bases)
           /\ \A n \in Node : FrameSize(n) \in Nat /\ FrameSize(n) > 0
           /\ \A n \in Node : IsNode(par[n])
<1>1. /\ PtrSize \in Nat /\ AndSize \in Nat /\ ChoiceSize \in Nat /\ PtrSize > 0
      /\ PtrSize + AndSize > 0 /\ PtrSize + ChoiceSize > 0
  OBVIOUS
<1>2. ASSUME NEW n \in Node
      PROVE  FrameSize(n) \in Nat /\ FrameSize(n) > 0
  <2>1. FrameSize(n) \in {PtrSize, PtrSize + AndSize, PtrSize + ChoiceSize}
    BY DEF FrameSize
  <2> QED
    BY <1>1, <2>1
<1> QED
  BY <1>2, InvFacts DEF Inv, TypeOK, Frm

\* The lowest frame is the last one.
LEMMA FreeIsLeast ==
    ASSUME NEW fs, Stacked(fs), size \in Nat
    PROVE  /\ Free(fs) \in Nat /\ Free(fs) <= size
           /\ fs # <<>> => Free(fs) < size
           /\ \A i \in DOMAIN fs : fs[i].at \in Nat /\ Free(fs) <= fs[i].at
<1>1. fs \in Seq(Frm) /\ Len(fs) \in Nat /\ DOMAIN fs = 1 .. Len(fs)
  BY DEF Stacked
<1>2. \A i \in DOMAIN fs : fs[i] \in Frm
  BY <1>1
<1>3. \A i \in DOMAIN fs : fs[i].at \in Nat
  BY <1>2 DEF Frm
<1>4. CASE fs = <<>>
  BY <1>1, <1>4 DEF Free
<1>5. CASE fs # <<>>
  <2>1. Len(fs) \in DOMAIN fs /\ Free(fs) = fs[Len(fs)].at
    BY <1>1, <1>5 DEF Free
  <2>2. \A i \in DOMAIN fs : i <= Len(fs)
    BY <1>1
  <2>3. \A i \in DOMAIN fs : i < Len(fs) => fs[Len(fs)].at < fs[i].at
    BY <2>1 DEF Stacked, Descending
  <2>4. fs[Len(fs)].at < size
    BY <2>1 DEF Stacked, Descending
  <2> QED
    BY <1>1, <1>3, <2>1, <2>2, <2>3, <2>4
<1> QED
  BY <1>4, <1>5

\* What is left without the top.
LEMMA RestIsStacked ==
    ASSUME Stacked(frames), frames # <<>>, size \in Nat
    PROVE  /\ Stacked(Rest) /\ Len(Rest) = Len(frames) - 1
           /\ DOMAIN Rest = 1 .. Len(frames) - 1
           /\ \A i \in DOMAIN Rest : i \in DOMAIN frames /\ Rest[i] = frames[i]
           /\ \A i \in DOMAIN frames : i \in DOMAIN Rest \/ frames[i] = Top
           /\ Top \in Frm /\ Top.at \in Nat
           /\ Free(frames) = Top.at
           /\ Top.at + FrameSize(Top.node) = Free(Rest)
<1>1. /\ frames \in Seq(Frm) /\ Len(frames) \in Nat /\ Len(frames) > 0
      /\ DOMAIN frames = 1 .. Len(frames)
  BY DEF Stacked
<1>2. /\ Rest \in Seq(Frm) /\ Len(Rest) = Len(frames) - 1
      /\ DOMAIN Rest = 1 .. Len(frames) - 1
      /\ \A i \in 1 .. Len(frames) - 1 : Rest[i] = frames[i]
  BY <1>1 DEF Rest
<1>3. TiledIn(Rest)
  <2>1. ASSUME NEW i \in DOMAIN Rest
        PROVE  Rest[i].at + FrameSize(Rest[i].node) = IF i = 1 THEN size ELSE Rest[i - 1].at
    <3>1. i \in DOMAIN frames /\ Rest[i] = frames[i] /\ (i # 1 => Rest[i - 1] = frames[i - 1])
      BY <1>1, <1>2
    <3> QED
      BY <3>1 DEF Stacked, TiledIn
  <2> QED
    BY <2>1 DEF TiledIn
<1>4. Descending(Rest)
  BY <1>1, <1>2 DEF Stacked, Descending
<1>5. Top \in Frm /\ Free(frames) = Top.at
  BY <1>1 DEF Top, Free
<1>6. Top.at \in Nat
  BY <1>5 DEF Frm
<1>7. Top.at + FrameSize(Top.node) = Free(Rest)
  <2>1. Top.at + FrameSize(Top.node) =
          IF Len(frames) = 1 THEN size ELSE frames[Len(frames) - 1].at
    BY <1>1 DEF Stacked, TiledIn, Top
  <2>2. CASE Len(frames) = 1
    <3>1. Rest = <<>>
      BY <1>2, <2>2
    <3> QED
      BY <2>1, <2>2, <3>1 DEF Free
  <2>3. CASE Len(frames) # 1
    <3>1. Rest # <<>> /\ Rest[Len(Rest)] = frames[Len(frames) - 1]
      BY <1>1, <1>2, <2>3
    <3> QED
      BY <2>1, <2>3, <3>1 DEF Free
  <2> QED
    BY <2>2, <2>3
<1>8. \A i \in DOMAIN frames : i \in DOMAIN Rest \/ frames[i] = Top
  <2>1. \A i \in DOMAIN frames : i \in 1 .. Len(frames) - 1 \/ i = Len(frames)
    BY <1>1
  <2> QED
    BY <1>2, <2>1 DEF Top
<1> QED
  BY <1>1, <1>2, <1>3, <1>4, <1>5, <1>6, <1>7, <1>8 DEF Stacked

\* A frame put on top that takes its node's bytes.
LEMMA AppendIsStacked ==
    ASSUME NEW fs, Stacked(fs), size \in Nat, NEW f \in Frm,
           FrameSize(f.node) \in Nat, FrameSize(f.node) > 0,
           f.at + FrameSize(f.node) = Free(fs)
    PROVE  /\ Stacked(Append(fs, f)) /\ Free(Append(fs, f)) = f.at
           /\ \A i \in DOMAIN fs : i \in DOMAIN Append(fs, f) /\ Append(fs, f)[i] = fs[i]
           /\ \A i \in DOMAIN Append(fs, f) : i \in DOMAIN fs \/ Append(fs, f)[i] = f
<1> DEFINE gs == Append(fs, f)
<1>1. fs \in Seq(Frm) /\ Len(fs) \in Nat /\ DOMAIN fs = 1 .. Len(fs)
  BY DEF Stacked
<1>2. /\ gs \in Seq(Frm) /\ Len(gs) = Len(fs) + 1 /\ DOMAIN gs = 1 .. Len(fs) + 1
      /\ \A i \in 1 .. Len(fs) : gs[i] = fs[i]
      /\ gs[Len(fs) + 1] = f
  BY <1>1
<1> HIDE DEF gs
<1>3. gs # <<>> /\ Free(gs) = f.at
  <2>1. Len(gs) # 0 /\ gs # <<>>
    BY <1>1, <1>2
  <2> QED
    BY <1>2, <2>1 DEF Free
<1>4. f.at \in Nat
  BY DEF Frm
<1>5. /\ Free(fs) \in Nat /\ Free(fs) <= size
      /\ \A i \in DOMAIN fs : fs[i].at \in Nat /\ Free(fs) <= fs[i].at
  BY FreeIsLeast
<1>6. f.at < Free(fs)
  BY <1>4, <1>5
<1>7. Descending(gs)
  <2>1. ASSUME NEW i \in DOMAIN gs
        PROVE  gs[i].at < size
    <3>1. CASE i \in 1 .. Len(fs)
      BY <1>1, <1>2, <3>1 DEF Stacked, Descending
    <3>2. CASE i = Len(fs) + 1
      BY <1>2, <1>4, <1>5, <1>6, <3>2
    <3> QED
      BY <1>2, <2>1, <3>1, <3>2
  <2>2. ASSUME NEW i \in DOMAIN gs, NEW j \in DOMAIN gs, i < j
        PROVE  gs[j].at < gs[i].at
    <3>1. i \in 1 .. Len(fs)
      BY <1>1, <1>2, <2>2
    <3>2. CASE j \in 1 .. Len(fs)
      BY <1>1, <1>2, <2>2, <3>1, <3>2 DEF Stacked, Descending
    <3>3. CASE j = Len(fs) + 1
      <4>1. Free(fs) <= fs[i].at /\ fs[i].at \in Nat
        BY <1>1, <1>5, <3>1
      <4> QED
        BY <1>2, <1>4, <1>5, <1>6, <3>1, <3>3, <4>1
    <3> QED
      BY <1>2, <2>2, <3>2, <3>3
  <2> QED
    BY <2>1, <2>2 DEF Descending
<1>8. TiledIn(gs)
  <2>1. ASSUME NEW i \in DOMAIN gs
        PROVE  gs[i].at + FrameSize(gs[i].node) = IF i = 1 THEN size ELSE gs[i - 1].at
    <3>1. CASE i \in 1 .. Len(fs)
      <4>1. gs[i] = fs[i] /\ (i # 1 => gs[i - 1] = fs[i - 1])
        BY <1>1, <1>2, <3>1
      <4> QED
        BY <1>1, <3>1, <4>1 DEF Stacked, TiledIn
    <3>2. CASE i = Len(fs) + 1
      <4>1. Free(fs) = IF i = 1 THEN size ELSE fs[i - 1].at
        BY <1>1, <3>2 DEF Free
      <4>2. gs[i] = f /\ (i # 1 => gs[i - 1] = fs[i - 1])
        BY <1>1, <1>2, <3>2
      <4> QED
        BY <4>1, <4>2
    <3> QED
      BY <1>2, <2>1, <3>1, <3>2
  <2> QED
    BY <2>1 DEF TiledIn
<1> QED
  BY <1>1, <1>2, <1>3, <1>7, <1>8 DEF Stacked, gs

LEMMA PushIsStacked ==
    ASSUME NEW fs, Stacked(fs), size \in Nat, NEW n \in Node, Fits(n, fs),
           FrameSize(n) \in Nat, FrameSize(n) > 0
    PROVE  /\ Stacked(Push(n, fs)) /\ Free(Push(n, fs)) < Free(fs)
           /\ \A i \in DOMAIN fs : i \in DOMAIN Push(n, fs) /\ Push(n, fs)[i] = fs[i]
           /\ \A i \in DOMAIN Push(n, fs) :
                 \/ i \in DOMAIN fs
                 \/ Push(n, fs)[i] = Frame(n, Free(fs) - FrameSize(n))
<1> DEFINE f == Frame(n, Free(fs) - FrameSize(n))
<1>1. Free(fs) \in Nat
  BY FreeIsLeast
<1>2. f \in Frm /\ f.node = n /\ f.at = Free(fs) - FrameSize(n)
  BY <1>1 DEF Fits, Frame, Frm
<1>3. f.at + FrameSize(f.node) = Free(fs) /\ f.at < Free(fs)
  BY <1>1, <1>2
<1> HIDE DEF f
<1>4. /\ Stacked(Append(fs, f)) /\ Free(Append(fs, f)) = f.at
      /\ \A i \in DOMAIN fs : i \in DOMAIN Append(fs, f) /\ Append(fs, f)[i] = fs[i]
      /\ \A i \in DOMAIN Append(fs, f) : i \in DOMAIN fs \/ Append(fs, f)[i] = f
  BY <1>2, <1>3, AppendIsStacked
<1>5. Push(n, fs) = Append(fs, f)
  BY DEF Push, f
<1> QED
  BY <1>3, <1>4, <1>5 DEF f
-----------------------------------------------------------------------------
\* The bases are on what is left when a node above the last of them is popped,
\* and so are the frames of the callers.
LEMMA BasedOnRest ==
    ASSUME Stacked(frames), size \in Nat, bases \in Seq(Nat), bases # <<>>,
           Based(bases, frames), frames # <<>>, Free(frames) < bases[Len(bases)]
    PROVE  /\ Based(bases, Rest)
           /\ \A i \in DOMAIN frames : frames[i].at >= bases[Len(bases)] =>
                 i \in DOMAIN Rest /\ Rest[i] = frames[i]
<1>1. /\ Len(bases) \in Nat /\ Len(bases) > 0 /\ DOMAIN bases = 1 .. Len(bases)
      /\ \A j \in DOMAIN bases : bases[j] \in Nat
  OBVIOUS
<1>2. /\ Stacked(Rest) /\ Top.at \in Nat /\ Free(frames) = Top.at
      /\ \A i \in DOMAIN Rest : i \in DOMAIN frames /\ Rest[i] = frames[i]
      /\ \A i \in DOMAIN frames : i \in DOMAIN Rest \/ frames[i] = Top
  BY RestIsStacked
<1>3. \A j \in DOMAIN bases : bases[Len(bases)] <= bases[j]
  BY <1>1 DEF Based
<1>4. \A j \in DOMAIN bases : Top.at < bases[j]
  BY <1>1, <1>2, <1>3
<1>5. /\ Free(Rest) \in Nat /\ Free(Rest) <= size
      /\ \A i \in DOMAIN Rest : Free(Rest) <= Rest[i].at
  BY <1>2, FreeIsLeast
<1>6. ASSUME NEW j \in DOMAIN bases
      PROVE  bases[j] = size \/ \E i \in DOMAIN Rest : Rest[i].at = bases[j]
  <2>1. CASE bases[j] # size
    <3>1. PICK i \in DOMAIN frames : frames[i].at = bases[j]
      BY <1>6, <2>1 DEF Based
    <3>2. i \in DOMAIN Rest
      BY <1>1, <1>2, <1>4, <3>1
    <3> QED
      BY <1>2, <3>1, <3>2
  <2> QED
    BY <2>1
<1>7. \A j \in DOMAIN bases : Free(Rest) <= bases[j]
  BY <1>5, <1>6
<1>8. \A i \in DOMAIN frames : frames[i].at >= bases[Len(bases)] =>
         i \in DOMAIN Rest /\ Rest[i] = frames[i]
  BY <1>1, <1>2, <1>4
<1> QED
  BY <1>6, <1>7, <1>8 DEF Based

\* They are on what is pushed on top as well.
LEMMA BasedOnMore ==
    ASSUME NEW fs, NEW gs, Stacked(fs), Stacked(gs), size \in Nat,
           bases \in Seq(Nat), Based(bases, fs), Free(gs) <= Free(fs),
           \A i \in DOMAIN fs : i \in DOMAIN gs /\ gs[i].at = fs[i].at
    PROVE  Based(bases, gs)
<1>1. Free(fs) \in Nat /\ Free(gs) \in Nat
  BY FreeIsLeast
<1>2. \A j \in DOMAIN bases : bases[j] \in Nat
  OBVIOUS
<1>3. ASSUME NEW j \in DOMAIN bases
      PROVE  bases[j] = size \/ \E i \in DOMAIN gs : gs[i].at = bases[j]
  BY <1>3 DEF Based
<1>4. \A j \in DOMAIN bases : Free(gs) <= bases[j]
  BY <1>1, <1>2 DEF Based
<1> QED
  BY <1>3, <1>4 DEF Based

\* The invariant, from its parts said of the next state.
LEMMA SInvNext ==
    ASSUME UNCHANGED given, Stacked(frames'), Based(bases', frames'),
           (status' = "running") <=> (bases' # <<>>),
           status' # "running" => frames' = <<>>
    PROVE  SInv'
<1>1. TiledIn(frames)' /\ Descending(frames)'
  BY DEF Stacked, TiledIn, Descending, FrameSize, given
<1>2. Based(bases, frames)'
  BY DEF Based, Free, given
<1> QED
  BY <1>1, <1>2 DEF SInv, Stacked

\* What a turn of the loop does to the frames: the top is popped, replaced by
\* another node, or put back under one.
Turn ==
    \/ frames' = Rest
    \/ \E n \in Node : Fits(n, Rest) /\ frames' = Push(n, Rest)
    \/ \E n \in Node : \E f \in Frm :
          /\ f.at = Top.at /\ f.node = Top.node
          /\ Fits(n, frames) /\ frames' = Push(n, Append(Rest, f))
CallerKept ==
    \A i \in DOMAIN frames : frames[i].at >= bases[Len(bases)] =>
        i \in DOMAIN frames' /\ frames'[i] = frames[i]

LEMMA TurnKeeps ==
    ASSUME Inv, SInv, Looping, UNCHANGED <<given, bases, status>>, Turn
    PROVE  SInv' /\ CallerKept
<1>1. /\ size \in Nat /\ bases \in Seq(Nat)
      /\ \A n \in Node : FrameSize(n) \in Nat /\ FrameSize(n) > 0
  BY SizeFacts
<1>2. /\ Stacked(frames) /\ Based(bases, frames) /\ bases # <<>> /\ frames # <<>>
      /\ Free(frames) < bases[Len(bases)] /\ status = "running"
  BY DEF SInv, Looping
<1>3. /\ Based(bases, Rest)
      /\ \A i \in DOMAIN frames : frames[i].at >= bases[Len(bases)] =>
            i \in DOMAIN Rest /\ Rest[i] = frames[i]
  BY <1>1, <1>2, BasedOnRest
<1>4. /\ Stacked(Rest) /\ Top \in Frm /\ Free(frames) = Top.at
      /\ Top.at + FrameSize(Top.node) = Free(Rest)
  BY <1>1, <1>2, RestIsStacked
<1>5. Free(Rest) \in Nat /\ Free(frames) \in Nat /\ Top.node \in Node
  BY <1>1, <1>2, <1>4, FreeIsLeast DEF Frm
<1>6. ASSUME Stacked(frames'), Free(frames') <= Free(Rest),
             \A i \in DOMAIN Rest : i \in DOMAIN frames' /\ frames'[i] = Rest[i]
      PROVE  SInv' /\ CallerKept
  <2>1. Based(bases, frames')
    BY <1>1, <1>3, <1>4, <1>6, BasedOnMore
  <2>2. SInv'
    BY <1>2, <1>6, <2>1, SInvNext
  <2> QED
    BY <1>3, <1>6, <2>2 DEF CallerKept
<1>7. CASE frames' = Rest
  BY <1>4, <1>5, <1>6, <1>7
<1>8. CASE \E n \in Node : Fits(n, Rest) /\ frames' = Push(n, Rest)
  <2>1. PICK n \in Node : Fits(n, Rest) /\ frames' = Push(n, Rest)
    BY <1>8
  <2>2. FrameSize(n) \in Nat /\ FrameSize(n) > 0
    BY <1>1
  <2>3. /\ Stacked(Push(n, Rest)) /\ Free(Push(n, Rest)) < Free(Rest)
        /\ \A i \in DOMAIN Rest : i \in DOMAIN Push(n, Rest) /\ Push(n, Rest)[i] = Rest[i]
    BY <1>1, <1>4, <2>1, <2>2, PushIsStacked
  <2>4. Free(Push(n, Rest)) \in Nat
    BY <1>1, <2>3, FreeIsLeast
  <2> QED
    BY <1>5, <1>6, <2>1, <2>3, <2>4
<1>9. CASE \E n \in Node : \E f \in Frm :
              /\ f.at = Top.at /\ f.node = Top.node
              /\ Fits(n, frames) /\ frames' = Push(n, Append(Rest, f))
  <2>1. PICK n \in Node, f \in Frm :
              /\ f.at = Top.at /\ f.node = Top.node
              /\ Fits(n, frames) /\ frames' = Push(n, Append(Rest, f))
    BY <1>9
  <2> DEFINE gs == Append(Rest, f)
  <2>2. /\ Stacked(gs) /\ Free(gs) = f.at
        /\ \A i \in DOMAIN Rest : i \in DOMAIN gs /\ gs[i] = Rest[i]
    <3>1. /\ FrameSize(f.node) \in Nat /\ FrameSize(f.node) > 0
          /\ f.at + FrameSize(f.node) = Free(Rest)
      BY <1>1, <1>4, <1>5, <2>1
    <3> QED
      BY <1>1, <1>4, <2>1, <3>1, AppendIsStacked
  <2> HIDE DEF gs
  <2>3. Fits(n, gs) /\ FrameSize(n) \in Nat /\ FrameSize(n) > 0
    BY <1>1, <1>4, <2>1, <2>2 DEF Fits
  <2>4. /\ Stacked(Push(n, gs)) /\ Free(Push(n, gs)) < Free(gs)
        /\ \A i \in DOMAIN gs : i \in DOMAIN Push(n, gs) /\ Push(n, gs)[i] = gs[i]
    BY <1>1, <2>2, <2>3, PushIsStacked
  <2>5. Free(Push(n, gs)) \in Nat /\ Free(gs) <= Free(Rest)
    <3>1. Free(Push(n, gs)) \in Nat
      BY <1>1, <2>4, FreeIsLeast
    <3>2. Top.at \in Nat /\ FrameSize(Top.node) \in Nat
      BY <1>1, <1>4, <1>5 DEF Frm
    <3> QED
      BY <1>4, <1>5, <2>1, <2>2, <3>1, <3>2
  <2>6. frames' = Push(n, gs)
    BY <2>1 DEF gs
  <2>7. Free(gs) \in Nat
    BY <1>1, <2>2, FreeIsLeast
  <2>8. Free(Push(n, gs)) <= Free(Rest)
    BY <1>5, <2>4, <2>5, <2>7
  <2> QED
    BY <1>6, <2>2, <2>4, <2>6, <2>8
<1> QED
  BY <1>7, <1>8, <1>9 DEF Turn

\* A run entered from frames fs on which the bases are.
LEMMA EnterKeeps ==
    ASSUME Inv, SInv, UNCHANGED given,
           NEW fs, Stacked(fs), Based(bases, fs),
           bases = <<>> => fs = <<>>,
           status = "running" \/ bases = <<>>,
           NEW n \in Node, Enter(n, fs)
    PROVE  /\ SInv'
           /\ \A i \in DOMAIN fs : i \in DOMAIN frames' /\ frames'[i] = fs[i]
<1>1. /\ size \in Nat /\ bases \in Seq(Nat) /\ Len(bases) \in Nat
      /\ DOMAIN bases = 1 .. Len(bases)
      /\ FrameSize(n) \in Nat /\ FrameSize(n) > 0
  BY SizeFacts
<1>2. CASE Fits(n, fs)
  <2>1. /\ frames' = Push(n, fs) /\ bases' = Append(bases, Free(fs)) /\ status' = "running"
    BY <1>2 DEF Enter
  <2>2. /\ Stacked(frames') /\ Free(frames') < Free(fs)
        /\ \A i \in DOMAIN fs : i \in DOMAIN frames' /\ frames'[i] = fs[i]
    BY <1>1, <1>2, <2>1, PushIsStacked
  <2>3. Free(fs) \in Nat /\ Free(frames') \in Nat
    BY <1>1, <2>2, FreeIsLeast
  <2>4. Based(bases, frames')
    BY <1>1, <2>2, <2>3, BasedOnMore
  <2> DEFINE bs == Append(bases, Free(fs))
  <2>5. /\ Len(bs) = Len(bases) + 1 /\ DOMAIN bs = 1 .. Len(bases) + 1
        /\ \A j \in 1 .. Len(bases) : bs[j] = bases[j]
        /\ bs[Len(bases) + 1] = Free(fs)
    BY <1>1, <2>3
  <2> HIDE DEF bs
  <2>6. \A j \in 1 .. Len(bases) : bases[j] \in Nat /\ Free(fs) <= bases[j]
    BY <1>1 DEF Based
  <2>7. Free(fs) = size \/ \E i \in DOMAIN frames' : frames'[i].at = Free(fs)
    <3>1. CASE fs # <<>>
      <4>1. Len(fs) \in DOMAIN fs /\ Free(fs) = fs[Len(fs)].at
        BY <3>1 DEF Stacked, Free
      <4> QED
        BY <2>2, <4>1
    <3> QED
      BY <3>1 DEF Free
  <2>8. Len(bases) = 0 => Free(fs) = size
    BY <1>1 DEF Free
  <2>9. ASSUME NEW j \in DOMAIN bs
        PROVE  /\ bs[j] = size \/ \E i \in DOMAIN frames' : frames'[i].at = bs[j]
               /\ j = 1 => bs[j] = size
               /\ \A k \in DOMAIN bs : k <= j => bs[j] <= bs[k]
               /\ Free(frames') <= bs[j]
    <3>1. CASE j \in 1 .. Len(bases)
      <4>1. /\ bases[j] = size \/ \E i \in DOMAIN frames' : frames'[i].at = bases[j]
            /\ j = 1 => bases[j] = size
            /\ \A k \in DOMAIN bases : k <= j => bases[j] <= bases[k]
            /\ Free(frames') <= bases[j]
        BY <1>1, <2>4, <3>1 DEF Based
      <4>2. \A k \in DOMAIN bs : k <= j => k \in 1 .. Len(bases)
        BY <1>1, <2>5, <3>1
      <4> QED
        BY <1>1, <2>5, <3>1, <4>1, <4>2
    <3>2. CASE j = Len(bases) + 1
      <4>1. \A k \in DOMAIN bs : bs[j] <= bs[k]
        BY <1>1, <2>3, <2>5, <2>6, <3>2
      <4>2. j = 1 => bs[j] = size
        BY <1>1, <2>5, <2>8, <3>2
      <4>3. Free(frames') <= bs[j]
        BY <2>2, <2>3, <2>5, <3>2
      <4> QED
        BY <2>5, <2>7, <3>2, <4>1, <4>2, <4>3
    <3> QED
      BY <1>1, <2>5, <2>9, <3>1, <3>2
  <2>10. Based(bases', frames')
    BY <2>1, <2>9 DEF Based, bs
  <2>11. bases' # <<>>
    <3>1. Len(bs) # 0 /\ bs # <<>>
      BY <1>1, <2>5
    <3> QED
      BY <2>1, <3>1 DEF bs
  <2> QED
    BY <2>1, <2>2, <2>10, <2>11, SInvNext
<1>3. CASE ~Fits(n, fs)
  <2>1. /\ frames' = fs /\ bases' = bases
        /\ status' = IF bases = <<>> THEN "returned" ELSE "running"
    BY <1>3 DEF Enter
  <2> QED
    BY <2>1, SInvNext
<1> QED
  BY <1>2, <1>3

\* The innermost run ends.
LEMMA LeaveKeeps ==
    ASSUME Inv, SInv, Leave
    PROVE  SInv'
<1>1. /\ size \in Nat /\ bases \in Seq(Nat) /\ Len(bases) \in Nat
      /\ DOMAIN bases = 1 .. Len(bases)
  BY SizeFacts
<1>2. /\ status = "running" /\ bases # <<>> /\ UNCHANGED given /\ frames' = frames
      /\ bases' = SubSeq(bases, 1, Len(bases) - 1)
      /\ status' = IF Len(bases) = 1 THEN "returned" ELSE "running"
      /\ Stacked(frames) /\ Based(bases, frames)
      /\ frames = <<>> \/ ~(Free(frames) < bases[Len(bases)])
  BY DEF Leave, SInv, Looping
<1>3. /\ Len(bases) > 0 /\ Len(bases') = Len(bases) - 1
      /\ DOMAIN bases' = 1 .. Len(bases) - 1
      /\ \A j \in 1 .. Len(bases) - 1 : bases'[j] = bases[j]
  BY <1>1, <1>2
<1>4. Based(bases', frames)
  <2> DEFINE bs == bases'
  <2>1. \A j \in DOMAIN bs : j \in DOMAIN bases /\ bs[j] = bases[j]
    BY <1>1, <1>3
  <2>2. Based(bases, frames)
    BY <1>2
  <2> HIDE DEF bs
  <2>3. Based(bs, frames)
    BY <2>1, <2>2 DEF Based
  <2> QED
    BY <2>3 DEF bs
<1>5. Len(bases) = 1 => frames = <<>>
  <2>1. Free(frames) \in Nat /\ (frames # <<>> => Free(frames) < size)
    BY <1>1, <1>2, FreeIsLeast
  <2>2. Len(bases) = 1 => bases[Len(bases)] = size
    BY <1>1, <1>2 DEF Based
  <2> QED
    BY <1>1, <1>2, <2>1, <2>2
<1>6. (bases' # <<>>) <=> (Len(bases) # 1)
  <2>1. bases' \in Seq(Nat)
    BY <1>1, <1>2
  <2> QED
    BY <1>1, <1>3, <2>1
<1> QED
  BY <1>2, <1>4, <1>5, <1>6, SInvNext
-----------------------------------------------------------------------------
\* Every step keeps the invariant, and the frames of the callers.
LEMMA StackStep ==
    ASSUME Inv, SInv, [Next]_vars
    PROVE  SInv' /\ (bases # <<>> => CallerKept)
<1>1. /\ size \in Nat /\ frames \in Seq(Frm)
      /\ \A n \in Node : IsNode(par[n])
  BY SizeFacts
<1>2. ASSUME Looping
      PROVE  /\ Top \in Frm /\ Top.node \in Node /\ Top.step \in Nat
             /\ IsNode(par[Top.node])
             /\ Stacked(Rest) /\ Based(bases, Rest) /\ bases # <<>> /\ status = "running"
             /\ \A i \in DOMAIN frames : frames[i].at >= bases[Len(bases)] =>
                   i \in DOMAIN Rest /\ Rest[i] = frames[i]
  <2>1. /\ Stacked(frames) /\ Based(bases, frames) /\ bases # <<>> /\ frames # <<>>
        /\ Free(frames) < bases[Len(bases)] /\ status = "running" /\ bases \in Seq(Nat)
    BY <1>2, SizeFacts DEF SInv, Looping
  <2>2. Stacked(Rest) /\ Top \in Frm
    BY <1>1, <2>1, RestIsStacked
  <2>3. Top.node \in Node /\ Top.step \in Nat
    BY <2>2 DEF Frm
  <2> QED
    BY <1>1, <2>1, <2>2, <2>3, BasedOnRest
<1>3. CASE Start
  <2>1. status = "called" /\ Enter(Root, frames) /\ UNCHANGED given /\ Root \in Node
    BY <1>3 DEF Start
  <2>2. frames = <<>> /\ bases = <<>> /\ Stacked(frames) /\ Based(bases, frames)
    BY <2>1 DEF SInv
  <2> QED
    BY <2>1, <2>2, EnterKeeps
<1>4. CASE Leave
  BY <1>4, LeaveKeeps DEF CallerKept, Leave
<1>5. CASE RunLeaf
  <2>1. Looping /\ Turn /\ UNCHANGED <<given, bases, status>>
    BY <1>5 DEF RunLeaf, PopReturn, Turn
  <2> QED
    BY <2>1, TurnKeeps
<1>6. CASE RunCall
  <2>1. Looping /\ UNCHANGED given /\ par[Top.node].var \in Node
        /\ Enter(par[Top.node].var, Rest)
    BY <1>2, <1>6 DEF RunCall, Running, IsNode
  <2>2. /\ SInv'
        /\ \A i \in DOMAIN Rest : i \in DOMAIN frames' /\ frames'[i] = Rest[i]
    BY <1>2, <2>1, EnterKeeps
  <2> QED
    BY <1>2, <2>1, <2>2 DEF CallerKept
<1>7. CASE RunAnd
  <2>1. /\ Looping /\ UNCHANGED <<given, bases, status>>
        /\ par[Top.node].arg1 \in Node /\ par[Top.node].arg2 \in Node
    BY <1>2, <1>7 DEF RunAnd, Running, IsNode
  <2> DEFINE f == [Top EXCEPT !.step = 1]
  <2>2. f \in Frm /\ f.at = Top.at /\ f.node = Top.node
    BY <1>2, <2>1 DEF Frm
  <2>3. \/ PushAbove(par[Top.node].arg1, f)
        \/ PopReturn(res)
        \/ PushOn(par[Top.node].arg2, Rest)
    BY <1>7 DEF RunAnd
  <2> HIDE DEF f
  <2>4. Turn
    BY <2>1, <2>2, <2>3 DEF PushAbove, PopReturn, PushOn, Turn
  <2> QED
    BY <2>1, <2>4, TurnKeeps
<1>8. CASE RunOr
  <2>1. /\ Looping /\ UNCHANGED <<given, bases, status>>
        /\ par[Top.node].arg1 \in Node /\ par[Top.node].arg2 \in Node
    BY <1>2, <1>8 DEF RunOr, Running, IsNode
  <2> DEFINE f == [Top EXCEPT !.step = 1, !.saved = offset]
  <2>2. f \in Frm /\ f.at = Top.at /\ f.node = Top.node
    BY <1>2, <2>1, InvFacts DEF Frm
  <2>3. \/ PushAbove(par[Top.node].arg1, f)
        \/ PopReturn(res) \/ PopLost
        \/ PushOn(par[Top.node].arg2, Rest)
    BY <1>8 DEF RunOr
  <2> HIDE DEF f
  <2>4. Turn
    BY <2>1, <2>2, <2>3 DEF PushAbove, PopReturn, PopLost, PushOn, Turn
  <2> QED
    BY <2>1, <2>4, TurnKeeps
<1>9. CASE RunRep
  <2>1. /\ Looping /\ UNCHANGED <<given, bases, status>> /\ par[Top.node].sub \in Node
    BY <1>2, <1>9 DEF RunRep, Running, IsNode
  <2> DEFINE k == Top.step + 1
             f == [Top EXCEPT !.step = k, !.saved = offset]
  <2>2. k \in Nat
    BY <1>2, <2>1
  <2>3. \/ PushAbove(par[Top.node].sub, f)
        \/ PopReturn(res) \/ PopReturn("OK") \/ PopLost
    BY <1>9 DEF RunRep, NextTurn
  <2> HIDE DEF k
  <2>4. f \in Frm /\ f.at = Top.at /\ f.node = Top.node
    BY <1>2, <2>1, <2>2, InvFacts DEF Frm
  <2> HIDE DEF f
  <2>5. Turn
    BY <2>1, <2>3, <2>4 DEF PushAbove, PopReturn, PopLost, Turn
  <2> QED
    BY <2>1, <2>5, TurnKeeps
<1>10. CASE UNCHANGED vars
  <2>1. UNCHANGED <<given, frames, bases, status>>
    BY <1>10 DEF vars, given
  <2> QED
    BY <2>1, SInvNext DEF SInv, CallerKept
<1> QED
  BY <1>3, <1>4, <1>5, <1>6, <1>7, <1>8, <1>9, <1>10 DEF Next

LEMMA StackInitially == Init => SInv
<1> SUFFICES ASSUME Init PROVE SInv
  OBVIOUS
<1>1. /\ frames = <<>> /\ bases = <<>> /\ status = "called"
      /\ frames \in Seq(Frm) /\ DOMAIN frames = {} /\ DOMAIN bases = {}
  BY DEF Init
<1> QED
  BY <1>1 DEF SInv, Stacked, TiledIn, Descending, Based

(* Everything the two theorems below rest on: the types and the order of the  *)
(* saved offsets, and the frames of each run lying where stack.h puts them.   *)
THEOREM StackInvariance == Spec => [](Inv /\ SInv)
<1>1. Inv /\ SInv /\ [Next]_vars => SInv'
  BY StackStep
<1> QED
  BY <1>1, StackInitially, Invariance, PTL DEF Spec

LEMMA DisciplineFollows ==
    ASSUME Inv, SInv
    PROVE  StackDiscipline
<1>1. Tiled
  BY DEF SInv, Stacked, TiledIn, Tiled
<1>2. Waiting
  BY DEF Inv, WaitingIn, Waiting
<1>3. BasesNested
  <2>1. DOMAIN bases = 1 .. Len(bases) /\ Len(bases) \in Nat
    BY SizeFacts
  <2> QED
    BY <2>1 DEF SInv, Based, BasesNested
<1> QED
  BY <1>1, <1>2, <1>3 DEF StackDiscipline

\* The frames tile the stack, those under the top wait for what it returns, and
\* each active run has its base where it found the stack.
THEOREM StackIsDisciplined == Spec => []StackDiscipline
BY DisciplineFollows, StackInvariance, PTL

\* A run that a capture started leaves the frames of its caller alone.
THEOREM CallersAreSafe == Spec => CallerUntouched
<1>1. Inv /\ SInv /\ [Next]_vars => (bases # <<>> => CallerKept)
  BY StackStep
<1>2. Inv /\ SInv /\ [Next]_vars =>
        [bases # <<>> =>
           \A i \in DOMAIN frames : frames[i].at >= bases[Len(bases)] =>
              i \in DOMAIN frames' /\ frames'[i] = frames[i]]_vars
  BY <1>1 DEF CallerKept
<1> QED
  BY <1>2, StackInvariance, PTL DEF Spec, CallerUntouched
-----------------------------------------------------------------------------

\* A list of captured trees that lie at a and above.
ListOK(l, a) ==
    /\ \E S : l \in Seq(S)
    /\ \A i \in DOMAIN l : l[i].at \in Nat /\ a <= l[i].at

\* The frames of the callers wait for the runs above them.
CallersWait ==
    \A j \in DOMAIN bases : \A x \in DOMAIN frames :
        frames[x].at >= bases[j] => frames[x].step > 0

\* The frames that were there when the function of mark i was called.  What may
\* be gone back to from them is not ahead of where the function began to read;
\* for those of the run it started it is not before that.
Below(i, bs, f) == i = Len(bs) \/ f.at >= bs[i + 1]
Parted ==
    \A i \in DOMAIN marks : \A x \in DOMAIN frames : Chooser(frames[x]) =>
        /\ Below(i, bases, frames[x]) => frames[x].saved <= marks[i].start
        /\ ~Below(i, bases, frames[x]) => marks[i].start <= frames[x].saved

\* The marks are in step with the runs, and ordered in the input and in memory.
Depth ==
    /\ \E M : marks \in Seq(M)
    /\ Len(marks) <= Len(bases)
    /\ status = "running" => Len(marks) >= Len(bases) - 1
    /\ Finishing => AllWait(frames)
Marked ==
    \A i \in DOMAIN marks :
        /\ marks[i].node \in Node /\ par[marks[i].node].tag = "CALL"
        /\ marks[i].start \in Nat /\ marks[i].start <= offset
        /\ marks[i].alloc \in Nat /\ alloc <= marks[i].alloc
        /\ ListOK(marks[i].list, marks[i].alloc)
        /\ \A k \in DOMAIN marks : i <= k =>
              marks[i].start <= marks[k].start /\ marks[k].alloc <= marks[i].alloc

CInv ==
    /\ alloc \in Nat /\ ListOK(list, alloc)
    /\ CallersWait /\ Parted /\ Depth /\ Marked
AllInv == Inv /\ SInv /\ CInv
-----------------------------------------------------------------------------
LEMMA EmptyListOK == \A a : ListOK(<<>>, a)
<1>1. <<>> \in Seq({}) /\ DOMAIN <<>> = {}
  OBVIOUS
<1> QED
  BY <1>1 DEF ListOK

LEMMA LowerListOK ==
    ASSUME NEW l, NEW a \in Nat, NEW b \in Nat, b <= a, ListOK(l, a)
    PROVE  ListOK(l, b)
BY DEF ListOK

LEMMA AppendListOK ==
    ASSUME NEW l, NEW a \in Nat, NEW b \in Nat, b <= a, ListOK(l, a), NEW tree
    PROVE  ListOK(Append(l, [at |-> b, tree |-> tree]), b)
<1> DEFINE e == [at |-> b, tree |-> tree]
<1>1. PICK S : l \in Seq(S)
  BY DEF ListOK
<1>2. e.at = b
  OBVIOUS
<1> HIDE DEF e
<1>3. l \in Seq(S \cup {e}) /\ e \in S \cup {e}
  BY <1>1, SeqMonotonic
<1> DEFINE T == S \cup {e}
           m == Append(l, e)
<1> HIDE DEF T
<1>4. /\ m \in Seq(T) /\ Len(l) \in Nat /\ DOMAIN l = 1 .. Len(l)
      /\ DOMAIN m = 1 .. Len(l) + 1
      /\ \A i \in 1 .. Len(l) : m[i] = l[i]
      /\ m[Len(l) + 1] = e
  BY <1>3 DEF T
<1> HIDE DEF m
<1>5. \A i \in DOMAIN m : m[i].at \in Nat /\ b <= m[i].at
  BY <1>2, <1>4 DEF ListOK
<1>6. ListOK(m, b)
  BY <1>4, <1>5 DEF ListOK
<1> QED
  BY <1>6 DEF m, e

LEMMA ConcatListOK ==
    ASSUME NEW l, NEW m, NEW a \in Nat, ListOK(l, a), ListOK(m, a)
    PROVE  ListOK(l \o m, a)
<1>1. PICK S : l \in Seq(S)
  BY DEF ListOK
<1>2. PICK T : m \in Seq(T)
  BY DEF ListOK
<1> DEFINE U == S \cup T
           c == l \o m
<1>3. l \in Seq(U) /\ m \in Seq(U)
  BY <1>1, <1>2, SeqMonotonic
<1> HIDE DEF U
<1>4. /\ c \in Seq(U) /\ Len(c) = Len(l) + Len(m)
      /\ \A i \in 1 .. Len(l) + Len(m) : c[i] = IF i <= Len(l) THEN l[i] ELSE m[i - Len(l)]
  BY <1>3, ConcatProperties
<1>5. /\ Len(l) \in Nat /\ Len(m) \in Nat /\ DOMAIN l = 1 .. Len(l) /\ DOMAIN m = 1 .. Len(m)
      /\ DOMAIN c = 1 .. Len(l) + Len(m)
  BY <1>3, <1>4
<1> HIDE DEF c
<1>6. ASSUME NEW i \in DOMAIN c
      PROVE  c[i].at \in Nat /\ a <= c[i].at
  <2>1. CASE i <= Len(l)
    <3>1. i \in DOMAIN l /\ c[i] = l[i]
      BY <1>4, <1>5, <1>6, <2>1
    <3> QED
      BY <3>1 DEF ListOK
  <2>2. CASE ~(i <= Len(l))
    <3>1. i - Len(l) \in DOMAIN m /\ c[i] = m[i - Len(l)]
      BY <1>4, <1>5, <1>6, <2>2
    <3> QED
      BY <3>1 DEF ListOK
  <2> QED
    BY <2>1, <2>2
<1>7. ListOK(c, a)
  BY <1>4, <1>6 DEF ListOK
<1> QED
  BY <1>7 DEF c

\* What the proofs need to know of the state.
LEMMA Facts ==
    ASSUME AllInv
    PROVE  /\ Good(frames, offset) /\ Stacked(frames) /\ Based(bases, frames)
           /\ size \in Nat /\ begin \in Nat /\ offset \in Nat
           /\ begin <= offset /\ offset <= Len(input) /\ Len(input) \in Nat
           /\ res \in Codes /\ alloc \in Nat
           /\ bases \in Seq(Nat) /\ Len(bases) \in Nat /\ DOMAIN bases = 1 .. Len(bases)
           /\ \A j \in DOMAIN bases : bases[j] \in Nat
           /\ Len(marks) \in Nat /\ DOMAIN marks = 1 .. Len(marks)
           /\ Len(marks) <= Len(bases)
           /\ \A x \in DOMAIN frames : /\ frames[x] \in Frm
                                       /\ frames[x].at \in Nat /\ frames[x].step \in Nat
                                       /\ frames[x].saved \in Nat
           /\ \A n \in Node : IsNode(par[n])
           /\ \A n \in Node : FrameSize(n) \in Nat /\ FrameSize(n) > 0
<1>1. Inv /\ SInv /\ CInv
  BY DEF AllInv
<1>2. Len(marks) \in Nat /\ DOMAIN marks = 1 .. Len(marks) /\ Len(marks) <= Len(bases)
  BY <1>1 DEF CInv, Depth
<1>3. \A x \in DOMAIN frames : frames[x] \in Frm
  BY <1>1, InvFacts DEF Good
<1>4. \A x \in DOMAIN frames : frames[x].at \in Nat /\ frames[x].step \in Nat
                               /\ frames[x].saved \in Nat
  BY <1>3 DEF Frm
<1>5. \A j \in DOMAIN bases : bases[j] \in Nat
  BY <1>1, SizeFacts
<1> QED
  BY <1>1, <1>2, <1>3, <1>4, <1>5, InvFacts, SizeFacts DEF SInv, CInv

\* While nothing is to be finished, every mark has a run above it.
LEMMA RunAboveMarks ==
    ASSUME AllInv, ~Finishing
    PROVE  /\ \A i \in DOMAIN marks : i + 1 \in DOMAIN bases /\ i # Len(bases)
           /\ status = "running" => Len(bases) = Len(marks) + 1
           /\ status # "running" => marks = <<>> /\ bases = <<>>
<1>1. /\ Len(marks) \in Nat /\ DOMAIN marks = 1 .. Len(marks)
      /\ Len(bases) \in Nat /\ DOMAIN bases = 1 .. Len(bases)
      /\ Len(marks) <= Len(bases)
  BY Facts
<1>2. /\ status = "running" => Len(marks) >= Len(bases) - 1 /\ bases # <<>>
      /\ status # "running" => bases = <<>>
      /\ \E M : marks \in Seq(M)
      /\ bases \in Seq(Nat)
  BY Facts DEF AllInv, SInv, CInv, Depth
<1>3. (marks = <<>>) <=> (Len(marks) = 0)
  BY <1>1, <1>2
<1>4. (bases = <<>>) <=> (Len(bases) = 0)
  BY <1>1, <1>2
<1>5. CASE status = "running"
  <2>1. Len(marks) # Len(bases) \/ marks = <<>>
    BY DEF Finishing
  <2>2. Len(bases) # 0 /\ Len(marks) >= Len(bases) - 1
    BY <1>2, <1>4, <1>5
  <2>3. marks = <<>> => Len(marks) = 0
    BY <1>3
  <2>4. Len(bases) = Len(marks) + 1
    <3> DEFINE m == Len(marks)
               b == Len(bases)
    <3>1. m \in Nat /\ b \in Nat /\ m <= b
      BY <1>1
    <3>2. (m # b \/ m = 0) /\ b # 0 /\ m >= b - 1
      BY <2>1, <2>2, <2>3
    <3> HIDE DEF m, b
    <3>3. b = m + 1
      BY <3>1, <3>2
    <3> QED
      BY <3>3 DEF m, b
  <2> QED
    BY <1>1, <1>5, <2>4
<1>6. CASE status # "running"
  <2>1. Len(bases) = 0 /\ Len(marks) = 0
    BY <1>1, <1>2, <1>4, <1>6
  <2> QED
    BY <1>1, <1>2, <1>3, <1>6, <2>1
<1> QED
  BY <1>5, <1>6
-----------------------------------------------------------------------------
\* What a turn of the loop does to the frames and to the cursor.
TurnTo ==
    \/ frames' = Rest /\ offset <= offset'
    \/ /\ \/ frames' = Rest
          \/ \E n \in Node : Fits(n, Rest) /\ frames' = Push(n, Rest)
       /\ offset' = offset \/ (Chooser(Top) /\ offset' = Top.saved)
    \/ /\ \E n \in Node : \E f \in Frm :
             /\ f.at = Top.at /\ f.node = Top.node
             /\ Chooser(f) => f.saved = offset
             /\ Fits(n, frames) /\ frames' = Push(n, Append(Rest, f))
       /\ offset' = offset

\* The frames after it: old ones, a new one, or the top's, all but the old ones
\* in the innermost run.
LEMMA FramesOfTurn ==
    ASSUME AllInv, Looping, TurnTo
    PROVE  \A x \in DOMAIN frames' : frames'[x].at \in Nat /\ (
              \/ x \in DOMAIN frames /\ frames'[x] = frames[x]
              \/ frames'[x].at < bases[Len(bases)] /\ frames'[x].step = 0
              \/ /\ frames'[x].at < bases[Len(bases)]
                 /\ Chooser(frames'[x]) => frames'[x].saved = offset /\ offset' = offset)
<1>1. /\ Stacked(frames) /\ Based(bases, frames) /\ size \in Nat
      /\ bases \in Seq(Nat) /\ \A n \in Node : FrameSize(n) \in Nat /\ FrameSize(n) > 0
      /\ \A j \in DOMAIN bases : bases[j] \in Nat
      /\ \A x \in DOMAIN frames : frames[x].at \in Nat
  BY Facts
<1>2. frames # <<>> /\ Free(frames) < bases[Len(bases)] /\ bases # <<>>
  BY DEF AllInv, SInv, Looping
<1>3. Len(bases) \in DOMAIN bases /\ bases[Len(bases)] \in Nat
  BY <1>1, <1>2
<1>4. /\ Stacked(Rest) /\ Top \in Frm /\ Free(frames) = Top.at /\ Top.at \in Nat
      /\ Top.at + FrameSize(Top.node) = Free(Rest)
      /\ \A i \in DOMAIN Rest : i \in DOMAIN frames /\ Rest[i] = frames[i]
  BY <1>1, <1>2, RestIsStacked
<1>5. Based(bases, Rest)
  BY <1>1, <1>2, BasedOnRest
<1>6. Free(Rest) \in Nat /\ Free(Rest) <= bases[Len(bases)] /\ Top.node \in Node
  BY <1>1, <1>3, <1>4, <1>5, FreeIsLeast DEF Based, Frm
<1>7. CASE frames' = Rest
  BY <1>1, <1>4, <1>7
<1>8. CASE \E n \in Node : Fits(n, Rest) /\ frames' = Push(n, Rest)
  <2>1. PICK n \in Node : Fits(n, Rest) /\ frames' = Push(n, Rest)
    BY <1>8
  <2>2. FrameSize(n) \in Nat /\ FrameSize(n) > 0
    BY <1>1
  <2> DEFINE g == Frame(n, Free(Rest) - FrameSize(n))
  <2>3. \A i \in DOMAIN frames' : (i \in DOMAIN Rest /\ frames'[i] = Rest[i]) \/ frames'[i] = g
    BY <1>1, <1>4, <2>1, <2>2, PushIsStacked
  <2>4. g.step = 0 /\ g.at \in Nat /\ g.at < bases[Len(bases)]
    BY <1>3, <1>6, <2>1, <2>2 DEF Frame, Fits
  <2> HIDE DEF g
  <2> QED
    BY <1>1, <1>4, <2>3, <2>4
<1>9. CASE /\ \E n \in Node : \E f \in Frm :
                 /\ f.at = Top.at /\ f.node = Top.node
                 /\ Chooser(f) => f.saved = offset
                 /\ Fits(n, frames) /\ frames' = Push(n, Append(Rest, f))
           /\ offset' = offset
  <2>1. PICK n \in Node, f \in Frm :
                 /\ f.at = Top.at /\ f.node = Top.node
                 /\ Chooser(f) => f.saved = offset
                 /\ Fits(n, frames) /\ frames' = Push(n, Append(Rest, f))
    BY <1>9
  <2> DEFINE gs == Append(Rest, f)
             g == Frame(n, Free(gs) - FrameSize(n))
  <2>2. /\ Stacked(gs) /\ Free(gs) = f.at
        /\ \A i \in DOMAIN Rest : i \in DOMAIN gs /\ gs[i] = Rest[i]
        /\ \A i \in DOMAIN gs : (i \in DOMAIN Rest /\ gs[i] = Rest[i]) \/ gs[i] = f
    <3>1. /\ FrameSize(f.node) \in Nat /\ FrameSize(f.node) > 0
          /\ f.at + FrameSize(f.node) = Free(Rest)
      BY <1>1, <1>4, <1>6, <2>1
    <3> QED
      BY <1>1, <1>4, <2>1, <3>1, AppendIsStacked
  <2> HIDE DEF gs
  <2>3. Fits(n, gs) /\ FrameSize(n) \in Nat /\ FrameSize(n) > 0
    BY <1>1, <1>4, <2>1, <2>2 DEF Fits
  <2>4. frames' = Push(n, gs)
    BY <2>1 DEF gs
  <2>5. \A i \in DOMAIN frames' : (i \in DOMAIN gs /\ frames'[i] = gs[i]) \/ frames'[i] = g
    BY <1>1, <2>2, <2>3, <2>4, PushIsStacked
  <2>6. g.step = 0 /\ g.at \in Nat /\ g.at < bases[Len(bases)]
    BY <1>2, <1>3, <1>4, <2>1, <2>2, <2>3 DEF Frame, Fits
  <2> HIDE DEF g
  <2>7. f.at \in Nat /\ f.at < bases[Len(bases)]
    BY <1>2, <1>4, <2>1
  <2>8. \A i \in DOMAIN frames' :
           (i \in DOMAIN Rest /\ frames'[i] = Rest[i]) \/ frames'[i] = f \/ frames'[i] = g
    BY <2>2, <2>5
  <2> QED
    BY <1>1, <1>4, <1>9, <2>1, <2>6, <2>7, <2>8
<1> QED
  BY <1>7, <1>8, <1>9 DEF TurnTo

\* A turn of the loop leaves the captures as they are.
LEMMA TurnKeepsCaptures ==
    ASSUME AllInv, Looping, ~Finishing, TurnTo, offset' \in Nat,
           UNCHANGED <<given, bases, status, list, alloc, marks>>
    PROVE  CInv'
<1>1. /\ bases \in Seq(Nat) /\ \A j \in DOMAIN bases : bases[j] \in Nat
      /\ offset \in Nat /\ frames # <<>> /\ bases # <<>> /\ Stacked(frames)
      /\ Len(bases) \in DOMAIN bases
      /\ \A x \in DOMAIN frames : frames[x].at \in Nat /\ frames[x].saved \in Nat
  <2>1. frames # <<>> /\ bases # <<>>
    BY DEF Looping, AllInv, SInv
  <2>2. Len(bases) \in DOMAIN bases
    BY <2>1, Facts
  <2> QED
    BY <2>1, <2>2, Facts
<1>2. \A j \in DOMAIN bases : bases[Len(bases)] <= bases[j]
  <2>1. Based(bases, frames) /\ \A j \in DOMAIN bases : j <= Len(bases)
    BY Facts
  <2> QED
    BY <1>1, <2>1 DEF Based
<1>3. \A i \in DOMAIN marks : i + 1 \in DOMAIN bases /\ i # Len(bases)
  BY RunAboveMarks
<1>4. /\ CallersWait /\ Parted /\ Depth /\ Marked /\ alloc \in Nat /\ ListOK(list, alloc)
  BY DEF AllInv, CInv
<1>5. \A x \in DOMAIN frames' :
         \/ x \in DOMAIN frames /\ frames'[x] = frames[x]
         \/ frames'[x].at < bases[Len(bases)] /\ frames'[x].step = 0
         \/ /\ frames'[x].at < bases[Len(bases)]
            /\ Chooser(frames'[x]) => frames'[x].saved = offset /\ offset' = offset
  BY FramesOfTurn
<1>6. ASSUME NEW x \in DOMAIN frames', frames'[x].at < bases[Len(bases)],
             NEW j \in DOMAIN bases
      PROVE  ~(frames'[x].at >= bases[j])
  <2>1. frames'[x].at \in Nat
    BY <1>6, FramesOfTurn
  <2> QED
    BY <1>1, <1>2, <1>6, <2>1
<1>7. CallersWait'
  BY <1>4, <1>5, <1>6 DEF CallersWait
<1>8. ASSUME NEW i \in DOMAIN marks
      PROVE  marks[i].start \in Nat /\ marks[i].start <= offset /\ marks[i].start <= offset'
  <2>1. marks[i].start \in Nat /\ marks[i].start <= offset
    BY <1>4 DEF Marked
  <2>2. CASE offset' = offset \/ offset <= offset'
    BY <1>1, <2>1, <2>2
  <2>3. CASE Chooser(Top) /\ offset' = Top.saved
    <3>1. Len(frames) \in DOMAIN frames /\ Top = frames[Len(frames)] /\ Free(frames) = Top.at
      BY <1>1 DEF Stacked, Top, Free
    <3>2. ~Below(i, bases, Top)
      BY <1>1, <1>2, <1>3, <3>1 DEF Below, Looping
    <3> QED
      BY <1>4, <2>1, <2>3, <3>1, <3>2 DEF Parted
  <2> QED
    BY <2>1, <2>2, <2>3 DEF TurnTo
<1>9. Parted'
  <2> SUFFICES ASSUME NEW i \in DOMAIN marks, NEW x \in DOMAIN frames', Chooser(frames'[x])
               PROVE  /\ Below(i, bases, frames'[x]) => frames'[x].saved <= marks[i].start
                      /\ ~Below(i, bases, frames'[x]) => marks[i].start <= frames'[x].saved
    BY DEF Parted, Below, Chooser, given
  <2>1. CASE x \in DOMAIN frames /\ frames'[x] = frames[x]
    BY <1>4, <2>1 DEF Parted
  <2>2. CASE /\ frames'[x].at < bases[Len(bases)]
             /\ frames'[x].saved = offset
    <3>1. ~Below(i, bases, frames'[x])
      BY <1>3, <1>6, <2>2 DEF Below
    <3> QED
      BY <1>8, <2>2, <3>1
  <2>3. ~(frames'[x].step = 0)
    BY DEF Chooser
  <2> QED
    BY <1>5, <2>1, <2>2, <2>3
<1>10. Depth'
  BY <1>4 DEF Depth, Finishing
<1>11. Marked'
  BY <1>4, <1>8 DEF Marked, given
<1> QED
  BY <1>4, <1>7, <1>9, <1>10, <1>11 DEF CInv

\* A CALL node: its function is entered, or has no room for its run.
LEMMA CallKeepsCaptures ==
    ASSUME AllInv, ~Finishing, CallFunction
    PROVE  CInv'
<1>1. /\ bases \in Seq(Nat) /\ \A j \in DOMAIN bases : bases[j] \in Nat
      /\ offset \in Nat /\ Stacked(frames) /\ Based(bases, frames) /\ Good(frames, offset)
      /\ size \in Nat /\ Len(bases) \in Nat /\ DOMAIN bases = 1 .. Len(bases)
      /\ Len(marks) \in Nat /\ DOMAIN marks = 1 .. Len(marks)
      /\ \A x \in DOMAIN frames : frames[x].at \in Nat /\ frames[x].saved \in Nat
  BY Facts
<1>2. /\ Looping /\ par[Top.node].tag = "CALL" /\ Enter(par[Top.node].var, Rest)
      /\ UNCHANGED <<given, begin, offset, lost, alloc>>
      /\ \/ /\ Len(bases') > Len(bases)
            /\ marks' = Append(marks, Mark0(Top.node))
            /\ list' = IF par[Top.node].fun.kind = "exp" THEN <<>> ELSE list
         \/ /\ bases' = bases
            /\ UNCHANGED <<marks, list>>
  BY DEF CallFunction, RunCall, Running
<1>3. /\ frames # <<>> /\ bases # <<>> /\ Free(frames) < bases[Len(bases)]
      /\ status = "running"
  BY <1>2 DEF Looping, AllInv, SInv
<1>4. /\ CallersWait /\ Parted /\ Depth /\ Marked /\ alloc \in Nat /\ ListOK(list, alloc)
  BY DEF AllInv, CInv
<1>5. /\ Top \in Frm /\ Stacked(Rest) /\ Based(bases, Rest) /\ AllWait(Rest)
      /\ \A i \in DOMAIN Rest : i \in DOMAIN frames /\ Rest[i] = frames[i]
      /\ Good(Rest, offset)
  BY <1>1, <1>3, RestIsStacked, BasedOnRest, RestIsGood
<1>6. Top.node \in Node
  BY <1>5 DEF Frm
<1>7. IsNode(par[Top.node]) /\ par[Top.node].var \in Node
  BY <1>2, <1>6, Facts DEF IsNode
<1>8. /\ \A i \in DOMAIN marks : i + 1 \in DOMAIN bases /\ i # Len(bases)
      /\ Len(bases) = Len(marks) + 1
  BY <1>3, RunAboveMarks
<1>9. CASE frames' = Rest /\ bases' = bases /\ UNCHANGED <<marks, list, status>>
  <2>1. TurnTo /\ offset' \in Nat
    BY <1>1, <1>2, <1>9 DEF TurnTo
  <2> QED
    BY <1>2, <1>9, <2>1, TurnKeepsCaptures
<1>10. CASE ~Fits(par[Top.node].var, Rest)
  <2>1. frames' = Rest /\ bases' = bases /\ status' = status
    BY <1>2, <1>3, <1>10 DEF Enter
  <2>2. ~(Len(bases') > Len(bases))
    BY <1>1, <2>1
  <2> QED
    BY <1>2, <1>9, <2>1, <2>2
<1>11. CASE Fits(par[Top.node].var, Rest)
  <2> DEFINE n == par[Top.node].var
             base == Free(Rest)
             m == Mark0(Top.node)
             len == Len(marks)
  <2>1. /\ frames' = Push(n, Rest) /\ bases' = Append(bases, base) /\ status' = "running"
    BY <1>2, <1>11 DEF Enter
  <2>2. /\ base \in Nat /\ n \in Node /\ FrameSize(n) \in Nat /\ FrameSize(n) > 0
        /\ \A i \in DOMAIN Rest : base <= Rest[i].at /\ Rest[i].at \in Nat
    BY <1>1, <1>5, <1>7, Facts, FreeIsLeast
  <2>3. /\ bases' \in Seq(Nat) /\ Len(bases') = Len(bases) + 1
        /\ DOMAIN bases' = 1 .. Len(bases) + 1
        /\ \A j \in 1 .. Len(bases) : bases'[j] = bases[j]
        /\ bases'[Len(bases) + 1] = base
    BY <1>1, <2>1, <2>2
  <2>4. marks' = Append(marks, m) /\ list' \in {<<>>, list}
    <3>1. bases' # bases
      BY <1>1, <2>3
    <3> QED
      BY <1>2, <3>1
  <2> DEFINE g == Frame(n, base - FrameSize(n))
  <2>5. \A x \in DOMAIN frames' : (x \in DOMAIN Rest /\ frames'[x] = Rest[x]) \/ frames'[x] = g
    BY <1>1, <1>5, <1>11, <2>1, <2>2, PushIsStacked
  <2>6. g.step = 0 /\ g.at < base /\ g.at \in Nat
    BY <1>11, <2>2 DEF Frame, Fits
  <2> HIDE DEF g
  <2>7. /\ m.node = Top.node /\ m.list = list /\ m.alloc = alloc /\ m.start = offset
    BY DEF Mark0
  <2> HIDE DEF m, n, base
  <2>8. PICK M : marks \in Seq(M)
    BY <1>4 DEF Depth
  <2>9. /\ marks' \in Seq(M \cup {m}) /\ Len(marks') = len + 1
        /\ DOMAIN marks' = 1 .. len + 1
        /\ \A i \in 1 .. len : marks'[i] = marks[i]
        /\ marks'[len + 1] = m
    <3> DEFINE T == M \cup {m}
    <3>1. marks \in Seq(T) /\ m \in T
      BY <2>8, SeqMonotonic
    <3> HIDE DEF T
    <3>2. /\ marks' \in Seq(T) /\ Len(marks') = len + 1
          /\ DOMAIN marks' = 1 .. len + 1
          /\ \A i \in 1 .. len : marks'[i] = marks[i]
          /\ marks'[len + 1] = m
      BY <2>4, <3>1
    <3> QED
      BY <3>2 DEF T
  <2>10. \A j \in DOMAIN bases : base <= bases[j]
    BY <1>5 DEF Based, base
  <2>11. CallersWait'
    <3> SUFFICES ASSUME NEW j \in DOMAIN bases', NEW x \in DOMAIN frames',
                        frames'[x].at >= bases'[j]
                 PROVE  frames'[x].step > 0
      BY DEF CallersWait
    <3>1. base <= bases'[j] /\ bases'[j] \in Nat
      <4>1. CASE j = Len(bases) + 1
        BY <2>2, <2>3, <4>1
      <4>2. CASE j # Len(bases) + 1
        <5>1. Len(bases) \in Nat /\ DOMAIN bases = 1 .. Len(bases) /\ j \in 1 .. Len(bases) + 1
          BY <1>1, <2>3
        <5>2. j \in DOMAIN bases /\ j \in 1 .. Len(bases)
          BY <5>1, <4>2
        <5>3. bases'[j] = bases[j] /\ bases[j] \in Nat
          BY <1>1, <2>3, <5>2
        <5> QED
          BY <2>10, <5>2, <5>3
      <4> QED
        BY <4>1, <4>2
    <3>2. frames'[x] # g
      BY <2>2, <2>6, <3>1
    <3> QED
      BY <1>5, <2>5, <3>2 DEF AllWait
  <2>12. Parted'
    <3> SUFFICES ASSUME NEW i \in DOMAIN marks', NEW x \in DOMAIN frames',
                        Chooser(frames'[x])
                 PROVE  /\ Below(i, bases', frames'[x]) => frames'[x].saved <= marks'[i].start
                        /\ ~Below(i, bases', frames'[x]) => marks'[i].start <= frames'[x].saved
      BY <1>2 DEF Parted, Chooser, given
    <3>1. x \in DOMAIN Rest /\ x \in DOMAIN frames /\ frames'[x] = frames[x]
          /\ frames'[x] = Rest[x]
      BY <1>5, <2>5, <2>6 DEF Chooser
    <3>2. CASE i = len + 1
      <4>1. frames[x].saved <= offset
        BY <1>1, <3>1 DEF Good, OrderedIn
      <4>2. Below(i, bases', frames'[x])
        BY <1>1, <1>8, <2>2, <2>3, <3>1, <3>2 DEF Below
      <4> QED
        BY <2>7, <2>9, <3>1, <3>2, <4>1, <4>2
    <3>3. CASE i \in 1 .. len
      <4>1. marks'[i] = marks[i] /\ bases'[i + 1] = bases[i + 1] /\ i # Len(bases')
        BY <1>1, <1>8, <2>3, <2>9, <3>3
      <4>2. Below(i, bases', frames'[x]) <=> Below(i, bases, frames[x])
        BY <1>1, <1>8, <3>1, <3>3, <4>1 DEF Below
      <4> QED
        BY <1>1, <1>4, <3>1, <3>3, <4>1, <4>2 DEF Parted
    <3> QED
      BY <1>1, <2>9, <3>2, <3>3
  <2>13. Depth'
    <3>1. \E S : marks' \in Seq(S)
      BY <2>9
    <3>2. Len(marks') <= Len(bases') /\ Len(marks') >= Len(bases') - 1
          /\ Len(marks') # Len(bases')
      BY <1>1, <1>8, <2>3, <2>9
    <3> QED
      BY <3>1, <3>2 DEF Depth, Finishing
  <2>14. Marked'
    <3>1. ASSUME NEW i \in 1 .. len
          PROVE  /\ marks[i].node \in Node /\ par[marks[i].node].tag = "CALL"
                 /\ marks[i].start \in Nat /\ marks[i].start <= offset
                 /\ marks[i].alloc \in Nat /\ alloc <= marks[i].alloc
                 /\ ListOK(marks[i].list, marks[i].alloc)
                 /\ \A k \in 1 .. len : i <= k =>
                      marks[i].start <= marks[k].start /\ marks[k].alloc <= marks[i].alloc
      BY <1>1, <1>4, <3>1 DEF Marked
    <3>2. /\ m.node \in Node /\ par[m.node].tag = "CALL"
          /\ m.start \in Nat /\ m.start <= offset
          /\ m.alloc \in Nat /\ alloc <= m.alloc
          /\ ListOK(m.list, m.alloc)
      BY <1>1, <1>2, <1>4, <1>6, <2>7
    <3>3. ASSUME NEW i \in DOMAIN marks'
          PROVE  /\ marks'[i].node \in Node /\ par[marks'[i].node].tag = "CALL"
                 /\ marks'[i].start \in Nat /\ marks'[i].start <= offset
                 /\ marks'[i].alloc \in Nat /\ alloc <= marks'[i].alloc
                 /\ ListOK(marks'[i].list, marks'[i].alloc)
                 /\ \A k \in DOMAIN marks' : i <= k =>
                      marks'[i].start <= marks'[k].start /\ marks'[k].alloc <= marks'[i].alloc
      <4>1. CASE i \in 1 .. len
        <5>1. ASSUME NEW k \in DOMAIN marks', i <= k
              PROVE  marks[i].start <= marks'[k].start /\ marks'[k].alloc <= marks[i].alloc
          <6>1. CASE k \in 1 .. len
            BY <2>9, <3>1, <4>1, <5>1, <6>1
          <6>2. CASE k = len + 1
            BY <2>7, <2>9, <3>1, <4>1, <6>2
          <6> QED
            BY <1>1, <2>9, <5>1, <6>1, <6>2
        <5> QED
          BY <2>9, <3>1, <4>1, <5>1
      <4>2. CASE i = len + 1
        <5>1. \A k \in DOMAIN marks' : i <= k => k = i
          BY <1>1, <2>9, <4>2
        <5> QED
          BY <2>9, <3>2, <4>2, <5>1
      <4> QED
        BY <1>1, <2>9, <3>3, <4>1, <4>2
    <3> QED
      BY <1>2, <3>3 DEF Marked, given
  <2>15. ListOK(list', alloc)
    BY <1>4, <2>4, EmptyListOK
  <2> QED
    BY <1>2, <1>4, <2>11, <2>12, <2>13, <2>14, <2>15 DEF CInv
<1> QED
  BY <1>10, <1>11

\* The engine is started, or a run of it ends.
LEMMA StartKeepsCaptures ==
    ASSUME AllInv, ~Finishing, Start, UNCHANGED captureVars
    PROVE  CInv'
<1>1. /\ status = "called" /\ frames = <<>> /\ bases = <<>> /\ marks = <<>>
      /\ Enter(Root, frames) /\ UNCHANGED given
      /\ alloc' = alloc /\ list' = list /\ marks' = marks
      /\ CInv /\ size \in Nat
  BY RunAboveMarks, Facts DEF Start, AllInv, SInv, captureVars
<1>2. /\ Stacked(frames) /\ Root \in Node
      /\ FrameSize(Root) \in Nat /\ FrameSize(Root) > 0
  BY Facts
<1>3. DOMAIN marks = {} /\ DOMAIN marks' = {} /\ Len(marks) = 0 /\ DOMAIN frames = {}
  BY <1>1
<1>4. Parted' /\ Marked'
  BY <1>3 DEF Parted, Marked
<1>5. CASE Fits(Root, frames)
  <2> DEFINE g == Frame(Root, size - FrameSize(Root))
  <2>1. frames' = Push(Root, frames) /\ bases' = <<size>>
    BY <1>1, <1>5 DEF Enter, Free
  <2>2. \A x \in DOMAIN frames' : frames'[x] = g
    BY <1>1, <1>2, <1>3, <1>5, <2>1, PushIsStacked DEF Free
  <2>3. g.at \in Nat /\ g.at < size
    BY <1>1, <1>2, <1>5 DEF Frame, Fits, Free
  <2> HIDE DEF g
  <2>4. \A j \in DOMAIN bases' : bases'[j] = size
    BY <2>1
  <2>5. CallersWait'
    BY <1>1, <2>2, <2>3, <2>4 DEF CallersWait
  <2>6. Len(bases') = 1
    BY <2>1
  <2>7. Depth'
    BY <1>1, <1>3, <2>6 DEF CInv, Depth, Finishing
  <2> QED
    BY <1>1, <1>4, <2>5, <2>7 DEF CInv
<1>6. CASE ~Fits(Root, frames)
  <2>1. frames' = frames /\ bases' = bases /\ status' = "returned"
    BY <1>1, <1>6 DEF Enter
  <2>2. CallersWait' /\ Depth'
    BY <1>1, <1>3, <2>1 DEF CInv, CallersWait, Depth, Finishing
  <2> QED
    BY <1>1, <1>4, <2>2 DEF CInv
<1> QED
  BY <1>5, <1>6

LEMMA LeaveKeepsCaptures ==
    ASSUME AllInv, ~Finishing, Leave, UNCHANGED captureVars
    PROVE  CInv'
<1>1. /\ bases \in Seq(Nat) /\ \A j \in DOMAIN bases : bases[j] \in Nat
      /\ Stacked(frames) /\ size \in Nat
      /\ Len(bases) \in Nat /\ DOMAIN bases = 1 .. Len(bases)
      /\ Len(marks) \in Nat /\ DOMAIN marks = 1 .. Len(marks)
      /\ \A x \in DOMAIN frames : frames[x].at \in Nat
  BY Facts
<1>2. /\ status = "running" /\ ~Looping
      /\ bases' = SubSeq(bases, 1, Len(bases) - 1)
      /\ UNCHANGED <<given, frames, begin, offset>>
      /\ alloc' = alloc /\ list' = list /\ marks' = marks
  BY DEF Leave, captureVars
<1>3. /\ Len(bases) = Len(marks) + 1
      /\ \A i \in DOMAIN marks : i + 1 \in DOMAIN bases /\ i # Len(bases)
  BY <1>2, RunAboveMarks
<1>4. /\ CallersWait /\ Parted /\ Depth /\ Marked /\ alloc \in Nat /\ ListOK(list, alloc)
  BY DEF AllInv, CInv
<1>5. /\ Len(bases') = Len(bases) - 1 /\ DOMAIN bases' = 1 .. Len(bases) - 1
      /\ \A j \in 1 .. Len(bases) - 1 : bases'[j] = bases[j]
  BY <1>1, <1>2, <1>3
<1>6. \A x \in DOMAIN frames : frames[x].at >= bases[Len(bases)]
  <2>1. CASE frames # <<>>
    <3>1. /\ ~(Free(frames) < bases[Len(bases)]) /\ Free(frames) \in Nat
          /\ bases[Len(bases)] \in Nat
          /\ \A x \in DOMAIN frames : Free(frames) <= frames[x].at
      BY <1>1, <1>2, <1>3, <2>1, FreeIsLeast DEF Looping
    <3> QED
      BY <1>1, <3>1
  <2>2. CASE frames = <<>>
    BY <2>2
  <2> QED
    BY <2>1, <2>2
<1>7. AllWait(frames)
  BY <1>1, <1>3, <1>4, <1>6 DEF CallersWait, AllWait
<1>8. CallersWait'
  BY <1>2, <1>7 DEF CallersWait, AllWait
<1>9. Parted'
  <2> SUFFICES ASSUME NEW i \in DOMAIN marks, NEW x \in DOMAIN frames, Chooser(frames[x])
               PROVE  /\ Below(i, bases', frames[x]) => frames[x].saved <= marks[i].start
                      /\ ~Below(i, bases', frames[x]) => marks[i].start <= frames[x].saved
    BY <1>2 DEF Parted, Chooser, given
  <2>1. CASE i = Len(marks)
    <3>1. i + 1 = Len(bases)
      BY <1>1, <1>3, <2>1
    <3>2. Below(i, bases, frames[x])
      BY <1>6, <3>1 DEF Below
    <3>3. i = Len(bases')
      BY <1>1, <1>5, <3>1
    <3> QED
      BY <1>4, <3>2, <3>3 DEF Parted, Below
  <2>2. CASE i # Len(marks)
    <3>1. bases'[i + 1] = bases[i + 1] /\ i # Len(bases) /\ i # Len(bases')
      BY <1>1, <1>3, <1>5, <2>2
    <3>2. Below(i, bases', frames[x]) <=> Below(i, bases, frames[x])
      BY <3>1 DEF Below
    <3> QED
      BY <1>4, <3>2 DEF Parted
  <2> QED
    BY <2>1, <2>2
<1>10. Depth'
  <2>1. AllWait(frames)'
    BY <1>2, <1>7 DEF AllWait
  <2>2. Len(marks') <= Len(bases') /\ Len(marks') >= Len(bases') - 1
    BY <1>1, <1>2, <1>3, <1>5
  <2>3. \E M : marks' \in Seq(M)
    BY <1>2, <1>4 DEF Depth
  <2> QED
    BY <2>1, <2>2, <2>3 DEF Depth
<1>11. Marked'
  BY <1>2, <1>4 DEF Marked, given
<1> QED
  BY <1>2, <1>4, <1>8, <1>9, <1>10, <1>11 DEF CInv
-----------------------------------------------------------------------------
\* What is known when a function goes on after its run.
LEMMA AtFinish ==
    ASSUME AllInv, Finishing
    PROVE  /\ Len(marks) \in DOMAIN marks /\ Len(bases) = Len(marks) /\ status = "running"
           /\ Mark.node \in Node /\ par[Mark.node].tag = "CALL"
           /\ Mark.start \in Nat /\ Mark.start <= offset
           /\ Mark.alloc \in Nat /\ alloc <= Mark.alloc
           /\ ListOK(Mark.list, Mark.alloc) /\ ListOK(Mark.list, alloc)
           /\ \A i \in DOMAIN marks : Mark.alloc <= marks[i].alloc /\ marks[i].alloc \in Nat
           /\ \A i \in DOMAIN marks : marks[i].start <= Mark.start /\ marks[i].start \in Nat
           /\ AllWait(frames)
           /\ \A x \in DOMAIN frames : Chooser(frames[x]) => frames[x].saved <= Mark.start
           /\ ~InWindow(Mark.start) => Mark.start < begin
<1>1. /\ Len(marks) \in Nat /\ DOMAIN marks = 1 .. Len(marks)
      /\ Len(bases) \in Nat /\ DOMAIN bases = 1 .. Len(bases)
      /\ begin \in Nat /\ offset \in Nat /\ offset <= Len(input) /\ Len(input) \in Nat
      /\ alloc \in Nat
  BY Facts
<1>2. /\ Parted /\ Depth /\ Marked /\ (status # "running" => bases = <<>>)
      /\ Len(marks) = Len(bases) /\ marks # <<>>
  BY DEF AllInv, CInv, SInv, Finishing
<1>3. Len(marks) # 0
  BY <1>1, <1>2 DEF Depth
<1>4. Len(marks) \in DOMAIN marks /\ status = "running"
  BY <1>1, <1>2, <1>3
<1>5. /\ Mark.node \in Node /\ par[Mark.node].tag = "CALL"
      /\ Mark.start \in Nat /\ Mark.start <= offset
      /\ Mark.alloc \in Nat /\ alloc <= Mark.alloc
      /\ ListOK(Mark.list, Mark.alloc)
  BY <1>2, <1>4 DEF Marked, Mark
<1>6. \A i \in DOMAIN marks : /\ i <= Len(marks)
                              /\ Mark.alloc <= marks[i].alloc /\ marks[i].alloc \in Nat
                              /\ marks[i].start <= Mark.start /\ marks[i].start \in Nat
  BY <1>1, <1>2, <1>4 DEF Marked, Mark
<1>7. ListOK(Mark.list, alloc)
  BY <1>1, <1>5, LowerListOK
<1>8. AllWait(frames)
  BY <1>2 DEF Depth, Finishing
<1>9. \A x \in DOMAIN frames : Chooser(frames[x]) => frames[x].saved <= Mark.start
  BY <1>2, <1>4 DEF Parted, Below, Mark
<1>10. ~InWindow(Mark.start) => Mark.start < begin
  BY <1>1, <1>5 DEF InWindow
<1> QED
  BY <1>2, <1>4, <1>5, <1>6, <1>7, <1>8, <1>9, <1>10

\* A function that returns, with the cursor at o, leaves the rest as it was.
LEMMA Returning ==
    ASSUME AllInv, Finishing,
           NEW code \in Codes, NEW o \in Nat, NEW free \in Nat, NEW captured,
           begin <= o, o <= Len(input), Mark.start <= o,
           ListOK(captured, free), free <= Mark.alloc,
           Return(code, o, free, captured), lost' \in BOOLEAN,
           lost' => /\ code = "OOB"
                    /\ \A x \in DOMAIN frames : Chooser(frames[x]) => frames[x].saved < begin
    PROVE  AllInv'
<1>1. /\ Len(marks) \in DOMAIN marks /\ Len(bases) = Len(marks) /\ status = "running"
      /\ Mark.start \in Nat /\ Mark.alloc \in Nat
      /\ \A i \in DOMAIN marks : Mark.alloc <= marks[i].alloc /\ marks[i].alloc \in Nat
      /\ \A i \in DOMAIN marks : marks[i].start <= Mark.start /\ marks[i].start \in Nat
      /\ AllWait(frames)
      /\ \A x \in DOMAIN frames : Chooser(frames[x]) => frames[x].saved <= Mark.start
  BY AtFinish
<1>2. /\ marks' = SubSeq(marks, 1, Len(marks) - 1)
      /\ res' = code /\ offset' = o /\ alloc' = free /\ list' = captured
      /\ UNCHANGED <<given, frames, bases, begin, status, exhausted>>
  BY DEF Return
<1>3. /\ Good(frames, offset) /\ Stacked(frames) /\ Based(bases, frames)
      /\ Len(marks) \in Nat /\ DOMAIN marks = 1 .. Len(marks)
      /\ begin \in Nat /\ Len(bases) \in Nat
      /\ \A x \in DOMAIN frames : frames[x].saved \in Nat
  BY Facts
<1>4. Inv /\ SInv /\ CallersWait /\ Parted /\ Depth /\ Marked
  BY DEF AllInv, CInv
<1>5. Inv'
  <2>1. TypeOK'
    BY <1>2, <1>4 DEF Inv, TypeOK, given
  <2>2. WaitingIn(frames)'
    BY <1>2, <1>4 DEF Inv, WaitingIn, given
  <2>3. OrderedIn(frames, o)
    BY <1>1, <1>3 DEF Good, OrderedIn
  <2>4. OrderedIn(frames, offset)'
    BY <1>2, <2>3 DEF OrderedIn, Chooser, given
  <2>5. Stranded'
    BY <1>1, <1>2 DEF Stranded, AllWait, Chooser, given
  <2>6. Fresh'
    BY <1>1, <1>2 DEF Fresh
  <2> QED
    BY <2>1, <2>2, <2>4, <2>5, <2>6 DEF Inv
<1>6. SInv'
  BY <1>2, <1>3, <1>4, SInvNext DEF SInv
<1>7. PICK M : marks \in Seq(M)
  BY <1>4 DEF Depth
<1>8. /\ marks' \in Seq(M) /\ Len(marks') = Len(marks) - 1
      /\ DOMAIN marks' = 1 .. Len(marks) - 1
      /\ \A i \in DOMAIN marks' : i \in DOMAIN marks /\ marks'[i] = marks[i] /\ i # Len(bases)
  BY <1>1, <1>2, <1>3, <1>7
<1>9. CallersWait'
  BY <1>2, <1>4 DEF CallersWait
<1>10. Parted'
  BY <1>2, <1>4, <1>8 DEF Parted, Chooser, given
<1>11. Depth'
  <2>1. Len(marks') <= Len(bases') /\ Len(marks') >= Len(bases') - 1
    BY <1>1, <1>2, <1>3, <1>8
  <2>2. Len(marks') # Len(bases')
    BY <1>1, <1>2, <1>3, <1>8
  <2> QED
    BY <1>8, <2>1, <2>2 DEF Depth, Finishing
<1>12. Marked'
  <2> SUFFICES ASSUME NEW i \in DOMAIN marks'
               PROVE  /\ marks[i].node \in Node /\ par[marks[i].node].tag = "CALL"
                      /\ marks[i].start \in Nat /\ marks[i].start <= o
                      /\ marks[i].alloc \in Nat /\ free <= marks[i].alloc
                      /\ ListOK(marks[i].list, marks[i].alloc)
                      /\ \A k \in DOMAIN marks' : i <= k =>
                            marks[i].start <= marks[k].start /\ marks[k].alloc <= marks[i].alloc
    BY <1>2, <1>8 DEF Marked, given
  <2>1. i \in DOMAIN marks
    BY <1>8
  <2>2. marks[i].start <= o /\ free <= marks[i].alloc
    BY <1>1, <2>1
  <2> QED
    BY <1>4, <1>8, <2>1, <2>2 DEF Marked
<1>13. alloc' \in Nat /\ ListOK(list, alloc)'
  BY <1>2 DEF ListOK
<1> QED
  BY <1>5, <1>6, <1>9, <1>10, <1>11, <1>12, <1>13 DEF AllInv, CInv

\* A function that returns without the engine's cursor having been lost now.
LEMMA Giving ==
    ASSUME AllInv, Finishing,
           NEW code \in Codes, NEW o \in Nat, NEW free \in Nat, NEW captured,
           begin <= o, o <= Len(input), Mark.start <= o,
           ListOK(captured, free), free <= Mark.alloc,
           Finish(code, o, free, captured), lost => code = "OOB"
    PROVE  AllInv'
<1>1. Return(code, o, free, captured) /\ lost' = lost
  BY DEF Finish
<1>2. Inv
  BY DEF AllInv
<1>3. lost \in BOOLEAN
  BY <1>2 DEF Inv, TypeOK
<1>4. lost => \A x \in DOMAIN frames : Chooser(frames[x]) => frames[x].saved < begin
  BY <1>2 DEF Inv, Stranded
<1> QED
  BY <1>1, <1>3, <1>4, Returning

\* A function whose beginning has left the window.
LEMMA Refusing ==
    ASSUME AllInv, Finishing, NEW free \in Nat, free <= alloc, SeekRefused(free)
    PROVE  AllInv'
<1>1. /\ begin \in Nat /\ offset \in Nat /\ begin <= offset /\ offset <= Len(input)
      /\ alloc \in Nat
      /\ \A x \in DOMAIN frames : frames[x].saved \in Nat
  BY Facts
<1>2. /\ Mark.start \in Nat /\ Mark.start < begin /\ Mark.start <= offset
      /\ Mark.alloc \in Nat /\ alloc <= Mark.alloc
      /\ \A x \in DOMAIN frames : Chooser(frames[x]) => frames[x].saved <= Mark.start
  BY AtFinish DEF SeekRefused
<1>3. ListOK(list, free) /\ free <= Mark.alloc
  <2>1. ListOK(list, alloc)
    BY DEF AllInv, CInv
  <2> QED
    BY <1>1, <1>2, <2>1, LowerListOK
<1>4. \A x \in DOMAIN frames : Chooser(frames[x]) => frames[x].saved < begin
  BY <1>1, <1>2
<1>5. Return("OOB", offset, free, list) /\ lost' = TRUE
  BY DEF SeekRefused
<1> QED
  BY <1>1, <1>2, <1>3, <1>4, <1>5, Returning DEF Codes

\* A tree that is put at the end of the list, or for which there is no room.
LEMMA Capturing ==
    ASSUME AllInv, Finishing, ~lost, NEW o \in Nat, begin <= o, o <= Len(input),
           Mark.start <= o, NEW free \in Nat, free <= alloc, NEW tree,
           Capture(o, free, tree)
    PROVE  AllInv'
<1>1. alloc \in Nat /\ Mark.alloc \in Nat /\ alloc <= Mark.alloc
  BY Facts, AtFinish
<1>2. ListOK(list, alloc)
  BY DEF AllInv, CInv
<1>3. NodeSize \in Nat /\ CellSize \in Nat
  BY CapturesAssumption
<1>4. ASSUME NEW less \in Nat, less <= free
      PROVE  ListOK(list, less) /\ less <= Mark.alloc
  BY <1>1, <1>2, <1>4, LowerListOK
<1>5. CASE Finish("OOM", o, free, list)
  BY <1>4, <1>5, Giving DEF Codes
<1>6. CASE free >= NodeSize /\ Finish("OOM", o, free - NodeSize, list)
  <2>1. free - NodeSize \in Nat /\ free - NodeSize <= free
    BY <1>3, <1>6
  <2> QED
    BY <1>4, <1>6, <2>1, Giving DEF Codes
<1>7. CASE free >= NodeSize + CellSize
           /\ LET left == free - NodeSize - CellSize
              IN  Finish("OK", o, left, Append(list, [at |-> left, tree |-> tree]))
  <2> DEFINE left == free - NodeSize - CellSize
  <2>1. left \in Nat /\ left <= free /\ left <= alloc
    BY <1>1, <1>3, <1>7
  <2>2. Finish("OK", o, left, Append(list, [at |-> left, tree |-> tree]))
    BY <1>7
  <2> HIDE DEF left
  <2>3. ListOK(Append(list, [at |-> left, tree |-> tree]), left)
    BY <1>1, <1>2, <2>1, AppendListOK
  <2> QED
    BY <1>4, <2>1, <2>2, <2>3, Giving DEF Codes
<1> QED
  BY <1>5, <1>6, <1>7 DEF Capture

\* pgc_lang_readterm, whatever its reader.
LEMMA FinishTermKeeps ==
    ASSUME AllInv, FinishTerm
    PROVE  AllInv'
<1>1. /\ Finishing /\ Fun.kind = "term"
      /\ \/ res # "OK" /\ Finish(res, offset, alloc, list)
         \/ /\ res = "OK"
            /\ CASE Fun.reader = "char"   -> ReadChar(Mark.start)
                 [] Fun.reader = "str"    -> ReadStr(Mark.start)
                 [] Fun.reader = "utf8"   -> ReadUtf8(Mark.start)
                 [] Fun.reader = "hex8"   -> ReadEnc(Mark.start, 16, ByteBits)
                 [] Fun.reader = "hex32"  -> ReadEnc(Mark.start, 16, WordBits)
                 [] Fun.reader = "uint32" -> ReadEnc(Mark.start, 10, WordBits)
  BY DEF FinishTerm
<1>2. /\ begin \in Nat /\ offset \in Nat /\ begin <= offset /\ offset <= Len(input)
      /\ Len(input) \in Nat /\ alloc \in Nat /\ res \in Codes
      /\ Mark.start \in Nat /\ Mark.start <= offset
      /\ Mark.alloc \in Nat /\ alloc <= Mark.alloc
      /\ Mark.node \in Node /\ par[Mark.node].tag = "CALL"
  BY <1>1, Facts, AtFinish
<1>3. ListOK(list, alloc) /\ Inv
  BY DEF AllInv, CInv
<1>4. lost => res = "OOB"
  BY <1>3 DEF Inv, Stranded
<1>5. CASE res # "OK"
  BY <1>1, <1>2, <1>3, <1>4, <1>5, Giving
<1>6. CASE res = "OK"
  <2>1. ~lost
    BY <1>4, <1>6
  <2>2. Fun.reader \in Readers
    <3>1. par \in Grammars
      BY <1>3 DEF Inv, TypeOK
    <3> QED
      BY <1>1, <1>2, <3>1, CapturesAssumption DEF Fun
  <2> DEFINE s == Mark.start
  <2>3. InWindow(s) => s \in Nat /\ begin <= s /\ s <= Len(input)
                       /\ (s < Len(input) => s + 1 \in Nat /\ begin <= s + 1
                                             /\ s + 1 <= Len(input) /\ s <= s + 1)
    BY <1>2 DEF InWindow
  <2>a. s = Mark.start /\ s <= s /\ s \in Nat
    BY <1>2
  <2> HIDE DEF s
  <2>4. ASSUME NEW code \in {"OOB", "OOM", "ENC"}, NEW o \in {s, offset}, InWindow(s),
               Finish(code, o, alloc, list)
        PROVE  AllInv'
    <3>1. o \in Nat /\ begin <= o /\ o <= Len(input) /\ Mark.start <= o /\ code \in Codes
      BY <1>2, <2>3, <2>4, <2>a DEF Codes
    <3> QED
      BY <1>1, <1>2, <1>3, <2>1, <2>4, <3>1, Giving
  <2>5. CASE Finish("OOM", offset, alloc, list)
    BY <1>1, <1>2, <1>3, <2>1, <2>5, Giving DEF Codes
  <2>6. CASE \E free \in Nat : free <= alloc /\ SeekRefused(free)
    BY <1>1, <2>6, Refusing
  <2>7. CASE InWindow(s) /\ s < Len(input) /\ \E tree : Capture(s + 1, alloc, tree)
    <3>1. PICK tree : Capture(s + 1, alloc, tree)
      BY <2>7
    <3> DEFINE o == s + 1
    <3>2. o \in Nat /\ begin <= o /\ o <= Len(input) /\ Mark.start <= o /\ alloc <= alloc
      BY <1>2, <2>3, <2>7, <2>a
    <3> HIDE DEF o
    <3>3. Capture(o, alloc, tree)
      BY <3>1 DEF o
    <3> QED
      BY <1>1, <1>2, <2>1, <3>2, <3>3, Capturing
  <2>8. CASE \E free \in Nat : free <= alloc /\ \E tree : Capture(offset, free, tree)
    BY <1>1, <1>2, <2>1, <2>8, Capturing
  <2>9. alloc <= alloc
    BY <1>2
  <2>10. ASSUME ReadChar(s)
         PROVE  AllInv'
    <3>1. \/ SeekRefused(alloc)
          \/ InWindow(s) /\ Finish("OOB", s, alloc, list)
          \/ InWindow(s) /\ s < Len(input) /\ \E tree : Capture(s + 1, alloc, tree)
      BY <2>10 DEF ReadChar
    <3> QED
      BY <1>2, <2>4, <2>6, <2>7, <2>9, <3>1
  <2>11. ASSUME ReadUtf8(s)
         PROVE  AllInv'
    <3>1. \/ SeekRefused(alloc)
          \/ InWindow(s) /\ Finish("OOB", s, alloc, list)
          \/ InWindow(s) /\ Finish("ENC", s, alloc, list)
          \/ InWindow(s) /\ s < Len(input) /\ \E tree : Capture(s + 1, alloc, tree)
      BY <2>11 DEF ReadUtf8
    <3> QED
      BY <1>2, <2>4, <2>6, <2>7, <2>9, <3>1
  <2>12. ASSUME ReadStr(s)
         PROVE  AllInv'
    <3> DEFINE room == offset - s + 1
               left == alloc - room
    <3>1. room \in Nat
      BY <1>2, <2>a
    <3>2. alloc >= room => left \in Nat /\ left <= alloc
      BY <1>2, <3>1
    <3>3. \/ Finish("OOM", offset, alloc, list)
          \/ alloc >= room /\ SeekRefused(left)
          \/ alloc >= room /\ \E tree : Capture(offset, left, tree)
      BY <2>12 DEF ReadStr
    <3> HIDE DEF room, left
    <3> QED
      BY <2>5, <2>6, <2>8, <3>2, <3>3
  <2>13. ASSUME NEW base, NEW w, ReadEnc(s, base, w)
         PROVE  AllInv'
    <3> DEFINE left == alloc - NodeSize
    <3>1. alloc >= NodeSize => left \in Nat /\ left <= alloc /\ left <= Mark.alloc
                               /\ ListOK(list, left)
      <4>1. NodeSize \in Nat
        BY CapturesAssumption
      <4>2. alloc >= NodeSize => left \in Nat /\ left <= alloc /\ left <= Mark.alloc
        BY <1>2, <4>1
      <4> HIDE DEF left
      <4> QED
        BY <1>2, <1>3, <4>2, LowerListOK
    <3>2. \/ Finish("OOM", offset, alloc, list)
          \/ alloc >= NodeSize /\ SeekRefused(left)
          \/ alloc >= NodeSize /\ InWindow(s) /\ Finish("ENC", s, left, list)
          \/ \E tree : Capture(offset, alloc, tree)
      BY <2>13 DEF ReadEnc
    <3> HIDE DEF left
    <3>3. CASE alloc >= NodeSize /\ InWindow(s) /\ Finish("ENC", s, left, list)
      BY <1>1, <2>1, <2>3, <2>a, <3>1, <3>3, Giving DEF Codes
    <3> QED
      BY <1>2, <2>5, <2>6, <2>8, <2>9, <3>1, <3>2, <3>3
  <2>14. \/ ReadChar(s) \/ ReadStr(s) \/ ReadUtf8(s)
         \/ \E base, w : ReadEnc(s, base, w)
    BY <1>1, <1>6, <2>2, <2>a DEF Readers
  <2> QED
    BY <2>10, <2>11, <2>12, <2>13, <2>14
<1> QED
  BY <1>5, <1>6

\* pgc_lang_readexp: the list of the caller comes back, with what was captured
\* merged or wrapped, or alone and the allocator as it was then.
LEMMA FinishExpKeeps ==
    ASSUME AllInv, FinishExp
    PROVE  AllInv'
<1>1. /\ Finishing
      /\ \/ res # "OK" /\ Finish(res, offset, Mark.alloc, Mark.list)
         \/ res = "OK" /\ Finish("OK", offset, alloc, Mark.list \o list)
         \/ res = "OK" /\ Wrap
  BY DEF FinishExp, ListAfterFailure, Merged
<1>2. /\ begin \in Nat /\ offset \in Nat /\ begin <= offset /\ offset <= Len(input)
      /\ alloc \in Nat /\ res \in Codes
      /\ Mark.start <= offset
      /\ Mark.alloc \in Nat /\ alloc <= Mark.alloc /\ Mark.alloc <= Mark.alloc
      /\ ListOK(Mark.list, Mark.alloc) /\ ListOK(Mark.list, alloc)
  BY <1>1, Facts, AtFinish
<1>3. ListOK(list, alloc) /\ Inv
  BY DEF AllInv, CInv
<1>4. lost => res = "OOB"
  BY <1>3 DEF Inv, Stranded
<1>5. NodeSize \in Nat /\ CellSize \in Nat
  BY CapturesAssumption
<1>6. CASE res # "OK"
  BY <1>1, <1>2, <1>4, <1>6, Giving
<1>7. CASE res = "OK" /\ Finish("OK", offset, alloc, Mark.list \o list)
  <2>1. ListOK(Mark.list \o list, alloc)
    BY <1>2, <1>3, ConcatListOK
  <2> QED
    BY <1>1, <1>2, <1>4, <1>7, <2>1, Giving DEF Codes
<1>8. CASE res = "OK" /\ Wrap
  <2>1. CASE Finish("OOM", offset, alloc, Mark.list)
    BY <1>1, <1>2, <1>4, <1>8, <2>1, Giving DEF Codes
  <2>2. CASE alloc >= NodeSize /\ Finish("OOM", offset, alloc - NodeSize, Mark.list)
    <3> DEFINE left == alloc - NodeSize
    <3>1. left \in Nat /\ left <= Mark.alloc
      BY <1>2, <1>5, <2>2
    <3>2. Finish("OOM", offset, left, Mark.list)
      BY <2>2
    <3> HIDE DEF left
    <3>3. ListOK(Mark.list, left)
      BY <1>2, <3>1, LowerListOK
    <3> QED
      BY <1>1, <1>2, <1>4, <1>8, <3>1, <3>2, <3>3, Giving DEF Codes
  <2>3. CASE /\ alloc >= NodeSize + CellSize
             /\ \E tree : Finish("OK", offset, alloc - NodeSize - CellSize,
                    Append(Mark.list, [at |-> alloc - NodeSize - CellSize, tree |-> tree]))
    <3> DEFINE left == alloc - NodeSize - CellSize
    <3>1. left \in Nat /\ left <= Mark.alloc /\ left <= alloc
      BY <1>2, <1>5, <2>3
    <3>2. PICK tree :
             Finish("OK", offset, left, Append(Mark.list, [at |-> left, tree |-> tree]))
      BY <2>3
    <3> HIDE DEF left
    <3>3. ListOK(Append(Mark.list, [at |-> left, tree |-> tree]), left)
      BY <1>2, <3>1, AppendListOK
    <3> QED
      BY <1>1, <1>2, <1>4, <1>8, <3>1, <3>2, <3>3, Giving DEF Codes
  <2> QED
    BY <1>8, <2>1, <2>2, <2>3 DEF Wrap
<1> QED
  BY <1>1, <1>6, <1>7, <1>8
-----------------------------------------------------------------------------
\* Every turn of the loop is one of those that leave the captures alone.
LEMMA TurnOfEngine ==
    ASSUME AllInv, RunLeaf \/ RunAnd \/ RunOr \/ RunRep
    PROVE  Looping /\ TurnTo /\ UNCHANGED <<given, bases, status>>
<1>1. /\ offset \in Nat /\ offset <= Len(input) /\ Len(input) \in Nat
      /\ Good(frames, offset) /\ \A n \in Node : IsNode(par[n])
  BY Facts
<1>2. ASSUME Looping
      PROVE  /\ Top \in Frm /\ Top.node \in Node /\ Top.step \in Nat
             /\ IsNode(par[Top.node])
  <2>1. Top \in Frm
    BY <1>1, <1>2, RestIsGood DEF Looping
  <2> QED
    BY <1>1, <2>1 DEF Frm
<1>3. CASE RunLeaf
  <2>1. Looping /\ par[Top.node].tag \in TerminalTags /\ frames' = Rest
        /\ offset' = RunTerminal(par[Top.node], input, offset).offset
        /\ UNCHANGED <<given, bases, status>>
    BY <1>3 DEF RunLeaf, PopReturn
  <2>2. offset <= offset'
    BY <1>1, <1>2, <2>1, TerminalMovesOn
  <2> QED
    BY <2>1, <2>2 DEF TurnTo
<1>4. CASE RunAnd
  <2>1. /\ Looping /\ UNCHANGED <<given, bases, status>> /\ offset' = offset
        /\ par[Top.node].tag = "AND"
        /\ par[Top.node].arg1 \in Node /\ par[Top.node].arg2 \in Node
    BY <1>2, <1>4 DEF RunAnd, Running, IsNode
  <2> DEFINE f == [Top EXCEPT !.step = 1]
  <2>2. f \in Frm /\ f.at = Top.at /\ f.node = Top.node
    BY <1>2, <2>1 DEF Frm
  <2>3. \/ PushAbove(par[Top.node].arg1, f)
        \/ PopReturn(res)
        \/ PushOn(par[Top.node].arg2, Rest)
    BY <1>4 DEF RunAnd
  <2> HIDE DEF f
  <2>4. ~Chooser(f)
    BY <2>1, <2>2 DEF Chooser
  <2>5. TurnTo
    BY <2>1, <2>2, <2>3, <2>4 DEF PushAbove, PopReturn, PushOn, TurnTo
  <2> QED
    BY <2>1, <2>5
<1>5. CASE RunOr
  <2>1. /\ Looping /\ UNCHANGED <<given, bases, status>>
        /\ par[Top.node].tag = "OR"
        /\ par[Top.node].arg1 \in Node /\ par[Top.node].arg2 \in Node
    BY <1>2, <1>5 DEF RunOr, Running, IsNode
  <2> DEFINE f == [Top EXCEPT !.step = 1, !.saved = offset]
  <2>2. f \in Frm /\ f.at = Top.at /\ f.node = Top.node /\ f.saved = offset
    BY <1>1, <1>2, <2>1 DEF Frm
  <2>3. \/ PushAbove(par[Top.node].arg1, f) /\ offset' = offset
        \/ PopReturn(res) /\ offset' = offset
        \/ PopLost
        \/ Top.step = 1 /\ GoBack /\ PushOn(par[Top.node].arg2, Rest)
    BY <1>5 DEF RunOr
  <2> HIDE DEF f
  <2>4. Top.step = 1 => Chooser(Top)
    BY <2>1 DEF Chooser
  <2>5. TurnTo
    BY <2>1, <2>2, <2>3, <2>4 DEF PushAbove, PopReturn, PopLost, PushOn, GoBack, TurnTo
  <2> QED
    BY <2>1, <2>5
<1>6. CASE RunRep
  <2>1. /\ Looping /\ UNCHANGED <<given, bases, status>>
        /\ par[Top.node].tag = "REP" /\ par[Top.node].sub \in Node
    BY <1>2, <1>6 DEF RunRep, Running, IsNode
  <2> DEFINE k == Top.step + 1
             f == [Top EXCEPT !.step = k, !.saved = offset]
  <2>2. k \in Nat
    BY <1>2, <2>1
  <2>3. \/ PushAbove(par[Top.node].sub, f) /\ offset' = offset
        \/ PopReturn("OK") /\ offset' = offset
        \/ PopReturn(res) /\ offset' = offset
        \/ PopLost
        \/ Top.step > 0 /\ GoBack /\ PopReturn("OK")
    BY <1>6 DEF RunRep, NextTurn
  <2> HIDE DEF k
  <2>4. f \in Frm /\ f.at = Top.at /\ f.node = Top.node /\ f.saved = offset
    BY <1>1, <1>2, <2>1, <2>2 DEF Frm
  <2> HIDE DEF f
  <2>5. Top.step > 0 => Chooser(Top)
    BY <2>1 DEF Chooser
  <2>6. TurnTo
    BY <2>1, <2>3, <2>4, <2>5 DEF PushAbove, PopReturn, PopLost, GoBack, TurnTo
  <2> QED
    BY <2>1, <2>6
<1> QED
  BY <1>3, <1>4, <1>5, <1>6

LEMMA CapturesInitially == CaptureInit => AllInv
<1> SUFFICES ASSUME CaptureInit PROVE AllInv
  OBVIOUS
<1>1. /\ Init /\ list = <<>> /\ marks = <<>> /\ alloc \in Nat
      /\ frames = <<>> /\ bases = <<>> /\ status = "called"
  BY CapturesAssumption DEF CaptureInit, Init
<1>2. Inv /\ SInv
  BY <1>1, Initially, StackInitially
<1>3. /\ DOMAIN bases = {} /\ DOMAIN marks = {} /\ DOMAIN frames = {}
      /\ Len(bases) = 0 /\ Len(marks) = 0 /\ marks \in Seq({})
  BY <1>1
<1>4. CallersWait /\ Parted /\ Marked
  BY <1>3 DEF CallersWait, Parted, Marked
<1>5. Depth
  BY <1>1, <1>3 DEF Depth, Finishing
<1>6. ListOK(list, alloc)
  BY <1>1, EmptyListOK
<1> QED
  BY <1>1, <1>2, <1>4, <1>5, <1>6 DEF AllInv, CInv

\* Every step keeps the invariant.
LEMMA CaptureStep ==
    ASSUME AllInv, [CaptureNext]_allVars
    PROVE  AllInv'
<1>1. ASSUME ~Finishing, EngineStep
      PROVE  AllInv'
  <2>1. Next
    BY <1>1 DEF EngineStep, CallFunction, LeafOrHook, Next
  <2>2. Inv'
    BY <2>1, Step DEF AllInv
  <2>3. SInv'
    BY <2>1, StackStep DEF AllInv
  <2>4. offset' \in Nat
    BY <2>2 DEF Inv, TypeOK
  <2>5. CASE CallFunction
    BY <1>1, <2>2, <2>3, <2>5, CallKeepsCaptures DEF AllInv
  <2>6. CASE Start /\ UNCHANGED captureVars
    BY <1>1, <2>2, <2>3, <2>6, StartKeepsCaptures DEF AllInv
  <2>7. CASE Leave /\ UNCHANGED captureVars
    BY <1>1, <2>2, <2>3, <2>7, LeaveKeepsCaptures DEF AllInv
  <2>8. CASE (RunLeaf \/ RunAnd \/ RunOr \/ RunRep) /\ UNCHANGED <<list, alloc, marks>>
    <3>1. Looping /\ TurnTo /\ UNCHANGED <<given, bases, status>>
      BY <2>8, TurnOfEngine
    <3>2. CInv'
      BY <1>1, <2>4, <2>8, <3>1, TurnKeepsCaptures
    <3> QED
      BY <2>2, <2>3, <3>2 DEF AllInv
  <2> QED
    BY <1>1, <2>5, <2>6, <2>7, <2>8 DEF EngineStep, LeafOrHook, captureVars
<1>2. CASE UNCHANGED allVars
  <2>1. /\ UNCHANGED vars
        /\ alloc' = alloc /\ list' = list /\ marks' = marks
        /\ UNCHANGED <<given, bases, frames, offset, status>>
    BY <1>2 DEF allVars, captureVars, vars, given
  <2>2. Inv' /\ SInv'
    BY <2>1, Step, StackStep DEF AllInv
  <2>3. CInv
    BY DEF AllInv
  <2>4. CallersWait' /\ Parted'
    BY <2>1, <2>3 DEF CInv, CallersWait, Parted, Chooser, given
  <2>5. Depth'
    BY <2>1, <2>3 DEF CInv, Depth, Finishing, AllWait
  <2>6. Marked' /\ alloc' \in Nat /\ ListOK(list, alloc)'
    BY <2>1, <2>3 DEF CInv, Marked, ListOK, given
  <2> QED
    BY <2>2, <2>4, <2>5, <2>6 DEF AllInv, CInv
<1> QED
  BY <1>1, <1>2, FinishTermKeeps, FinishExpKeeps DEF CaptureNext

(* Everything that is inductive about the captures and the engine they run    *)
(* in: whatever readers and expressions of lang/parse.c the grammar calls.    *)
THEOREM CaptureInvariance == CaptureSpec => []AllInv
BY CapturesInitially, CaptureStep, PTL DEF CaptureSpec

\* The locals of the functions that are active are in step with the runs of the
\* engine, and none began to read ahead of the cursor.
THEOREM CapturesAreTyped == CaptureSpec => []CaptureTypeOK
<1>1. AllInv => CaptureTypeOK
  <2> SUFFICES ASSUME AllInv PROVE CaptureTypeOK
    OBVIOUS
  <2>1. TypeOK /\ CInv
    BY DEF AllInv, Inv
  <2> QED
    BY <2>1 DEF CInv, ListOK, Entries, Range, Marked, Depth, CaptureTypeOK
<1> QED
  BY <1>1, CaptureInvariance, PTL

\* No tree that can be reached lies in the part of the allocator that is free,
\* nor in what a function that waits would free.
THEOREM NothingIsFreed == CaptureSpec => []NothingFreed
<1>1. AllInv => NothingFreed
  <2> SUFFICES ASSUME AllInv PROVE NothingFreed
    OBVIOUS
  <2>1. CInv
    BY DEF AllInv
  <2> QED
    BY <2>1 DEF CInv, ListOK, Entries, Range, Marked, NothingFreed
<1> QED
  BY <1>1, CaptureInvariance, PTL

\* What holds of the engine alone holds of it under the captures too, which move
\* its cursor: a parse that has lost its way back fails, and offsets to go back
\* to are ordered.
THEOREM EngineUnderCaptures ==
    CaptureSpec => [](StackDiscipline /\ SavedOrdered /\ LostStaysLost)
<1>1. AllInv => StackDiscipline /\ SavedOrdered /\ LostStaysLost
  <2> SUFFICES ASSUME AllInv
               PROVE  StackDiscipline /\ SavedOrdered /\ LostStaysLost
    OBVIOUS
  <2>1. Inv /\ SInv
    BY DEF AllInv
  <2>2. StackDiscipline
    BY <2>1, DisciplineFollows
  <2>3. SavedOrdered
    BY <2>1 DEF Inv, OrderedIn, SavedOrdered, Chooser, Chooses
  <2>4. LostStaysLost
    BY <2>1 DEF Inv, Stranded, LostStaysLost
  <2> QED
    BY <2>2, <2>3, <2>4
<1> QED
  BY <1>1, CaptureInvariance, PTL
-----------------------------------------------------------------------------
\* A frame that waits makes something in S of what its sub-parser returns.
Passes(f, out, S) ==
    LET p == par[f.node]
    IN  /\ p.tag = "AND" =>
              IF out.res = "OK" THEN Results(par, input, p.arg2, out.offset) \subseteq S
              ELSE out \in S
        /\ p.tag = "OR" =>
              IF Backtracks(out.res) THEN Results(par, input, p.arg2, f.saved) \subseteq S
              ELSE out \in S
        /\ p.tag = "REP" =>
              /\ f.step <= p.max
              /\ IF out.res = "OK" /\ f.step < p.max
                 THEN Turns(par, input, f.node, out.offset, f.step + 1) \subseteq S
                 ELSE IF Backtracks(out.res) /\ f.step > p.min
                 THEN Outcome("OK", f.saved) \in S
                 ELSE out \in S

\* T has what may be given to each of the frames fs and to the caller; each frame
\* makes of it something that may be given to the one below.
Serving(fs, T) ==
    /\ T[0] \subseteq Results(par, input, Root, 0)
    /\ \A i \in 1 .. Len(fs) : \A out \in T[i] : Passes(fs[i], out, T[i - 1])

\* When fs are given something in S, the engine returns what the recursive one may.
Serves(fs, S) == \E T : T[Len(fs)] = S /\ Serving(fs, T)

\* The node on top that has not run yet, or the result that was just returned, is
\* one that leads there.
Agreeing ==
    /\ status = "called" => offset = 0
    /\ Comparable /\ ~lost /\ ~exhausted /\ status # "called" =>
          \/ /\ frames # <<>> /\ Top.step = 0
             /\ Serves(Rest, Results(par, input, Top.node, offset))
          \/ /\ AllWait(frames)
             /\ Serves(frames, {Outcome(res, offset)})

LEMMA ServesNothing ==
    ASSUME NEW S, S \subseteq Results(par, input, Root, 0)
    PROVE  Serves(<<>>, S)
<1> DEFINE T == [i \in {0} |-> S]
<1>1. T[0] = S
  OBVIOUS
<1> HIDE DEF T
<1>2. Len(<<>>) = 0 /\ 1 .. 0 = {}
  OBVIOUS
<1>3. Serving(<<>>, T)
  BY <1>1, <1>2 DEF Serving
<1> QED
  BY <1>1, <1>2, <1>3 DEF Serves

LEMMA ServedAtLast ==
    ASSUME NEW S, Serves(<<>>, S)
    PROVE  S \subseteq Results(par, input, Root, 0)
<1>1. Len(<<>>) = 0
  OBVIOUS
<1> QED
  BY <1>1 DEF Serves, Serving

LEMMA ServesTop ==
    ASSUME NEW fs \in Seq(Frm), fs # <<>>, NEW S, Serves(fs, S)
    PROVE  \E R : /\ Serves(SubSeq(fs, 1, Len(fs) - 1), R)
                  /\ \A out \in S : Passes(fs[Len(fs)], out, R)
<1> DEFINE gs == SubSeq(fs, 1, Len(fs) - 1)
           l == Len(fs)
<1>1. PICK T : T[l] = S /\ Serving(fs, T)
  BY DEF Serves
<1>0. Len(fs) \in Nat /\ Len(fs) > 0 /\ DOMAIN fs = 1 .. Len(fs)
  OBVIOUS
<1>2. /\ l \in Nat \ {0} /\ Len(gs) = l - 1
      /\ \A i \in 1 .. l - 1 : gs[i] = fs[i]
  BY <1>0
<1> HIDE DEF gs, l
<1>3. Serving(gs, T)
  BY <1>1, <1>2 DEF Serving, l
<1>4. Serves(gs, T[l - 1])
  BY <1>2, <1>3 DEF Serves
<1>5. \A out \in S : Passes(fs[l], out, T[l - 1])
  BY <1>1, <1>2 DEF Serving, l
<1> QED
  BY <1>4, <1>5 DEF gs, l

LEMMA ServesPush ==
    ASSUME NEW fs \in Seq(Frm), NEW f \in Frm, NEW R, Serves(fs, R),
           NEW S, \A out \in S : Passes(f, out, R)
    PROVE  Serves(Append(fs, f), S)
<1> DEFINE gs == Append(fs, f)
           l == Len(fs)
<1>1. PICK T : T[l] = R /\ Serving(fs, T)
  BY DEF Serves
<1> DEFINE U == [i \in 0 .. l + 1 |-> IF i = l + 1 THEN S ELSE T[i]]
<1>2. /\ l \in Nat /\ Len(gs) = l + 1 /\ gs[l + 1] = f
      /\ \A i \in 1 .. l : gs[i] = fs[i]
  OBVIOUS
<1>3. /\ U[l + 1] = S /\ \A i \in 0 .. l : U[i] = T[i]
  BY <1>2
<1> HIDE DEF gs, l, U
<1>4. U[0] \subseteq Results(par, input, Root, 0)
  BY <1>1, <1>2, <1>3 DEF Serving
<1>5. ASSUME NEW i \in 1 .. l + 1, NEW out \in U[i]
      PROVE  Passes(gs[i], out, U[i - 1])
  <2>1. CASE i = l + 1
    <3>1. i - 1 = l /\ l \in 0 .. l
      BY <1>2, <2>1
    <3>2. U[i - 1] = R /\ U[i] = S /\ gs[i] = f
      BY <1>1, <1>2, <1>3, <2>1, <3>1
    <3> QED
      BY <1>5, <3>2
  <2>2. CASE i # l + 1
    <3>1. i \in 1 .. l /\ i \in 0 .. l /\ i - 1 \in 0 .. l
      BY <1>2, <1>5, <2>2
    <3>2. U[i] = T[i] /\ U[i - 1] = T[i - 1] /\ gs[i] = fs[i]
      BY <1>2, <1>3, <3>1
    <3>3. \A x \in T[i] : Passes(fs[i], x, T[i - 1])
      BY <1>1, <3>1 DEF Serving, l
    <3> QED
      BY <1>5, <3>2, <3>3
  <2> QED
    BY <2>1, <2>2
<1>6. Serving(gs, U)
  BY <1>2, <1>4, <1>5 DEF Serving
<1> QED
  BY <1>2, <1>3, <1>6 DEF Serves, gs

LEMMA ServesLess ==
    ASSUME NEW fs \in Seq(Frm), NEW R, Serves(fs, R), NEW S, S \subseteq R
    PROVE  Serves(fs, S)
<1>1. CASE fs = <<>>
  BY <1>1, ServedAtLast, ServesNothing
<1>2. CASE fs # <<>>
  <2> DEFINE gs == SubSeq(fs, 1, Len(fs) - 1)
             f == fs[Len(fs)]
  <2>1. PICK Q : Serves(gs, Q) /\ \A out \in R : Passes(f, out, Q)
    BY <1>2, ServesTop
  <2>2. gs \in Seq(Frm) /\ f \in Frm /\ fs = Append(gs, f)
    BY <1>2
  <2> HIDE DEF gs, f
  <2> QED
    BY <2>1, <2>2, ServesPush
<1> QED
  BY <1>1, <1>2

\* A node was pushed that has not run yet.
LEMMA NowToRun ==
    ASSUME UNCHANGED given, NEW fs \in Seq(Frm), NEW m \in Node, NEW at \in Nat,
           frames' = Append(fs, Frame(m, at)), status' # "called",
           NEW S, Serves(fs, S), Results(par, input, m, offset') \subseteq S
    PROVE  Agreeing'
<1> DEFINE f == Frame(m, at)
<1>1. f \in Frm /\ f.step = 0 /\ f.node = m
  BY DEF Frame, Frm
<1> HIDE DEF f
<1>2. /\ frames' # <<>> /\ frames'[Len(frames')] = f
      /\ SubSeq(frames', 1, Len(frames') - 1) = fs
  BY <1>1 DEF f
<1>3. Top' = f /\ Rest' = fs
  BY <1>2 DEF Top, Rest
<1>4. Serves(fs, Results(par, input, m, offset'))
  BY ServesLess
<1>5. par' = par /\ input' = input
  BY DEF given
<1>6. Serves(fs, Results(par, input, m, offset))'
  BY <1>4, <1>5 DEF Serves, Serving, Passes
<1> QED
  BY <1>1, <1>2, <1>3, <1>6 DEF Agreeing

\* A node was popped and has returned.
LEMMA NowReturned ==
    ASSUME UNCHANGED given, frames' \in Seq(Frm), AllWait(frames'), status' # "called",
           NEW S, Serves(frames', S), Outcome(res', offset') \in S
    PROVE  Agreeing'
<1>1. Serves(frames', {Outcome(res', offset')})
  BY ServesLess
<1>2. par' = par /\ input' = input
  BY DEF given
<1>3. Serves(frames, {Outcome(res, offset)})'
  BY <1>1, <1>2 DEF Serves, Serving, Passes, Outcome
<1>4. AllWait(frames)'
  BY DEF AllWait
<1> QED
  BY <1>3, <1>4 DEF Agreeing

LEMMA AgreeInitially == Init => Agreeing
BY DEF Init, Agreeing

\* What the engine has on top, and what that may give.
LEMMA TopAgrees ==
    ASSUME Inv, Agreeing, Comparable, ~lost, ~exhausted, status = "running", frames # <<>>
    PROVE  /\ Top \in Frm /\ Top.node \in Node /\ IsNode(par[Top.node])
           /\ Rest \in Seq(Frm) /\ AllWait(Rest) /\ Len(Rest) = Len(frames) - 1
           /\ Top.step = 0 => Serves(Rest, Results(par, input, Top.node, offset))
           /\ Top.step > 0 =>
                \E S : Serves(Rest, S) /\ Passes(Top, Outcome(res, offset), S)
<1>1. Good(frames, offset) /\ offset \in Nat /\ \A n \in Node : IsNode(par[n])
  BY InvFacts
<1>2. Top \in Frm /\ Good(Rest, offset) /\ AllWait(Rest)
  BY <1>1, RestIsGood
<1>3. /\ frames \in Seq(Frm) /\ Len(frames) \in Nat /\ Len(frames) > 0
      /\ DOMAIN frames = 1 .. Len(frames)
  BY <1>1 DEF Good
<1>4. Len(Rest) = Len(frames) - 1 /\ Rest \in Seq(Frm)
  BY <1>3 DEF Rest
<1>5. Top.node \in Node /\ Top.step \in Nat
  BY <1>2 DEF Frm
<1>6. ASSUME Top.step = 0
      PROVE  Serves(Rest, Results(par, input, Top.node, offset))
  BY <1>3, <1>6 DEF Agreeing, AllWait, Top
<1>7. ASSUME Top.step > 0
      PROVE  \E S : Serves(Rest, S) /\ Passes(Top, Outcome(res, offset), S)
  <2>1. Serves(frames, {Outcome(res, offset)})
    BY <1>7 DEF Agreeing
  <2> QED
    BY <1>3, <2>1, ServesTop DEF Rest, Top
<1> QED
  BY <1>1, <1>2, <1>4, <1>5, <1>6, <1>7

\* What the functions of the recursive engine return for a node in the place where
\* the cursor is.
LEMMA RunsHere ==
    ASSUME Inv, NEW m \in Node
    PROVE  /\ Runs(par, input, m, offset) \subseteq Results(par, input, m, offset)
           /\ par[m].tag = "REP" =>
                 \A n \in 1 .. par[m].max :
                    RunsTurn(par, input, m, offset, n) \subseteq Turns(par, input, m, offset, n)
<1>1. par \in Grammars /\ input \in Inputs /\ offset \in 0 .. Len(input)
  BY DEF Inv, TypeOK
<1> QED
  BY <1>1, ReferenceAssumption

\* A composite's frame is put back under the sub-parser that it pushes.
LEMMA AboveAgrees ==
    ASSUME Inv, frames # <<>>, UNCHANGED <<given, offset>>, status' = "running",
           Rest \in Seq(Frm), NEW f \in Frm, f.at = Top.at, NEW m \in Node, PushAbove(m, f),
           NEW S, Serves(Rest, S),
           \A out \in Results(par, input, m, offset) : Passes(f, out, S)
    PROVE  Agreeing'
<1>1. CASE Fits(m, frames)
  <2>1. frames' = Push(m, Append(Rest, f))
    BY <1>1 DEF PushAbove
  <2>2. Append(Rest, f) \in Seq(Frm) /\ Append(Rest, f) # <<>>
        /\ Append(Rest, f)[Len(Append(Rest, f))] = f
    OBVIOUS
  <2>3. Free(Append(Rest, f)) = Free(frames)
    BY <2>2 DEF Free, Top
  <2>4. Free(frames) - FrameSize(m) \in Nat
    <3>1. Good(frames, offset) /\ size \in Nat /\ FrameSize(m) \in Nat
      BY InvFacts
    <3>2. Free(frames) \in Nat
      BY <3>1, FreeIsNat
    <3> QED
      BY <1>1, <3>1, <3>2 DEF Fits
  <2>5. Serves(Append(Rest, f), Results(par, input, m, offset))
    BY ServesPush
  <2> DEFINE gs == Append(Rest, f)
             at == Free(frames) - FrameSize(m)
  <2>6. frames' = Append(gs, Frame(m, at))
    BY <2>1, <2>3 DEF Push
  <2>7. offset' = offset /\ gs \in Seq(Frm) /\ at \in Nat /\ status' # "called"
        /\ Serves(gs, Results(par, input, m, offset))
    BY <2>2, <2>4, <2>5
  <2> HIDE DEF gs, at
  <2> QED
    BY <2>6, <2>7, NowToRun
<1>2. CASE ~Fits(m, frames)
  BY <1>2 DEF PushAbove, Agreeing
<1> QED
  BY <1>1, <1>2

\* The next sub-parser takes the place of the node that was popped.
LEMMA OnAgrees ==
    ASSUME Inv, NEW fs, fs \in {Rest, frames}, Good(fs, offset), UNCHANGED given,
           status' # "called", NEW m \in Node,
           \/ frames' = Push(m, fs) /\ Fits(m, fs)
           \/ exhausted',
           NEW S, Serves(fs, S), Results(par, input, m, offset') \subseteq S
    PROVE  Agreeing'
<1>1. CASE exhausted'
  BY <1>1 DEF Agreeing
<1>2. CASE frames' = Push(m, fs) /\ Fits(m, fs)
  <2>1. size \in Nat /\ FrameSize(m) \in Nat
    BY InvFacts
  <2>2. Free(fs) \in Nat
    BY <2>1, FreeIsNat
  <2>3. Free(fs) - FrameSize(m) \in Nat
    BY <1>2, <2>1, <2>2 DEF Fits
  <2> DEFINE at == Free(fs) - FrameSize(m)
  <2>4. frames' = Append(fs, Frame(m, at)) /\ fs \in Seq(Frm) /\ at \in Nat
    BY <1>2, <2>3 DEF Push, Good
  <2> HIDE DEF at
  <2> QED
    BY <2>4, NowToRun
<1> QED
  BY <1>1, <1>2

\* A terminal returns a code and a cursor.
LEMMA TerminalIsOutcome ==
    ASSUME NEW p, p.tag \in TerminalTags, NEW inp, NEW o
    PROVE  RunTerminal(p, inp, o) =
             Outcome(RunTerminal(p, inp, o).res, RunTerminal(p, inp, o).offset)
<1> DEFINE Whole(x) == x = Outcome(x.res, x.offset)
<1>1. \A code, q : Whole(Outcome(code, q))
  BY DEF Outcome
<1> HIDE DEF Whole
<1>2. \A S : Whole(MatchByte(S, inp, o))
  BY <1>1 DEF MatchByte
<1>3. \A S : Whole(MatchUtf8(S, inp, o))
  BY <1>1, <1>2 DEF MatchUtf8
<1>4. Whole(CmpString(p.str, inp, o)) /\ Whole(RunHook(p.hook, inp, o))
  BY <1>1 DEF CmpString, RunHook
<1>5. Whole(RunTerminal(p, inp, o))
  BY <1>2, <1>3, <1>4 DEF RunTerminal, TerminalTags
<1> QED
  BY <1>5 DEF Whole

\* The rule of a terminal is to run it.
LEMMA TerminalRuns ==
    ASSUME NEW g, NEW m, g[m].tag \in TerminalTags, NEW inp, NEW o
    PROVE  RunTerminal(g[m], inp, o) \in Runs(g, inp, m, o)
<1> DEFINE p == g[m]
<1>1. Runs(g, inp, m, o) = {RunTerminal(p, inp, o)}
  <2>1. p.tag \in TerminalTags
    OBVIOUS
  <2>2. p.tag \notin {"CALL", "AND", "OR", "REP"}
    BY <2>1 DEF TerminalTags
  <2> DEFINE tag == p.tag
             one == {RunTerminal(p, inp, o)}
             B == RunsAnd(g, inp, p, o)
             C == RunsOr(g, inp, p, o)
             D == Turns(g, inp, m, o, 1)
  <2>3. Runs(g, inp, m, o) = (CASE tag \in TerminalTags -> one [] tag = "CALL" -> {}
                               [] tag = "AND" -> B [] tag = "OR" -> C [] tag = "REP" -> D)
    BY DEF Runs
  <2>4. tag \in TerminalTags /\ tag \notin {"CALL", "AND", "OR", "REP"}
    BY <2>1, <2>2
  <2> HIDE DEF tag, one, B, C, D
  <2>5. Runs(g, inp, m, o) = one
    BY <2>3, <2>4
  <2> QED
    BY <2>5 DEF one
<1> QED
  BY <1>1

\* What was lost stays lost, and nothing is given anew.
LEMMA Onwards ==
    ASSUME Next
    PROVE  /\ UNCHANGED given /\ Comparable' = Comparable
           /\ lost => lost'
           /\ exhausted => exhausted'
           /\ status' # "called"
<1>1. CASE Start
  BY <1>1 DEF Start, Enter, given, Comparable
<1>2. CASE Leave
  BY <1>2 DEF Leave, given, Comparable
<1>3. CASE RunLeaf
  BY <1>3 DEF RunLeaf, PopReturn, Looping, given, Comparable
<1>4. CASE RunCall
  BY <1>4 DEF RunCall, Enter, given, Comparable
<1>5. CASE RunAnd
  BY <1>5 DEF RunAnd, Running, Looping, PushAbove, PopReturn, PushOn, given, Comparable
<1>6. CASE RunOr
  BY <1>6 DEF RunOr, Running, Looping, PushAbove, PopReturn, PushOn, PopLost, given, Comparable
<1>7. CASE RunRep
  BY <1>7 DEF RunRep, Running, Looping, PushAbove, PopReturn, PopLost, given, Comparable
<1> QED
  BY <1>1, <1>2, <1>3, <1>4, <1>5, <1>6, <1>7 DEF Next

\* The step of a parse that is not spoilt.
LEMMA AgreeNext ==
    ASSUME Inv, Agreeing, Next, Comparable, ~lost, ~exhausted, ~lost', ~exhausted'
    PROVE  Agreeing'
<1>a. UNCHANGED given /\ status' # "called"
  BY Onwards
<1>b. Good(frames, offset) /\ \A n \in Node : IsNode(par[n])
  BY InvFacts
<1>c. ASSUME status = "running", frames # <<>>
      PROVE  /\ Top \in Frm /\ Top.node \in Node /\ IsNode(par[Top.node])
             /\ Rest \in Seq(Frm) /\ AllWait(Rest) /\ Good(Rest, offset)
             /\ Top.step \in Nat /\ Top.saved \in Nat
             /\ Top.step > 0 => par[Top.node].tag \in CompositeTags
             /\ Top.step = 0 => Serves(Rest, Results(par, input, Top.node, offset))
             /\ Top.step > 0 =>
                  \E S : Serves(Rest, S) /\ Passes(Top, Outcome(res, offset), S)
             /\ Runs(par, input, Top.node, offset) \subseteq Results(par, input, Top.node, offset)
  <2>1. Top \in Frm /\ Good(Rest, offset)
    BY <1>b, <1>c, RestIsGood, InvFacts
  <2>2. Len(frames) \in DOMAIN frames
    BY <1>b, <1>c DEF Good
  <2>3. Top.step > 0 => par[Top.node].tag \in CompositeTags
    BY <2>2 DEF Inv, WaitingIn, Top
  <2>4. Top.step \in Nat /\ Top.saved \in Nat
    BY <2>1 DEF Frm
  <2> QED
    BY <1>c, <2>1, <2>3, <2>4, TopAgrees, RunsHere
<1>1. ASSUME Start
      PROVE  Agreeing'
  <2>1. status = "called" /\ frames = <<>> /\ offset = 0 /\ offset' = 0
    BY <1>1 DEF Start, Inv, Fresh, Agreeing
  <2>2. Serves(frames, Results(par, input, Root, 0))
    BY <2>1, ServesNothing
  <2>3. (frames' = Push(Root, frames) /\ Fits(Root, frames)) \/ exhausted'
    BY <1>1 DEF Start, Enter
  <2> QED
    BY <1>a, <1>b, <2>1, <2>2, <2>3, OnAgrees
<1>2. ASSUME Leave
      PROVE  Agreeing'
  <2>1. /\ UNCHANGED <<frames, res, offset, lost, exhausted>>
        /\ status = "running" /\ par' = par /\ input' = input
    BY <1>2, <1>a DEF Leave, given
  <2>2. Serves(Rest, Results(par, input, Top.node, offset))' <=>
          Serves(Rest, Results(par, input, Top.node, offset))
    BY <2>1 DEF Serves, Serving, Passes, Top, Rest
  <2>3. Serves(frames, {Outcome(res, offset)})' <=> Serves(frames, {Outcome(res, offset)})
    BY <2>1 DEF Serves, Serving, Passes, Outcome
  <2>4. (frames # <<>> /\ Top.step = 0)' <=> (frames # <<>> /\ Top.step = 0)
    BY <2>1 DEF Top
  <2>5. AllWait(frames)' <=> AllWait(frames)
    BY <2>1 DEF AllWait
  <2> QED
    BY <2>1, <2>2, <2>3, <2>4, <2>5, <1>a DEF Agreeing
<1>3. ASSUME RunLeaf
      PROVE  Agreeing'
  <2> DEFINE p == par[Top.node]
             out == RunTerminal(p, input, offset)
  <2>1. /\ frames # <<>> /\ status = "running" /\ p.tag \in TerminalTags
        /\ frames' = Rest /\ res' = out.res /\ offset' = out.offset
    BY <1>3 DEF RunLeaf, Looping, PopReturn
  <2>2. Top.step = 0
    BY <1>c, <2>1 DEF TerminalTags, CompositeTags
  <2>3. Serves(frames', Results(par, input, Top.node, offset))
    BY <1>c, <2>1, <2>2
  <2>4. out = Outcome(out.res, out.offset)
    <3>1. p.tag \in TerminalTags
      BY <2>1
    <3> HIDE DEF p
    <3> QED
      BY <3>1, TerminalIsOutcome, Zenon
  <2>5. out \in Runs(par, input, Top.node, offset)
    BY <2>1, TerminalRuns
  <2>6. frames' \in Seq(Frm) /\ AllWait(frames')
    BY <1>c, <2>1
  <2>7. Outcome(res', offset') \in Results(par, input, Top.node, offset)
    BY <1>c, <2>1, <2>4, <2>5
  <2> QED
    BY <1>a, <2>3, <2>6, <2>7, NowReturned
<1>4. ASSUME RunCall
      PROVE  Agreeing'
  <2>1. frames # <<>> /\ status = "running" /\ par[Top.node].tag = "CALL"
    BY <1>4 DEF RunCall, Running, Looping
  <2>2. Top.node \in Node
    BY <1>c, <2>1
  <2> QED
    BY <2>1, <2>2 DEF Comparable
<1>5. ASSUME RunAnd
      PROVE  Agreeing'
  <2> DEFINE p == par[Top.node]
             f == [Top EXCEPT !.step = 1]
             R == Results(par, input, Top.node, offset)
  <2>1. /\ frames # <<>> /\ status = "running" /\ p.tag = "AND"
        /\ offset' = offset /\ status' = "running"
    BY <1>5 DEF RunAnd, Running, Looping
  <2>2. p.arg1 \in Node /\ p.arg2 \in Node
    BY <1>c, <2>1 DEF IsNode
  <2>3. CASE Top.step = 0 /\ PushAbove(p.arg1, f)
    <3>1. f \in Frm /\ f.at = Top.at /\ f.node = Top.node
      BY <1>c, <2>1 DEF Frm
    <3>2. RunsAnd(par, input, p, offset) \subseteq R
      BY <1>c, <2>1 DEF Runs, TerminalTags
    <3>3. \A out \in Results(par, input, p.arg1, offset) : Passes(f, out, R)
      BY <2>1, <3>1, <3>2 DEF Passes, RunsAnd
    <3>4. Serves(Rest, R) /\ Rest \in Seq(Frm)
      BY <1>c, <2>1, <2>3
    <3> HIDE DEF f, R, p
    <3> QED
      BY <1>a, <2>1, <2>2, <2>3, <3>1, <3>3, <3>4, AboveAgrees
  <2>4. CASE Top.step = 1 /\ res # "OK" /\ PopReturn(res)
    <3>1. PICK S : Serves(Rest, S) /\ Passes(Top, Outcome(res, offset), S)
      BY <1>c, <2>1, <2>4
    <3>2. Outcome(res, offset) \in S
      BY <2>1, <2>4, <3>1 DEF Passes, Outcome
    <3>3. frames' = Rest /\ res' = res
      BY <2>4 DEF PopReturn
    <3> QED
      BY <1>a, <1>c, <2>1, <3>1, <3>2, <3>3, NowReturned
  <2>5. CASE Top.step = 1 /\ res = "OK" /\ PushOn(p.arg2, Rest)
    <3>1. PICK S : Serves(Rest, S) /\ Passes(Top, Outcome(res, offset), S)
      BY <1>c, <2>1, <2>5
    <3>2. Results(par, input, p.arg2, offset') \subseteq S
      BY <2>1, <2>5, <3>1 DEF Passes, Outcome
    <3>3. (frames' = Push(p.arg2, Rest) /\ Fits(p.arg2, Rest)) \/ exhausted'
      BY <2>5 DEF PushOn
    <3>4. Good(Rest, offset)
      BY <1>c, <2>1
    <3> HIDE DEF p
    <3> QED
      BY <1>a, <2>2, <3>1, <3>2, <3>3, <3>4, OnAgrees
  <2> QED
    BY <1>5, <2>3, <2>4, <2>5 DEF RunAnd
<1>6. ASSUME RunOr
      PROVE  Agreeing'
  <2> DEFINE p == par[Top.node]
             f == [Top EXCEPT !.step = 1, !.saved = offset]
             R == Results(par, input, Top.node, offset)
  <2>1. /\ frames # <<>> /\ status = "running" /\ p.tag = "OR" /\ status' = "running"
    BY <1>6 DEF RunOr, Running, Looping
  <2>2. p.arg1 \in Node /\ p.arg2 \in Node
    BY <1>c, <2>1 DEF IsNode
  <2>3. CASE Top.step = 0 /\ PushAbove(p.arg1, f) /\ offset' = offset
    <3>1. f \in Frm /\ f.at = Top.at /\ f.node = Top.node /\ f.saved = offset
      BY <1>c, <2>1, InvFacts DEF Frm
    <3>2. RunsOr(par, input, p, offset) \subseteq R
      BY <1>c, <2>1 DEF Runs, TerminalTags
    <3>3. \A out \in Results(par, input, p.arg1, offset) : Passes(f, out, R)
      BY <2>1, <3>1, <3>2 DEF Passes, RunsOr
    <3>4. Serves(Rest, R) /\ Rest \in Seq(Frm)
      BY <1>c, <2>1, <2>3
    <3> HIDE DEF f, R, p
    <3> QED
      BY <1>a, <2>1, <2>2, <2>3, <3>1, <3>3, <3>4, AboveAgrees
  <2>4. CASE Top.step = 1 /\ ~Backtracks(res) /\ PopReturn(res) /\ offset' = offset
    <3>1. PICK S : Serves(Rest, S) /\ Passes(Top, Outcome(res, offset), S)
      BY <1>c, <2>1, <2>4
    <3>2. Outcome(res, offset) \in S
      BY <2>1, <2>4, <3>1 DEF Passes, Outcome
    <3>3. frames' = Rest /\ res' = res
      BY <2>4 DEF PopReturn
    <3> QED
      BY <1>a, <1>c, <2>1, <2>4, <3>1, <3>2, <3>3, NowReturned
  <2>5. CASE Top.step = 1 /\ Backtracks(res) /\ GoBack /\ PushOn(p.arg2, Rest)
    <3>1. PICK S : Serves(Rest, S) /\ Passes(Top, Outcome(res, offset), S)
      BY <1>c, <2>1, <2>5
    <3>2. Results(par, input, p.arg2, offset') \subseteq S
      BY <2>1, <2>5, <3>1 DEF Passes, Outcome, GoBack
    <3>3. (frames' = Push(p.arg2, Rest) /\ Fits(p.arg2, Rest)) \/ exhausted'
      BY <2>5 DEF PushOn
    <3>4. Good(Rest, offset)
      BY <1>c, <2>1
    <3> HIDE DEF p
    <3> QED
      BY <1>a, <2>2, <3>1, <3>2, <3>3, <3>4, OnAgrees
  <2>6. CASE PopLost
    BY <2>6 DEF PopLost
  <2> QED
    BY <1>6, <2>3, <2>4, <2>5, <2>6 DEF RunOr
<1>7. ASSUME RunRep
      PROVE  Agreeing'
  <2> DEFINE p == par[Top.node]
             k == Top.step
             f == NextTurn
             R == Results(par, input, Top.node, offset)
  <2>1. /\ frames # <<>> /\ status = "running" /\ p.tag = "REP" /\ status' = "running"
        /\ par' = par
    BY <1>7 DEF RunRep, Running, Looping, given
  <2>2. p.sub \in Node /\ p.min \in Nat /\ p.max \in Nat /\ p.max # 0 /\ p.min <= p.max
        /\ k \in Nat
    BY <1>c, <2>1 DEF IsNode, Comparable
  <2>3. /\ f \in Frm /\ f.at = Top.at /\ f.node = Top.node /\ f.saved = offset
        /\ f.step = k + 1
    <3>1. offset \in Nat
      BY InvFacts
    <3>2. Top \in Frm /\ k + 1 \in Nat
      BY <1>c, <2>1, <2>2
    <3> QED
      BY <3>1, <3>2 DEF Frm, NextTurn
  <2>4. \A n \in 1 .. p.max :
           RunsTurn(par, input, Top.node, offset, n) \subseteq Turns(par, input, Top.node, offset, n)
    BY <1>c, <2>1, RunsHere
  \* A turn that is begun makes of its result what is due for the turns left.
  <2>5. ASSUME NEW S, Serves(Rest, S), k + 1 <= p.max,
               Turns(par, input, Top.node, offset, k + 1) \subseteq S,
               PushAbove(p.sub, f), offset' = offset
        PROVE  Agreeing'
    <3>1. RunsTurn(par, input, Top.node, offset, k + 1) \subseteq S
      BY <2>2, <2>4, <2>5
    <3>2. \A out \in Results(par, input, p.sub, offset) : Passes(f, out, S)
      <4> SUFFICES ASSUME NEW out \in Results(par, input, p.sub, offset)
                   PROVE  Passes(f, out, S)
        OBVIOUS
      <4>1. CASE out.res = "OK" /\ k + 1 < p.max
        <5>1. Turns(par, input, Top.node, out.offset, (k + 1) + 1) \subseteq S
          BY <3>1, <4>1 DEF RunsTurn
        <5> QED
          BY <2>1, <2>3, <2>5, <4>1, <5>1 DEF Passes
      <4>2. CASE ~(out.res = "OK" /\ k + 1 < p.max) /\ Backtracks(out.res) /\ k + 1 > p.min
        <5>1. Outcome("OK", offset) \in S
          BY <3>1, <4>2 DEF RunsTurn
        <5> QED
          BY <2>1, <2>3, <2>5, <4>2, <5>1 DEF Passes
      <4>3. CASE ~(out.res = "OK" /\ k + 1 < p.max) /\ ~(Backtracks(out.res) /\ k + 1 > p.min)
        <5>1. out \in S
          BY <3>1, <4>3 DEF RunsTurn
        <5> QED
          BY <2>1, <2>3, <2>5, <4>3, <5>1 DEF Passes
      <4> QED
        BY <4>1, <4>2, <4>3
    <3>3. Rest \in Seq(Frm)
      BY <1>c, <2>1
    <3> HIDE DEF f, R, p, k
    <3> QED
      BY <1>a, <2>1, <2>2, <2>3, <2>5, <3>2, <3>3, AboveAgrees
  <2>6. CASE k = 0 /\ PushAbove(p.sub, f) /\ offset' = offset
    <3>1. Turns(par, input, Top.node, offset, k + 1) \subseteq R
      BY <1>c, <2>1, <2>6 DEF Runs, TerminalTags
    <3>2. Serves(Rest, R) /\ k + 1 <= p.max
      BY <1>c, <2>1, <2>2, <2>6
    <3> HIDE DEF R, f, p, k
    <3> QED
      BY <2>5, <2>6, <3>1, <3>2
  <2>7. ASSUME k # 0
        PROVE  \E S : Serves(Rest, S) /\ Passes(Top, Outcome(res, offset), S) /\ k <= p.max
    <3>1. k > 0
      BY <2>2, <2>7
    <3> QED
      BY <1>c, <2>1, <3>1 DEF Passes
  <2>8. CASE k # 0 /\ res = "OK" /\ k # p.max /\ PushAbove(p.sub, f) /\ offset' = offset
    <3>1. PICK S : Serves(Rest, S) /\ Passes(Top, Outcome(res, offset), S) /\ k <= p.max
      BY <2>7, <2>8
    <3>2. k < p.max /\ k + 1 <= p.max
      BY <2>2, <2>8, <3>1
    <3>3. Turns(par, input, Top.node, offset, k + 1) \subseteq S
      BY <2>1, <2>8, <3>1, <3>2 DEF Passes, Outcome
    <3> HIDE DEF f, p, k
    <3> QED
      BY <2>5, <2>8, <3>1, <3>2, <3>3
  <2>9. CASE k # 0 /\ res = "OK" /\ k = p.max /\ PopReturn("OK") /\ offset' = offset
    <3>1. PICK S : Serves(Rest, S) /\ Passes(Top, Outcome(res, offset), S)
      BY <2>7, <2>9
    <3>2. Outcome(res, offset) \in S
      BY <2>1, <2>2, <2>9, <3>1 DEF Passes, Outcome, Backtracks
    <3>3. frames' = Rest /\ res' = res
      BY <2>9 DEF PopReturn
    <3> QED
      BY <1>a, <1>c, <2>1, <2>9, <3>1, <3>2, <3>3, NowReturned
  <2>10. CASE k # 0 /\ res # "OK" /\ ~Enough(p) /\ PopReturn(res) /\ offset' = offset
    <3>1. PICK S : Serves(Rest, S) /\ Passes(Top, Outcome(res, offset), S)
      BY <2>7, <2>10
    <3>2. Outcome(res, offset) \in S
      BY <2>1, <2>2, <2>10, <3>1 DEF Passes, Outcome, Enough
    <3>3. frames' = Rest /\ res' = res
      BY <2>10 DEF PopReturn
    <3> QED
      BY <1>a, <1>c, <2>1, <2>10, <3>1, <3>2, <3>3, NowReturned
  <2>11. CASE k # 0 /\ res # "OK" /\ Enough(p) /\ GoBack /\ PopReturn("OK")
    <3>1. PICK S : Serves(Rest, S) /\ Passes(Top, Outcome(res, offset), S)
      BY <2>7, <2>11
    <3>2. Outcome("OK", Top.saved) \in S
      BY <2>1, <2>2, <2>11, <3>1 DEF Passes, Outcome, Enough
    <3>3. frames' = Rest /\ res' = "OK" /\ offset' = Top.saved
      BY <2>11 DEF PopReturn, GoBack
    <3> QED
      BY <1>a, <1>c, <2>1, <3>1, <3>2, <3>3, NowReturned
  <2>12. CASE PopLost
    BY <2>12 DEF PopLost
  <2> QED
    BY <1>7, <2>2, <2>6, <2>8, <2>9, <2>10, <2>11, <2>12 DEF RunRep
<1> QED
  BY <1>1, <1>2, <1>3, <1>4, <1>5, <1>6, <1>7 DEF Next

LEMMA AgreeStep ==
    ASSUME Inv, Agreeing, [Next]_vars
    PROVE  Agreeing'
<1>1. CASE UNCHANGED vars
  <2>1. /\ par' = par /\ input' = input /\ frames' = frames /\ offset' = offset /\ res' = res
        /\ status' = status /\ lost' = lost /\ exhausted' = exhausted
    BY <1>1 DEF vars
  <2>2. Comparable' = Comparable
    BY <2>1 DEF Comparable
  <2>3. Serves(Rest, Results(par, input, Top.node, offset))' <=>
          Serves(Rest, Results(par, input, Top.node, offset))
    BY <2>1 DEF Serves, Serving, Passes, Top, Rest
  <2>4. Serves(frames, {Outcome(res, offset)})' <=> Serves(frames, {Outcome(res, offset)})
    BY <2>1 DEF Serves, Serving, Passes, Outcome
  <2>5. (frames # <<>> /\ Top.step = 0)' <=> (frames # <<>> /\ Top.step = 0)
    BY <2>1 DEF Top
  <2>6. AllWait(frames)' <=> AllWait(frames)
    BY <2>1 DEF AllWait
  <2> QED
    BY <2>1, <2>2, <2>3, <2>4, <2>5, <2>6 DEF Agreeing
<1>2. CASE Next
  <2>1. /\ Comparable' = Comparable /\ status' # "called"
        /\ lost => lost'
        /\ exhausted => exhausted'
    BY <1>2, Onwards
  <2>2. CASE Comparable' /\ ~lost' /\ ~exhausted'
    BY <1>2, <2>1, <2>2, AgreeNext
  <2>3. CASE ~(Comparable' /\ ~lost' /\ ~exhausted')
    BY <2>1, <2>3 DEF Agreeing
  <2> QED
    BY <2>2, <2>3
<1> QED
  BY <1>1, <1>2

\* For every grammar without CALL nodes or maxima of zero, every input and every stack:
\* the engine returns what the recursive engine returns, unless it ran out of stack or
\* its way back left the window.
THEOREM EnginesAgree == Spec => []AgreesWithReference
<1>1. ASSUME Inv, SInv, Agreeing
      PROVE  AgreesWithReference
  <2> SUFFICES ASSUME status = "returned", ~exhausted, ~lost, Comparable
               PROVE  Outcome(res, offset) \in Results(par, input, Root, 0)
    BY DEF AgreesWithReference
  <2>1. frames = <<>>
    BY <1>1, DisciplineFollows DEF StackDiscipline, BasesNested
  <2>2. Serves(<<>>, {Outcome(res, offset)})
    BY <1>1, <2>1 DEF Agreeing
  <2> QED
    BY <2>2, ServedAtLast
<1>2. Init => Agreeing
  BY AgreeInitially
<1>3. Inv /\ Agreeing /\ [Next]_vars => Agreeing'
  BY AgreeStep
<1>4. Spec => []Agreeing
  BY <1>2, <1>3, Invariance, PTL DEF Spec
<1> QED
  BY <1>1, <1>4, StackInvariance, PTL
=============================================================================
