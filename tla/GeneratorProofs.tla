--------------------------- MODULE GeneratorProofs ---------------------------
(***************************************************************************)
(* Theorems about Generator.tla and Meaning.tla: pgc_lang_gen releases the *)
(* memory of the sets it computes, its calls follow the expressions, and   *)
(* its numbers are declared once and before they are used, whatever the    *)
(* source and wherever it fails.  What it prints is in scope, and means    *)
(* what the source does.                                                   *)
(***************************************************************************)
EXTENDS Meaning, SequenceTheorems, WellFoundedInduction, TLAPS

\* The invariant that is inductive: the table of sets is a list as well.
IInv ==
    /\ \E S : sets \in Seq(S)
    /\ SetsReleased

LEMMA InitInv == Init => IInv
<1> SUFFICES ASSUME Init PROVE IInv
  OBVIOUS
<1>1. sets \in Seq({})
  BY DEF Init
<1>2. Held = 0
  BY DEF Init, Held
<1>3. SetsReleased
  BY <1>2 DEF Init, SetsReleased
<1> QED
  BY <1>1, <1>3 DEF IInv

\* A return from anywhere releases what is held and what is in the table.
LEMMA ReturnReleases ==
    ASSUME IInv, pc # "returned", NEW code, Return(code)
    PROVE  IInv'
<1>1. PICK S : sets \in Seq(S)
  BY DEF IInv
<1>2. Len(sets) \in Nat /\ Held \in {0, 1}
  BY <1>1 DEF Held
<1>3. allocated = Len(sets) + Held
  BY DEF IInv, SetsReleased
<1>4. pc' = "returned" /\ allocated' = 0
  BY <1>2, <1>3 DEF Return
<1>5. sets' \in Seq({})
  BY DEF Return
<1> QED
  BY <1>4, <1>5 DEF IInv, SetsReleased

\* A step that neither returns nor changes what is allocated or held.
LEMMA OthersHold ==
    ASSUME IInv, pc # "returned", pc' # "returned",
           Held' = Held, UNCHANGED <<sets, allocated>>
    PROVE  IInv'
<1>1. SetsReleased'
  BY DEF IInv, SetsReleased
<1>2. \E S : sets' \in Seq(S)
  BY DEF IInv
<1> QED
  BY <1>1, <1>2 DEF IInv

\* A set that is held is entered.
LEMMA EnteringHolds ==
    ASSUME IInv, pc # "returned", UNCHANGED <<pc, allocated>>, Held = 1, Held' = 0,
           NEW set, sets' = Append(sets, set)
    PROVE  IInv'
<1>1. PICK S : sets \in Seq(S)
  BY DEF IInv
<1> DEFINE Wider == S \cup {set}
<1>2. sets \in Seq(Wider)
  BY <1>1
<1>3. sets' \in Seq(Wider) /\ Len(sets') = Len(sets) + 1 /\ Len(sets) \in Nat
  BY <1>2
<1>4. SetsReleased'
  BY <1>3 DEF IInv, SetsReleased
<1> QED
  BY <1>3, <1>4 DEF IInv

LEMMA StepInv == IInv /\ [Next]_vars => IInv'
<1> SUFFICES ASSUME IInv, [Next]_vars PROVE IInv'
  OBVIOUS
<1>1. CASE Include
  <2>1. CASE PrintFails(<<Torn>>)
    BY <1>1, <2>1, ReturnReleases DEF Include, PrintFails
  <2>2. CASE pc' = "scanning" /\ UNCHANGED <<current, sets, allocated>>
    BY <1>1, <2>2, OthersHold DEF Include, Held, Statement
  <2> QED
    BY <1>1, <2>1, <2>2 DEF Include
<1>2. CASE ScanStatement \/ Scanned \/ ScanAborts \/ EndScan
  <2>1. pc = "scanning" /\ pc' # "returned" /\ UNCHANGED <<current, sets, allocated>>
    BY <1>2 DEF ScanStatement, Scanned, ScanAborts, EndScan
  <2> QED
    BY <2>1, OthersHold DEF Held, Statement
<1>3. CASE Declare
  <2>1. pc = "declaring" /\ pc' # "returned" /\ UNCHANGED <<current, sets, allocated>>
    BY <1>3 DEF Declare, DeclareFunction, EndDeclare
  <2> QED
    BY <2>1, OthersHold DEF Held, Statement
<1>4. CASE GenExtern
  <2> DEFINE names == Head(todo).kids
             declaration == Extern(Named(names[Len(names)].text))
  <2>1. CASE PrintFails(<<declaration>>)
    BY <1>4, <2>1, ReturnReleases DEF GenExtern, PrintFails
  <2>2. CASE UNCHANGED <<pc, current, sets, allocated>>
    BY <1>4, <2>2, OthersHold DEF GenExtern, Held, Statement
  <2> QED
    BY <1>4, <2>1, <2>2 DEF GenExtern
<1>5. CASE GenStatement
  <2>1. pc = "generating" /\ UNCHANGED <<pc, sets>> /\ Held = 0
    BY <1>5 DEF GenStatement, Held, Statement
  <2>2. PICK S : sets \in Seq(S)
    BY DEF IInv
  <2>3. Len(sets) \in Nat
    BY <2>2
  <2>4. CASE Head(todo).tag = "SET"
    <3>1. Held' = 1 /\ allocated' = allocated + 1
      BY <1>5, <2>4 DEF GenStatement, Held, Statement
    <3>2. SetsReleased'
      BY <2>1, <2>3, <3>1 DEF IInv, SetsReleased
    <3> QED
      BY <2>1, <2>2, <3>2 DEF IInv
  <2>5. CASE Head(todo).tag # "SET"
    <3>1. Held' = 0 /\ UNCHANGED allocated
      BY <1>5, <2>5 DEF GenStatement, Held, Statement
    <3> QED
      BY <2>1, <3>1, OthersHold
  <2> QED
    BY <2>4, <2>5
<1>6. CASE GenReference \/ SetPart
  <2>1. pc = "generating" /\ UNCHANGED <<pc, current, sets, allocated>>
    BY <1>6 DEF GenReference, Printing, SetPart, Evaluating
  <2> QED
    BY <2>1, OthersHold DEF Held, Statement
<1>7. CASE GenAlias \/ GenNode
  <2>1. pc = "generating" /\ Statement.tag # "SET"
    BY <1>7 DEF GenAlias, GenNode, Printing
  <2>2. PICK declaration : Emit(declaration)
    BY <1>7 DEF GenAlias, GenNode
  <2>3. CASE PrintFails(<<declaration>>)
    BY <2>1, <2>3, ReturnReleases DEF PrintFails
  <2>4. CASE /\ current' = IF Depth = 0 THEN <<>> ELSE current
             /\ UNCHANGED <<pc, sets, allocated>>
    <3>1. Held = 0 /\ Held' = 0
      BY <2>1, <2>4 DEF Held, Statement
    <3> QED
      BY <2>1, <2>4, <3>1, OthersHold
  <2> QED
    BY <2>2, <2>3, <2>4 DEF Emit
<1>8. CASE SetUnknown
  BY <1>8, ReturnReleases DEF SetUnknown, Evaluating
<1>9. CASE GenSet
  <2>1. pc = "generating" /\ Held = 1
    BY <1>9 DEF GenSet, Evaluating, Held
  <2>2. PICK members :
          \/ /\ sets' = Append(sets, [name |-> Name, members |-> members])
             /\ current' = <<>>
             /\ UNCHANGED <<pc, allocated>>
          \/ PrintFails(<<Declaration(Numbered(uid), "words", <<>>, <<members>>),
                          Declaration(Named(Name), "SET", <<Numbered(uid)>>, <<>>)>>)
    BY <1>9 DEF GenSet
  <2>3. CASE pc' = "returned"
    BY <2>1, <2>2, <2>3, ReturnReleases DEF PrintFails
  <2> QED
    BY <2>1, <2>2, <2>3, EnteringHolds, ReturnReleases DEF PrintFails, Held
<1>10. CASE EndStatements
  BY <1>10, ReturnReleases DEF EndStatements
<1>11. CASE Descend
  <2>1. UNCHANGED <<pc, current, sets, allocated>>
    BY <1>11 DEF Descend
  <2> QED
    BY <2>1 DEF IInv, SetsReleased, Held, Statement
<1>12. CASE UNCHANGED vars
  BY <1>12 DEF vars, IInv, SetsReleased, Held, Statement
<1> QED
  BY <1>1, <1>2, <1>3, <1>4, <1>5, <1>6, <1>7, <1>8, <1>9, <1>10, <1>11, <1>12
     DEF Next, Scan, Generate

\* For every source, and wherever printing fails or a set is unknown, the memory
\* of the sets is what the table and the statement in hand account for, and all of
\* it is released when pgc_lang_gen returns.
THEOREM NoSetIsLeaked == Spec => []SetsReleased
<1>1. IInv => SetsReleased
  BY DEF IInv
<1> QED
  BY InitInv, StepInv, <1>1, PTL DEF Spec
-----------------------------------------------------------------------------
\* Sequences whose elements may be anything.
IsSequence(s) == \E S : s \in Seq(S)

LEMMA Appended ==
    ASSUME NEW s, IsSequence(s), NEW x
    PROVE  /\ IsSequence(Append(s, x))
           /\ Len(s) \in Nat /\ DOMAIN s = 1 .. Len(s)
           /\ Len(Append(s, x)) = Len(s) + 1
           /\ DOMAIN Append(s, x) = 1 .. Len(s) + 1
           /\ \A i \in 1 .. Len(s) : Append(s, x)[i] = s[i]
           /\ Append(s, x)[Len(s) + 1] = x
<1>1. PICK S : s \in Seq(S)
  BY DEF IsSequence
<1> DEFINE Wider == S \cup {x}
<1>2. s \in Seq(Wider) /\ x \in Wider
  BY <1>1
<1> HIDE DEF Wider
<1>3. Append(s, x) \in Seq(Wider)
  BY <1>2
<1> QED
  BY <1>2, <1>3 DEF IsSequence

\* A statement as the source has it.
IsStatement(statement) ==
    statement.tag \in {"DEF", "LET", "SET"} => statement.kids[2] \in Nodes
Statements(list) == list \in Seq({st \in Range(source) : IsStatement(st)})

IsFrame(frame) ==
    /\ frame = [syn |-> frame.syn, got |-> frame.got]
    /\ frame.syn \in Nodes
    /\ IsSequence(frame.got) /\ Len(frame.got) <= Len(Parts(frame.syn))

\* A stack that is a way down in an expression.
WayDown(frames) ==
    /\ IsSequence(frames)
    /\ \A i \in DOMAIN frames : IsFrame(frames[i])
    /\ \A i \in 1 .. Len(frames) - 1 :
          /\ Len(frames[i].got) < Len(Parts(frames[i].syn))
          /\ frames[i + 1].syn = Parts(frames[i].syn)[Len(frames[i].got) + 1]

LEMMA PartsAreNodes ==
    ASSUME NEW syn \in Nodes
    PROVE  /\ Parts(syn) \in Seq(Nodes) /\ Len(Parts(syn)) \in Nat
           /\ \A k \in 1 .. Len(Parts(syn)) : Parts(syn)[k] \in Nodes
<1>1. Parts(syn) \in Seq(Nodes)
  BY GeneratorAssumption
<1> QED
  BY <1>1

LEMMA FrameFacts ==
    ASSUME NEW frame, IsFrame(frame)
    PROVE  /\ frame.syn \in Nodes /\ IsSequence(frame.got)
           /\ Len(frame.got) \in Nat /\ Len(Parts(frame.syn)) \in Nat
           /\ Len(frame.got) <= Len(Parts(frame.syn))
<1>1. frame.syn \in Nodes /\ IsSequence(frame.got) /\ Len(frame.got) <= Len(Parts(frame.syn))
  BY Zenon DEF IsFrame
<1>2. Len(frame.got) \in Nat
  BY <1>1, Appended
<1>3. Len(Parts(frame.syn)) \in Nat
  BY <1>1, PartsAreNodes
<1> QED
  BY <1>1, <1>2, <1>3

\* A call on an expression, and one on the next part of another.
LEMMA CallFirst ==
    ASSUME NEW syn \in Nodes
    PROVE  WayDown(Append(<<>>, [syn |-> syn, got |-> <<>>]))
<1> DEFINE frame == [syn |-> syn, got |-> <<>>]
<1>1. IsSequence(<<>>) /\ Len(<<>>) = 0
  <2>1. <<>> \in Seq({})
    OBVIOUS
  <2> QED
    BY <2>1 DEF IsSequence
<1>2. IsFrame(frame)
  BY <1>1, PartsAreNodes DEF IsFrame
<1> HIDE DEF frame
<1>3. /\ IsSequence(Append(<<>>, frame)) /\ Len(Append(<<>>, frame)) = 0 + 1
      /\ DOMAIN Append(<<>>, frame) = 1 .. 0 + 1 /\ Append(<<>>, frame)[0 + 1] = frame
  BY <1>1, Appended, Zenon
<1>4. WayDown(Append(<<>>, frame))
  BY <1>2, <1>3 DEF WayDown
<1> QED
  BY <1>4 DEF frame

LEMMA CallNext ==
    ASSUME NEW frames, WayDown(frames), frames # <<>>,
           Len(frames[Len(frames)].got) # Len(Parts(frames[Len(frames)].syn))
    PROVE  WayDown(Append(frames,
               [syn |-> Parts(frames[Len(frames)].syn)[Len(frames[Len(frames)].got) + 1],
                got |-> <<>>]))
<1> DEFINE n == Len(frames)
           top == frames[n]
           part == Parts(top.syn)[Len(top.got) + 1]
           frame == [syn |-> part, got |-> <<>>]
           longer == Append(frames, frame)
<1>1. IsSequence(frames) /\ n \in Nat /\ DOMAIN frames = 1 .. n /\ n # 0
  <2>1. PICK S : frames \in Seq(S)
    BY DEF WayDown, IsSequence
  <2> QED
    BY <2>1 DEF WayDown
<1>2. IsFrame(top)
  BY <1>1 DEF WayDown
<1> HIDE DEF n
<1>3. Len(top.got) \in Nat /\ Len(Parts(top.syn)) \in Nat /\ part \in Nodes
      /\ Len(top.got) < Len(Parts(top.syn))
  <2>1. /\ top.syn \in Nodes /\ Len(top.got) \in Nat
        /\ Len(Parts(top.syn)) \in Nat /\ Len(top.got) <= Len(Parts(top.syn))
    BY <1>2, FrameFacts
  <2>2. \A k \in 1 .. Len(Parts(top.syn)) : Parts(top.syn)[k] \in Nodes
    BY <2>1, PartsAreNodes
  <2>3. Len(top.got) # Len(Parts(top.syn))
    BY DEF n
  <2> HIDE DEF top
  <2>4. Len(top.got) < Len(Parts(top.syn))
    BY <2>1, <2>3
  <2> QED
    BY <2>1, <2>2, <2>4
<1>4. IsFrame(frame)
  <2>1. IsSequence(<<>>) /\ Len(<<>>) = 0 /\ Len(Parts(part)) \in Nat
    BY <1>3, PartsAreNodes DEF IsSequence
  <2> HIDE DEF part
  <2> QED
    BY <1>3, <2>1 DEF IsFrame
<1>5. frame.syn = part
  OBVIOUS
<1> HIDE DEF frame
<1>6. /\ IsSequence(longer) /\ Len(longer) = n + 1 /\ DOMAIN longer = 1 .. n + 1
      /\ \A i \in 1 .. n : longer[i] = frames[i]
      /\ longer[n + 1] = frame
  BY <1>1, Appended DEF n
<1> HIDE DEF longer
<1>7. \A i \in DOMAIN longer : IsFrame(longer[i])
  <2>1. \A i \in 1 .. n : IsFrame(longer[i])
    BY <1>1, <1>6 DEF WayDown
  <2> QED
    BY <1>1, <1>4, <1>6, <2>1
<1>8. ASSUME NEW i \in 1 .. Len(longer) - 1
      PROVE  /\ Len(longer[i].got) < Len(Parts(longer[i].syn))
             /\ longer[i + 1].syn = Parts(longer[i].syn)[Len(longer[i].got) + 1]
  <2>1. i \in 1 .. n
    BY <1>1, <1>6
  <2>2. CASE i = n
    <3>1. longer[i] = top /\ longer[i + 1] = frame
      BY <1>6, <2>1, <2>2
    <3> QED
      BY <1>3, <1>5, <3>1
  <2>3. CASE i # n
    <3>1. i \in 1 .. n - 1 /\ i + 1 \in 1 .. n
      BY <1>1, <2>1, <2>3
    <3>2. longer[i] = frames[i] /\ longer[i + 1] = frames[i + 1]
      BY <1>6, <2>1, <3>1
    <3> QED
      BY <3>1, <3>2 DEF WayDown, n
  <2> QED
    BY <2>2, <2>3
<1>9. WayDown(longer)
  BY <1>6, <1>7, <1>8 DEF WayDown
<1> QED
  BY <1>9 DEF longer, frame, n

\* What Give does to the stack.
Given(frames, result) ==
    [i \in 1 .. Len(frames) - 1 |->
        IF i < Len(frames) - 1 THEN frames[i]
        ELSE [frames[i] EXCEPT !.got = Append(frames[i].got, result)]]

LEMMA GiveBack ==
    ASSUME NEW frames, WayDown(frames), frames # <<>>, NEW result
    PROVE  /\ WayDown(Given(frames, result))
           /\ Len(frames) \in Nat \ {0} /\ Len(Given(frames, result)) = Len(frames) - 1
           /\ \A i \in DOMAIN Given(frames, result) :
                 /\ i \in DOMAIN frames
                 /\ \A k \in DOMAIN Given(frames, result)[i].got :
                       \/ Given(frames, result)[i].got[k] = result
                       \/ /\ k \in DOMAIN frames[i].got
                          /\ Given(frames, result)[i].got[k] = frames[i].got[k]
<1> DEFINE n == Len(frames)
           shorter == Given(frames, result)
<1>1. IsSequence(frames) /\ n \in Nat /\ DOMAIN frames = 1 .. n /\ n # 0
  <2>1. PICK S : frames \in Seq(S)
    BY DEF WayDown, IsSequence
  <2> QED
    BY <2>1 DEF WayDown
<1> HIDE DEF n
<1>2. /\ DOMAIN shorter = 1 .. n - 1
      /\ \A i \in 1 .. n - 1 : i < n - 1 => shorter[i] = frames[i]
      /\ \A i \in 1 .. n - 1 :
            ~(i < n - 1) =>
               shorter[i] = [frames[i] EXCEPT !.got = Append(frames[i].got, result)]
  BY <1>1 DEF Given, n
<1>3. IsSequence(shorter) /\ Len(shorter) = n - 1
  <2>1. shorter \in [1 .. n - 1 -> Range(shorter)] /\ n - 1 \in Nat
    BY <1>1 DEF Given, Range, n
  <2> HIDE DEF shorter
  <2>2. shorter \in Seq(Range(shorter))
    BY <2>1
  <2>3. Len(shorter) = n - 1
    BY <1>2, <2>1, <2>2
  <2> QED
    BY <2>2, <2>3 DEF IsSequence
<1> HIDE DEF shorter
<1>4. ASSUME NEW i \in 1 .. n - 1
      PROVE  /\ i \in DOMAIN frames /\ IsFrame(frames[i])
             /\ Len(frames[i].got) < Len(Parts(frames[i].syn))
             /\ Len(frames[i].got) \in Nat /\ Len(Parts(frames[i].syn)) \in Nat
  <2>1. i \in DOMAIN frames /\ IsFrame(frames[i])
    <3>1. i \in DOMAIN frames
      BY <1>1
    <3> QED
      BY <3>1 DEF WayDown
  <2>2. Len(frames[i].got) \in Nat /\ Len(Parts(frames[i].syn)) \in Nat
    BY <2>1, FrameFacts
  <2> QED
    BY <2>1, <2>2 DEF WayDown, n
<1>5. ASSUME NEW i \in 1 .. n - 1, ~(i < n - 1)
      PROVE  /\ shorter[i] = [syn |-> frames[i].syn, got |-> Append(frames[i].got, result)]
             /\ IsFrame(shorter[i])
             /\ \A k \in DOMAIN shorter[i].got :
                   \/ shorter[i].got[k] = result
                   \/ k \in DOMAIN frames[i].got /\ shorter[i].got[k] = frames[i].got[k]
  <2> DEFINE got == Append(frames[i].got, result)
  <2>1. frames[i] = [syn |-> frames[i].syn, got |-> frames[i].got]
    BY <1>4 DEF IsFrame
  <2>2. shorter[i] = [frames[i] EXCEPT !.got = got]
    BY <1>2, <1>5
  <2> HIDE DEF got
  <2>3. shorter[i] = [syn |-> frames[i].syn, got |-> got]
    BY <2>1, <2>2
  <2>4. IsSequence(frames[i].got)
    BY <1>4 DEF IsFrame
  <2>5. /\ IsSequence(got) /\ Len(got) = Len(frames[i].got) + 1
        /\ DOMAIN frames[i].got = 1 .. Len(frames[i].got)
        /\ DOMAIN got = 1 .. Len(frames[i].got) + 1
        /\ \A k \in 1 .. Len(frames[i].got) : got[k] = frames[i].got[k]
        /\ got[Len(frames[i].got) + 1] = result
    BY <2>4, Appended DEF got
  <2>6. shorter[i].syn = frames[i].syn /\ shorter[i].got = got
    BY <2>3
  <2> DEFINE m == Len(frames[i].got)
  <2>7. /\ m \in Nat /\ frames[i].syn \in Nodes
        /\ m + 1 <= Len(Parts(frames[i].syn))
    BY <1>4, FrameFacts
  <2> HIDE DEF m
  <2>8. \A k \in DOMAIN got :
           got[k] = result \/ (k \in DOMAIN frames[i].got /\ got[k] = frames[i].got[k])
    <3> SUFFICES ASSUME NEW k \in 1 .. m + 1
                 PROVE  got[k] = result \/ (k \in 1 .. m /\ got[k] = frames[i].got[k])
      BY <2>5 DEF m
    <3>1. k = m + 1 \/ k \in 1 .. m
      BY <2>7
    <3> QED
      BY <2>5, <3>1 DEF m
  <2>9. IsFrame(shorter[i])
    BY <2>3, <2>5, <2>6, <2>7 DEF IsFrame, m
  <2> QED
    BY <2>3, <2>6, <2>8, <2>9 DEF got
<1>6. ASSUME NEW i \in 1 .. n - 1
      PROVE  /\ IsFrame(shorter[i]) /\ shorter[i].syn = frames[i].syn
             /\ \A k \in DOMAIN shorter[i].got :
                   \/ shorter[i].got[k] = result
                   \/ k \in DOMAIN frames[i].got /\ shorter[i].got[k] = frames[i].got[k]
  BY <1>2, <1>4, <1>5
<1>7. ASSUME NEW i \in 1 .. (n - 1) - 1
      PROVE  /\ Len(shorter[i].got) < Len(Parts(shorter[i].syn))
             /\ shorter[i + 1].syn = Parts(shorter[i].syn)[Len(shorter[i].got) + 1]
  <2>1. i \in 1 .. n - 1 /\ i + 1 \in 1 .. n - 1 /\ i < n - 1
    BY <1>1
  <2>2. shorter[i] = frames[i] /\ shorter[i + 1].syn = frames[i + 1].syn
    BY <1>2, <1>6, <2>1
  <2> QED
    BY <2>1, <2>2 DEF WayDown, n
<1>8. WayDown(shorter)
  BY <1>2, <1>3, <1>6, <1>7 DEF WayDown
<1> QED
  BY <1>1, <1>2, <1>3, <1>4, <1>6, <1>8 DEF shorter, n
-----------------------------------------------------------------------------
\* The invariant of the calls: with the types, what the running loops hold.
Basics ==
    /\ pc \in {"starting", "scanning", "declaring", "generating", "returned", "aborted"}
    /\ res \in {"OK", "IO", "SYN"}
    /\ uid \in Nat
    /\ Range(functions) \subseteq {"hook", "call"} /\ missed \subseteq DOMAIN functions
Ways ==
    /\ source \in Sources /\ Statements(todo)
    /\ WayDown(stack)
    /\ pc \in {"starting", "declaring"} => stack = <<>>
    /\ pc \in {"starting", "scanning", "declaring"} => current = <<>>
    /\ pc = "generating" => (current = <<>> <=> stack = <<>>)

LEMMA Emptiness ==
    ASSUME NEW s, IsSequence(s)
    PROVE  s = <<>> <=> Len(s) = 0
BY DEF IsSequence

LEMMA NoWay == WayDown(<<>>)
<1>1. <<>> \in Seq({}) /\ Len(<<>>) = 0 /\ DOMAIN <<>> = {}
  OBVIOUS
<1> QED
  BY <1>1 DEF WayDown, IsSequence

\* The list that a loop starts from, and what it has left after one statement.
LEMMA WholeSource ==
    ASSUME source \in Sources
    PROVE  Statements(source)
<1> DEFINE all == {st \in Range(source) : IsStatement(st)}
<1>1. source \in Seq(Range(source))
  BY GeneratorAssumption
<1>2. \A i \in DOMAIN source : source[i] \in Range(source) /\ IsStatement(source[i])
  BY GeneratorAssumption DEF Range, IsStatement
<1>3. \A i \in DOMAIN source : source[i] \in all
  BY <1>2
<1> HIDE DEF all
<1>4. source \in Seq(all)
  BY <1>1, <1>3
<1> QED
  BY <1>4 DEF Statements, all

LEMMA NextStatement ==
    ASSUME NEW list, Statements(list), list # <<>>
    PROVE  Statements(Tail(list)) /\ IsStatement(Head(list))
<1> DEFINE all == {st \in Range(source) : IsStatement(st)}
<1>1. \A st \in all : IsStatement(st)
  OBVIOUS
<1>2. list \in Seq(all)
  BY DEF Statements
<1> HIDE DEF all
<1>3. Tail(list) \in Seq(all) /\ Head(list) \in all
  BY <1>2
<1> QED
  BY <1>1, <1>3 DEF Statements, all

LEMMA NoStatements == Statements(<<>>)
BY DEF Statements

LEMMA BasicsStep ==
    ASSUME Basics, [Next]_vars
    PROVE  Basics'
<1>1. ASSUME NEW code \in {"OK", "IO", "SYN"}, Return(code)
      PROVE  pc' = "returned" /\ res' = code
  BY <1>1 DEF Return
<1>2. CASE Include
  BY <1>1, <1>2 DEF Include, PrintFails, Basics, scanned
<1>3. CASE ScanStatement \/ ScanAborts \/ EndScan
  BY <1>3 DEF ScanStatement, ScanAborts, EndScan, Basics, scanned
<1>4. CASE Scanned
  <2>1. ASSUME NEW type \in {"hook", "call"}, NEW name, Enter(type, name)
        PROVE  /\ Range(functions') \subseteq {"hook", "call"}
               /\ DOMAIN functions \subseteq DOMAIN functions'
    BY <2>1 DEF Enter, Basics, Range
  <2>2. /\ Range(functions') \subseteq {"hook", "call"}
        /\ DOMAIN functions \subseteq DOMAIN functions'
    BY <1>4, <2>1 DEF Scanned, EnterUses, Basics
  <2> QED
    BY <1>4, <2>2 DEF Scanned, Basics
<1>5. CASE Declare
  BY <1>5 DEF Declare, DeclareFunction, Undeclared, EndDeclare, Basics, scanned
<1>6. CASE GenExtern \/ SetUnknown \/ EndStatements
  BY <1>1, <1>6 DEF GenExtern, SetUnknown, EndStatements, PrintFails, Basics, scanned
<1>7. CASE GenStatement \/ GenReference \/ SetPart \/ Descend
  BY <1>7 DEF GenStatement, GenReference, SetPart, Descend, Basics, scanned
<1>8. ASSUME NEW declaration, Emit(declaration), uid' \in Nat, UNCHANGED scanned
      PROVE  Basics'
  BY <1>1, <1>8 DEF Emit, PrintFails, Basics, scanned
<1>9. CASE GenAlias \/ GenNode
  <2>1. uid' \in Nat /\ UNCHANGED scanned
    BY <1>9 DEF GenAlias, GenNode, Advance, Basics
  <2> QED
    BY <1>8, <1>9, <2>1 DEF GenAlias, GenNode
<1>10. CASE GenSet
  <2>1. uid' \in Nat /\ UNCHANGED scanned
    BY <1>10 DEF GenSet, Basics
  <2>2. UNCHANGED <<pc, res>> \/ (pc' = "returned" /\ res' = "IO")
    BY <1>1, <1>10 DEF GenSet, PrintFails
  <2> QED
    BY <2>1, <2>2 DEF Basics, scanned
<1>11. CASE UNCHANGED vars
  BY <1>11 DEF vars, Basics
<1> QED
  BY <1>2, <1>3, <1>4, <1>5, <1>6, <1>7, <1>9, <1>10, <1>11 DEF Next, Scan, Generate

\* What a return leaves, and what the end of a call leaves.
LEMMA WaysReturned ==
    ASSUME Ways, NEW code, Return(code), UNCHANGED source
    PROVE  Ways'
<1>1. stack' = <<>> /\ todo' = <<>> /\ pc' = "returned"
  BY DEF Return
<1>2. Statements(<<>>)' /\ WayDown(<<>>)
  BY NoStatements, NoWay DEF Statements
<1> QED
  BY <1>1, <1>2 DEF Ways, Statements

LEMMA WaysGiven ==
    ASSUME Ways, stack # <<>>, NEW result, Give(result)
    PROVE  /\ WayDown(stack') /\ Len(stack) \in Nat \ {0} /\ Len(stack') = Depth
           /\ stack' = <<>> <=> Depth = 0
<1>1. stack' = Given(stack, result)
  BY DEF Give, Given, Depth
<1>2. /\ WayDown(Given(stack, result)) /\ Len(stack) \in Nat \ {0}
      /\ Len(Given(stack, result)) = Len(stack) - 1
  BY GiveBack DEF Ways
<1>3. IsSequence(stack')
  BY <1>1, <1>2 DEF WayDown
<1> QED
  BY <1>1, <1>2, <1>3, Emptiness DEF Depth

LEMMA WaysStep ==
    ASSUME Ways, [Next]_vars
    PROVE  Ways'
<1>1. CASE Include
  <2>1. CASE PrintFails(<<Torn>>)
    BY <1>1, <2>1, WaysReturned DEF Include, PrintFails, scanned
  <2> QED
    BY <1>1, <2>1 DEF Include, Ways, Statements, scanned
<1>2. CASE ScanStatement
  <2>1. Statements(todo') /\ IsStatement(Head(todo)) /\ UNCHANGED source
    BY <1>2, NextStatement DEF ScanStatement, Ways, scanned
  <2>2. WayDown(stack')
    BY <1>2, <2>1, CallFirst DEF ScanStatement, Ways, IsStatement, Call
  <2> QED
    BY <1>2, <2>1, <2>2 DEF ScanStatement, Ways, Statements
<1>3. CASE Scanned
  <2>1. stack # <<>> /\ Give(<<>>) /\ pc = "scanning" /\ UNCHANGED <<source, pc, todo, current>>
    BY <1>3 DEF Scanned, Complete
  <2>2. WayDown(stack')
    BY <2>1, WaysGiven
  <2> QED
    BY <2>1, <2>2 DEF Ways, Statements
<1>4. CASE ScanAborts \/ EndScan
  BY <1>4 DEF ScanAborts, EndScan, Ways, Statements, scanned
<1>5. CASE \E name \in Undeclared : DeclareFunction(name)
  BY <1>5 DEF DeclareFunction, Ways, Statements
<1>6. CASE EndDeclare
  <2>1. Statements(source) /\ UNCHANGED source
    BY <1>6, WholeSource DEF EndDeclare, Ways, scanned
  <2>2. Statements(todo')
    BY <1>6, <2>1 DEF EndDeclare
  <2> QED
    BY <1>6, <2>1, <2>2 DEF EndDeclare, Ways, Statements
<1>7. CASE GenExtern
  <2>1. CASE \E declaration : PrintFails(<<declaration>>)
    BY <1>7, <2>1, WaysReturned DEF GenExtern, PrintFails, scanned
  <2>2. CASE todo' = Tail(todo) /\ UNCHANGED <<pc, current, stack>>
    <3>1. Statements(todo') /\ UNCHANGED source
      BY <1>7, <2>2, NextStatement DEF GenExtern, Ways, scanned
    <3> QED
      BY <1>7, <2>2, <3>1 DEF GenExtern, Ways, Statements
  <2> QED
    BY <1>7, <2>1, <2>2 DEF GenExtern
<1>8. CASE GenStatement
  <2>1. Statements(todo') /\ IsStatement(Head(todo)) /\ UNCHANGED source
    BY <1>8, NextStatement DEF GenStatement, Ways, scanned
  <2>2. stack = <<>> /\ current' # <<>> /\ pc = "generating" /\ pc' = pc
    BY <1>8 DEF GenStatement, Ways
  <2>3. WayDown(stack') /\ stack' # <<>>
    <3> DEFINE frame == [syn |-> Head(todo).kids[2], got |-> <<>>]
    <3>1. stack' = Append(<<>>, frame) /\ Head(todo).kids[2] \in Nodes
      BY <1>8, <2>1, <2>2 DEF GenStatement, Call, IsStatement
    <3>2. WayDown(stack')
      BY <3>1, CallFirst
    <3> HIDE DEF frame
    <3>3. <<>> \in Seq({}) /\ Len(<<>>) = 0
      OBVIOUS
    <3>4. IsSequence(<<>>)
      BY <3>3 DEF IsSequence
    <3>5. Len(stack') # 0
      BY <3>1, <3>3, <3>4, Appended
    <3> QED
      BY <3>2, <3>3, <3>5
  <2> QED
    BY <2>1, <2>2, <2>3 DEF Ways, Statements
<1>9. CASE GenReference \/ SetPart
  <2>1. /\ pc = "generating" /\ stack # <<>> /\ current # <<>> /\ Depth > 0
        /\ \E result : Give(result)
        /\ UNCHANGED <<source, pc, todo, current>>
    BY <1>9 DEF GenReference, SetPart, Printing, Evaluating, Complete, scanned
  <2>2. WayDown(stack') /\ stack' # <<>>
    BY <2>1, WaysGiven DEF Depth
  <2> QED
    BY <2>1, <2>2 DEF Ways, Statements
<1>10. CASE GenAlias \/ GenNode
  <2>1. /\ pc = "generating" /\ stack # <<>> /\ current # <<>> /\ UNCHANGED source
        /\ \E declaration : Emit(declaration)
    BY <1>10 DEF GenAlias, GenNode, Printing, Complete, scanned
  <2>2. PICK declaration : Emit(declaration)
    BY <2>1
  <2>3. CASE PrintFails(<<declaration>>)
    BY <2>1, <2>3, WaysReturned DEF PrintFails
  <2>4. CASE /\ Give(declaration.id)
             /\ current' = IF Depth = 0 THEN <<>> ELSE current
             /\ UNCHANGED <<pc, todo>>
    <3>1. WayDown(stack') /\ (stack' = <<>> <=> Depth = 0)
      BY <2>1, <2>4, WaysGiven
    <3> QED
      BY <2>1, <2>4, <3>1 DEF Ways, Statements
  <2> QED
    BY <2>2, <2>3, <2>4 DEF Emit
<1>11. CASE SetUnknown \/ EndStatements
  BY <1>11, WaysReturned DEF SetUnknown, EndStatements, scanned
<1>12. CASE GenSet
  <2>1. /\ pc = "generating" /\ stack # <<>> /\ Depth = 0 /\ UNCHANGED source
        /\ \/ \E members : Give(members) /\ current' = <<>> /\ UNCHANGED <<pc, todo>>
           \/ \E declarations : PrintFails(declarations)
    BY <1>12 DEF GenSet, Evaluating, Complete, scanned
  <2>2. CASE \E declarations : PrintFails(declarations)
    BY <2>1, <2>2, WaysReturned DEF PrintFails
  <2>3. ASSUME NEW members, Give(members), current' = <<>>, UNCHANGED <<pc, todo>>
        PROVE  Ways'
    <3>1. WayDown(stack') /\ stack' = <<>>
      BY <2>1, <2>3, WaysGiven
    <3> QED
      BY <2>1, <2>3, <3>1 DEF Ways, Statements
  <2> QED
    BY <2>1, <2>2, <2>3
<1>13. CASE Descend
  <2>1. /\ stack # <<>> /\ ~Complete /\ Call(Parts(Top.syn)[Len(Top.got) + 1])
        /\ UNCHANGED <<source, pc, todo, current>>
    BY <1>13 DEF Descend, scanned
  <2>2. WayDown(stack')
    BY <2>1, CallNext DEF Ways, Complete, Top, Call
  <2>3. stack' # <<>>
    <3>1. IsSequence(stack)
      BY DEF Ways, WayDown
    <3>2. Len(stack') = Len(stack) + 1 /\ Len(stack) \in Nat
      BY <2>1, <3>1, Appended DEF Call
    <3> QED
      BY <3>2
  <2>4. pc \in {"starting", "declaring"} => FALSE
    BY <2>1 DEF Ways
  <2> QED
    BY <2>1, <2>2, <2>3, <2>4 DEF Ways, Statements
<1>14. CASE UNCHANGED vars
  BY <1>14 DEF vars, Ways, Statements
<1> QED
  BY <1>1, <1>2, <1>3, <1>4, <1>5, <1>6, <1>7, <1>8, <1>9, <1>10, <1>11, <1>12, <1>13, <1>14
     DEF Next, Scan, Declare, Generate

\* From what the calls hold, and the sets, follow the types.
LEMMA TypesFollow ==
    ASSUME Basics, Ways, IInv
    PROVE  TypeOK
<1>1. allocated \in Nat
  <2>1. PICK S : sets \in Seq(S)
    BY DEF IInv
  <2>2. Len(sets) \in Nat /\ Held \in {0, 1}
    BY <2>1 DEF Held
  <2> QED
    BY <2>2 DEF IInv, SetsReleased
<1>2. \A i \in DOMAIN stack : Len(stack[i].got) <= Len(Parts(stack[i].syn))
  BY FrameFacts DEF Ways, WayDown
<1>3. \A i \in 1 .. Len(stack) - 1 :
         stack[i + 1].syn = Parts(stack[i].syn)[Len(stack[i].got) + 1]
  BY DEF Ways, WayDown
<1>4. pc = "generating" => (current = <<>> <=> stack = <<>>)
  BY DEF Ways
<1> QED
  BY <1>1, <1>2, <1>3, <1>4 DEF TypeOK, Basics

LEMMA CallInvariance == Spec => [](Basics /\ Ways /\ IInv)
<1>1. Init => Basics /\ Ways
  <2> SUFFICES ASSUME Init PROVE Basics /\ Ways
    OBVIOUS
  <2>1. Statements(todo) /\ source \in Sources
    BY WholeSource DEF Init
  <2>2. Ways
    BY <2>1, NoWay DEF Init, Ways
  <2>3. Basics
    BY DEF Init, Basics, Range
  <2> QED
    BY <2>2, <2>3
<1> QED
  BY <1>1, BasicsStep, WaysStep, InitInv, StepInv, PTL DEF Spec

\* For every source of whole trees the active calls of the generator are a way
\* down in one expression, at each of whose nodes the parts to the left are done,
\* there are none between two statements, and every set that is freed was allocated.
THEOREM CallsFollowTheTree == Spec => []TypeOK
BY CallInvariance, TypesFollow, PTL
-----------------------------------------------------------------------------
\* Declarations that are in scope, with numbers below u.
Declared(o, id) == "number" \in DOMAIN id => \E j \in DOMAIN o : o[j].id = id
Sound(o, u) ==
    /\ IsSequence(o) /\ u \in Nat
    /\ \A i \in DOMAIN o : \A id \in Range(o[i].refs) :
          "number" \in DOMAIN id => \E j \in 1 .. i - 1 : o[j].id = id
    /\ \A i, j \in DOMAIN o :
          "number" \in DOMAIN o[i].id /\ o[i].id = o[j].id => i = j
    /\ \A i \in DOMAIN o :
          "number" \in DOMAIN o[i].id => \E n \in 0 .. u - 1 : o[i].id = Numbered(n)

\* A declaration that refers to what is declared, and whose number, if it has one,
\* is the next.
Follows(d, o, u, v) ==
    /\ v \in Nat /\ u <= v
    /\ \A id \in Range(d.refs) : Declared(o, id)
    /\ "number" \in DOMAIN d.id => u < v /\ d.id = Numbered(u)

LEMMA NumbersDiffer ==
    ASSUME NEW m, NEW n, Numbered(m) = Numbered(n)
    PROVE  m = n
<1>1. Numbered(m).number = m /\ Numbered(n).number = n
  BY DEF Numbered
<1> QED
  BY <1>1

LEMMA Adding ==
    ASSUME NEW o, NEW u, Sound(o, u), NEW d, NEW v, Follows(d, o, u, v)
    PROVE  /\ Sound(Append(o, d), v)
           /\ \A id : Declared(o, id) => Declared(Append(o, d), id)
           /\ Declared(Append(o, d), d.id)
<1> DEFINE p == Append(o, d)
           n == Len(o)
<1>1. /\ IsSequence(p) /\ n \in Nat /\ DOMAIN o = 1 .. n /\ DOMAIN p = 1 .. n + 1
      /\ \A i \in 1 .. n : p[i] = o[i]
      /\ p[n + 1] = d
  BY Appended DEF Sound
<1>2. u \in Nat /\ v \in Nat /\ u <= v
  BY DEF Sound, Follows
<1> HIDE DEF p, n
<1>3. \A id : Declared(o, id) => Declared(p, id)
  <2> SUFFICES ASSUME NEW id, Declared(o, id), "number" \in DOMAIN id
               PROVE  \E j \in DOMAIN p : p[j].id = id
    BY DEF Declared
  <2>1. PICK j \in DOMAIN o : o[j].id = id
    BY DEF Declared
  <2> QED
    BY <1>1, <2>1
<1>4. Declared(p, d.id)
  BY <1>1 DEF Declared
<1>5. ASSUME NEW i \in DOMAIN p, NEW id \in Range(p[i].refs), "number" \in DOMAIN id
      PROVE  \E j \in 1 .. i - 1 : p[j].id = id
  <2>1. CASE i = n + 1
    <3>1. id \in Range(d.refs)
      BY <1>1, <2>1
    <3>2. PICK j \in DOMAIN o : o[j].id = id
      BY <1>5, <3>1 DEF Follows, Declared
    <3>3. j \in 1 .. i - 1 /\ p[j] = o[j]
      BY <1>1, <2>1, <3>2
    <3> QED
      BY <3>2, <3>3
  <2>2. CASE i # n + 1
    <3>1. i \in 1 .. n /\ p[i] = o[i]
      BY <1>1, <2>2
    <3>2. i \in DOMAIN o /\ id \in Range(o[i].refs)
      BY <1>1, <3>1
    <3>3. PICK j \in 1 .. i - 1 : o[j].id = id
      BY <1>5, <3>2 DEF Sound
    <3>4. j \in 1 .. n
      BY <1>1, <3>1, <3>3
    <3> QED
      BY <1>1, <3>3, <3>4
  <2> QED
    BY <2>1, <2>2
<1>6. ASSUME NEW i \in 1 .. n, "number" \in DOMAIN p[i].id
      PROVE  p[i].id # d.id /\ \E k \in 0 .. v - 1 : p[i].id = Numbered(k)
  <2>1. PICK k \in 0 .. u - 1 : o[i].id = Numbered(k)
    BY <1>1, <1>6 DEF Sound
  <2>2. k # u /\ k \in 0 .. v - 1
    BY <1>2
  <2>3. Numbered(k) # Numbered(u)
    BY <2>2, NumbersDiffer
  <2>4. p[i].id = Numbered(k)
    BY <1>1, <2>1
  <2>5. p[i].id # d.id
    BY <1>6, <2>3, <2>4 DEF Follows
  <2> QED
    BY <2>2, <2>4, <2>5
<1>7. ASSUME NEW i \in DOMAIN p, NEW j \in DOMAIN p,
             "number" \in DOMAIN p[i].id, p[i].id = p[j].id
      PROVE  i = j
  <2>1. i \in 1 .. n \/ i = n + 1
    BY <1>1
  <2>2. j \in 1 .. n \/ j = n + 1
    BY <1>1
  <2>3. CASE i \in 1 .. n /\ j \in 1 .. n
    <3>1. p[i] = o[i] /\ p[j] = o[j] /\ i \in DOMAIN o /\ j \in DOMAIN o
      BY <1>1, <2>3
    <3> QED
      BY <1>7, <3>1 DEF Sound
  <2>4. CASE i \in 1 .. n /\ j = n + 1
    BY <1>1, <1>6, <1>7, <2>4
  <2>5. CASE i = n + 1 /\ j \in 1 .. n
    <3>1. p[i].id = d.id /\ "number" \in DOMAIN p[j].id /\ p[j].id = d.id
      BY <1>1, <1>7, <2>5
    <3> QED
      BY <1>6, <2>5, <3>1
  <2> QED
    BY <2>1, <2>2, <2>3, <2>4, <2>5
<1>8. ASSUME NEW i \in DOMAIN p, "number" \in DOMAIN p[i].id
      PROVE  \E k \in 0 .. v - 1 : p[i].id = Numbered(k)
  <2>1. CASE i \in 1 .. n
    BY <1>6, <1>8, <2>1
  <2>2. CASE i = n + 1
    <3>1. p[i].id = d.id /\ u < v /\ d.id = Numbered(u)
      BY <1>1, <1>8, <2>2 DEF Follows
    <3>2. u \in 0 .. v - 1
      BY <1>2, <3>1
    <3> QED
      BY <3>1, <3>2
  <2> QED
    BY <1>1, <2>1, <2>2
<1>9. Sound(p, v)
  BY <1>1, <1>2, <1>5, <1>7, <1>8 DEF Sound
<1> QED
  BY <1>3, <1>4, <1>9 DEF p

LEMMA Higher ==
    ASSUME NEW o, NEW u, Sound(o, u), NEW v \in Nat, u <= v
    PROVE  Sound(o, v)
<1>1. ASSUME NEW i \in DOMAIN o, "number" \in DOMAIN o[i].id
      PROVE  \E n \in 0 .. v - 1 : o[i].id = Numbered(n)
  <2>1. PICK n \in 0 .. u - 1 : o[i].id = Numbered(n)
    BY <1>1 DEF Sound
  <2>2. n \in 0 .. v - 1
    BY DEF Sound
  <2> QED
    BY <2>1, <2>2
<1> QED
  BY <1>1, Zenon DEF Sound

\* Nothing is referred to by what has no references, and has no number.
LEMMA Plain ==
    ASSUME NEW o, NEW u \in Nat, NEW v \in Nat, u <= v, NEW d, Range(d.refs) = {},
           "number" \notin DOMAIN d.id
    PROVE  Follows(d, o, u, v)
BY DEF Follows

LEMMA TornIsPlain == Range(Torn.refs) = {} /\ "number" \notin DOMAIN Torn.id
BY DEF Torn, Declaration, Range

LEMMA ExternIsPlain ==
    ASSUME NEW id, "number" \notin DOMAIN id
    PROVE  Range(Extern(id).refs) = {} /\ "number" \notin DOMAIN Extern(id).id
BY DEF Extern, Declaration, Range

LEMMA NotNumbers ==
    /\ \A name : "number" \notin DOMAIN Named(name)
    /\ \A type, name : "number" \notin DOMAIN Function(type, name)
    /\ \A text : "number" \notin DOMAIN [unprefixed |-> text]
BY DEF Named, Function

\* What is printed when printing fails.
LEMMA CutOff ==
    ASSUME NEW o, IsSequence(o), NEW d, NEW e
    PROVE  /\ o \o SubSeq(<<d>>, 1, 0) \o <<e>> = Append(o, e)
           /\ \A k \in 0 .. 1 : SubSeq(<<d, e>>, 1, k) \in {<<>>, <<d>>}
           /\ \A cut \in {<<>>, <<d>>} :
                 o \o cut \o <<Torn>> \in {Append(o, Torn), Append(Append(o, d), Torn)}
           /\ o \o <<d, e>> = Append(Append(o, d), e)
<1>1. PICK S : o \in Seq(S)
  BY DEF IsSequence
<1> DEFINE Wider == S \cup {d, e, Torn}
<1>2. o \in Seq(Wider) /\ d \in Wider /\ e \in Wider /\ Torn \in Wider
  BY <1>1
<1> HIDE DEF Wider
<1>3. /\ SubSeq(<<d>>, 1, 0) = <<>> /\ SubSeq(<<d, e>>, 1, 0) = <<>>
      /\ SubSeq(<<d, e>>, 1, 1) = <<d>>
  <2>1. SubSeq(<<d>>, 1, 0) = <<>> /\ SubSeq(<<d, e>>, 1, 0) = <<>>
    BY SubSeqEmpty
  <2>2. <<d, e>>[1] = d /\ \A i \in 1 .. 1 : <<d, e>>[i] \in Wider
    BY <1>2
  <2>3. /\ SubSeq(<<d, e>>, 1, 1) \in Seq(Wider)
        /\ Len(SubSeq(<<d, e>>, 1, 1)) = 1
        /\ SubSeq(<<d, e>>, 1, 1)[1] = <<d, e>>[1]
    <3>1. \A i \in 1 .. 1 - 1 + 1 : SubSeq(<<d, e>>, 1, 1)[i] = <<d, e>>[1 + i - 1]
      BY <2>2, SubSeqProperties
    <3>2. SubSeq(<<d, e>>, 1, 1) \in Seq(Wider) /\ Len(SubSeq(<<d, e>>, 1, 1)) = 1
      BY <2>2, SubSeqProperties
    <3>3. SubSeq(<<d, e>>, 1, 1)[1] = <<d, e>>[1 + 1 - 1]
      BY <3>1
    <3> QED
      BY <3>2, <3>3
  <2> DEFINE cut == SubSeq(<<d, e>>, 1, 1)
  <2>4. cut \in Seq(Wider) /\ Len(cut) = 1 /\ cut[1] = d
    BY <2>2, <2>3
  <2> HIDE DEF cut
  <2>5. cut = <<d>>
    BY <2>4
  <2> QED
    BY <2>1, <2>5 DEF cut
<1>4. o \o <<>> = o
  BY <1>2
<1>5. \A x, y \in Wider : o \o <<x>> = Append(o, x) /\ o \o <<x, y>> = Append(Append(o, x), y)
  BY <1>2
<1>6. Append(o, d) \in Seq(Wider)
  BY <1>2
<1>7. Append(o, d) \o <<Torn>> = Append(Append(o, d), Torn)
  BY <1>2, <1>6
<1>8. /\ o \o SubSeq(<<d>>, 1, 0) \o <<e>> = Append(o, e)
      /\ o \o <<d, e>> = Append(Append(o, d), e)
  BY <1>2, <1>3, <1>4, <1>5
<1>9. \A k \in 0 .. 1 : SubSeq(<<d, e>>, 1, k) \in {<<>>, <<d>>}
  <2>1. \A k \in 0 .. 1 : k = 0 \/ k = 1
    OBVIOUS
  <2> QED
    BY <1>3, <2>1, Zenon
<1>10. ASSUME NEW cut \in {<<>>, <<d>>}
       PROVE  o \o cut \o <<Torn>> \in {Append(o, Torn), Append(Append(o, d), Torn)}
  <2>1. o \o cut \in {o, Append(o, d)}
    BY <1>2, <1>4, <1>5
  <2>2. o \o <<Torn>> = Append(o, Torn)
    BY <1>2, <1>5
  <2> QED
    BY <1>7, <2>1, <2>2
<1> QED
  BY <1>8, <1>9, <1>10, Zenon

\* What the calls under way have collected is declared.
Collecting == pc = "generating" /\ current # <<>> /\ Statement.tag \in {"DEF", "LET"}
Collected(o, frames) ==
    \A i \in DOMAIN frames : \A k \in DOMAIN frames[i].got : Declared(o, frames[i].got[k])
Numbers == Sound(out, uid) /\ (Collecting => Collected(out, stack))

LEMMA CollectedGiven ==
    ASSUME Ways, stack # <<>>, NEW o, NEW p, Collected(o, stack),
           \A id : Declared(o, id) => Declared(p, id),
           NEW result, Declared(p, result), Give(result)
    PROVE  Collected(p, stack')
<1>1. stack' = Given(stack, result)
  BY DEF Give, Given, Depth
<1>2. \A i \in DOMAIN Given(stack, result) :
         /\ i \in DOMAIN stack
         /\ \A k \in DOMAIN Given(stack, result)[i].got :
               \/ Given(stack, result)[i].got[k] = result
               \/ /\ k \in DOMAIN stack[i].got
                  /\ Given(stack, result)[i].got[k] = stack[i].got[k]
  BY GiveBack DEF Ways
<1>3. ASSUME NEW i \in DOMAIN stack', NEW k \in DOMAIN stack'[i].got
      PROVE  Declared(p, stack'[i].got[k])
  <2>1. \/ stack'[i].got[k] = result
        \/ /\ i \in DOMAIN stack /\ k \in DOMAIN stack[i].got
           /\ stack'[i].got[k] = stack[i].got[k]
    BY <1>1, <1>2
  <2>2. CASE stack'[i].got[k] = result
    BY <2>2
  <2>3. CASE /\ i \in DOMAIN stack /\ k \in DOMAIN stack[i].got
             /\ stack'[i].got[k] = stack[i].got[k]
    <3>1. Declared(o, stack[i].got[k])
      BY <2>3 DEF Collected
    <3> QED
      BY <2>3, <3>1
  <2> QED
    BY <2>1, <2>2, <2>3
<1> QED
  BY <1>3 DEF Collected

\* A call that has collected nothing yet.
LEMMA CollectedCalled ==
    ASSUME NEW frames, IsSequence(frames), NEW o, Collected(o, frames), NEW syn
    PROVE  Collected(o, Append(frames, [syn |-> syn, got |-> <<>>]))
<1> DEFINE frame == [syn |-> syn, got |-> <<>>]
           longer == Append(frames, frame)
           n == Len(frames)
<1>1. /\ n \in Nat /\ DOMAIN frames = 1 .. n /\ DOMAIN longer = 1 .. n + 1
      /\ \A i \in 1 .. n : longer[i] = frames[i]
      /\ longer[n + 1] = frame
  BY Appended
<1>2. DOMAIN frame.got = {}
  OBVIOUS
<1> HIDE DEF frame, longer, n
<1>3. ASSUME NEW i \in DOMAIN longer, NEW k \in DOMAIN longer[i].got
      PROVE  Declared(o, longer[i].got[k])
  <2>1. i \in 1 .. n
    <3>1. i # n + 1
      BY <1>1, <1>2
    <3> QED
      BY <1>1, <3>1
  <2>2. longer[i] = frames[i] /\ i \in DOMAIN frames
    BY <1>1, <2>1
  <2> QED
    BY <2>2 DEF Collected
<1> QED
  BY <1>3 DEF Collected, longer, frame

\* A step that prints nothing.
LEMMA NothingPrinted ==
    ASSUME Numbers, UNCHANGED out, uid' \in {uid, uid + 1},
           Collecting' => Collected(out, stack')
    PROVE  Numbers'
<1>1. uid \in Nat /\ uid' \in Nat /\ uid <= uid'
  BY DEF Numbers, Sound
<1>2. Sound(out, uid')
  BY <1>1, Higher DEF Numbers
<1>3. Sound(out', uid')
  BY <1>2
<1>4. Collecting' => Collected(out', stack')
  OBVIOUS
<1> QED
  BY <1>3, <1>4 DEF Numbers

\* The torn declaration and one that follows what there is, when the rest of the
\* statement is given up.
LEMMA TornPrinted ==
    ASSUME Numbers, out' = Append(out, Torn), uid' \in {uid, uid + 1}, pc' = "returned"
    PROVE  Numbers'
<1>1. uid \in Nat /\ uid' \in Nat /\ uid <= uid'
  BY DEF Numbers, Sound
<1>2. Follows(Torn, out, uid, uid')
  BY <1>1, Plain, TornIsPlain
<1>3. Sound(out', uid')
  BY <1>2, Adding DEF Numbers
<1> QED
  BY <1>3 DEF Numbers, Collecting

LEMMA OnePrinted ==
    ASSUME Numbers, NEW d, out' = Append(out, d), Follows(d, out, uid, uid'),
           Collecting' => Collected(Append(out, d), stack')
    PROVE  Numbers'
<1>1. Sound(out', uid')
  BY Adding DEF Numbers
<1>2. Collecting' => Collected(out', stack')
  OBVIOUS
<1> QED
  BY <1>1, <1>2 DEF Numbers

LEMMA OneFails ==
    ASSUME Numbers, NEW d, PrintFails(<<d>>)
    PROVE  out' = Append(out, Torn) /\ pc' = "returned"
<1>1. PICK k \in 0 .. Len(<<d>>) - 1 : out' = out \o SubSeq(<<d>>, 1, k) \o <<Torn>>
  BY DEF PrintFails
<1>2. k = 0
  OBVIOUS
<1>3. IsSequence(out)
  BY DEF Numbers, Sound
<1>4. out \o SubSeq(<<d>>, 1, 0) \o <<Torn>> = Append(out, Torn)
  BY <1>3, CutOff
<1> QED
  BY <1>1, <1>2, <1>4 DEF PrintFails, Return

\* Two declarations, or what is left of them.
LEMMA TwoPrinted ==
    ASSUME IsSequence(out), NEW d, NEW e
    PROVE  /\ out' = out \o <<d, e>> => out' = Append(Append(out, d), e)
           /\ PrintFails(<<d, e>>) =>
                 /\ pc' = "returned"
                 /\ out' = Append(out, Torn) \/ out' = Append(Append(out, d), Torn)
<1>1. out \o <<d, e>> = Append(Append(out, d), e)
  BY CutOff
<1>2. ASSUME PrintFails(<<d, e>>)
      PROVE  pc' = "returned" /\ (out' = Append(out, Torn) \/ out' = Append(Append(out, d), Torn))
  <2>1. PICK k \in 0 .. Len(<<d, e>>) - 1 : out' = out \o SubSeq(<<d, e>>, 1, k) \o <<Torn>>
    BY <1>2 DEF PrintFails
  <2>2. k \in 0 .. 1
    OBVIOUS
  <2> DEFINE cut == SubSeq(<<d, e>>, 1, k)
  <2>3. out' = out \o cut \o <<Torn>> /\ cut \in {<<>>, <<d>>}
    BY <2>1, <2>2, CutOff, Zenon
  <2> HIDE DEF cut
  <2>4. out' \in {Append(out, Torn), Append(Append(out, d), Torn)}
    BY <2>3, CutOff
  <2>5. pc' = "returned"
    BY <1>2 DEF PrintFails, Return
  <2> QED
    BY <2>4, <2>5
<1> QED
  BY <1>1, <1>2

LEMMA Printed ==
    ASSUME Numbers, Ways, Collecting, Complete, NEW d, Emit(d),
           Follows(d, out, uid, uid'), uid' \in {uid, uid + 1}
    PROVE  Numbers'
<1>1. CASE PrintFails(<<d>>)
  <2>1. out' = Append(out, Torn) /\ pc' = "returned"
    BY <1>1, OneFails
  <2> QED
    BY <2>1, TornPrinted
<1>2. CASE out' = Append(out, d) /\ Give(d.id)
  <2>1. /\ \A id : Declared(out, id) => Declared(Append(out, d), id)
        /\ Declared(Append(out, d), d.id)
    BY Adding DEF Numbers
  <2>2. Collected(out, stack) /\ stack # <<>>
    BY DEF Numbers, Complete
  <2>3. Collected(Append(out, d), stack')
    BY <1>2, <2>1, <2>2, CollectedGiven
  <2> QED
    BY <1>2, <2>3, OnePrinted
<1> QED
  BY <1>1, <1>2 DEF Emit

LEMMA JoinedDeclared ==
    ASSUME NEW o, NEW s, IsSequence(s), NEW t, IsSequence(t),
           \A k \in DOMAIN s : Declared(o, s[k]), \A k \in DOMAIN t : Declared(o, t[k])
    PROVE  \A id \in Range(s \o t) : Declared(o, id)
<1>1. PICK S, T : s \in Seq(S) /\ t \in Seq(T)
  BY DEF IsSequence
<1> DEFINE Wider == S \cup T
           r == s \o t
<1>2. s \in Seq(Wider) /\ t \in Seq(Wider)
  BY <1>1
<1> HIDE DEF Wider
<1>3. /\ r \in Seq(Wider) /\ Len(r) = Len(s) + Len(t)
      /\ \A k \in 1 .. Len(s) + Len(t) : r[k] = IF k <= Len(s) THEN s[k] ELSE t[k - Len(s)]
  BY <1>2, ConcatProperties
<1>4. /\ Len(s) \in Nat /\ DOMAIN s = 1 .. Len(s)
      /\ Len(t) \in Nat /\ DOMAIN t = 1 .. Len(t)
  BY <1>2
<1> HIDE DEF r
<1>5. DOMAIN r = 1 .. Len(s) + Len(t)
  BY <1>3
<1>6. ASSUME NEW k \in DOMAIN r
      PROVE  Declared(o, r[k])
  <2>1. CASE k <= Len(s)
    <3>1. k \in DOMAIN s /\ r[k] = s[k]
      BY <2>1, <1>3, <1>4, <1>5
    <3> QED
      BY <3>1, Zenon
  <2>2. CASE ~(k <= Len(s))
    <3>1. k - Len(s) \in DOMAIN t /\ r[k] = t[k - Len(s)]
      BY <2>2, <1>3, <1>4, <1>5
    <3> QED
      BY <3>1, Zenon
  <2> QED
    BY <2>1, <2>2
<1>7. \A id \in Range(r) : Declared(o, id)
  BY <1>6, Zenon DEF Range
<1> QED
  BY <1>7 DEF r

\* A function is no number.
LEMMA UsesNoNumber ==
    ASSUME NEW syn
    PROVE  /\ IsSequence(Uses(syn))
           /\ \A k \in DOMAIN Uses(syn) : "number" \notin DOMAIN Uses(syn)[k]
<1>1. CASE \E type, name : Uses(syn) = <<Function(type, name)>>
  <2>1. PICK f : Uses(syn) = <<f>> /\ "number" \notin DOMAIN f
    BY <1>1, NotNumbers
  <2>2. <<f>> \in Seq({f}) /\ \A k \in DOMAIN <<f>> : <<f>>[k] = f
    OBVIOUS
  <2> QED
    BY <2>1, <2>2 DEF IsSequence
<1>2. CASE Uses(syn) = <<>>
  <2>1. <<>> \in Seq({})
    OBVIOUS
  <2> QED
    BY <1>2, <2>1 DEF IsSequence
<1> QED
  BY <1>1, <1>2 DEF Uses

\* A node refers to what its parts gave it, and to a function.
LEMMA NodeFollows ==
    ASSUME Numbers, Ways, Collecting, Complete, Advance
    PROVE  Follows(Declaration(Signed, Top.syn.tag, Top.got \o Uses(Top.syn), Data(Top.syn)),
                   out, uid, uid')
<1> DEFINE refs == Top.got \o Uses(Top.syn)
           d == Declaration(Signed, Top.syn.tag, refs, Data(Top.syn))
<1>1. uid \in Nat /\ uid' = IF Depth = 0 THEN uid ELSE uid + 1
  BY DEF Numbers, Sound, Advance
<1>2. d.refs = refs /\ d.id = Signed
  BY DEF Declaration
<1>3. "number" \in DOMAIN Signed => uid < uid' /\ Signed = Numbered(uid)
  BY <1>1, NotNumbers DEF Signed
<1>4. Top = stack[Len(stack)] /\ Len(stack) \in DOMAIN stack /\ IsSequence(Top.got)
  <2>1. IsSequence(stack) /\ stack # <<>>
    BY DEF Ways, WayDown, Complete
  <2>2. DOMAIN stack = 1 .. Len(stack) /\ Len(stack) \in Nat /\ Len(stack) # 0
    BY <2>1, Appended, Emptiness
  <2>3. Len(stack) \in DOMAIN stack
    BY <2>2
  <2>4. IsFrame(Top)
    BY <2>3 DEF Ways, WayDown, Top
  <2> QED
    BY <2>3, <2>4, FrameFacts DEF Top
<1>5. \A k \in DOMAIN Top.got : Declared(out, Top.got[k])
  BY <1>4 DEF Numbers, Collected
<1>6. IsSequence(Uses(Top.syn)) /\ \A k \in DOMAIN Uses(Top.syn) :
         "number" \notin DOMAIN Uses(Top.syn)[k]
  BY UsesNoNumber
<1>7. \A id \in Range(refs) : Declared(out, id)
  <2>1. IsSequence(Uses(Top.syn))
    BY <1>6
  <2>2. \A k \in DOMAIN Uses(Top.syn) : Declared(out, Uses(Top.syn)[k])
    BY <1>6 DEF Declared
  <2> QED
    BY <1>4, <1>5, <2>1, <2>2, JoinedDeclared
<1> HIDE DEF refs, d
<1>8. uid' \in Nat /\ uid <= uid'
  BY <1>1
<1>9. Follows(d, out, uid, uid')
  BY <1>2, <1>3, <1>7, <1>8 DEF Follows
<1> QED
  BY <1>9 DEF d, refs

\* The words of a set and its parser, of which the second refers to the first.
LEMMA SetPrinted ==
    ASSUME Numbers, NEW name, NEW members, uid' = uid + 1, ~Collecting',
           LET words == Declaration(Numbered(uid), "words", <<>>, <<members>>)
               parser == Declaration(Named(name), "SET", <<Numbered(uid)>>, <<>>)
           IN  out' = out \o <<words, parser>> \/ PrintFails(<<words, parser>>)
    PROVE  Numbers'
<1> DEFINE words == Declaration(Numbered(uid), "words", <<>>, <<members>>)
           parser == Declaration(Named(name), "SET", <<Numbered(uid)>>, <<>>)
           more == Append(out, words)
<1>1. uid \in Nat /\ uid' \in Nat /\ uid < uid' /\ IsSequence(out)
  BY DEF Numbers, Sound
<1>2. /\ Range(words.refs) = {} /\ words.id = Numbered(uid)
      /\ Range(parser.refs) = {Numbered(uid)} /\ parser.id = Named(name)
  BY DEF Declaration, Range
<1> HIDE DEF words, parser
<1>3. Follows(words, out, uid, uid')
  BY <1>1, <1>2 DEF Follows
<1>4. Sound(more, uid') /\ Declared(more, Numbered(uid))
  BY <1>2, <1>3, Adding DEF Numbers
<1> HIDE DEF more
<1>5. Follows(parser, more, uid', uid')
  BY <1>1, <1>2, <1>4, NotNumbers DEF Follows
<1>6. Follows(Torn, more, uid', uid')
  BY <1>1, Plain, TornIsPlain
<1>7. Sound(Append(more, parser), uid') /\ Sound(Append(more, Torn), uid')
  BY <1>4, <1>5, <1>6, Adding
<1>8. Follows(Torn, out, uid, uid')
  BY <1>1, Plain, TornIsPlain
<1>9. Sound(Append(out, Torn), uid')
  BY <1>8, Adding DEF Numbers
<1>10. out' \in {Append(more, parser), Append(more, Torn), Append(out, Torn)}
  <2>1. out' = out \o <<words, parser>> \/ PrintFails(<<words, parser>>)
    BY DEF words, parser
  <2>2. /\ out' = out \o <<words, parser>> => out' = Append(more, parser)
        /\ PrintFails(<<words, parser>>) =>
              out' = Append(out, Torn) \/ out' = Append(more, Torn)
    BY <1>1, TwoPrinted DEF more
  <2> QED
    BY <2>1, <2>2
<1>11. Sound(out', uid')
  BY <1>7, <1>9, <1>10
<1> QED
  BY <1>11 DEF Numbers

LEMMA NumbersStep ==
    ASSUME Numbers, Ways, Ways', [Next]_vars
    PROVE  Numbers'
<1>0. ASSUME NEW d, "number" \notin DOMAIN d.id, Range(d.refs) = {}, uid' = uid
      PROVE  Follows(d, out, uid, uid')
  BY <1>0, Plain DEF Numbers, Sound
<1>1. CASE Include
  <2>1. CASE PrintFails(<<Torn>>)
    BY <1>1, <2>1, OneFails, TornPrinted DEF Include
  <2>2. CASE pc' = "scanning" /\ UNCHANGED out
    BY <1>1, <2>2, NothingPrinted DEF Include, Collecting
  <2> QED
    BY <1>1, <2>1, <2>2 DEF Include
<1>2. CASE ScanStatement \/ Scanned \/ ScanAborts \/ EndScan
  <2>1. pc' # "generating" /\ UNCHANGED <<out, uid>>
    BY <1>2 DEF ScanStatement, Scanned, ScanAborts, EndScan
  <2> QED
    BY <2>1, NothingPrinted DEF Collecting
<1>3. ASSUME NEW name, DeclareFunction(name)
      PROVE  Numbers'
  <2>1. pc' # "generating" /\ uid' = uid
    BY <1>3 DEF DeclareFunction
  <2>2. CASE UNCHANGED out
    BY <2>1, <2>2, NothingPrinted DEF Collecting
  <2>3. CASE out' = Append(out, Extern(Function(functions[name], name)))
    <3>1. Follows(Extern(Function(functions[name], name)), out, uid, uid')
      BY <1>0, <2>1, ExternIsPlain, NotNumbers
    <3> QED
      BY <2>1, <2>3, <3>1, OnePrinted DEF Collecting
  <2> QED
    BY <1>3, <2>2, <2>3 DEF DeclareFunction
<1>4. CASE EndDeclare
  <2>1. current' = <<>> /\ UNCHANGED <<out, uid>>
    BY <1>4 DEF EndDeclare, Ways
  <2> QED
    BY <2>1, NothingPrinted DEF Collecting
<1>5. CASE GenExtern
  <2>1. PICK name :
          \/ out' = Append(out, Extern(Named(name))) /\ current' = current
          \/ PrintFails(<<Extern(Named(name))>>)
    BY <1>5 DEF GenExtern
  <2>2. uid' = uid /\ current = <<>>
    BY <1>5 DEF GenExtern
  <2>3. CASE out' = Append(out, Extern(Named(name))) /\ current' = current
    <3>1. Follows(Extern(Named(name)), out, uid, uid')
      BY <1>0, <2>2, ExternIsPlain, NotNumbers
    <3> QED
      BY <2>2, <2>3, <3>1, OnePrinted DEF Collecting
  <2>4. CASE PrintFails(<<Extern(Named(name))>>)
    BY <2>2, <2>4, OneFails, TornPrinted
  <2> QED
    BY <2>1, <2>3, <2>4
<1>6. CASE GenStatement
  <2>1. stack = <<>> /\ UNCHANGED <<out, uid>>
        /\ stack' = Append(stack, [syn |-> Head(todo).kids[2], got |-> <<>>])
    BY <1>6 DEF GenStatement, Call, Ways
  <2>2. IsSequence(stack) /\ Collected(out, stack)
    BY <2>1 DEF Ways, WayDown, Collected
  <2>3. Collected(out, stack')
    BY <2>1, <2>2, CollectedCalled
  <2> QED
    BY <2>1, <2>3, NothingPrinted
<1>7. CASE GenReference
  <2>1. /\ Collecting /\ stack # <<>> /\ Give(Named(Top.syn.text))
        /\ UNCHANGED <<out, uid>>
    BY <1>7 DEF GenReference, Printing, Complete, Collecting
  <2>2. Declared(out, Named(Top.syn.text))
    BY NotNumbers DEF Declared
  <2>3. Collected(out, stack')
    BY <2>1, <2>2, CollectedGiven DEF Numbers
  <2> QED
    BY <2>1, <2>3, NothingPrinted
<1>8. CASE GenAlias
  <2> DEFINE d == Declaration(Named(Name), "alias", <<[unprefixed |-> Top.syn.text]>>, <<>>)
  <2>1. Collecting /\ Complete /\ Emit(d) /\ uid' = uid
    BY <1>8 DEF GenAlias, Printing, Collecting
  <2>2. d.id = Named(Name) /\ Range(d.refs) = {[unprefixed |-> Top.syn.text]}
    BY DEF Declaration, Range
  <2> HIDE DEF d
  <2>3. uid \in Nat
    BY DEF Numbers, Sound
  <2>4. Follows(d, out, uid, uid')
    BY <2>1, <2>2, <2>3, NotNumbers DEF Follows, Declared
  <2> QED
    BY <2>1, <2>4, Printed
<1>9. CASE GenNode
  <2> DEFINE d == Declaration(Signed, Top.syn.tag, Top.got \o Uses(Top.syn), Data(Top.syn))
  <2>1. Collecting /\ Complete /\ Emit(d) /\ Advance
    BY <1>9 DEF GenNode, Printing, Collecting
  <2>2. Follows(d, out, uid, uid')
    BY <2>1, NodeFollows
  <2>3. uid' \in {uid, uid + 1}
    BY <2>1 DEF Advance
  <2> HIDE DEF d
  <2> QED
    BY <2>1, <2>2, <2>3, Printed
<1>10. CASE SetUnknown \/ EndStatements
  <2>1. pc' = "returned" /\ UNCHANGED <<out, uid>>
    BY <1>10 DEF SetUnknown, EndStatements, Return
  <2> QED
    BY <2>1, NothingPrinted DEF Collecting
<1>11. CASE SetPart
  <2>1. Statement.tag = "SET" /\ UNCHANGED <<out, uid, current>>
    BY <1>11 DEF SetPart, Evaluating
  <2> QED
    BY <2>1, NothingPrinted DEF Collecting, Statement
<1>12. CASE GenSet
  <2>1. /\ uid' = uid + 1
        /\ \E members :
             LET words == Declaration(Numbered(uid), "words", <<>>, <<members>>)
                 parser == Declaration(Named(Name), "SET", <<Numbered(uid)>>, <<>>)
             IN  \/ out' = out \o <<words, parser>> /\ current' = <<>>
                 \/ PrintFails(<<words, parser>>)
    BY <1>12 DEF GenSet
  <2>2. ~Collecting'
    BY <2>1 DEF Collecting, PrintFails, Return
  <2>3. PICK members :
          LET words == Declaration(Numbered(uid), "words", <<>>, <<members>>)
              parser == Declaration(Named(Name), "SET", <<Numbered(uid)>>, <<>>)
          IN  out' = out \o <<words, parser>> \/ PrintFails(<<words, parser>>)
    BY <2>1
  <2> QED
    BY <2>1, <2>2, <2>3, SetPrinted
<1>13. CASE Descend
  <2>1. /\ UNCHANGED <<pc, current, out, uid>>
        /\ \E syn : stack' = Append(stack, [syn |-> syn, got |-> <<>>])
    BY <1>13 DEF Descend, Call
  <2>2. Collecting' => Collected(out, stack')
    BY <2>1, CollectedCalled DEF Numbers, Collecting, Statement, Ways, WayDown
  <2> QED
    BY <2>1, <2>2, NothingPrinted
<1>14. CASE UNCHANGED vars
  BY <1>14 DEF vars, Numbers, Sound, Collecting, Collected, Declared, Statement
<1> QED
  BY <1>1, <1>2, <1>3, <1>4, <1>5, <1>6, <1>7, <1>8, <1>9, <1>10, <1>11, <1>12, <1>13, <1>14
     DEF Next, Scan, Declare, Generate

\* For every source, and wherever printing fails, each number that a declaration
\* refers to is that of exactly one declaration above it.
THEOREM NumbersAreDeclaredOnce == Spec => []NumbersInScope
<1>1. Init => Numbers
  <2> SUFFICES ASSUME Init PROVE Numbers
    OBVIOUS
  <2>1. <<>> \in Seq({}) /\ DOMAIN <<>> = {}
    OBVIOUS
  <2> QED
    BY <2>1 DEF Init, Numbers, Sound, IsSequence, Collecting
<1>2. Numbers => NumbersInScope
  BY DEF Numbers, Sound, NumbersInScope
<1> QED
  BY <1>1, <1>2, NumbersStep, CallInvariance, PTL DEF Spec
-----------------------------------------------------------------------------
\* Where the running loop is: the statement it has come to, and those it is done
\* with.
Here == Len(source) - Len(todo)
Passed == 1 .. (IF stack = <<>> THEN Here ELSE Here - 1)

\* The statements are gone through in order, and the calls are in the expression of
\* the one that has been come to.
Placed ==
    /\ \E S : source \in Seq(S) /\ todo \in Seq(S)
    /\ Len(todo) <= Len(source)
    /\ \A k \in 1 .. Len(todo) : todo[k] = source[Here + k]
    /\ current # <<>> =>
          stack # <<>> /\ current = <<source[Here]>> /\ Defines(source[Here])
    /\ pc \in {"scanning", "aborted"} /\ stack # <<>> => HasExpression(source[Here])
    /\ stack # <<>> => Here \in DOMAIN source /\ stack[1].syn = source[Here].kids[2]
    /\ \A i \in DOMAIN stack : Within(stack[i].syn) \subseteq Within(source[Here].kids[2])

LEMMA PlaceFacts ==
    ASSUME Placed
    PROVE  /\ Len(source) \in Nat /\ DOMAIN source = 1 .. Len(source)
           /\ Len(todo) \in Nat /\ DOMAIN todo = 1 .. Len(todo)
           /\ Here \in 0 .. Len(source) /\ Passed \subseteq DOMAIN source
           /\ \A i \in Passed : i <= Here
           /\ stack = <<>> => Passed = 1 .. Here
           /\ stack # <<>> => Passed = 1 .. Here - 1
<1>1. PICK S : source \in Seq(S) /\ todo \in Seq(S)
  BY DEF Placed
<1>2. /\ Len(source) \in Nat /\ DOMAIN source = 1 .. Len(source)
      /\ Len(todo) \in Nat /\ DOMAIN todo = 1 .. Len(todo)
  BY <1>1
<1>3. Here \in 0 .. Len(source)
  BY <1>2 DEF Placed, Here
<1>4. /\ Passed \subseteq DOMAIN source /\ \A i \in Passed : i <= Here
      /\ stack = <<>> => Passed = 1 .. Here
      /\ stack # <<>> => Passed = 1 .. Here - 1
  BY <1>2, <1>3 DEF Passed
<1> QED
  BY <1>2, <1>3, <1>4

\* The loop goes to the next statement.
LEMMA GoesOn ==
    ASSUME Placed, todo # <<>>, todo' = Tail(todo), UNCHANGED source
    PROVE  /\ Here' = Here + 1 /\ Here + 1 \in DOMAIN source
           /\ Head(todo) = source[Here + 1]
           /\ \E S : source' \in Seq(S) /\ todo' \in Seq(S)
           /\ Len(todo') <= Len(source')
           /\ \A k \in 1 .. Len(todo') : todo'[k] = source'[Here' + k]
<1>1. PICK S : source \in Seq(S) /\ todo \in Seq(S)
  BY DEF Placed
<1>2. /\ todo' \in Seq(S) /\ Len(todo') = Len(todo) - 1 /\ Len(todo) \in Nat \ {0}
      /\ Head(todo) = todo[1] /\ \A k \in 1 .. Len(todo') : todo'[k] = todo[k + 1]
  BY <1>1
<1>3. Len(source) \in Nat /\ DOMAIN source = 1 .. Len(source)
  BY <1>1
<1>4. Here' = Here + 1 /\ Here \in Nat
  BY <1>2, <1>3 DEF Placed, Here
<1>5. Here + 1 \in DOMAIN source
  BY <1>2, <1>3, <1>4 DEF Placed, Here
<1>6. Head(todo) = source[Here + 1]
  BY <1>2 DEF Placed
<1>7. ASSUME NEW k \in 1 .. Len(todo')
      PROVE  todo'[k] = source'[Here' + k]
  <2>1. k + 1 \in 1 .. Len(todo) /\ Here' + k = Here + (k + 1)
    BY <1>2, <1>4
  <2>2. todo[k + 1] = source[Here + (k + 1)]
    BY <2>1 DEF Placed
  <2> QED
    BY <1>2, <2>1, <2>2
<1>8. Len(todo') <= Len(source')
  BY <1>2, <1>3 DEF Placed
<1> QED
  BY <1>1, <1>2, <1>4, <1>5, <1>6, <1>7, <1>8

\* Where a result comes to: the part of the call that made it is done.
LEMMA GivenParts ==
    ASSUME WayDown(stack), stack # <<>>, NEW result, Give(result)
    PROVE  /\ Len(stack) \in Nat \ {0} /\ Depth \in Nat /\ Len(stack') = Depth
           /\ DOMAIN stack = 1 .. Len(stack) /\ DOMAIN stack' = 1 .. Depth
           /\ stack' = <<>> <=> Depth = 0
           /\ \A i \in DOMAIN stack' :
                 /\ i \in DOMAIN stack /\ stack'[i].syn = stack[i].syn
                 /\ \A k \in DOMAIN stack'[i].got :
                       \/ k \in DOMAIN stack[i].got /\ stack'[i].got[k] = stack[i].got[k]
                       \/ stack'[i].got[k] = result /\ Parts(stack[i].syn)[k] = Top.syn
<1>1. IsSequence(stack) /\ Depth = Len(stack) - 1
  BY DEF WayDown, Depth
<1>2. Len(stack) \in Nat \ {0} /\ DOMAIN stack = 1 .. Len(stack)
  BY <1>1, Appended, Emptiness
<1>3. stack' = Given(stack, result)
  BY DEF Give, Given, Depth
<1>4. WayDown(stack') /\ Len(stack') = Depth
  BY <1>1, <1>3, GiveBack
<1>5. IsSequence(stack')
  BY <1>4 DEF WayDown
<1>6. DOMAIN stack' = 1 .. Depth /\ (stack' = <<>> <=> Depth = 0)
  BY <1>4, <1>5, Appended, Emptiness
<1>7. ASSUME NEW i \in DOMAIN stack'
      PROVE  /\ i \in DOMAIN stack /\ stack'[i].syn = stack[i].syn
             /\ \A k \in DOMAIN stack'[i].got :
                   \/ k \in DOMAIN stack[i].got /\ stack'[i].got[k] = stack[i].got[k]
                   \/ stack'[i].got[k] = result /\ Parts(stack[i].syn)[k] = Top.syn
  <2> DEFINE got == Append(stack[i].got, result)
  <2>1. i \in DOMAIN stack /\ i \in 1 .. Len(stack) - 1
    BY <1>1, <1>2, <1>6
  <2>2. IsFrame(stack[i])
    BY <2>1 DEF WayDown
  <2>3. CASE i < Depth
    BY <1>1, <2>1, <2>3 DEF Give, Depth
  <2>4. CASE ~(i < Depth)
    <3>1. i = Depth /\ stack[i + 1] = Top
      BY <1>1, <1>2, <1>6, <2>4 DEF Top
    <3>2. stack'[i] = [stack[i] EXCEPT !.got = got]
      BY <1>6, <2>4 DEF Give
    <3>3. IsSequence(stack[i].got) /\ stack[i] = [syn |-> stack[i].syn, got |-> stack[i].got]
      BY <2>2 DEF IsFrame
    <3>4. /\ Len(stack[i].got) \in Nat /\ DOMAIN stack[i].got = 1 .. Len(stack[i].got)
          /\ DOMAIN got = 1 .. Len(stack[i].got) + 1
          /\ \A k \in 1 .. Len(stack[i].got) : got[k] = stack[i].got[k]
          /\ got[Len(stack[i].got) + 1] = result
      BY <3>3, Appended
    <3> HIDE DEF got
    <3>5. stack'[i].syn = stack[i].syn /\ stack'[i].got = got
      BY <3>2, <3>3
    <3>6. Parts(stack[i].syn)[Len(stack[i].got) + 1] = Top.syn
      BY <2>1, <3>1 DEF WayDown
    <3>7. ASSUME NEW k \in DOMAIN got
          PROVE  \/ k \in DOMAIN stack[i].got /\ got[k] = stack[i].got[k]
                 \/ got[k] = result /\ Parts(stack[i].syn)[k] = Top.syn
      <4>1. k \in 1 .. Len(stack[i].got) \/ k = Len(stack[i].got) + 1
        BY <3>4
      <4> QED
        BY <3>4, <3>6, <4>1
    <3> QED
      BY <2>1, <3>5, <3>7
  <2> QED
    BY <2>3, <2>4
<1> QED
  BY <1>1, <1>2, <1>4, <1>6, <1>7

LEMMA CalledParts ==
    ASSUME NEW frames, IsSequence(frames), NEW syn
    PROVE  LET longer == Append(frames, [syn |-> syn, got |-> <<>>])
           IN  /\ longer # <<>> /\ Len(frames) \in Nat
               /\ DOMAIN frames = 1 .. Len(frames) /\ DOMAIN longer = 1 .. Len(frames) + 1
               /\ longer[Len(frames) + 1].syn = syn
               /\ \A i \in DOMAIN longer :
                     \/ i \in DOMAIN frames /\ longer[i] = frames[i]
                     \/ i = Len(frames) + 1 /\ longer[i].syn = syn /\ DOMAIN longer[i].got = {}
<1> DEFINE frame == [syn |-> syn, got |-> <<>>]
           longer == Append(frames, frame)
           n == Len(frames)
<1>1. /\ n \in Nat /\ DOMAIN frames = 1 .. n /\ DOMAIN longer = 1 .. n + 1
      /\ \A i \in 1 .. n : longer[i] = frames[i]
      /\ longer[n + 1] = frame /\ Len(longer) = n + 1 /\ IsSequence(longer)
  BY Appended
<1>2. frame.syn = syn /\ DOMAIN frame.got = {}
  OBVIOUS
<1> HIDE DEF frame, longer, n
<1>3. longer # <<>>
  BY <1>1, Emptiness
<1>4. ASSUME NEW i \in DOMAIN longer
      PROVE  \/ i \in DOMAIN frames /\ longer[i] = frames[i]
             \/ i = n + 1 /\ longer[i].syn = syn /\ DOMAIN longer[i].got = {}
  <2>1. i \in 1 .. n \/ i = n + 1
    BY <1>1
  <2> QED
    BY <1>1, <1>2, <2>1
<1> QED
  BY <1>1, <1>2, <1>3, <1>4 DEF longer, frame, n

\* An expression has what its parts have in them, and itself.
LEMMA WithinParts ==
    ASSUME NEW syn \in Nodes
    PROVE  /\ Within(syn) = {syn} \cup UNION {Within(Parts(syn)[i]) : i \in DOMAIN Parts(syn)}
           /\ syn \in Within(syn)
           /\ \A i \in DOMAIN Parts(syn) : Within(Parts(syn)[i]) \subseteq Within(syn)
<1>1. Within(syn) = AllOf(Within, syn)
  BY MeaningAssumption
<1>2. Within(syn) = {syn} \cup UNION {Within(Parts(syn)[i]) : i \in DOMAIN Parts(syn)}
  BY <1>1, Zenon DEF AllOf
<1> QED
  BY <1>2

\* The innermost call.
LEMMA TopFacts ==
    ASSUME Ways, Placed, stack # <<>>
    PROVE  /\ Len(stack) \in Nat \ {0} /\ DOMAIN stack = 1 .. Len(stack)
           /\ Len(stack) \in DOMAIN stack /\ Top = stack[Len(stack)] /\ IsFrame(Top)
           /\ Top.syn \in Nodes /\ IsSequence(Top.got)
           /\ Here \in DOMAIN source
           /\ Top.syn \in Within(source[Here].kids[2])
           /\ Within(Top.syn) \subseteq Within(source[Here].kids[2])
           /\ Depth = 0 => Top.syn = source[Here].kids[2]
<1>1. IsSequence(stack)
  BY DEF Ways, WayDown
<1>2. Len(stack) \in Nat \ {0} /\ DOMAIN stack = 1 .. Len(stack)
  BY <1>1, Appended, Emptiness
<1>3. Len(stack) \in DOMAIN stack /\ Top = stack[Len(stack)]
  BY <1>2 DEF Top
<1>4. IsFrame(Top)
  BY <1>3 DEF Ways, WayDown
<1>5. Top.syn \in Nodes /\ IsSequence(Top.got)
  BY <1>4, FrameFacts
<1>6. Within(Top.syn) \subseteq Within(source[Here].kids[2]) /\ Here \in DOMAIN source
  BY <1>3 DEF Placed
<1>7. Top.syn \in Within(Top.syn)
  BY <1>5, WithinParts
<1>8. Depth = 0 => Len(stack) = 1
  BY <1>2 DEF Depth
<1> QED
  <2>1. Depth = 0 => Top.syn = source[Here].kids[2]
    BY <1>3, <1>8 DEF Placed
  <2>2. Top.syn \in Within(source[Here].kids[2])
    BY <1>6, <1>7
  <2> QED
    BY <1>2, <1>3, <1>4, <1>5, <1>6, <2>1, <2>2

\* Every part of a call that is complete has its result.
LEMMA AllParts ==
    ASSUME Ways, Placed, Complete
    PROVE  /\ DOMAIN Top.got = 1 .. Len(Top.got) /\ Len(Top.got) \in Nat
           /\ DOMAIN Parts(Top.syn) = DOMAIN Top.got
           /\ Len(Parts(Top.syn)) = Len(Top.got)
<1>1. Top.syn \in Nodes /\ IsSequence(Top.got)
  BY TopFacts DEF Complete
<1>2. DOMAIN Top.got = 1 .. Len(Top.got) /\ Len(Top.got) \in Nat
  BY <1>1, Appended
<1>3. DOMAIN Parts(Top.syn) = 1 .. Len(Parts(Top.syn))
  <2>1. Parts(Top.syn) \in Seq(Nodes)
    BY <1>1, PartsAreNodes
  <2> QED
    BY <2>1
<1> QED
  BY <1>2, <1>3 DEF Complete

\* The call on the next part of an expression.
LEMMA NextPart ==
    ASSUME Ways, Placed, stack # <<>>, ~Complete
    PROVE  /\ Len(Top.got) + 1 \in DOMAIN Parts(Top.syn)
           /\ Parts(Top.syn)[Len(Top.got) + 1] \in Nodes
           /\ Within(Parts(Top.syn)[Len(Top.got) + 1]) \subseteq Within(Top.syn)
<1>1. IsFrame(Top) /\ Top.syn \in Nodes
  BY TopFacts
<1>2. /\ Len(Top.got) \in Nat /\ Len(Parts(Top.syn)) \in Nat
      /\ Len(Top.got) <= Len(Parts(Top.syn))
  BY <1>1, FrameFacts
<1>3. Parts(Top.syn) \in Seq(Nodes)
  BY <1>1, PartsAreNodes
<1>4. DOMAIN Parts(Top.syn) = 1 .. Len(Parts(Top.syn))
  BY <1>3
<1>5. Len(Top.got) # Len(Parts(Top.syn))
  BY DEF Complete
<1>6. Len(Top.got) + 1 \in 1 .. Len(Parts(Top.syn))
  BY <1>2, <1>5
<1> QED
  BY <1>1, <1>3, <1>4, <1>6, WithinParts, PartsAreNodes

\* The steps of Placed.
LEMMA PlacedReturned ==
    ASSUME Placed, NEW code, Return(code), UNCHANGED source
    PROVE  Placed'
<1>1. /\ stack' = <<>> /\ todo' = <<>> /\ current' = <<>> /\ pc' = "returned"
      /\ DOMAIN <<>> = {} /\ Len(<<>>) = 0
  BY DEF Return
<1>2. PICK S : source \in Seq(S)
  BY DEF Placed
<1>3. source' \in Seq(S) /\ todo' \in Seq(S) /\ Len(source') \in Nat
  BY <1>1, <1>2
<1> QED
  BY <1>1, <1>3 DEF Placed

LEMMA PlacedGiven ==
    ASSUME Ways, Placed, stack # <<>>, NEW result, Give(result), UNCHANGED <<source, todo, pc>>,
           current' = current \/ current' = <<>>, current' # <<>> => stack' # <<>>
    PROVE  Placed'
<1>1. /\ DOMAIN stack' = 1 .. Depth /\ Depth \in Nat
      /\ stack' = <<>> <=> Depth = 0
      /\ \A i \in DOMAIN stack' : i \in DOMAIN stack /\ stack'[i].syn = stack[i].syn
  BY GivenParts DEF Ways
<1>2. Here' = Here
  BY DEF Here
<1>3. stack' # <<>> => stack'[1].syn = stack[1].syn
  BY <1>1
<1> QED
  BY <1>1, <1>2, <1>3 DEF Placed

LEMMA PlacedCalled ==
    ASSUME Ways, Placed, Descend
    PROVE  Placed'
<1> DEFINE part == Parts(Top.syn)[Len(Top.got) + 1]
           n == Len(stack)
<1>1. /\ stack # <<>> /\ ~Complete /\ stack' = Append(stack, [syn |-> part, got |-> <<>>])
      /\ UNCHANGED <<source, todo, pc, current>> /\ IsSequence(stack)
  BY DEF Descend, Call, scanned, Ways, WayDown
<1>2. Within(part) \subseteq Within(source[Here].kids[2])
  BY <1>1, NextPart, TopFacts
<1>3. n \in Nat \ {0} /\ DOMAIN stack = 1 .. n
  BY <1>1, TopFacts
<1> HIDE DEF part
<1>4. /\ stack' # <<>>
      /\ DOMAIN stack' = 1 .. n + 1
      /\ \A i \in DOMAIN stack' :
            \/ i \in DOMAIN stack /\ stack'[i] = stack[i]
            \/ i = n + 1 /\ stack'[i].syn = part
  BY <1>1, CalledParts
<1>5. stack'[1].syn = stack[1].syn
  BY <1>3, <1>4
<1>6. Here' = Here
  BY <1>1 DEF Here
<1>7. \A i \in DOMAIN stack' : Within(stack'[i].syn) \subseteq Within(source'[Here'].kids[2])
  BY <1>1, <1>2, <1>4, <1>6 DEF Placed
<1> QED
  BY <1>1, <1>4, <1>5, <1>6, <1>7 DEF Placed

\* A statement is begun, or passed over.
LEMMA PlacedBegun ==
    ASSUME Ways, Placed, stack = <<>>, todo # <<>>, todo' = Tail(todo), UNCHANGED <<source, pc>>,
           Call(Head(todo).kids[2]), Defines(Head(todo)),
           pc = "generating" \/ (pc = "scanning" /\ HasExpression(Head(todo))),
           current' = <<>> \/ current' = <<Head(todo)>>
    PROVE  Placed'
<1> DEFINE exp == source[Here + 1].kids[2]
<1>1. /\ Here' = Here + 1 /\ Here + 1 \in DOMAIN source /\ Head(todo) = source[Here + 1]
      /\ \E S : source' \in Seq(S) /\ todo' \in Seq(S)
      /\ Len(todo') <= Len(source')
      /\ \A k \in 1 .. Len(todo') : todo'[k] = source'[Here' + k]
  BY GoesOn
<1>2. stack' = Append(<<>>, [syn |-> exp, got |-> <<>>]) /\ IsSequence(<<>>) /\ Len(<<>>) = 0
  BY <1>1 DEF Call, Ways, WayDown
<1>3. exp = source'[Here'].kids[2]
  BY <1>1
<1>4. \E S : <<>> \in Seq(S)
  BY DEF IsSequence
<1> HIDE DEF exp
<1>5. /\ stack' # <<>>
      /\ DOMAIN stack' = 1 .. 0 + 1 /\ stack'[0 + 1].syn = exp
      /\ \A i \in DOMAIN stack' :
            \/ i \in DOMAIN <<>> /\ stack'[i] = <<>>[i]
            \/ i = 0 + 1 /\ stack'[i].syn = exp
  BY <1>2, CalledParts
<1>6. stack'[1].syn = exp /\ \A i \in DOMAIN stack' : stack'[i].syn = exp
  BY <1>5
<1>7. \A i \in DOMAIN stack' : Within(stack'[i].syn) \subseteq Within(source'[Here'].kids[2])
  BY <1>3, <1>6
<1>8. Here' \in DOMAIN source' /\ Head(todo) = source'[Here']
  BY <1>1
<1> QED
  BY <1>1, <1>3, <1>5, <1>6, <1>7, <1>8 DEF Placed

LEMMA PlacedSkipped ==
    ASSUME Ways, Placed, stack = <<>>, todo # <<>>, todo' = Tail(todo),
           UNCHANGED <<source, pc, stack, current>>
    PROVE  Placed'
<1>1. /\ \E S : source' \in Seq(S) /\ todo' \in Seq(S)
      /\ Len(todo') <= Len(source')
      /\ \A k \in 1 .. Len(todo') : todo'[k] = source'[Here' + k]
  BY GoesOn
<1>2. stack' = <<>> /\ current' = <<>> /\ DOMAIN <<>> = {}
  BY DEF Placed
<1> QED
  BY <1>1, <1>2 DEF Placed

LEMMA PlacedStep ==
    ASSUME Ways, Placed, [Next]_vars
    PROVE  Placed'
<1>0. ASSUME UNCHANGED <<source, stack, todo, current>>,
             stack = <<>> \/ pc' = pc \/ (pc = "scanning" /\ pc' = "aborted")
      PROVE  Placed'
  <2>1. Here' = Here
    BY <1>0 DEF Here
  <2>2. pc' \in {"scanning", "aborted"} /\ stack' # <<>> => HasExpression(source'[Here'])
    BY <1>0, <2>1 DEF Placed
  <2> QED
    BY <1>0, <2>1, <2>2 DEF Placed
<1>1. CASE Include
  <2>1. CASE PrintFails(<<Torn>>)
    BY <1>1, <2>1, PlacedReturned DEF Include, PrintFails, scanned
  <2> QED
    BY <1>1, <1>0, <2>1 DEF Include, Ways, scanned
<1>2. CASE ScanStatement
  <2>1. stack = <<>> /\ todo # <<>> /\ todo' = Tail(todo) /\ UNCHANGED <<source, pc, current>>
        /\ current' = <<>> /\ pc = "scanning"
    BY <1>2 DEF ScanStatement, scanned, Ways
  <2>2. CASE Head(todo).tag \in {"DEF", "LET"}
    <3>1. Call(Head(todo).kids[2]) /\ Defines(Head(todo)) /\ HasExpression(Head(todo))
      BY <1>2, <2>2 DEF ScanStatement, Defines, HasExpression
    <3> QED
      BY <2>1, <3>1, PlacedBegun
  <2>3. CASE ~(Head(todo).tag \in {"DEF", "LET"})
    BY <1>2, <2>1, <2>3, PlacedSkipped DEF ScanStatement
  <2> QED
    BY <2>2, <2>3
<1>3. CASE Scanned
  <2>1. stack # <<>> /\ Give(<<>>) /\ current = <<>> /\ UNCHANGED <<source, todo, pc, current>>
    BY <1>3 DEF Scanned, Complete, Ways
  <2> QED
    BY <2>1, PlacedGiven
<1>4. CASE ScanAborts \/ EndScan \/ (\E name \in Undeclared : DeclareFunction(name))
  BY <1>4, <1>0 DEF ScanAborts, EndScan, DeclareFunction, scanned
<1>5. CASE EndDeclare
  <2>1. stack' = <<>> /\ current' = <<>> /\ todo' = source /\ source' = source
    BY <1>5 DEF EndDeclare, scanned, Ways
  <2>2. PICK S : source \in Seq(S)
    BY DEF Placed
  <2>3. Len(source) \in Nat
    BY <2>2
  <2>4. Here' = 0
    BY <2>1, <2>3 DEF Here
  <2>5. /\ source' \in Seq(S) /\ todo' \in Seq(S) /\ Len(todo') <= Len(source')
        /\ \A k \in 1 .. Len(todo') : todo'[k] = source'[Here' + k]
    BY <2>1, <2>2, <2>3, <2>4
  <2> QED
    BY <2>1, <2>5 DEF Placed
<1>6. CASE GenExtern
  <2>1. CASE \E d : PrintFails(<<d>>)
    BY <1>6, <2>1, PlacedReturned DEF GenExtern, PrintFails, scanned
  <2>2. CASE todo' = Tail(todo) /\ UNCHANGED <<pc, current, stack>>
    <3>1. stack = <<>> /\ todo # <<>> /\ UNCHANGED source
      BY <1>6 DEF GenExtern, scanned, Ways
    <3> QED
      BY <2>2, <3>1, PlacedSkipped
  <2> QED
    BY <1>6, <2>1, <2>2 DEF GenExtern
<1>7. CASE GenStatement
  <2>1. /\ stack = <<>> /\ todo # <<>> /\ todo' = Tail(todo) /\ UNCHANGED <<source, pc>>
        /\ Call(Head(todo).kids[2]) /\ current' = <<Head(todo)>> /\ pc = "generating"
    BY <1>7 DEF GenStatement, scanned, Ways
  <2>2. Defines(Head(todo))
    BY <1>7 DEF GenStatement, Defines
  <2> QED
    BY <2>1, <2>2, PlacedBegun
<1>8. CASE GenReference \/ SetPart
  <2>1. /\ stack # <<>> /\ Depth > 0 /\ UNCHANGED <<source, todo, pc, current>>
    BY <1>8 DEF GenReference, SetPart, Printing, Evaluating, Complete, scanned
  <2>2. PICK result : Give(result)
    BY <1>8 DEF GenReference, SetPart
  <2>3. stack' # <<>>
    BY <2>1, <2>2, GivenParts DEF Ways
  <2> QED
    BY <2>1, <2>2, <2>3, PlacedGiven
<1>9. CASE GenAlias \/ GenNode
  <2>1. PICK d : Emit(d)
    BY <1>9 DEF GenAlias, GenNode
  <2>2. stack # <<>> /\ UNCHANGED source
    BY <1>9 DEF GenAlias, GenNode, Printing, Complete, scanned
  <2>3. CASE PrintFails(<<d>>)
    BY <2>2, <2>3, PlacedReturned DEF PrintFails
  <2>4. CASE /\ Give(d.id) /\ current' = IF Depth = 0 THEN <<>> ELSE current
             /\ UNCHANGED <<pc, todo>>
    <3>1. stack' = <<>> <=> Depth = 0
      BY <2>2, <2>4, GivenParts DEF Ways
    <3> QED
      BY <2>2, <2>4, <3>1, PlacedGiven
  <2> QED
    BY <2>1, <2>3, <2>4 DEF Emit
<1>10. CASE SetUnknown \/ EndStatements
  BY <1>10, PlacedReturned DEF SetUnknown, EndStatements, scanned
<1>11. CASE GenSet
  <2>1. /\ stack # <<>> /\ UNCHANGED source
        /\ \/ \E members : Give(members) /\ current' = <<>> /\ UNCHANGED <<pc, todo>>
           \/ \E declarations : PrintFails(declarations)
    BY <1>11 DEF GenSet, Evaluating, Complete, scanned
  <2>2. CASE \E declarations : PrintFails(declarations)
    BY <2>1, <2>2, PlacedReturned DEF PrintFails
  <2> QED
    BY <2>1, <2>2, PlacedGiven
<1>12. CASE Descend
  BY <1>12, PlacedCalled
<1>13. CASE UNCHANGED vars
  BY <1>13, <1>0 DEF vars
<1> QED
  BY <1>1, <1>2, <1>3, <1>4, <1>5, <1>6, <1>7, <1>8, <1>9, <1>10, <1>11, <1>12, <1>13
     DEF Next, Scan, Declare, Generate

LEMMA PlacedFirst == Init => Placed
<1> SUFFICES ASSUME Init PROVE Placed
  OBVIOUS
<1>1. source \in Sources /\ todo = source /\ stack = <<>> /\ current = <<>> /\ DOMAIN <<>> = {}
  BY DEF Init
<1>2. source \in Seq(Range(source))
  BY <1>1, GeneratorAssumption
<1>3. Len(source) \in Nat
  BY <1>2
<1>4. Here = 0
  BY <1>1, <1>3 DEF Here
<1>5. \A k \in 1 .. Len(todo) : todo[k] = source[Here + k]
  BY <1>1, <1>3, <1>4
<1>6. /\ \E S : source \in Seq(S) /\ todo \in Seq(S)
      /\ Len(todo) <= Len(source)
  BY <1>1, <1>2, <1>3
<1> QED
  BY <1>1, <1>5, <1>6 DEF Placed

LEMMA InExpressions ==
    ASSUME NEW i \in DOMAIN source, HasExpression(source[i]),
           NEW x \in Within(source[i].kids[2])
    PROVE  x \in Expressions
BY Zenon DEF Expressions

\* The functions of the source that have been entered.
Entered(x) == IsNamed(x) /\ \A i \in DOMAIN Uses(x) : Uses(x)[i].function \in DOMAIN functions
EnteredHere ==
    /\ \A i \in Passed : HasExpression(source[i]) =>
          \A x \in Within(source[i].kids[2]) : Entered(x)
    /\ \A i \in DOMAIN stack : \A k \in DOMAIN stack[i].got :
          \A x \in Within(Parts(stack[i].syn)[k]) : Entered(x)
AllNamed == \A x \in Expressions : Entered(x)
Gathered ==
    /\ \A n \in DOMAIN functions :
          \E x \in Expressions : IsNamed(x) /\ Uses(x) = <<Function(functions[n], n)>>
    /\ pc = "starting" => todo = source
    /\ pc = "scanning" => EnteredHere
    /\ pc \in {"declaring", "generating"} \/ (pc = "returned" /\ res = "OK") => AllNamed
    /\ pc = "aborted" => \E x \in Expressions : ~IsNamed(x)

\* Entering the function of an expression leaves the others entered.
LEMMA Entering ==
    ASSUME NEW syn, IsNamed(syn), EnterUses(syn), UNCHANGED source,
           syn \in Expressions,
           \A n \in DOMAIN functions :
              \E x \in Expressions : IsNamed(x) /\ Uses(x) = <<Function(functions[n], n)>>
    PROVE  /\ \A x : Entered(x) => Entered(x)'
           /\ Entered(syn)'
           /\ \A n \in DOMAIN functions' :
                 \E x \in Expressions' : IsNamed(x) /\ Uses(x) = <<Function(functions'[n], n)>>
<1>1. Expressions' = Expressions
  BY DEF Expressions
<1>2. CASE syn.tag \notin {"CALL", "HOOK"}
  <2>1. functions' = functions
    BY <1>2 DEF EnterUses
  <2>2. Uses(syn) = <<>>
    BY <1>2 DEF Uses
  <2>3. DOMAIN Uses(syn) = {}
    BY <2>2
  <2>4. Entered(syn)'
    BY <2>3 DEF Entered
  <2>5. \A x : Entered(x) => Entered(x)'
    BY <2>1 DEF Entered
  <2> QED
    BY <1>1, <2>1, <2>4, <2>5
<1>3. CASE syn.tag \in {"CALL", "HOOK"}
  <2>1. PICK type, name : Enter(type, name) /\ Uses(syn) = <<Function(type, name)>>
    <3>1. CASE syn.tag = "CALL"
      BY <3>1 DEF EnterUses, Uses
    <3>2. CASE syn.tag = "HOOK"
      BY <3>2 DEF EnterUses, Uses
    <3> QED
      BY <1>3, <3>1, <3>2
  <2>2. /\ DOMAIN functions' = DOMAIN functions \cup {name}
        /\ \A n \in DOMAIN functions : functions'[n] = functions[n]
        /\ name \notin DOMAIN functions => functions'[name] = type
    BY <2>1 DEF Enter
  <2>3. \A i \in DOMAIN Uses(syn) : Uses(syn)[i].function = name
    BY <2>1 DEF Function
  <2>4. Entered(syn)'
    BY <2>2, <2>3 DEF Entered
  <2>5. \A x : Entered(x) => Entered(x)'
    BY <2>2 DEF Entered
  <2>6. ASSUME NEW n \in DOMAIN functions'
        PROVE  \E x \in Expressions' : IsNamed(x) /\ Uses(x) = <<Function(functions'[n], n)>>
    <3>1. CASE n \in DOMAIN functions
      BY <1>1, <2>2, <3>1
    <3>2. CASE n \notin DOMAIN functions
      <4>1. n = name /\ functions'[n] = type
        BY <2>2, <2>6, <3>2
      <4> QED
        BY <1>1, <2>1, <4>1
    <3> QED
      BY <3>1, <3>2
  <2> QED
    BY <2>4, <2>5, <2>6
<1> QED
  BY <1>2, <1>3

\* The calls that there are leave what is entered.
LEMMA EnteredScanned ==
    ASSUME Ways, Placed, Gathered, Scanned
    PROVE  Gathered'
<1>1. /\ pc = "scanning" /\ Complete /\ stack # <<>> /\ IsNamed(Top.syn) /\ EnterUses(Top.syn)
      /\ Give(<<>>) /\ UNCHANGED <<source, pc, todo>>
  BY DEF Scanned, Complete
<1>2. HasExpression(source[Here]) /\ Here \in DOMAIN source
  BY <1>1 DEF Placed
<1>3. PICK syn \in Expressions : syn = Top.syn
  BY <1>1, <1>2, TopFacts, InExpressions
<1>4. /\ \A x : Entered(x) => Entered(x)'
      /\ Entered(syn)'
      /\ \A n \in DOMAIN functions' :
            \E x \in Expressions' : IsNamed(x) /\ Uses(x) = <<Function(functions'[n], n)>>
  <2>1. \A n \in DOMAIN functions :
           \E x \in Expressions : IsNamed(x) /\ Uses(x) = <<Function(functions[n], n)>>
    BY DEF Gathered
  <2> QED
    BY <1>1, <1>3, <2>1, Entering
<1>5. \A x \in Within(syn) : Entered(x)'
  <2>1. Within(syn) = {syn} \cup UNION {Within(Parts(syn)[i]) : i \in DOMAIN Parts(syn)}
    BY <1>1, <1>3, TopFacts, WithinParts
  <2>2. Len(stack) \in DOMAIN stack /\ Top = stack[Len(stack)]
    BY <1>1, TopFacts
  <2>3. \A k \in DOMAIN Top.got : \A x \in Within(Parts(syn)[k]) : Entered(x)
    BY <1>1, <1>3, <2>2 DEF Gathered, EnteredHere
  <2>4. \A k \in DOMAIN Parts(syn) : \A x \in Within(Parts(syn)[k]) : Entered(x)
    BY <1>1, <1>3, <2>3, AllParts
  <2>5. ASSUME NEW x \in Within(syn)
        PROVE  Entered(x)'
    <3>1. x = syn \/ \E k \in DOMAIN Parts(syn) : x \in Within(Parts(syn)[k])
      BY <2>1, Zenon
    <3>2. CASE x = syn
      BY <1>4, <3>2, Zenon
    <3>3. CASE \E k \in DOMAIN Parts(syn) : x \in Within(Parts(syn)[k])
      <4>1. Entered(x)
        BY <2>4, <3>3, Zenon
      <4> QED
        BY <1>4, <4>1, Zenon
    <3> QED
      BY <3>1, <3>2, <3>3
  <2> QED
    BY <2>5
<1>6. /\ Depth \in Nat /\ (stack' = <<>> <=> Depth = 0)
      /\ \A i \in DOMAIN stack' :
            /\ i \in DOMAIN stack /\ stack'[i].syn = stack[i].syn
            /\ \A k \in DOMAIN stack'[i].got :
                  \/ k \in DOMAIN stack[i].got /\ stack'[i].got[k] = stack[i].got[k]
                  \/ stack'[i].got[k] = <<>> /\ Parts(stack[i].syn)[k] = Top.syn
  BY <1>1, GivenParts DEF Ways
<1>7. ASSUME NEW i \in DOMAIN stack', NEW k \in DOMAIN stack'[i].got,
             NEW x \in Within(Parts(stack'[i].syn)[k])
      PROVE  Entered(x)'
  <2>1. i \in DOMAIN stack /\ x \in Within(Parts(stack[i].syn)[k])
    BY <1>6
  <2>2. CASE k \in DOMAIN stack[i].got
    <3>1. Entered(x)
      BY <1>1, <2>1, <2>2 DEF Gathered, EnteredHere
    <3> QED
      BY <1>4, <3>1
  <2>3. CASE Parts(stack[i].syn)[k] = Top.syn
    BY <1>3, <1>5, <2>1, <2>3
  <2> QED
    BY <1>6, <2>2, <2>3
<1>8. ASSUME NEW i \in Passed', HasExpression(source'[i]), NEW x \in Within(source'[i].kids[2])
      PROVE  Entered(x)'
  <2>1. Here' = Here /\ Here \in Nat /\ Passed = 1 .. Here - 1
    <3>1. Here \in Nat /\ Passed = 1 .. Here - 1
      BY <1>1, PlaceFacts
    <3>2. Here' = Here
      BY <1>1 DEF Here
    <3> QED
      BY <3>1, <3>2
  <2>2. CASE i \in Passed
    <3>1. Entered(x)
      BY <1>1, <1>8, <2>2 DEF Gathered, EnteredHere
    <3> QED
      BY <1>4, <3>1
  <2>3. CASE i \notin Passed
    <3>1. stack' = <<>> /\ i = Here
      BY <2>1, <2>3 DEF Passed
    <3>2. Top.syn = source'[i].kids[2]
      BY <1>1, <1>6, <3>1, TopFacts
    <3> QED
      BY <1>3, <1>5, <1>8, <3>2
  <2> QED
    BY <2>2, <2>3
<1>9. EnteredHere'
  BY <1>7, <1>8 DEF EnteredHere
<1> QED
  BY <1>1, <1>4, <1>9 DEF Gathered

\* A step of the scan that enters nothing.
LEMMA EnteredStays ==
    ASSUME Gathered, pc' = "scanning", UNCHANGED <<source, functions>>, EnteredHere'
    PROVE  Gathered'
<1>1. Expressions' = Expressions
  BY DEF Expressions
<1> QED
  BY <1>1 DEF Gathered

\* A step after it.
LEMMA EnteredLater ==
    ASSUME Gathered, UNCHANGED <<source, functions>>, pc' \notin {"starting", "scanning", "aborted"},
           pc \in {"declaring", "generating"} \/ (pc' = "returned" /\ res' = "IO")
    PROVE  Gathered'
<1>1. Expressions' = Expressions /\ (AllNamed => AllNamed')
  BY DEF Expressions, AllNamed, Entered
<1> QED
  BY <1>1 DEF Gathered

LEMMA GatheredStep ==
    ASSUME Basics, Ways, Placed, Gathered, [Next]_vars
    PROVE  Gathered'
<1>1. CASE Include
  <2>1. CASE PrintFails(<<Torn>>)
    BY <1>1, <2>1, EnteredLater DEF Include, PrintFails, Return, scanned
  <2>2. CASE pc' = "scanning" /\ UNCHANGED <<todo, stack>>
    <3>1. todo = source /\ stack = <<>> /\ UNCHANGED <<source, functions>>
      BY <1>1 DEF Include, Gathered, Ways, scanned
    <3>2. Here' = 0 /\ stack' = <<>>
      BY <2>2, <3>1, PlaceFacts DEF Here
    <3>3. Passed' = {} /\ DOMAIN stack' = {}
      BY <3>2 DEF Passed
    <3>4. EnteredHere'
      BY <3>3 DEF EnteredHere
    <3> QED
      BY <2>2, <3>1, <3>4, EnteredStays
  <2> QED
    BY <1>1, <2>1, <2>2 DEF Include
<1>2. CASE ScanStatement
  <2>1. /\ stack = <<>> /\ todo # <<>> /\ todo' = Tail(todo) /\ pc = "scanning" /\ pc' = pc
        /\ UNCHANGED <<source, functions>>
    BY <1>2 DEF ScanStatement, scanned
  <2>2. Here' = Here + 1 /\ Head(todo) = source[Here + 1] /\ Here \in Nat
    BY <2>1, GoesOn, PlaceFacts
  <2>3. ASSUME NEW i \in 1 .. Here, HasExpression(source'[i]), NEW x \in Within(source'[i].kids[2])
        PROVE  Entered(x)'
    <3>1. Passed = 1 .. Here
      BY <2>1, PlaceFacts
    <3>2. Entered(x)
      BY <2>1, <2>3, <3>1 DEF Gathered, EnteredHere
    <3> QED
      BY <2>1, <3>2 DEF Entered
  <2>4. CASE HasExpression(Head(todo))
    <3>1. stack' = Append(<<>>, [syn |-> Head(todo).kids[2], got |-> <<>>])
          /\ IsSequence(<<>>)
      BY <1>2, <2>1, <2>4 DEF ScanStatement, HasExpression, Call, Ways, WayDown
    <3>2. stack' # <<>> /\ \A i \in DOMAIN stack' : DOMAIN stack'[i].got = {}
      BY <3>1, CalledParts
    <3>3. Passed' = 1 .. Here
      BY <2>2, <3>2 DEF Passed
    <3>4. EnteredHere'
      BY <2>3, <3>2, <3>3 DEF EnteredHere
    <3> QED
      BY <2>1, <3>4, EnteredStays
  <2>5. CASE ~HasExpression(Head(todo))
    <3>1. stack' = <<>>
      BY <1>2, <2>1, <2>5 DEF ScanStatement, HasExpression
    <3>2. Passed' = 1 .. Here + 1 /\ DOMAIN stack' = {}
      BY <2>2, <3>1 DEF Passed
    <3>3. ~HasExpression(source'[Here + 1])
      BY <2>1, <2>2, <2>5
    <3>4. \A i \in Passed' : HasExpression(source'[i]) => i \in 1 .. Here
      BY <2>2, <3>2, <3>3
    <3>5. EnteredHere'
      BY <2>3, <3>2, <3>4 DEF EnteredHere
    <3> QED
      BY <2>1, <3>5, EnteredStays
  <2> QED
    BY <2>4, <2>5
<1>3. CASE Scanned
  BY <1>3, EnteredScanned
<1>4. CASE ScanAborts
  <2>1. /\ pc = "scanning" /\ stack # <<>> /\ ~IsNamed(Top.syn) /\ pc' = "aborted"
        /\ UNCHANGED <<source, functions>>
    BY <1>4 DEF ScanAborts, Complete
  <2>2. HasExpression(source[Here]) /\ Here \in DOMAIN source
    BY <2>1 DEF Placed
  <2>3. Top.syn \in Expressions
    BY <2>1, <2>2, TopFacts, InExpressions
  <2>4. Expressions' = Expressions
    BY <2>1 DEF Expressions
  <2> QED
    BY <2>1, <2>3, <2>4 DEF Gathered
<1>5. CASE EndScan
  <2>1. /\ pc = "scanning" /\ stack = <<>> /\ todo = <<>> /\ pc' = "declaring"
        /\ UNCHANGED <<source, functions>>
    BY <1>5 DEF EndScan, scanned
  <2>2. Expressions' = Expressions
    BY <2>1 DEF Expressions
  <2>3. Passed = DOMAIN source
    <3>1. Here = Len(source)
      BY <2>1, PlaceFacts DEF Here
    <3> QED
      BY <2>1, <3>1, PlaceFacts
  <2>4. ASSUME NEW x \in Expressions
        PROVE  Entered(x)'
    <3>1. PICK i \in DOMAIN source : HasExpression(source[i]) /\ x \in Within(source[i].kids[2])
      BY Zenon DEF Expressions
    <3>2. Entered(x)
      BY <2>1, <2>3, <3>1 DEF Gathered, EnteredHere
    <3> QED
      BY <2>1, <3>2 DEF Entered
  <2>5. AllNamed'
    BY <2>2, <2>4 DEF AllNamed
  <2> QED
    BY <2>1, <2>2, <2>5 DEF Gathered
<1>6. CASE Declare
  <2>1. pc = "declaring" /\ pc' \in {"declaring", "generating"} /\ UNCHANGED <<source, functions>>
    BY <1>6 DEF Declare, DeclareFunction, EndDeclare, scanned
  <2> QED
    BY <2>1, EnteredLater
<1>7. CASE Generate
  <2>1. pc = "generating" /\ UNCHANGED <<source, functions>>
    BY <1>7 DEF Generate, GenExtern, GenStatement, GenReference, GenAlias, GenNode, SetUnknown,
                SetPart, GenSet, EndStatements, Printing, Evaluating, scanned
  <2>2. pc' = pc \/ pc' = "returned"
    BY <1>7 DEF Generate, GenExtern, GenStatement, GenReference, GenAlias, GenNode, SetUnknown,
                SetPart, GenSet, EndStatements, Emit, PrintFails, Return
  <2> QED
    BY <2>1, <2>2, EnteredLater
<1>8. CASE Descend
  <2> DEFINE part == Parts(Top.syn)[Len(Top.got) + 1]
  <2>1. /\ stack # <<>> /\ stack' = Append(stack, [syn |-> part, got |-> <<>>])
        /\ UNCHANGED <<source, todo, pc, functions>> /\ IsSequence(stack)
    BY <1>8 DEF Descend, Call, scanned, Ways, WayDown
  <2> HIDE DEF part
  <2>2. /\ stack' # <<>>
        /\ \A i \in DOMAIN stack' :
              \/ i \in DOMAIN stack /\ stack'[i] = stack[i]
              \/ DOMAIN stack'[i].got = {}
    BY <2>1, CalledParts
  <2>3. Passed' = Passed
    BY <2>1, <2>2 DEF Passed, Here
  <2>4. EnteredHere => EnteredHere'
    <3> SUFFICES ASSUME EnteredHere PROVE EnteredHere'
      OBVIOUS
    <3>1. \A x : Entered(x) => Entered(x)'
      BY <2>1 DEF Entered
    <3>2. \A i \in Passed' : HasExpression(source'[i]) =>
             \A x \in Within(source'[i].kids[2]) : Entered(x)'
      BY <2>1, <2>3, <3>1 DEF EnteredHere
    <3>3. ASSUME NEW i \in DOMAIN stack', NEW k \in DOMAIN stack'[i].got,
                 NEW x \in Within(Parts(stack'[i].syn)[k])
          PROVE  Entered(x)'
      <4>1. i \in DOMAIN stack /\ stack'[i] = stack[i]
        BY <2>2
      <4> QED
        BY <3>1, <4>1 DEF EnteredHere
    <3> QED
      BY <3>2, <3>3 DEF EnteredHere
  <2>5. Expressions' = Expressions
    BY <2>1 DEF Expressions
  <2>6. AllNamed => AllNamed'
    <3>1. \A x : Entered(x) => Entered(x)'
      BY <2>1 DEF Entered
    <3> QED
      BY <2>5, <3>1, Zenon DEF AllNamed
  <2>7. pc \in {"scanning", "generating", "returned", "aborted"}
    BY <2>1 DEF Basics, Ways
  <2>8. res' = res
    BY <1>8 DEF Descend
  <2> QED
    BY <2>1, <2>4, <2>5, <2>6, <2>7, <2>8 DEF Gathered
<1>9. CASE UNCHANGED vars
  <2>1. Expressions' = Expressions /\ (AllNamed => AllNamed') /\ (EnteredHere => EnteredHere')
    BY <1>9 DEF vars, Expressions, AllNamed, EnteredHere, Entered, Passed, Here
  <2> QED
    BY <1>9, <2>1 DEF vars, Gathered
<1> QED
  BY <1>1, <1>2, <1>3, <1>4, <1>5, <1>6, <1>7, <1>8, <1>9 DEF Next, Scan
-----------------------------------------------------------------------------
\* What can be referred to below o, and declarations that can be compiled.
Reached(o, lost, id) ==
    (\E j \in DOMAIN o : o[j].id = id) \/ ("function" \in DOMAIN id /\ id.function \in lost)
Compiles(o, lost) ==
    /\ \A i \in DOMAIN o : \A id \in Range(o[i].refs) :
          \/ \E j \in 1 .. i - 1 : o[j].id = id
          \/ "function" \in DOMAIN id /\ id.function \in lost
          \/ "unprefixed" \in DOMAIN id /\ o[i].what = "alias"
    /\ \A i, j \in DOMAIN o : i # j /\ o[i].id = o[j].id => "parser" \in DOMAIN o[i].id

\* A declaration that can be compiled below o.
Fits(d, o, lost) ==
    /\ \A id \in Range(d.refs) :
          Reached(o, lost, id) \/ ("unprefixed" \in DOMAIN id /\ d.what = "alias")
    /\ "parser" \in DOMAIN d.id \/ \A j \in DOMAIN o : o[j].id # d.id

LEMMA Fitting ==
    ASSUME NEW o, IsSequence(o), NEW lost, Compiles(o, lost), NEW d, Fits(d, o, lost)
    PROVE  /\ Compiles(Append(o, d), lost)
           /\ \A id : Reached(o, lost, id) => Reached(Append(o, d), lost, id)
           /\ Reached(Append(o, d), lost, d.id)
           /\ \A k \in DOMAIN Append(o, d) :
                 \/ Append(o, d)[k] = d
                 \/ k \in DOMAIN o /\ Append(o, d)[k] = o[k]
<1> DEFINE p == Append(o, d)
           n == Len(o)
<1>1. /\ n \in Nat /\ DOMAIN o = 1 .. n /\ DOMAIN p = 1 .. n + 1
      /\ \A i \in 1 .. n : p[i] = o[i]
      /\ p[n + 1] = d
  BY Appended
<1> HIDE DEF p, n
<1>2. \A id : Reached(o, lost, id) => Reached(p, lost, id)
  BY <1>1 DEF Reached
<1>3. Reached(p, lost, d.id)
  BY <1>1 DEF Reached
<1>4. ASSUME NEW i \in DOMAIN p, NEW id \in Range(p[i].refs)
      PROVE  \/ \E j \in 1 .. i - 1 : p[j].id = id
             \/ "function" \in DOMAIN id /\ id.function \in lost
             \/ "unprefixed" \in DOMAIN id /\ p[i].what = "alias"
  <2>1. CASE i = n + 1
    <3>1. p[i] = d /\ i - 1 = n
      BY <1>1, <2>1
    <3>2. Reached(o, lost, id) \/ ("unprefixed" \in DOMAIN id /\ d.what = "alias")
      BY <1>4, <3>1 DEF Fits
    <3>3. CASE \E j \in DOMAIN o : o[j].id = id
      BY <1>1, <3>1, <3>3
    <3> QED
      BY <3>1, <3>2, <3>3 DEF Reached
  <2>2. CASE i \in 1 .. n
    <3>1. p[i] = o[i] /\ i \in DOMAIN o /\ \A j \in 1 .. i - 1 : p[j] = o[j]
      BY <1>1, <2>2
    <3>2. id \in Range(o[i].refs)
      BY <1>4, <3>1
    <3>3. \/ \E j \in 1 .. i - 1 : o[j].id = id
          \/ "function" \in DOMAIN id /\ id.function \in lost
          \/ "unprefixed" \in DOMAIN id /\ o[i].what = "alias"
      BY <3>1, <3>2 DEF Compiles
    <3> QED
      BY <3>1, <3>3
  <2> QED
    BY <1>1, <2>1, <2>2
<1>5. ASSUME NEW i \in DOMAIN p, NEW j \in DOMAIN p, i # j, p[i].id = p[j].id
      PROVE  "parser" \in DOMAIN p[i].id
  <2>1. CASE i \in 1 .. n /\ j \in 1 .. n
    BY <1>1, <1>5, <2>1 DEF Compiles
  <2>2. CASE i = n + 1 \/ j = n + 1
    <3>1. PICK k \in 1 .. n : p[k].id = d.id /\ p[i].id = d.id
      BY <1>1, <1>5, <2>2
    <3> QED
      BY <1>1, <3>1 DEF Fits
  <2> QED
    BY <1>1, <2>1, <2>2
<1>6. ASSUME NEW k \in DOMAIN p
      PROVE  p[k] = d \/ (k \in DOMAIN o /\ p[k] = o[k])
  <2>1. k \in 1 .. n \/ k = n + 1
    BY <1>1
  <2> QED
    BY <1>1, <2>1
<1>7. Compiles(p, lost)
  BY <1>4, <1>5, Zenon DEF Compiles
<1> QED
  BY <1>2, <1>3, <1>6, <1>7 DEF p

\* A number that is new, and the identifiers that are not numbers.
LEMMA NewNumber ==
    ASSUME NEW o, NEW u, Sound(o, u)
    PROVE  /\ \A j \in DOMAIN o : o[j].id # Numbered(u)
           /\ Numbered(u) # Torn.id
<1>1. ASSUME NEW j \in DOMAIN o, o[j].id = Numbered(u)
      PROVE  FALSE
  <2>1. "number" \in DOMAIN o[j].id
    BY <1>1 DEF Numbered
  <2>2. PICK n \in 0 .. u - 1 : o[j].id = Numbered(n)
    BY <2>1 DEF Sound
  <2>3. n = u
    BY <1>1, <2>2, NumbersDiffer
  <2> QED
    BY <2>2, <2>3 DEF Sound
<1>2. "number" \in DOMAIN Numbered(u) /\ "number" \notin DOMAIN Torn.id
  BY TornIsPlain DEF Numbered
<1> QED
  BY <1>1, <1>2

LEMMA Identifiers ==
    /\ \A name : "parser" \in DOMAIN Named(name) /\ Named(name) # Torn.id
    /\ \A type, name : /\ DOMAIN Function(type, name) = {"function", "type"}
                       /\ Function(type, name).function = name
                       /\ Function(type, name) # Torn.id
    /\ \A d, x, y, z : LET e == Declaration(d, x, y, z)
                       IN  e.id = d /\ e.what = x /\ e.refs = y /\ e.data = z
<1>1. DOMAIN Torn.id = {"nothing"}
  BY DEF Torn, Declaration
<1>2. \A name : DOMAIN Named(name) = {"parser"}
  BY DEF Named
<1>3. \A type, name : /\ DOMAIN Function(type, name) = {"function", "type"}
                      /\ Function(type, name).function = name
  BY DEF Function
<1>4. \A d, x, y, z : LET e == Declaration(d, x, y, z)
                      IN  e.id = d /\ e.what = x /\ e.refs = y /\ e.data = z
  BY DEF Declaration
<1>5. \A name : "parser" \in DOMAIN Named(name) /\ Named(name) # Torn.id
  BY <1>1, <1>2
<1>6. \A type, name : Function(type, name) # Torn.id
  BY <1>1, <1>3
<1> QED
  BY <1>3, <1>4, <1>5, <1>6

\* What a joined sequence has.
LEMMA JoinedRange ==
    ASSUME NEW s, IsSequence(s), NEW t, IsSequence(t), NEW id \in Range(s \o t)
    PROVE  (\E k \in DOMAIN s : id = s[k]) \/ (\E k \in DOMAIN t : id = t[k])
<1>1. PICK S, T : s \in Seq(S) /\ t \in Seq(T)
  BY DEF IsSequence
<1> DEFINE Wider == S \cup T
           r == s \o t
<1>2. s \in Seq(Wider) /\ t \in Seq(Wider)
  BY <1>1
<1> HIDE DEF Wider
<1>3. /\ r \in Seq(Wider) /\ Len(r) = Len(s) + Len(t)
      /\ \A k \in 1 .. Len(s) + Len(t) : r[k] = IF k <= Len(s) THEN s[k] ELSE t[k - Len(s)]
  BY <1>2, ConcatProperties
<1>4. /\ Len(s) \in Nat /\ DOMAIN s = 1 .. Len(s)
      /\ Len(t) \in Nat /\ DOMAIN t = 1 .. Len(t)
  BY <1>2
<1> HIDE DEF r
<1>5. DOMAIN r = 1 .. Len(s) + Len(t)
  BY <1>3
<1>6. PICK k \in DOMAIN r : id = r[k]
  BY DEF Range, r
<1>7. CASE k <= Len(s)
  <2>1. k \in DOMAIN s /\ r[k] = s[k]
    BY <1>3, <1>4, <1>5, <1>7
  <2> QED
    BY <1>6, <2>1
<1>8. CASE ~(k <= Len(s))
  <2>1. k - Len(s) \in DOMAIN t /\ r[k] = t[k - Len(s)]
    BY <1>3, <1>4, <1>5, <1>8
  <2> QED
    BY <1>6, <2>1
<1> QED
  BY <1>7, <1>8

\* A function that is used is in the table as what it is used for.
LEMMA UsesEntered ==
    ASSUME Gathered, Consistent, NEW syn \in Expressions, Entered(syn)
    PROVE  /\ IsSequence(Uses(syn))
           /\ \A k \in DOMAIN Uses(syn) :
                 \E n \in DOMAIN functions : Uses(syn)[k] = Function(functions[n], n)
<1>1. CASE syn.tag \notin {"CALL", "HOOK"}
  <2>1. Uses(syn) = <<>>
    BY <1>1 DEF Uses
  <2>2. <<>> \in Seq({}) /\ DOMAIN <<>> = {}
    OBVIOUS
  <2> QED
    BY <2>1, <2>2 DEF IsSequence
<1>2. CASE syn.tag \in {"CALL", "HOOK"}
  <2>1. PICK type, n : /\ Uses(syn) = <<Function(type, n)>>
                       /\ type = IF syn.tag = "HOOK" THEN "hook" ELSE "call"
    <3>1. CASE syn.tag = "HOOK"
      BY <3>1 DEF Uses
    <3>2. CASE syn.tag = "CALL"
      BY <3>2 DEF Uses
    <3> QED
      BY <1>2, <3>1, <3>2
  <2>2. DOMAIN Uses(syn) = {1} /\ Uses(syn)[1] = Function(type, n) /\ IsSequence(Uses(syn))
    <3> DEFINE f == Function(type, n)
    <3>1. Uses(syn) = <<f>>
      BY <2>1
    <3> HIDE DEF f
    <3>2. <<f>> \in Seq({f}) /\ DOMAIN <<f>> = {1} /\ <<f>>[1] = f
      OBVIOUS
    <3>3. IsSequence(Uses(syn))
      BY <3>1, <3>2 DEF IsSequence
    <3> QED
      BY <3>1, <3>2, <3>3 DEF f
  <2>3. Uses(syn)[1].function = n /\ n \in DOMAIN functions
    BY <2>2, Identifiers DEF Entered
  <2>4. PICK y \in Expressions : IsNamed(y) /\ Uses(y) = <<Function(functions[n], n)>>
    BY <2>3 DEF Gathered
  <2>5. Uses(y)[1].function = n /\ Uses(y)[1].type = functions[n] /\ Uses(y) # <<>>
    BY <2>4 DEF Function
  <2>6. \/ y.tag = "HOOK" /\ functions[n] = "hook"
        \/ y.tag = "CALL" /\ functions[n] = "call"
    <3>1. CASE y.tag = "HOOK"
      BY <2>5, <3>1 DEF Uses, Function
    <3>2. CASE y.tag = "CALL"
      BY <2>5, <3>2 DEF Uses, Function
    <3> QED
      BY <2>5, <3>1, <3>2 DEF Uses
  <2>7. IsNamed(syn)
    BY DEF Entered
  <2>8. functions[n] = type
    BY <1>2, <2>1, <2>3, <2>4, <2>5, <2>6, <2>7 DEF Consistent
  <2> QED
    BY <2>2, <2>3, <2>8
<1> QED
  BY <1>1, <1>2

\* Everything printed so far can be compiled, and so could what the calls under way
\* have collected, and what is left: each statement that is done has declared its
\* name, and each function is declared or missed.
Done(o, lost, passed) ==
    /\ \A j \in passed : Reached(o, lost, Named(Introduces(source[j])))
    /\ \A n \in DOMAIN functions : Reached(o, lost, Function(functions[n], n))
Gotten(o, lost, frames) ==
    \A i \in DOMAIN frames : \A k \in DOMAIN frames[i].got : Reached(o, lost, frames[i].got[k])
Introduced ==
    Scoped /\ Consistent =>
        /\ Compiles(out, missed)
        /\ pc # "returned" => \A i \in DOMAIN out : out[i].id # Torn.id
        /\ pc = "generating" => Done(out, missed, Passed)
        /\ Collecting => Gotten(out, missed, stack)

\* A step that returns.
LEMMA IntroducedReturned ==
    ASSUME Numbers, Introduced, pc # "returned", pc' = "returned", UNCHANGED <<source, missed>>,
           out' = out \/ out' = Append(out, Torn)
    PROVE  Introduced'
<1> SUFFICES ASSUME Scoped, Consistent PROVE Compiles(out', missed')
  BY DEF Introduced, Scoped, Consistent, Expressions, Collecting
<1>1. /\ Compiles(out, missed) /\ IsSequence(out)
      /\ \A i \in DOMAIN out : out[i].id # Torn.id
  BY DEF Introduced, Numbers, Sound
<1>2. Fits(Torn, out, missed)
  BY <1>1, TornIsPlain DEF Fits
<1>3. Compiles(Append(out, Torn), missed)
  BY <1>1, <1>2, Fitting
<1> QED
  BY <1>1, <1>3

\* A step while nothing is generated, that prints nothing or what fits.
LEMMA IntroducedEarly ==
    ASSUME Numbers, Introduced, pc # "returned", UNCHANGED <<source, missed>>,
           pc' \notin {"returned", "generating"},
           \/ out' = out
           \/ \E d : out' = Append(out, d) /\ d.id # Torn.id /\ Fits(d, out, missed)
    PROVE  Introduced'
<1> SUFFICES ASSUME Scoped, Consistent
             PROVE  Compiles(out', missed') /\ \A i \in DOMAIN out' : out'[i].id # Torn.id
  <2>1. Scoped' => Scoped
    BY DEF Scoped
  <2>2. Consistent' => Consistent
    BY DEF Consistent, Expressions
  <2>3. Torn.id = Torn'.id
    BY DEF Torn, Declaration
  <2> QED
    BY <2>1, <2>2, <2>3 DEF Introduced, Collecting
<1>1. /\ Compiles(out, missed) /\ IsSequence(out)
      /\ \A i \in DOMAIN out : out[i].id # Torn.id
  BY DEF Introduced, Numbers, Sound
<1>2. ASSUME NEW d, out' = Append(out, d), d.id # Torn.id, Fits(d, out, missed)
      PROVE  Compiles(out', missed') /\ \A i \in DOMAIN out' : out'[i].id # Torn.id
  <2>1. /\ Compiles(Append(out, d), missed)
        /\ \A k \in DOMAIN Append(out, d) :
              \/ Append(out, d)[k] = d
              \/ k \in DOMAIN out /\ Append(out, d)[k] = out[k]
    BY <1>1, <1>2, Fitting
  <2> QED
    BY <1>1, <1>2, <2>1
<1> QED
  BY <1>1, <1>2

\* A step of a statement.
LEMMA IntroducedGoesOn ==
    ASSUME Introduced, pc = "generating", UNCHANGED <<source, pc, missed, functions>>,
           Scoped /\ Consistent =>
              /\ Compiles(out', missed)
              /\ \A id : Reached(out, missed, id) => Reached(out', missed, id)
              /\ \A i \in DOMAIN out' : out'[i].id # Torn.id
              /\ \A j \in Passed' \ Passed : Reached(out', missed, Named(Introduces(source[j])))
              /\ Collecting' => Gotten(out', missed, stack')
    PROVE  Introduced'
<1> SUFFICES ASSUME Scoped, Consistent
             PROVE  /\ Compiles(out', missed')
                    /\ \A i \in DOMAIN out' : out'[i].id # Torn.id
                    /\ Done(out, missed, Passed)'
                    /\ Collecting' => Gotten(out', missed', stack')
  BY DEF Introduced, Scoped, Consistent, Expressions
<1>1. Done(out, missed, Passed)
  BY DEF Introduced
<1>2. ASSUME NEW j \in Passed'
      PROVE  Reached(out', missed', Named(Introduces(source'[j])))
  BY <1>1 DEF Done
<1>3. ASSUME NEW n \in DOMAIN functions'
      PROVE  Reached(out', missed', Function(functions'[n], n))
  BY <1>1 DEF Done
<1>4. Done(out, missed, Passed)'
  BY <1>2, <1>3 DEF Done
<1> QED
  BY <1>4

\* One that prints nothing.
LEMMA IntroducedSilently ==
    ASSUME Introduced, pc = "generating", UNCHANGED <<source, pc, missed, functions, out>>,
           Passed' \subseteq Passed,
           Scoped /\ Consistent => (Collecting' => Gotten(out, missed, stack'))
    PROVE  Introduced'
<1>1. Scoped /\ Consistent =>
         /\ Compiles(out, missed)
         /\ \A i \in DOMAIN out : out[i].id # Torn.id
  BY DEF Introduced
<1> QED
  BY <1>1, IntroducedGoesOn

\* One that prints a declaration and gives its identifier to whoever refers to it.
LEMMA IntroducedPrinted ==
    ASSUME Ways, Placed, Numbers, Introduced, Collecting, Complete,
           UNCHANGED <<source, missed, functions>>,
           NEW d, Emit(d), d.id # Torn.id, Scoped /\ Consistent => Fits(d, out, missed),
           Depth = 0 => d.id = Named(Name)
    PROVE  Introduced'
<1>1. CASE PrintFails(<<d>>)
  <2>1. out' = Append(out, Torn) /\ pc' = "returned"
    BY <1>1, OneFails
  <2> QED
    BY <2>1, IntroducedReturned DEF Collecting
<1>2. CASE /\ out' = Append(out, d) /\ Give(d.id) /\ UNCHANGED <<pc, todo>>
           /\ current' = IF Depth = 0 THEN <<>> ELSE current
  <2>1. stack # <<>> /\ pc = "generating" /\ IsSequence(out)
    BY DEF Complete, Collecting, Numbers, Sound
  <2>2. /\ Depth \in Nat /\ (stack' = <<>> <=> Depth = 0)
        /\ \A i \in DOMAIN stack' :
              /\ i \in DOMAIN stack /\ stack'[i].syn = stack[i].syn
              /\ \A k \in DOMAIN stack'[i].got :
                    \/ k \in DOMAIN stack[i].got /\ stack'[i].got[k] = stack[i].got[k]
                    \/ stack'[i].got[k] = d.id /\ Parts(stack[i].syn)[k] = Top.syn
    BY <1>2, <2>1, GivenParts DEF Ways
  <2>3. Here \in Nat /\ Passed = 1 .. Here - 1
    BY <2>1, PlaceFacts
  <2>4. Here' = Here
    BY <1>2 DEF Here
  <2>5. SUFFICES ASSUME Scoped, Consistent
                 PROVE  /\ Compiles(out', missed)
                        /\ \A id : Reached(out, missed, id) => Reached(out', missed, id)
                        /\ \A i \in DOMAIN out' : out'[i].id # Torn.id
                        /\ \A j \in Passed' \ Passed :
                              Reached(out', missed, Named(Introduces(source[j])))
                        /\ Collecting' => Gotten(out', missed, stack')
    BY <1>2, <2>1, IntroducedGoesOn
  <2>6. /\ Compiles(out', missed)
        /\ \A id : Reached(out, missed, id) => Reached(out', missed, id)
        /\ Reached(out', missed, d.id)
        /\ \A k \in DOMAIN out' : out'[k] = d \/ (k \in DOMAIN out /\ out'[k] = out[k])
    BY <1>2, <2>1, <2>5, Fitting DEF Introduced
  <2>7. \A i \in DOMAIN out' : out'[i].id # Torn.id
    BY <2>1, <2>5, <2>6 DEF Introduced
  <2>8. ASSUME NEW j \in Passed' \ Passed
        PROVE  Reached(out', missed, Named(Introduces(source[j])))
    <3>1. stack' = <<>> /\ j = Here
      BY <2>3, <2>4, <2>8 DEF Passed
    <3>2. current = <<source[Here]>> /\ Defines(source[Here])
      BY DEF Placed, Collecting
    <3>3. Name = Introduces(source[j])
      BY <3>1, <3>2 DEF Name, Statement, Introduces, Defines
    <3> QED
      BY <2>2, <2>6, <3>1, <3>3
  <2>9. ASSUME NEW i \in DOMAIN stack', NEW k \in DOMAIN stack'[i].got
        PROVE  Reached(out', missed, stack'[i].got[k])
    <3>1. CASE stack'[i].got[k] = d.id
      BY <2>6, <3>1
    <3>2. CASE /\ i \in DOMAIN stack /\ k \in DOMAIN stack[i].got
               /\ stack'[i].got[k] = stack[i].got[k]
      BY <2>5, <2>6, <3>2 DEF Introduced, Gotten
    <3> QED
      BY <2>2, <3>1, <3>2
  <2> QED
    BY <2>6, <2>7, <2>8, <2>9 DEF Gotten
<1> QED
  BY <1>1, <1>2 DEF Emit

\* A node refers to what its parts gave it, and to a function that it uses.
LEMMA NodeFits ==
    ASSUME Ways, Placed, Gathered, Numbers, Introduced, Collecting, Complete,
           Scoped, Consistent
    PROVE  /\ Fits(Declaration(Signed, Top.syn.tag, Top.got \o Uses(Top.syn), Data(Top.syn)),
                   out, missed)
           /\ Signed # Torn.id
<1> DEFINE refs == Top.got \o Uses(Top.syn)
           d == Declaration(Signed, Top.syn.tag, refs, Data(Top.syn))
<1>1. stack # <<>> /\ pc = "generating"
  BY DEF Complete, Collecting
<1>2. /\ Len(stack) \in DOMAIN stack /\ Top = stack[Len(stack)] /\ IsSequence(Top.got)
      /\ Top.syn \in Within(source[Here].kids[2]) /\ Here \in DOMAIN source
  BY <1>1, TopFacts
<1>3. HasExpression(source[Here])
  BY DEF Placed, Collecting, Statement, HasExpression
<1>4. Top.syn \in Expressions
  BY <1>2, <1>3, InExpressions
<1>5. Entered(Top.syn)
  BY <1>1, <1>4 DEF Gathered, AllNamed
<1>6. /\ IsSequence(Uses(Top.syn))
      /\ \A k \in DOMAIN Uses(Top.syn) :
            \E n \in DOMAIN functions : Uses(Top.syn)[k] = Function(functions[n], n)
  BY <1>4, <1>5, UsesEntered
<1>7. \A k \in DOMAIN Top.got : Reached(out, missed, Top.got[k])
  BY <1>2 DEF Introduced, Gotten
<1>8. \A k \in DOMAIN Uses(Top.syn) : Reached(out, missed, Uses(Top.syn)[k])
  BY <1>1, <1>6 DEF Introduced, Done
<1>9. ASSUME NEW id \in Range(refs)
      PROVE  Reached(out, missed, id)
  <2>1. (\E k \in DOMAIN Top.got : id = Top.got[k])
        \/ (\E k \in DOMAIN Uses(Top.syn) : id = Uses(Top.syn)[k])
    BY <1>2, <1>6, JoinedRange
  <2> QED
    BY <1>7, <1>8, <2>1, Zenon
<1>10. Signed # Torn.id
  BY Identifiers, NewNumber DEF Signed, Numbers
<1>11. "parser" \in DOMAIN Signed \/ \A j \in DOMAIN out : out[j].id # Signed
  BY Identifiers, NewNumber DEF Signed, Numbers
<1>12. d.id = Signed /\ d.refs = refs
  BY DEF Declaration
<1> HIDE DEF refs, d
<1>13. Fits(d, out, missed)
  BY <1>9, <1>11, <1>12 DEF Fits
<1> QED
  BY <1>10, <1>13 DEF d, refs

\* The words of a set, and its parser.
LEMMA SetIntroduced ==
    ASSUME Ways, Placed, Numbers, Introduced, pc = "generating", stack # <<>>, Depth = 0,
           current # <<>>, UNCHANGED <<source, missed, functions>>, NEW members,
           LET words == Declaration(Numbered(uid), "words", <<>>, <<members>>)
               parser == Declaration(Named(Name), "SET", <<Numbered(uid)>>, <<>>)
           IN  \/ out' = out \o <<words, parser>> /\ Give(members) /\ current' = <<>>
                  /\ UNCHANGED <<pc, todo>>
               \/ PrintFails(<<words, parser>>)
    PROVE  Introduced'
<1> DEFINE words == Declaration(Numbered(uid), "words", <<>>, <<members>>)
           parser == Declaration(Named(Name), "SET", <<Numbered(uid)>>, <<>>)
           more == Append(out, words)
<1>1. IsSequence(out) /\ Sound(out, uid)
  BY DEF Numbers, Sound
<1>2. /\ words.id = Numbered(uid) /\ Range(words.refs) = {}
      /\ parser.id = Named(Name) /\ Range(parser.refs) = {Numbered(uid)}
  BY DEF Declaration, Range
<1> HIDE DEF words, parser, more
<1>3. IsSequence(more)
  BY <1>1, Appended DEF more
<1>4. \/ out' = out \o <<words, parser>> /\ Give(members) /\ current' = <<>>
         /\ UNCHANGED <<pc, todo>>
      \/ PrintFails(<<words, parser>>)
  BY DEF words, parser
<1>5. \/ out' = Append(more, parser) /\ Give(members) /\ current' = <<>> /\ UNCHANGED <<pc, todo>>
      \/ pc' = "returned" /\ (out' = Append(out, Torn) \/ out' = Append(more, Torn))
  <2>1. /\ out' = out \o <<words, parser>> => out' = Append(more, parser)
        /\ PrintFails(<<words, parser>>) =>
              pc' = "returned" /\ (out' = Append(out, Torn) \/ out' = Append(more, Torn))
    BY <1>1, TwoPrinted DEF more
  <2> QED
    BY <1>4, <2>1, Zenon
<1>6. ASSUME Scoped, Consistent
      PROVE  /\ Compiles(more, missed)
             /\ \A id : Reached(out, missed, id) => Reached(more, missed, id)
             /\ Reached(more, missed, Numbered(uid))
             /\ \A i \in DOMAIN more : more[i].id # Torn.id
  <2>1. Compiles(out, missed) /\ \A i \in DOMAIN out : out[i].id # Torn.id
    BY <1>6 DEF Introduced
  <2>2. \A j \in DOMAIN out : out[j].id # Numbered(uid)
    BY <1>1, NewNumber
  <2>3. Fits(words, out, missed)
    BY <1>2, <2>2 DEF Fits
  <2>4. /\ Compiles(more, missed)
        /\ \A id : Reached(out, missed, id) => Reached(more, missed, id)
        /\ Reached(more, missed, words.id)
        /\ \A k \in DOMAIN more : more[k] = words \/ (k \in DOMAIN out /\ more[k] = out[k])
    BY <1>1, <2>1, <2>3, Fitting DEF more
  <2>5. Numbered(uid) # Torn.id
    BY <1>1, NewNumber
  <2> QED
    BY <1>2, <2>1, <2>4, <2>5
<1>7. CASE /\ out' = Append(more, parser) /\ Give(members) /\ current' = <<>>
           /\ UNCHANGED <<pc, todo>>
  <2>1. stack' = <<>>
    BY <1>7, GivenParts DEF Ways
  <2>2. Here \in Nat /\ Passed = 1 .. Here - 1
    BY PlaceFacts
  <2>3. Here' = Here
    BY <1>7 DEF Here
  <2>4. current = <<source[Here]>> /\ Defines(source[Here])
    BY DEF Placed
  <2>5. Name = Introduces(source[Here])
    BY <2>4 DEF Name, Statement, Introduces, Defines
  <2>6. SUFFICES ASSUME Scoped, Consistent
                 PROVE  /\ Compiles(out', missed)
                        /\ \A id : Reached(out, missed, id) => Reached(out', missed, id)
                        /\ \A i \in DOMAIN out' : out'[i].id # Torn.id
                        /\ \A j \in Passed' \ Passed :
                              Reached(out', missed, Named(Introduces(source[j])))
    BY <1>7, IntroducedGoesOn DEF Collecting
  <2>7. Fits(parser, more, missed)
    BY <1>2, <1>6, <2>6, Identifiers DEF Fits
  <2>8. /\ Compiles(out', missed)
        /\ \A id : Reached(more, missed, id) => Reached(out', missed, id)
        /\ Reached(out', missed, parser.id)
        /\ \A k \in DOMAIN out' : out'[k] = parser \/ (k \in DOMAIN more /\ out'[k] = more[k])
    BY <1>3, <1>6, <1>7, <2>6, <2>7, Fitting
  <2>9. \A i \in DOMAIN out' : out'[i].id # Torn.id
    <3>1. parser.id # Torn.id
      BY <1>2, Identifiers
    <3> QED
      BY <1>6, <2>6, <2>8, <3>1
  <2>10. ASSUME NEW j \in Passed' \ Passed
         PROVE  Reached(out', missed, Named(Introduces(source[j])))
    <3>1. j = Here
      BY <2>1, <2>2, <2>3, <2>10 DEF Passed
    <3> QED
      BY <1>2, <2>5, <2>8, <3>1
  <2> QED
    BY <1>6, <2>6, <2>8, <2>9, <2>10
<1>8. CASE pc' = "returned" /\ out' = Append(out, Torn)
  BY <1>8, IntroducedReturned
<1>9. CASE pc' = "returned" /\ out' = Append(more, Torn)
  <2> SUFFICES ASSUME Scoped, Consistent PROVE Compiles(out', missed')
    BY <1>9 DEF Introduced, Scoped, Consistent, Expressions, Collecting
  <2>1. Fits(Torn, more, missed)
    BY <1>6, TornIsPlain DEF Fits
  <2>2. Compiles(Append(more, Torn), missed)
    BY <1>3, <1>6, <2>1, Fitting
  <2> QED
    BY <1>9, <2>2
<1> QED
  BY <1>5, <1>7, <1>8, <1>9

LEMMA IntroducedStep ==
    ASSUME Basics, Ways, Placed, Gathered, Numbers, Introduced, [Next]_vars
    PROVE  Introduced'
<1>1. CASE Include
  <2>1. CASE PrintFails(<<Torn>>)
    BY <1>1, <2>1, OneFails, IntroducedReturned DEF Include, scanned
  <2>2. CASE pc' = "scanning" /\ UNCHANGED out
    BY <1>1, <2>2, IntroducedEarly DEF Include, scanned
  <2> QED
    BY <1>1, <2>1, <2>2 DEF Include
<1>2. CASE ScanStatement \/ Scanned \/ ScanAborts \/ EndScan
  <2>1. pc = "scanning" /\ pc' \notin {"returned", "generating"} /\ UNCHANGED <<source, missed, out>>
    BY <1>2 DEF ScanStatement, Scanned, ScanAborts, EndScan, scanned
  <2> QED
    BY <2>1, IntroducedEarly
<1>3. ASSUME NEW name \in Undeclared, DeclareFunction(name)
      PROVE  Introduced'
  <2> DEFINE id == Function(functions[name], name)
  <2>1. pc = "declaring" /\ pc' = pc /\ UNCHANGED <<source, functions>>
    BY <1>3 DEF DeclareFunction
  <2>2. CASE UNCHANGED missed /\ out' = Append(out, Extern(id))
    <3>1. Extern(id).id = id /\ Range(Extern(id).refs) = {}
      BY DEF Extern, Declaration, Range
    <3>2. \A i \in DOMAIN out : out[i].id # id
      BY <1>3 DEF Undeclared
    <3>3. Fits(Extern(id), out, missed) /\ Extern(id).id # Torn.id
      BY <3>1, <3>2, Identifiers DEF Fits
    <3> QED
      BY <2>1, <2>2, <3>3, IntroducedEarly
  <2>3. CASE missed' = missed \cup {name} /\ UNCHANGED out
    <3> SUFFICES ASSUME Scoped, Consistent
                 PROVE  Compiles(out, missed') /\ \A i \in DOMAIN out : out[i].id # Torn.id
      BY <2>1, <2>3 DEF Introduced, Scoped, Consistent, Expressions, Collecting
    <3>1. Compiles(out, missed) /\ \A i \in DOMAIN out : out[i].id # Torn.id
      BY <2>1 DEF Introduced
    <3>2. Compiles(out, missed')
      BY <2>3, <3>1 DEF Compiles
    <3> QED
      BY <3>1, <3>2
  <2> QED
    BY <1>3, <2>2, <2>3 DEF DeclareFunction
<1>4. CASE EndDeclare
  <2>1. /\ pc = "declaring" /\ Undeclared = {} /\ pc' = "generating" /\ todo' = source
        /\ stack' = <<>> /\ current' = <<>> /\ UNCHANGED <<source, functions, missed, out>>
    BY <1>4 DEF EndDeclare, scanned, Ways
  <2>2. Here' = 0
    BY <2>1, PlaceFacts DEF Here
  <2>3. Passed' = {}
    BY <2>1, <2>2 DEF Passed
  <2>4. ASSUME NEW n \in DOMAIN functions
        PROVE  Reached(out, missed, Function(functions[n], n))
    <3>1. CASE n \in missed
      BY <3>1, Identifiers DEF Reached
    <3>2. CASE n \notin missed
      BY <2>1, <3>2 DEF Undeclared, Reached
    <3> QED
      BY <3>1, <3>2
  <2>5. Done(out, missed, Passed)'
    BY <2>1, <2>3, <2>4 DEF Done
  <2>6. ~Collecting'
    BY <2>1 DEF Collecting
  <2> SUFFICES ASSUME Scoped, Consistent
               PROVE  Compiles(out, missed) /\ \A i \in DOMAIN out : out[i].id # Torn.id
    BY <2>1, <2>5, <2>6 DEF Introduced, Scoped, Consistent, Expressions
  <2> QED
    BY <2>1 DEF Introduced
<1>5. CASE GenExtern
  <2> DEFINE names == Head(todo).kids
             d == Extern(Named(names[Len(names)].text))
  <2>1. /\ pc = "generating" /\ current = <<>> /\ stack = <<>> /\ todo # <<>>
        /\ Head(todo).tag \in {"DEC", "EXT"} /\ UNCHANGED <<source, missed, functions>>
    BY <1>5 DEF GenExtern, scanned, Ways
  <2>2. CASE PrintFails(<<d>>)
    BY <2>1, <2>2, OneFails, IntroducedReturned
  <2>3. CASE todo' = Tail(todo) /\ out' = Append(out, d) /\ UNCHANGED <<pc, current, stack>>
    <3>1. /\ Here' = Here + 1 /\ Head(todo) = source[Here + 1] /\ Here \in Nat
          /\ Passed = 1 .. Here
      BY <2>1, <2>3, GoesOn, PlaceFacts
    <3>2. Passed' = 1 .. Here + 1
      BY <2>1, <2>3, <3>1 DEF Passed
    <3>3. d.id = Named(Introduces(source[Here + 1])) /\ Range(d.refs) = {}
      BY <2>1, <3>1 DEF Extern, Declaration, Introduces, Range
    <3> HIDE DEF d
    <3>4. Fits(d, out, missed) /\ d.id # Torn.id /\ IsSequence(out)
      BY <3>3, Identifiers DEF Fits, Numbers, Sound
    <3>5. ~Collecting'
      BY <2>1, <2>3 DEF Collecting
    <3> SUFFICES ASSUME Scoped, Consistent
                 PROVE  /\ Compiles(out', missed)
                        /\ \A id : Reached(out, missed, id) => Reached(out', missed, id)
                        /\ \A i \in DOMAIN out' : out'[i].id # Torn.id
                        /\ \A j \in Passed' \ Passed :
                              Reached(out', missed, Named(Introduces(source[j])))
      BY <2>1, <2>3, <3>5, IntroducedGoesOn
    <3>6. Compiles(out, missed) /\ \A i \in DOMAIN out : out[i].id # Torn.id
      BY <2>1 DEF Introduced
    <3>7. /\ Compiles(out', missed)
          /\ \A id : Reached(out, missed, id) => Reached(out', missed, id)
          /\ Reached(out', missed, d.id)
          /\ \A k \in DOMAIN out' : out'[k] = d \/ (k \in DOMAIN out /\ out'[k] = out[k])
      BY <2>3, <3>4, <3>6, Fitting
    <3>8. \A j \in Passed' \ Passed : j = Here + 1
      BY <3>1, <3>2
    <3> QED
      BY <3>3, <3>4, <3>6, <3>7, <3>8
  <2> QED
    BY <1>5, <2>2, <2>3 DEF GenExtern
<1>6. CASE GenStatement
  <2>1. /\ pc = "generating" /\ stack = <<>> /\ todo # <<>> /\ todo' = Tail(todo)
        /\ stack' = Append(<<>>, [syn |-> Head(todo).kids[2], got |-> <<>>])
        /\ UNCHANGED <<source, pc, missed, functions, out>> /\ IsSequence(<<>>)
    BY <1>6 DEF GenStatement, Call, scanned, Ways, WayDown
  <2>2. stack' # <<>> /\ \A i \in DOMAIN stack' : DOMAIN stack'[i].got = {}
    BY <2>1, CalledParts
  <2>3. Here' = Here + 1 /\ Here \in Nat /\ Passed = 1 .. Here
    BY <2>1, GoesOn, PlaceFacts
  <2>4. Passed' = Passed
    BY <2>2, <2>3 DEF Passed
  <2>5. Gotten(out, missed, stack')
    BY <2>2 DEF Gotten
  <2> QED
    BY <2>1, <2>4, <2>5, IntroducedSilently
<1>7. CASE GenReference
  <2> DEFINE id == Named(Top.syn.text)
  <2>1. /\ Collecting /\ pc = "generating" /\ stack # <<>> /\ Give(id) /\ Top.syn.tag = "ID"
        /\ Depth > 0 /\ UNCHANGED <<source, pc, todo, missed, functions, out>>
    BY <1>7 DEF GenReference, Printing, Complete, Collecting, scanned
  <2>2. /\ Depth \in Nat /\ (stack' = <<>> <=> Depth = 0)
        /\ \A i \in DOMAIN stack' :
              /\ i \in DOMAIN stack /\ stack'[i].syn = stack[i].syn
              /\ \A k \in DOMAIN stack'[i].got :
                    \/ k \in DOMAIN stack[i].got /\ stack'[i].got[k] = stack[i].got[k]
                    \/ stack'[i].got[k] = id /\ Parts(stack[i].syn)[k] = Top.syn
    BY <2>1, GivenParts DEF Ways
  <2>3. Here' = Here /\ stack' # <<>>
    BY <2>1, <2>2 DEF Here
  <2>4. Passed' = Passed
    BY <2>1, <2>3 DEF Passed
  <2>5. ASSUME Scoped, Consistent
        PROVE  Gotten(out, missed, stack')
    <3>1. HasExpression(source[Here]) /\ Here \in DOMAIN source
      BY <2>1, TopFacts DEF Placed, Collecting, Statement, HasExpression
    <3>2. PICK j \in 1 .. Here - 1 : Introduces(source[j]) = Top.syn.text
      BY <2>1, <2>5, <3>1, TopFacts DEF Scoped
    <3>3. j \in Passed
      BY <2>1, <3>2, PlaceFacts
    <3>4. Reached(out, missed, id)
      BY <2>1, <2>5, <3>2, <3>3 DEF Introduced, Done
    <3> HIDE DEF id
    <3>5. ASSUME NEW i \in DOMAIN stack', NEW k \in DOMAIN stack'[i].got
          PROVE  Reached(out, missed, stack'[i].got[k])
      <4>1. CASE stack'[i].got[k] = id
        BY <3>4, <4>1
      <4>2. CASE /\ i \in DOMAIN stack /\ k \in DOMAIN stack[i].got
                 /\ stack'[i].got[k] = stack[i].got[k]
        BY <2>1, <2>5, <4>2 DEF Introduced, Gotten
      <4> QED
        BY <2>2, <4>1, <4>2
    <3> QED
      BY <3>5 DEF Gotten
  <2> QED
    BY <2>1, <2>4, <2>5, IntroducedSilently
<1>8. CASE GenAlias
  <2> DEFINE d == Declaration(Named(Name), "alias", <<[unprefixed |-> Top.syn.text]>>, <<>>)
  <2>1. Collecting /\ Complete /\ Emit(d) /\ UNCHANGED <<source, missed, functions>>
    BY <1>8 DEF GenAlias, Printing, Collecting, scanned
  <2>2. d.id = Named(Name) /\ Range(d.refs) = {[unprefixed |-> Top.syn.text]} /\ d.what = "alias"
    BY DEF Declaration, Range
  <2> HIDE DEF d
  <2>3. Fits(d, out, missed) /\ d.id # Torn.id
    BY <2>2, Identifiers DEF Fits
  <2> QED
    BY <2>1, <2>2, <2>3, IntroducedPrinted
<1>9. CASE GenNode
  <2> DEFINE d == Declaration(Signed, Top.syn.tag, Top.got \o Uses(Top.syn), Data(Top.syn))
  <2>1. Collecting /\ Complete /\ Emit(d) /\ UNCHANGED <<source, missed, functions>>
    BY <1>9 DEF GenNode, Printing, Collecting, scanned
  <2>2. d.id = Signed
    BY DEF Declaration
  <2>3. Signed # Torn.id
    BY Identifiers, NewNumber DEF Signed, Numbers
  <2>4. Scoped /\ Consistent => Fits(d, out, missed)
    BY <2>1, NodeFits
  <2> HIDE DEF d
  <2>5. Depth = 0 => d.id = Named(Name)
    BY <2>2 DEF Signed
  <2> QED
    BY <2>1, <2>2, <2>3, <2>4, <2>5, IntroducedPrinted
<1>10. CASE SetUnknown \/ EndStatements
  <2>1. pc = "generating" /\ pc' = "returned" /\ UNCHANGED <<source, missed, out>>
    BY <1>10 DEF SetUnknown, EndStatements, Evaluating, Return, scanned
  <2> QED
    BY <2>1, IntroducedReturned
<1>11. CASE SetPart
  <2>1. /\ pc = "generating" /\ stack # <<>> /\ Depth > 0 /\ Statement.tag = "SET"
        /\ UNCHANGED <<source, pc, todo, current, missed, functions, out>>
    BY <1>11 DEF SetPart, Evaluating, Complete, scanned
  <2>2. PICK members : Give(members)
    BY <1>11 DEF SetPart
  <2>3. stack' # <<>> /\ Here' = Here
    BY <2>1, <2>2, GivenParts DEF Ways, Here
  <2>4. Passed' = Passed
    BY <2>1, <2>3 DEF Passed
  <2>5. ~Collecting'
    BY <2>1 DEF Collecting, Statement
  <2> QED
    BY <2>1, <2>4, <2>5, IntroducedSilently
<1>12. CASE GenSet
  <2>1. /\ pc = "generating" /\ stack # <<>> /\ Depth = 0 /\ current # <<>>
        /\ UNCHANGED <<source, missed, functions>>
    BY <1>12 DEF GenSet, Evaluating, Complete, scanned
  <2>2. PICK members :
          LET words == Declaration(Numbered(uid), "words", <<>>, <<members>>)
              parser == Declaration(Named(Name), "SET", <<Numbered(uid)>>, <<>>)
          IN  \/ out' = out \o <<words, parser>> /\ Give(members) /\ current' = <<>>
                 /\ UNCHANGED <<pc, todo>>
              \/ PrintFails(<<words, parser>>)
    BY <1>12 DEF GenSet
  <2> QED
    BY <2>1, <2>2, SetIntroduced
<1>13. CASE Descend
  <2> DEFINE part == Parts(Top.syn)[Len(Top.got) + 1]
  <2>1. /\ stack # <<>> /\ stack' = Append(stack, [syn |-> part, got |-> <<>>])
        /\ UNCHANGED <<source, todo, pc, current, functions, missed, out>> /\ IsSequence(stack)
    BY <1>13 DEF Descend, Call, scanned, Ways, WayDown
  <2> HIDE DEF part
  <2>2. /\ stack' # <<>>
        /\ \A i \in DOMAIN stack' :
              \/ i \in DOMAIN stack /\ stack'[i] = stack[i]
              \/ DOMAIN stack'[i].got = {}
    BY <2>1, CalledParts
  <2>3. Passed' = Passed
    BY <2>1, <2>2 DEF Passed, Here
  <2>4. Collecting' = Collecting
    BY <2>1 DEF Collecting, Statement
  <2>5. CASE pc = "generating"
    <3>1. Gotten(out, missed, stack) => Gotten(out, missed, stack')
      BY <2>2 DEF Gotten
    <3>2. Scoped /\ Consistent => (Collecting' => Gotten(out, missed, stack'))
      BY <2>4, <3>1 DEF Introduced
    <3> QED
      BY <2>1, <2>3, <2>5, <3>2, IntroducedSilently
  <2>6. CASE pc \in {"scanning", "aborted"}
    BY <2>1, <2>6, IntroducedEarly
  <2>7. CASE pc = "returned"
    BY <1>13, <2>1, <2>7 DEF Introduced, Scoped, Consistent, Expressions, Collecting
  <2> QED
    BY <2>1, <2>5, <2>6, <2>7 DEF Basics, Ways
<1>14. CASE UNCHANGED vars
  <2>1. Passed' = Passed /\ Collecting' = Collecting
    BY <1>14 DEF vars, Passed, Here, Collecting, Statement
  <2>2. Torn'.id = Torn.id
    BY DEF Torn, Declaration
  <2> QED
    BY <1>14, <2>1, <2>2 DEF vars, Introduced, Scoped, Consistent, Expressions, Done, Gotten
<1> QED
  BY <1>1, <1>2, <1>3, <1>4, <1>5, <1>6, <1>7, <1>8, <1>9, <1>10, <1>11, <1>12, <1>13, <1>14
     DEF Next, Scan, Declare, Generate

LEMMA PlaceInvariance == Spec => [](Basics /\ Ways /\ Numbers /\ Placed /\ Gathered)
<1>1. Init => Numbers
  <2> SUFFICES ASSUME Init PROVE Numbers
    OBVIOUS
  <2>1. <<>> \in Seq({}) /\ DOMAIN <<>> = {}
    OBVIOUS
  <2> QED
    BY <2>1 DEF Init, Numbers, Sound, IsSequence, Collecting
<1>2. Init => Gathered
  <2>1. DOMAIN <<>> = {}
    OBVIOUS
  <2> QED
    BY <2>1 DEF Init, Gathered
<1> QED
  BY <1>1, <1>2, PlacedFirst, NumbersStep, PlacedStep, GatheredStep, CallInvariance, PTL DEF Spec

\* For every source in which each name is that of an earlier statement, and no
\* function is both a hook and a call, each identifier that a declaration refers to
\* is declared above it, but for functions whose prototypes could not be printed,
\* and no number or prototype is printed twice, wherever printing stops.
THEOREM DeclarationsAreInScope == Spec => []InScope
<1>1. Init => Introduced
  <2>1. DOMAIN <<>> = {}
    OBVIOUS
  <2> QED
    BY <2>1 DEF Init, Introduced, Compiles, Collecting
<1>2. Introduced => InScope
  BY Zenon DEF Introduced, Compiles, InScope
<1> QED
  BY <1>1, <1>2, IntroducedStep, PlaceInvariance, PTL DEF Spec
-----------------------------------------------------------------------------
\* Induction over the natural numbers, for sets.
LEMMA Least ==
    ASSUME NEW T, T \subseteq Nat, T # {}
    PROVE  \E x \in T : \A y \in T : x <= y
<1> DEFINE R == OpToRel(<, Nat)
<1>1. IsWellFoundedOn(R, Nat)
  BY NatLessThanWellFounded
<1> HIDE DEF R
<1>2. PICK x \in T : \A y \in T : ~(<<y, x>> \in R)
  BY <1>1, WFMin
<1>3. \A y \in T : x \in Nat /\ y \in Nat /\ ~(y < x)
  BY <1>2 DEF R, OpToRel
<1> QED
  BY <1>3

LEMMA Induct ==
    ASSUME NEW S, 0 \in S, \A n \in Nat : n \in S => n + 1 \in S
    PROVE  Nat \subseteq S
<1> SUFFICES ASSUME Nat \ S # {} PROVE FALSE
  OBVIOUS
<1>1. PICK x \in Nat \ S : \A y \in Nat \ S : x <= y
  BY Least
<1>2. x # 0 /\ x - 1 \in Nat
  BY <1>1
<1>3. x - 1 \in S
  BY <1>1, <1>2
<1> QED
  BY <1>2, <1>3

\* What the k-th declaration says, if f has what those above it say.
Meaning(f, above, id) == IF above = {} THEN id ELSE f[CHOOSE j \in above : TRUE]
Unfolds(o, f, k) ==
    Said(o[k].what,
         [i \in DOMAIN o[k].refs |-> Meaning(f, Above(o, k, o[k].refs[i]), o[k].refs[i])],
         o[k].data)

LEMMA UnfoldsAlike ==
    ASSUME NEW o, NEW p, NEW k \in Nat, o[k] = p[k],
           \A j \in 1 .. k - 1 : o[j] = p[j],
           NEW f, NEW g, \A j \in 1 .. k - 1 : f[j] = g[j]
    PROVE  Unfolds(o, f, k) = Unfolds(p, g, k)
<1>1. ASSUME NEW id
      PROVE  Meaning(f, Above(o, k, id), id) = Meaning(g, Above(p, k, id), id)
  <2>1. Above(o, k, id) = Above(p, k, id) /\ Above(o, k, id) \subseteq 1 .. k - 1
    BY DEF Above
  <2>2. CASE Above(o, k, id) = {}
    BY <2>1, <2>2 DEF Meaning
  <2>3. CASE Above(o, k, id) # {}
    <3> DEFINE above == Above(o, k, id)
               j == CHOOSE j \in above : TRUE
    <3>1. j \in above
      BY <2>3
    <3>2. f[j] = g[j]
      BY <2>1, <3>1
    <3> HIDE DEF j
    <3>3. Meaning(f, above, id) = f[j] /\ Meaning(g, above, id) = g[j]
      BY <2>3 DEF Meaning, j
    <3> QED
      BY <2>1, <3>2, <3>3
  <2> QED
    BY <2>2, <2>3
<1>2. [i \in DOMAIN o[k].refs |-> Meaning(f, Above(o, k, o[k].refs[i]), o[k].refs[i])] =
      [i \in DOMAIN p[k].refs |-> Meaning(g, Above(p, k, p[k].refs[i]), p[k].refs[i])]
  BY <1>1
<1> QED
  BY <1>2 DEF Unfolds

LEMMA UnfoldsSame ==
    ASSUME NEW o, NEW k \in Nat, NEW f, NEW g, \A j \in 1 .. k - 1 : f[j] = g[j]
    PROVE  Unfolds(o, f, k) = Unfolds(o, g, k)
<1>1. \A j \in 1 .. k - 1 : o[j] = o[j]
  OBVIOUS
<1> QED
  BY <1>1, UnfoldsAlike

\* There is a function that unfolds all declarations, so Unfolded is one.
LEMMA UnfoldedIs ==
    ASSUME NEW o, IsSequence(o)
    PROVE  Unfolded(o) = [k \in DOMAIN o |-> Unfolds(o, Unfolded(o), k)]
<1> DEFINE n == Len(o)
           Begun(m, f) == \A k \in 1 .. m : f[k] = Unfolds(o, f, k)
           S == {m \in Nat : m <= n => \E f : Begun(m, f)}
<1>1. n \in Nat /\ DOMAIN o = 1 .. n
  BY Appended
<1>2. 0 \in S
  OBVIOUS
<1>3. ASSUME NEW m \in Nat, m \in S
      PROVE  m + 1 \in S
  <2> SUFFICES ASSUME m + 1 <= n PROVE \E f : Begun(m + 1, f)
    OBVIOUS
  <2>1. PICK f : Begun(m, f)
    BY <1>1, <1>3
  <2> DEFINE g == [k \in 1 .. m + 1 |-> IF k <= m THEN f[k] ELSE Unfolds(o, f, m + 1)]
  <2>2. ASSUME NEW k \in 1 .. m + 1
        PROVE  g[k] = Unfolds(o, g, k)
    <3>1. \A j \in 1 .. k - 1 : f[j] = g[j]
      OBVIOUS
    <3> HIDE DEF g
    <3>2. Unfolds(o, f, k) = Unfolds(o, g, k)
      BY <3>1, UnfoldsSame
    <3>3. CASE k <= m
      BY <2>1, <3>2, <3>3 DEF g
    <3>4. CASE k = m + 1
      BY <3>2, <3>4 DEF g
    <3> QED
      BY <3>3, <3>4
  <2> HIDE DEF g
  <2>3. Begun(m + 1, g)
    BY <2>2
  <2> QED
    BY <2>3
<1> HIDE DEF S
<1>4. n \in S
  BY <1>1, <1>2, <1>3, Induct
<1>5. PICK f : Begun(n, f)
  BY <1>1, <1>4 DEF S
<1> DEFINE g == [k \in DOMAIN o |-> f[k]]
<1>6. ASSUME NEW k \in DOMAIN o
      PROVE  g[k] = Unfolds(o, g, k)
  <2>1. \A j \in 1 .. k - 1 : f[j] = g[j]
    BY <1>1
  <2> HIDE DEF g
  <2>2. Unfolds(o, f, k) = Unfolds(o, g, k)
    <3>1. k \in Nat
      BY <1>1
    <3> QED
      BY <2>1, <3>1, UnfoldsSame
  <2> QED
    BY <1>1, <1>5, <2>2 DEF g
<1>7. g = [k \in DOMAIN o |-> Unfolds(o, g, k)]
  <2> DEFINE h == [k \in DOMAIN o |-> Unfolds(o, g, k)]
  <2>1. \A k \in DOMAIN o : h[k] = g[k]
    BY <1>6
  <2> QED
    BY <2>1
<1> HIDE DEF g
<1>8. Unfolded(o) = CHOOSE said : said = [k \in DOMAIN o |-> Unfolds(o, said, k)]
  BY DEF Unfolded, Unfolds, Meaning
<1> DEFINE IsIt(said) == said = [k \in DOMAIN o |-> Unfolds(o, said, k)]
<1>9. IsIt(g)
  BY <1>7
<1>10. IsIt(CHOOSE said : IsIt(said))
  BY <1>9, Zenon
<1> QED
  BY <1>8, <1>10

\* What a reference stands for below o.
Meant(o, id) == Meaning(Unfolded(o), Above(o, Len(o) + 1, id), id)

\* One more declaration leaves what those above it say.
LEMMA UnfoldedMore ==
    ASSUME NEW o, IsSequence(o), NEW d
    PROVE  LET p == Append(o, d)
           IN  /\ \A k \in DOMAIN o : Unfolded(p)[k] = Unfolded(o)[k]
               /\ Unfolded(p)[Len(o) + 1] =
                     Said(d.what, [i \in DOMAIN d.refs |-> Meant(o, d.refs[i])], d.data)
<1> DEFINE p == Append(o, d)
           n == Len(o)
           f == Unfolded(o)
           g == Unfolded(p)
<1>1. /\ n \in Nat /\ DOMAIN o = 1 .. n /\ DOMAIN p = 1 .. n + 1 /\ IsSequence(p)
      /\ \A i \in 1 .. n : p[i] = o[i]
      /\ p[n + 1] = d
  BY Appended
<1> HIDE DEF p
<1>2. \A k \in 1 .. n : f[k] = Unfolds(o, f, k)
  <2>1. f = [k \in DOMAIN o |-> Unfolds(o, f, k)]
    BY UnfoldedIs
  <2> HIDE DEF f
  <2> QED
    BY <1>1, <2>1
<1>3. \A k \in 1 .. n + 1 : g[k] = Unfolds(p, g, k)
  <2>1. g = [k \in DOMAIN p |-> Unfolds(p, g, k)]
    BY <1>1, UnfoldedIs
  <2> HIDE DEF g
  <2> QED
    BY <1>1, <2>1
<1> HIDE DEF f, g, n
<1> DEFINE S == {m \in Nat : m <= n => \A k \in 1 .. m : g[k] = f[k]}
<1>4. 0 \in S
  OBVIOUS
<1>5. ASSUME NEW m \in Nat, m \in S
      PROVE  m + 1 \in S
  <2> SUFFICES ASSUME m + 1 <= n PROVE g[m + 1] = f[m + 1]
    BY <1>1, <1>5
  <2>1. \A j \in 1 .. (m + 1) - 1 : p[j] = o[j] /\ g[j] = f[j]
    BY <1>1, <1>5
  <2>2. p[m + 1] = o[m + 1]
    BY <1>1
  <2>3. Unfolds(p, g, m + 1) = Unfolds(o, f, m + 1)
    <3>1. m + 1 \in Nat
      OBVIOUS
    <3> QED
      BY <2>1, <2>2, <3>1, UnfoldsAlike
  <2> QED
    BY <1>1, <1>2, <1>3, <2>3
<1> HIDE DEF S
<1>6. n \in S
  BY <1>1, <1>4, <1>5, Induct
<1>7. \A k \in 1 .. n : g[k] = f[k]
  BY <1>1, <1>6 DEF S
<1>8. g[n + 1] = Said(d.what, [i \in DOMAIN d.refs |-> Meant(o, d.refs[i])], d.data)
  <2> DEFINE q == Append(o, d)
  <2>1. ASSUME NEW id
        PROVE  Meaning(g, Above(p, n + 1, id), id) = Meant(o, id)
    <3>1. Above(p, n + 1, id) = Above(o, n + 1, id) /\ Above(o, n + 1, id) \subseteq 1 .. n
      BY <1>1 DEF Above
    <3>2. CASE Above(o, n + 1, id) = {}
      BY <3>1, <3>2 DEF Meaning, Meant, n
    <3>3. CASE Above(o, n + 1, id) # {}
      <4> DEFINE above == Above(o, n + 1, id)
                 j == CHOOSE j \in above : TRUE
      <4>1. j \in above
        BY <3>3
      <4>2. g[j] = f[j]
        BY <1>7, <3>1, <4>1
      <4> HIDE DEF j
      <4>3. Meaning(g, above, id) = g[j] /\ Meaning(f, above, id) = f[j]
        BY <3>3 DEF Meaning, j
      <4>4. Meant(o, id) = Meaning(f, above, id)
        BY DEF Meant, f, n
      <4> QED
        BY <3>1, <4>2, <4>3, <4>4
    <3> QED
      BY <3>2, <3>3
  <2>2. g[n + 1] = Unfolds(p, g, n + 1)
    BY <1>1, <1>3
  <2>3. [i \in DOMAIN p[n + 1].refs |->
            Meaning(g, Above(p, n + 1, p[n + 1].refs[i]), p[n + 1].refs[i])] =
        [i \in DOMAIN d.refs |-> Meant(o, d.refs[i])]
    BY <1>1, <2>1
  <2>4. Unfolds(p, g, n + 1) =
           Said(d.what, [i \in DOMAIN d.refs |-> Meant(o, d.refs[i])], d.data)
    BY <1>1, <2>3 DEF Unfolds
  <2> QED
    BY <2>2, <2>4
<1> QED
  BY <1>1, <1>7, <1>8 DEF f, g, n, p

\* What is no number stands for itself.
LEMMA NoNumberMeant ==
    ASSUME NEW o, NEW id, "number" \notin DOMAIN id
    PROVE  Meant(o, id) = id
<1>1. Above(o, Len(o) + 1, id) = {}
  BY DEF Above
<1> QED
  BY <1>1 DEF Meant, Meaning

\* A number stands for the only declaration that has it.
LEMMA NumberMeant ==
    ASSUME NEW o, NEW u, Sound(o, u), NEW j \in DOMAIN o, "number" \in DOMAIN o[j].id
    PROVE  Meant(o, o[j].id) = Unfolded(o)[j]
<1> DEFINE above == Above(o, Len(o) + 1, o[j].id)
<1>1. DOMAIN o = 1 .. Len(o) /\ Len(o) \in Nat
  BY Appended DEF Sound
<1>2. above = {j}
  <2>1. j \in above
    BY <1>1 DEF Above
  <2>2. ASSUME NEW i \in above
        PROVE  i = j
    <3>1. i \in DOMAIN o /\ o[i].id = o[j].id
      BY <1>1 DEF Above
    <3> QED
      BY <3>1 DEF Sound
  <2> QED
    BY <2>1, <2>2
<1> HIDE DEF above
<1>3. (CHOOSE i \in above : TRUE) = j
  BY <1>2
<1>4. Meaning(Unfolded(o), above, o[j].id) = Unfolded(o)[j]
  BY <1>2, <1>3 DEF Meaning
<1> QED
  BY <1>4 DEF Meant, above

\* What stands for something does so below one more declaration.
LEMMA MeantMore ==
    ASSUME NEW o, NEW u, Sound(o, u), NEW d, NEW v, Follows(d, o, u, v)
    PROVE  /\ \A id : Declared(o, id) => Meant(Append(o, d), id) = Meant(o, id)
           /\ "number" \in DOMAIN d.id =>
                 Meant(Append(o, d), d.id) =
                    Said(d.what, [i \in DOMAIN d.refs |-> Meant(o, d.refs[i])], d.data)
<1> DEFINE p == Append(o, d)
           n == Len(o)
<1>1. IsSequence(o)
  BY DEF Sound
<1>2. /\ n \in Nat /\ DOMAIN o = 1 .. n /\ DOMAIN p = 1 .. n + 1
      /\ \A i \in 1 .. n : p[i] = o[i]
      /\ p[n + 1] = d
  BY <1>1, Appended
<1>3. Sound(p, v)
  BY Adding
<1>4. /\ \A k \in DOMAIN o : Unfolded(p)[k] = Unfolded(o)[k]
      /\ Unfolded(p)[n + 1] =
            Said(d.what, [i \in DOMAIN d.refs |-> Meant(o, d.refs[i])], d.data)
  BY <1>1, UnfoldedMore
<1> HIDE DEF p, n
<1>5. ASSUME NEW id, Declared(o, id)
      PROVE  Meant(p, id) = Meant(o, id)
  <2>1. CASE "number" \notin DOMAIN id
    BY <2>1, NoNumberMeant
  <2>2. CASE "number" \in DOMAIN id
    <3>1. PICK j \in DOMAIN o : o[j].id = id
      BY <1>5, <2>2 DEF Declared
    <3>2. j \in DOMAIN p /\ p[j].id = id
      BY <1>2, <3>1
    <3>3. Meant(o, id) = Unfolded(o)[j]
      BY <2>2, <3>1, NumberMeant
    <3>4. Meant(p, id) = Unfolded(p)[j]
      BY <1>3, <2>2, <3>2, NumberMeant
    <3> QED
      BY <1>4, <3>1, <3>3, <3>4
  <2> QED
    BY <2>1, <2>2
<1>6. "number" \in DOMAIN d.id => Meant(p, d.id) = Unfolded(p)[n + 1]
  <2>1. n + 1 \in DOMAIN p /\ p[n + 1].id = d.id
    BY <1>2
  <2> QED
    BY <1>3, <2>1, NumberMeant
<1> QED
  BY <1>4, <1>5, <1>6 DEF p

\* References that are joined, and what they stand for.
StandFor(o, refs, all) ==
    /\ IsSequence(all) /\ DOMAIN refs = DOMAIN all
    /\ \A i \in DOMAIN refs : Meant(o, refs[i]) = all[i]

LEMMA JoinedMeant ==
    ASSUME NEW o, NEW s, IsSequence(s), NEW t, IsSequence(t), NEW r, IsSequence(r),
           Len(r) = Len(s), \A k \in DOMAIN s : Meant(o, s[k]) = r[k],
           \A k \in DOMAIN t : Meant(o, t[k]) = t[k]
    PROVE  StandFor(o, s \o t, r \o t)
<1>1. PICK S, T, R : s \in Seq(S) /\ t \in Seq(T) /\ r \in Seq(R)
  BY DEF IsSequence
<1> DEFINE Wider == S \cup T \cup R
           a == s \o t
           b == r \o t
           m == Len(s)
           n == Len(t)
<1>2. s \in Seq(Wider) /\ t \in Seq(Wider) /\ r \in Seq(Wider)
  BY <1>1
<1> HIDE DEF Wider
<1>3. /\ a \in Seq(Wider) /\ Len(a) = m + n
      /\ \A k \in 1 .. m + n : a[k] = IF k <= m THEN s[k] ELSE t[k - m]
  BY <1>2, ConcatProperties
<1>4. /\ b \in Seq(Wider) /\ Len(b) = m + n
      /\ \A k \in 1 .. m + n : b[k] = IF k <= m THEN r[k] ELSE t[k - m]
  <2>1. /\ b \in Seq(Wider) /\ Len(b) = Len(r) + Len(t)
        /\ \A k \in 1 .. Len(r) + Len(t) :
              b[k] = IF k <= Len(r) THEN r[k] ELSE t[k - Len(r)]
    BY <1>2, ConcatProperties
  <2>2. Len(r) = m /\ Len(t) = n
    OBVIOUS
  <2> HIDE DEF b, m, n
  <2> QED
    BY <2>1, <2>2
<1>5. m \in Nat /\ n \in Nat /\ DOMAIN s = 1 .. m /\ DOMAIN t = 1 .. n
  BY <1>2
<1> HIDE DEF a, b, m, n
<1>6. DOMAIN a = 1 .. m + n /\ DOMAIN b = 1 .. m + n /\ IsSequence(b)
  BY <1>3, <1>4 DEF IsSequence
<1>7. ASSUME NEW k \in 1 .. m + n
      PROVE  Meant(o, a[k]) = b[k]
  <2>1. CASE k <= m
    <3>1. k \in DOMAIN s /\ a[k] = s[k] /\ b[k] = r[k]
      BY <1>3, <1>4, <1>5, <2>1
    <3> QED
      BY <3>1, Zenon
  <2>2. CASE ~(k <= m)
    <3>1. k - m \in DOMAIN t /\ a[k] = t[k - m] /\ b[k] = t[k - m]
      BY <1>3, <1>4, <1>5, <2>2
    <3> QED
      BY <3>1, Zenon
  <2> QED
    BY <2>1, <2>2
<1> QED
  BY <1>6, <1>7 DEF a, b, StandFor

\* What a part of an expression stands for, and what the calls under way have
\* collected stands for the parts.
Asked(part) == IF part.tag = "ID" THEN Named(part.text) ELSE Described(part)
Grasped(o, frames) ==
    \A i \in DOMAIN frames : \A k \in DOMAIN frames[i].got :
        Meant(o, frames[i].got[k]) = Asked(Parts(frames[i].syn)[k])
Understood == Collecting => Grasped(out, stack)

\* A node says what its expression describes.
LEMMA NodeSays ==
    ASSUME Ways, Placed, Gathered, Understood, Collecting, Complete, Top.syn.tag # "ID"
    PROVE  LET refs == Top.got \o Uses(Top.syn)
           IN  Said(Top.syn.tag, [i \in DOMAIN refs |-> Meant(out, refs[i])], Data(Top.syn)) =
                  Described(Top.syn)
<1> DEFINE parts == Parts(Top.syn)
           uses == Uses(Top.syn)
           refs == Top.got \o uses
           r == [k \in DOMAIN parts |-> Asked(parts[k])]
<1>1. /\ stack # <<>> /\ Top.syn \in Nodes /\ IsSequence(Top.got) /\ Here \in DOMAIN source
      /\ Within(Top.syn) \subseteq Within(source[Here].kids[2])
      /\ Len(stack) \in DOMAIN stack /\ Top = stack[Len(stack)]
  BY TopFacts DEF Complete
<1>2. /\ DOMAIN Top.got = 1 .. Len(Top.got) /\ Len(Top.got) \in Nat
      /\ DOMAIN parts = DOMAIN Top.got
  BY AllParts
<1>3. \A x \in Within(Top.syn) : IsNamed(x)
  <2>1. HasExpression(source[Here])
    BY DEF Placed, Collecting, Statement, HasExpression
  <2>2. AllNamed
    BY DEF Gathered, Collecting
  <2> QED
    BY <1>1, <2>1, <2>2, InExpressions DEF AllNamed, Entered
<1>4. Described(Top.syn) = NodeSaid(Described, Top.syn)
  BY <1>1, <1>3, MeaningAssumption
<1>5. \A k \in DOMAIN Top.got : Meant(out, Top.got[k]) = Asked(parts[k])
  BY <1>1 DEF Understood, Grasped
<1>6. IsSequence(uses) /\ \A k \in DOMAIN uses : Meant(out, uses[k]) = uses[k]
  BY UsesNoNumber, NoNumberMeant
<1> HIDE DEF uses, parts
<1>7. IsSequence(r) /\ Len(r) = Len(Top.got) /\ \A k \in DOMAIN Top.got : r[k] = Asked(parts[k])
  <2> DEFINE S == {r[k] : k \in DOMAIN r}
             n == Len(Top.got)
  <2>1. n \in Nat /\ r = [k \in 1 .. n |-> Asked(parts[k])]
    BY <1>2
  <2>2. DOMAIN r = 1 .. n /\ \A k \in 1 .. n : r[k] \in S
    BY <2>1
  <2> HIDE DEF n, S
  <2>3. r \in Seq(S) /\ Len(r) = n
    BY <2>1, <2>2
  <2>4. \A k \in DOMAIN Top.got : r[k] = Asked(parts[k])
    BY <1>2
  <2>5. IsSequence(r)
    BY <2>3, Zenon DEF IsSequence
  <2> HIDE DEF r
  <2> QED
    BY <2>3, <2>4, <2>5 DEF n
<1> HIDE DEF r
<1> DEFINE all == r \o uses
<1>8. StandFor(out, refs, all)
  <2>1. \A k \in DOMAIN Top.got : Meant(out, Top.got[k]) = r[k]
    BY <1>5, <1>7
  <2> QED
    BY <1>1, <1>6, <1>7, <2>1, JoinedMeant, Zenon
<1>9. NodeSaid(Described, Top.syn) = Said(Top.syn.tag, r \o uses, Data(Top.syn))
  BY DEF NodeSaid, Asked, r, uses, parts
<1> HIDE DEF refs, all
<1>10. [i \in DOMAIN refs |-> Meant(out, refs[i])] = all
  <2>1. all = [i \in DOMAIN all |-> all[i]]
    BY <1>8 DEF StandFor, IsSequence
  <2> QED
    BY <1>8, <2>1 DEF StandFor
<1> QED
  BY <1>4, <1>9, <1>10 DEF refs, uses, all

\* A result that stands for the expression of its call.
LEMMA UnderstoodGiven ==
    ASSUME Ways, stack # <<>>, Understood, Collecting, NEW o, NEW result, Give(result),
           Collected(out, stack),
           \A id : Declared(out, id) => Meant(o, id) = Meant(out, id),
           Depth # 0 => Meant(o, result) = Asked(Top.syn)
    PROVE  Grasped(o, stack')
<1>1. /\ Depth \in Nat /\ DOMAIN stack' = 1 .. Depth
      /\ \A i \in DOMAIN stack' :
            /\ i \in DOMAIN stack /\ stack'[i].syn = stack[i].syn
            /\ \A k \in DOMAIN stack'[i].got :
                  \/ k \in DOMAIN stack[i].got /\ stack'[i].got[k] = stack[i].got[k]
                  \/ stack'[i].got[k] = result /\ Parts(stack[i].syn)[k] = Top.syn
  BY GivenParts DEF Ways
<1>2. ASSUME NEW i \in DOMAIN stack', NEW k \in DOMAIN stack'[i].got
      PROVE  Meant(o, stack'[i].got[k]) = Asked(Parts(stack'[i].syn)[k])
  <2>1. Depth # 0
    BY <1>1
  <2>2. i \in DOMAIN stack /\ stack'[i].syn = stack[i].syn
    BY <1>1
  <2>3. CASE k \in DOMAIN stack[i].got /\ stack'[i].got[k] = stack[i].got[k]
    <3>1. Declared(out, stack[i].got[k])
      BY <2>2, <2>3 DEF Collected
    <3>2. Meant(out, stack[i].got[k]) = Asked(Parts(stack[i].syn)[k])
      BY <2>2, <2>3 DEF Understood, Grasped
    <3>3. Meant(o, stack[i].got[k]) = Meant(out, stack[i].got[k])
      BY <3>1
    <3> QED
      BY <2>2, <2>3, <3>2, <3>3
  <2>4. CASE stack'[i].got[k] = result /\ Parts(stack[i].syn)[k] = Top.syn
    BY <2>1, <2>2, <2>4
  <2> QED
    BY <1>1, <2>3, <2>4
<1> QED
  BY <1>2, Zenon DEF Grasped

\* A declaration that is printed for the innermost call.
LEMMA UnderstoodPrinted ==
    ASSUME Ways, Numbers, Understood, Collecting, Complete, NEW d, Emit(d),
           Follows(d, out, uid, uid'), Depth # 0 => "number" \in DOMAIN d.id,
           Depth # 0 =>
              Said(d.what, [i \in DOMAIN d.refs |-> Meant(out, d.refs[i])], d.data) = Asked(Top.syn)
    PROVE  Understood'
<1>1. CASE PrintFails(<<d>>)
  BY <1>1 DEF PrintFails, Return, Understood, Collecting
<1>2. CASE out' = Append(out, d) /\ Give(d.id)
  <2>1. Sound(out, uid) /\ Collected(out, stack) /\ stack # <<>>
    BY DEF Numbers, Complete
  <2>2. /\ \A id : Declared(out, id) => Meant(Append(out, d), id) = Meant(out, id)
        /\ "number" \in DOMAIN d.id =>
              Meant(Append(out, d), d.id) =
                 Said(d.what, [i \in DOMAIN d.refs |-> Meant(out, d.refs[i])], d.data)
    BY <2>1, MeantMore
  <2>3. Depth # 0 => Meant(Append(out, d), d.id) = Asked(Top.syn)
    BY <2>2
  <2>4. Grasped(Append(out, d), stack')
    BY <1>2, <2>1, <2>2, <2>3, UnderstoodGiven
  <2> QED
    BY <1>2, <2>4 DEF Understood
<1> QED
  BY <1>1, <1>2 DEF Emit

LEMMA UnderstoodStep ==
    ASSUME Ways, Placed, Gathered, Numbers, Understood, [Next]_vars
    PROVE  Understood'
<1>1. CASE Scan \/ Declare
  <2>1. current' = <<>> \/ pc' # "generating"
    BY <1>1 DEF Scan, Declare, Include, ScanStatement, Scanned, ScanAborts, EndScan,
                DeclareFunction, EndDeclare, PrintFails, Return, Ways
  <2> QED
    BY <2>1 DEF Understood, Collecting
<1>2. CASE GenExtern
  <2>1. current' = <<>>
    BY <1>2 DEF GenExtern, PrintFails, Return
  <2> QED
    BY <2>1 DEF Understood, Collecting
<1>3. CASE GenStatement
  <2>1. stack' = Append(<<>>, [syn |-> Head(todo).kids[2], got |-> <<>>]) /\ IsSequence(<<>>)
    BY <1>3 DEF GenStatement, Call, Ways, WayDown
  <2>2. DOMAIN <<>> = {}
    OBVIOUS
  <2>3. \A i \in DOMAIN stack' : DOMAIN stack'[i].got = {}
    BY <2>1, <2>2, CalledParts
  <2> QED
    BY <2>3 DEF Understood, Grasped
<1>4. CASE GenReference
  <2> DEFINE id == Named(Top.syn.text)
  <2>1. /\ Collecting /\ stack # <<>> /\ Give(id) /\ Top.syn.tag = "ID"
        /\ UNCHANGED out /\ Collected(out, stack)
    BY <1>4 DEF GenReference, Printing, Complete, Collecting, Numbers
  <2>2. Meant(out, id) = Asked(Top.syn)
    BY <2>1, NotNumbers, NoNumberMeant DEF Asked
  <2>3. \A x : Declared(out, x) => Meant(out, x) = Meant(out, x)
    OBVIOUS
  <2> HIDE DEF id
  <2>4. Grasped(out, stack')
    BY <2>1, <2>2, UnderstoodGiven
  <2> QED
    BY <2>1, <2>4 DEF Understood
<1>5. CASE GenAlias
  <2> DEFINE d == Declaration(Named(Name), "alias", <<[unprefixed |-> Top.syn.text]>>, <<>>)
  <2>1. Collecting /\ Complete /\ Emit(d) /\ uid' = uid /\ Depth = 0
    BY <1>5 DEF GenAlias, Printing, Collecting
  <2>2. d.id = Named(Name) /\ Range(d.refs) = {[unprefixed |-> Top.syn.text]}
    BY DEF Declaration, Range
  <2> HIDE DEF d
  <2>3. uid \in Nat
    BY DEF Numbers, Sound
  <2>4. Follows(d, out, uid, uid')
    BY <2>1, <2>2, <2>3, NotNumbers DEF Follows, Declared
  <2> QED
    BY <2>1, <2>4, UnderstoodPrinted
<1>6. CASE GenNode
  <2> DEFINE refs == Top.got \o Uses(Top.syn)
             d == Declaration(Signed, Top.syn.tag, refs, Data(Top.syn))
  <2>1. Collecting /\ Complete /\ Emit(d) /\ Advance /\ Top.syn.tag # "ID"
    BY <1>6 DEF GenNode, Printing, Collecting
  <2>2. Follows(d, out, uid, uid')
    BY <2>1, NodeFollows
  <2>3. d.id = Signed /\ d.what = Top.syn.tag /\ d.refs = refs /\ d.data = Data(Top.syn)
    BY DEF Declaration
  <2>4. Said(Top.syn.tag, [i \in DOMAIN refs |-> Meant(out, refs[i])], Data(Top.syn)) =
           Asked(Top.syn)
    BY <2>1, NodeSays DEF Asked
  <2> HIDE DEF d, refs
  <2>5. Depth # 0 => "number" \in DOMAIN d.id
    BY <2>3 DEF Signed, Numbered
  <2> QED
    BY <2>1, <2>2, <2>3, <2>4, <2>5, UnderstoodPrinted
<1>7. CASE SetUnknown \/ EndStatements
  BY <1>7 DEF SetUnknown, EndStatements, Return, Understood, Collecting
<1>8. CASE SetPart
  BY <1>8 DEF SetPart, Evaluating, Statement, Understood, Collecting
<1>9. CASE GenSet
  <2>1. current' = <<>>
    BY <1>9 DEF GenSet, PrintFails, Return
  <2> QED
    BY <2>1 DEF Understood, Collecting
<1>10. CASE Descend
  <2> DEFINE part == Parts(Top.syn)[Len(Top.got) + 1]
  <2>1. /\ stack' = Append(stack, [syn |-> part, got |-> <<>>])
        /\ UNCHANGED <<pc, current, out>> /\ IsSequence(stack)
    BY <1>10 DEF Descend, Call, Ways, WayDown
  <2> HIDE DEF part
  <2>2. \A i \in DOMAIN stack' :
           \/ i \in DOMAIN stack /\ stack'[i] = stack[i]
           \/ DOMAIN stack'[i].got = {}
    BY <2>1, CalledParts
  <2>3. Grasped(out, stack) => Grasped(out, stack')
    BY <2>2 DEF Grasped
  <2> QED
    BY <2>1, <2>3 DEF Understood, Collecting, Statement
<1>11. CASE UNCHANGED vars
  BY <1>11 DEF vars, Understood, Collecting, Statement
<1> QED
  BY <1>1, <1>2, <1>3, <1>4, <1>5, <1>6, <1>7, <1>8, <1>9, <1>10, <1>11 DEF Next, Generate

\* What a result that is given does to the place.
LEMMA PassedGiven ==
    ASSUME Ways, Placed, stack # <<>>, NEW result, Give(result), UNCHANGED <<source, todo>>
    PROVE  /\ Depth \in Nat /\ (stack' = <<>> <=> Depth = 0) /\ Here' = Here
           /\ Here \in DOMAIN source /\ Here \in Nat /\ Passed = 1 .. Here - 1
           /\ Passed' = IF Depth = 0 THEN Passed \cup {Here} ELSE Passed
<1>1. Depth \in Nat /\ (stack' = <<>> <=> Depth = 0) /\ Here' = Here
  BY GivenParts DEF Ways, Here
<1>2. Here \in DOMAIN source /\ Here \in Nat /\ Passed = 1 .. Here - 1 /\ Here # 0
  BY PlaceFacts DEF Placed
<1>3. Passed' = IF Depth = 0 THEN 1 .. Here ELSE 1 .. Here - 1
  BY <1>1 DEF Passed
<1>4. 1 .. Here = (1 .. Here - 1) \cup {Here}
  BY <1>2
<1> QED
  BY <1>1, <1>2, <1>3, <1>4

\* The sets in the table are those of the statements that are done, and what the
\* calls under way have computed are those of the parts.
Value(list, i, members, syn) ==
    /\ Single(list) /\ KnownTo(list, i) => members = Members(list, syn, i)
    /\ \A x \in Within(syn) : Known(list, x, i)
Tabled(list, table, passed) ==
    /\ \A s \in passed : list[s].tag = "SET" =>
          /\ \E i \in DOMAIN table : table[i].name = Introduces(list[s])
          /\ \A x \in Within(list[s].kids[2]) : Known(list, x, s)
    /\ \A i \in DOMAIN table : \E s \in passed :
          /\ list[s].tag = "SET" /\ Introduces(list[s]) = table[i].name
          /\ Single(list) => table[i].members = Members(list, list[s].kids[2], s)
Computed(list, s, frames) ==
    \A i \in DOMAIN frames : \A k \in DOMAIN frames[i].got :
        Value(list, s, frames[i].got[k], Parts(frames[i].syn)[k])
Computing == pc = "generating" /\ current # <<>> /\ Statement.tag = "SET"
Evaluated ==
    /\ pc \in {"starting", "scanning", "declaring"} => sets = <<>>
    /\ pc = "generating" => Tabled(source, sets, Passed)
    /\ Computing => Computed(source, Here, stack)
    /\ pc = "returned" /\ res = "SYN" => ~SetsKnown
    /\ pc = "returned" /\ res = "OK" => SetsKnown

\* The statement that is computed.
LEMMA ComputedHere ==
    ASSUME Ways, Placed, Evaluated, Computing, Complete
    PROVE  /\ source \in Sources /\ Here \in DOMAIN source /\ Here \in Nat
           /\ source[Here].tag = "SET" /\ Statement = source[Here] /\ Passed = 1 .. Here - 1
           /\ Top.syn \in Nodes /\ Top.syn \in Within(source[Here].kids[2])
           /\ IsSetExpression(Top.syn) /\ Tabled(source, sets, Passed)
           /\ DOMAIN Parts(Top.syn) = DOMAIN Top.got
           /\ \A k \in DOMAIN Top.got : Value(source, Here, Top.got[k], Parts(Top.syn)[k])
<1>1. source \in Sources /\ stack # <<>>
  BY DEF Ways, Complete
<1>2. /\ Here \in DOMAIN source /\ Top.syn \in Nodes /\ Top.syn \in Within(source[Here].kids[2])
      /\ Len(stack) \in DOMAIN stack /\ Top = stack[Len(stack)]
  BY <1>1, TopFacts
<1>3. Statement = source[Here] /\ source[Here].tag = "SET"
  BY DEF Placed, Computing, Statement
<1>4. Here \in Nat /\ Passed = 1 .. Here - 1
  BY <1>1, <1>2, PlaceFacts
<1>5. IsSetExpression(Top.syn)
  BY <1>1, <1>2, <1>3, MeaningAssumption
<1>6. DOMAIN Parts(Top.syn) = DOMAIN Top.got
  BY AllParts
<1>7. \A k \in DOMAIN Top.got : Value(source, Here, Top.got[k], Parts(Top.syn)[k])
  BY <1>2 DEF Evaluated, Computed
<1> QED
  BY <1>1, <1>2, <1>3, <1>4, <1>5, <1>6, <1>7 DEF Evaluated, Computing

\* A set that is returned is that of the expression.
LEMMA ValueReturned ==
    ASSUME Ways, Placed, Evaluated, Computing, Complete,
           NEW members \in Values(Top.syn, Top.got)
    PROVE  Value(source, Here, members, Top.syn)
<1> DEFINE syn == Top.syn
           got == Top.got
           parts == Parts(syn)
<1>1. /\ source \in Sources /\ Here \in DOMAIN source /\ Here \in Nat
      /\ source[Here].tag = "SET" /\ Passed = 1 .. Here - 1
      /\ syn \in Nodes /\ syn \in Within(source[Here].kids[2])
      /\ IsSetExpression(syn) /\ Tabled(source, sets, Passed)
      /\ DOMAIN parts = DOMAIN got
      /\ \A k \in DOMAIN got : Value(source, Here, got[k], parts[k])
  BY ComputedHere
<1>2. members \in Values(syn, got)
  OBVIOUS
<1>3. syn.tag \in {"UNION", "DIFF"} =>
         DOMAIN got = {1, 2} /\ parts[1] = syn.kids[1] /\ parts[2] = syn.kids[2]
  <2> SUFFICES ASSUME syn.tag \in {"UNION", "DIFF"} PROVE parts = syn.kids /\ DOMAIN parts = {1, 2}
    BY <1>1
  <2>1. parts = syn.kids
    BY DEF Parts
  <2>2. parts \in Seq(Nodes) /\ Len(parts) = 2
    BY <1>1, <2>1, GeneratorAssumption DEF IsSetExpression
  <2> HIDE DEF parts
  <2> QED
    BY <2>1, <2>2
<1>4. Within(syn) = {syn} \cup UNION {Within(parts[k]) : k \in DOMAIN parts}
  BY <1>1, WithinParts
<1> HIDE DEF parts, syn, got
<1>5. syn.tag = "ID" /\ syn.text \notin DOMAIN Predicates =>
         \E s \in Passed :
            /\ s \in SetsAbove(source, syn.text, Here)
            /\ Single(source) => members = Members(source, source[s].kids[2], s)
  <2> SUFFICES ASSUME syn.tag = "ID", syn.text \notin DOMAIN Predicates
               PROVE  \E s \in Passed :
                         /\ s \in SetsAbove(source, syn.text, Here)
                         /\ Single(source) => members = Members(source, source[s].kids[2], s)
    OBVIOUS
  <2>1. PICK i \in DOMAIN sets : sets[i].name = syn.text /\ members = sets[i].members
    BY <1>2 DEF Values, Looked
  <2>2. PICK s \in Passed :
           /\ source[s].tag = "SET" /\ Introduces(source[s]) = sets[i].name
           /\ Single(source) => sets[i].members = Members(source, source[s].kids[2], s)
    BY <1>1 DEF Tabled
  <2>3. s \in SetsAbove(source, syn.text, Here)
    BY <1>1, <2>1, <2>2 DEF SetsAbove
  <2> QED
    BY <2>1, <2>2, <2>3
<1>6. ASSUME NEW x \in Within(syn)
      PROVE  Known(source, x, Here)
  <2>1. CASE x = syn
    BY <1>5, <2>1 DEF Known
  <2>2. CASE \E k \in DOMAIN parts : x \in Within(parts[k])
    BY <1>1, <2>2 DEF Value
  <2> QED
    BY <1>4, <2>1, <2>2
<1>7. ASSUME Single(source), KnownTo(source, Here)
      PROVE  members = Members(source, syn, Here)
  <2>1. Members(source, syn, Here) = SetSaid(Members, source, syn, Here)
    BY <1>1, <1>7, MeaningAssumption
  <2>2. \A k \in DOMAIN got : got[k] = Members(source, parts[k], Here)
    BY <1>1, <1>7 DEF Value
  <2>3. CASE syn.tag = "CHAR"
    BY <1>2, <2>1, <2>3 DEF Values, SetSaid
  <2>4. CASE syn.tag = "UNION"
    BY <1>2, <1>3, <2>1, <2>2, <2>4 DEF Values, SetSaid
  <2>5. CASE syn.tag = "DIFF"
    BY <1>2, <1>3, <2>1, <2>2, <2>5 DEF Values, SetSaid
  <2>6. CASE syn.tag = "ID" /\ syn.text \in DOMAIN Predicates
    BY <1>2, <2>1, <2>6 DEF Values, Looked, SetSaid
  <2>7. CASE syn.tag = "ID" /\ syn.text \notin DOMAIN Predicates
    <3> DEFINE above == SetsAbove(source, syn.text, Here)
    <3>1. PICK s \in above : members = Members(source, source[s].kids[2], s)
      BY <1>5, <1>7, <2>7
    <3>2. ASSUME NEW j \in above
          PROVE  j = s
      <4>1. /\ j \in DOMAIN source /\ source[j].tag = "SET" /\ Introduces(source[j]) = syn.text
            /\ s \in DOMAIN source /\ source[s].tag = "SET" /\ Introduces(source[s]) = syn.text
        <5>1. DOMAIN source = 1 .. Len(source) /\ Len(source) \in Nat
          BY PlaceFacts
        <5> QED
          BY <1>1, <3>1, <5>1 DEF SetsAbove
      <4> QED
        BY <1>7, <4>1 DEF Single, Defines
    <3>3. s \in Int
      BY <1>1, <3>1 DEF SetsAbove
    <3> HIDE DEF above
    <3>4. above = {s}
      BY <3>1, <3>2
    <3>5. (CHOOSE j \in above : \A k \in above : k <= j) = s
      BY <3>3, <3>4
    <3>6. LastOf(source, syn.text, Here) = s
      BY <3>5 DEF LastOf, above
    <3> QED
      BY <2>1, <2>7, <3>1, <3>6 DEF SetSaid
  <2> QED
    BY <1>1, <2>3, <2>4, <2>5, <2>6, <2>7 DEF IsSetExpression
<1> QED
  BY <1>6, <1>7 DEF Value, syn

\* A step in which no set is entered.
LEMMA EvaluatedKept ==
    ASSUME Evaluated, pc = "generating", pc' = pc, UNCHANGED <<source, sets>>,
           Passed \subseteq Passed', \A s \in Passed' \ Passed : source[s].tag # "SET",
           Computing' => Computed(source, Here', stack')
    PROVE  Evaluated'
<1>1. Tabled(source, sets, Passed')
  BY DEF Evaluated, Tabled
<1> QED
  BY <1>1 DEF Evaluated

\* The result of a set expression, for its caller.
LEMMA EvaluatedGiven ==
    ASSUME Ways, Placed, Evaluated, Computing, Complete, Depth > 0, UNCHANGED <<source, pc, todo, sets>>,
           NEW members \in Values(Top.syn, Top.got), Give(members)
    PROVE  Evaluated'
<1>1. Value(source, Here, members, Top.syn) /\ stack # <<>>
  BY ValueReturned DEF Complete
<1>2. \A i \in DOMAIN stack' :
         /\ i \in DOMAIN stack /\ stack'[i].syn = stack[i].syn
         /\ \A k \in DOMAIN stack'[i].got :
               \/ k \in DOMAIN stack[i].got /\ stack'[i].got[k] = stack[i].got[k]
               \/ stack'[i].got[k] = members /\ Parts(stack[i].syn)[k] = Top.syn
  BY <1>1, GivenParts DEF Ways
<1>3. Depth \in Nat /\ Here' = Here /\ Passed' = Passed
  BY <1>1, PassedGiven
<1>4. ASSUME NEW i \in DOMAIN stack', NEW k \in DOMAIN stack'[i].got
      PROVE  Value(source, Here, stack'[i].got[k], Parts(stack'[i].syn)[k])
  <2>1. i \in DOMAIN stack /\ stack'[i].syn = stack[i].syn
    BY <1>2
  <2>2. CASE k \in DOMAIN stack[i].got /\ stack'[i].got[k] = stack[i].got[k]
    BY <2>1, <2>2 DEF Evaluated, Computed
  <2>3. CASE stack'[i].got[k] = members /\ Parts(stack[i].syn)[k] = Top.syn
    BY <1>1, <2>1, <2>3
  <2> QED
    BY <1>2, <2>2, <2>3
<1>5. Computed(source, Here', stack')
  BY <1>3, <1>4, Zenon DEF Computed
<1> QED
  BY <1>3, <1>5, EvaluatedKept DEF Computing

\* The set of a statement, when its expression has been gone through.
LEMMA SetFinished ==
    ASSUME Ways, Placed, Evaluated, Computing, Complete, Depth = 0,
           NEW members \in Values(Top.syn, Top.got)
    PROVE  /\ Value(source, Here, members, source[Here].kids[2])
           /\ Single(source) => members = Members(source, source[Here].kids[2], Here)
<1> DEFINE exp == source[Here].kids[2]
<1>1. Here \in Nat /\ Passed = 1 .. Here - 1 /\ Tabled(source, sets, Passed)
  BY ComputedHere
<1>2. Top.syn = exp
  BY TopFacts DEF Complete
<1>3. Value(source, Here, members, exp)
  BY <1>2, ValueReturned
<1>4. ASSUME NEW k \in 1 .. Here, source[k].tag = "SET", NEW x \in Within(source[k].kids[2])
      PROVE  Known(source, x, k)
  <2>1. CASE k = Here
    BY <1>3, <1>4, <2>1 DEF Value
  <2>2. CASE k # Here
    <3>1. k \in Passed
      BY <1>1, <2>2
    <3> QED
      BY <1>1, <1>4, <3>1 DEF Tabled
  <2> QED
    BY <2>1, <2>2
<1>5. KnownTo(source, Here)
  BY <1>4 DEF KnownTo
<1> QED
  BY <1>3, <1>5 DEF Value

\* The set of a statement is entered.
LEMMA EvaluatedEntered ==
    ASSUME Ways, Placed, IInv, Evaluated, Computing, Complete, Depth = 0,
           UNCHANGED <<source, pc, todo>>, current' = <<>>,
           NEW members \in Values(Top.syn, Top.got), Give(members),
           sets' = Append(sets, [name |-> Name, members |-> members])
    PROVE  Evaluated'
<1> DEFINE exp == source[Here].kids[2]
           set == [name |-> Name, members |-> members]
           n == Len(sets)
<1>1. stack # <<>>
  BY DEF Complete
<1>2. /\ Here \in DOMAIN source /\ Here \in Nat /\ source[Here].tag = "SET"
      /\ Statement = source[Here] /\ Passed = 1 .. Here - 1 /\ Tabled(source, sets, Passed)
  BY ComputedHere
<1>3. /\ Value(source, Here, members, exp)
      /\ Single(source) => members = Members(source, exp, Here)
  BY SetFinished
<1>4. Passed' = Passed \cup {Here}
  BY <1>1, PassedGiven
<1>5. set.name = Introduces(source[Here]) /\ set.members = members
  BY <1>2 DEF Name, Introduces
<1>6. /\ n \in Nat /\ DOMAIN sets = 1 .. n /\ DOMAIN sets' = 1 .. n + 1
      /\ \A i \in 1 .. n : sets'[i] = sets[i]
      /\ sets'[n + 1] = set
  BY Appended DEF IInv, IsSequence
<1> HIDE DEF exp, set, n
<1>7. ASSUME NEW s \in Passed \cup {Here}, source[s].tag = "SET"
      PROVE  /\ \E i \in DOMAIN sets' : sets'[i].name = Introduces(source[s])
             /\ \A x \in Within(source[s].kids[2]) : Known(source, x, s)
  <2>1. CASE s = Here
    <3>1. n + 1 \in DOMAIN sets'
      BY <1>6
    <3> QED
      BY <1>3, <1>5, <1>6, <2>1, <3>1 DEF Value, exp
  <2>2. CASE s \in Passed
    <3>1. PICK i \in DOMAIN sets : sets[i].name = Introduces(source[s])
      BY <1>2, <1>7, <2>2 DEF Tabled
    <3>2. i \in DOMAIN sets' /\ sets'[i] = sets[i]
      BY <1>6
    <3> QED
      BY <1>2, <1>7, <2>2, <3>1, <3>2 DEF Tabled
  <2> QED
    BY <2>1, <2>2
<1>8. ASSUME NEW i \in DOMAIN sets'
      PROVE  \E s \in Passed \cup {Here} :
                 /\ source[s].tag = "SET" /\ Introduces(source[s]) = sets'[i].name
                 /\ Single(source) => sets'[i].members = Members(source, source[s].kids[2], s)
  <2>1. CASE i = n + 1
    BY <1>2, <1>5, <1>6, <1>3, <2>1 DEF exp
  <2>2. CASE i \in 1 .. n
    <3>1. sets'[i] = sets[i] /\ i \in DOMAIN sets
      BY <1>6, <2>2
    <3> QED
      BY <1>2, <3>1 DEF Tabled
  <2> QED
    BY <1>6, <2>1, <2>2
<1>9. Tabled(source, sets', Passed')
  BY <1>4, <1>7, <1>8 DEF Tabled
<1> QED
  BY <1>9 DEF Evaluated, Computing

\* A set that is not known.
LEMMA EvaluatedUnknown ==
    ASSUME Ways, Placed, Evaluated, Computing, Complete, Values(Top.syn, Top.got) = {}
    PROVE  ~SetsKnown
<1> SUFFICES ASSUME SetsKnown PROVE FALSE
  OBVIOUS
<1>1. /\ Here \in DOMAIN source /\ Here \in Nat /\ source[Here].tag = "SET"
      /\ Passed = 1 .. Here - 1 /\ Tabled(source, sets, Passed)
      /\ Top.syn \in Within(source[Here].kids[2])
  BY ComputedHere
<1>2. Top.syn.tag = "ID" /\ Looked(Top.syn.text) = {}
  BY DEF Values
<1>3. /\ Top.syn.text \notin DOMAIN Predicates
      /\ \A i \in DOMAIN sets : sets[i].name # Top.syn.text
  BY <1>2 DEF Looked
<1>4. DOMAIN source = 1 .. Len(source)
  BY PlaceFacts
<1>5. Known(source, Top.syn, Here)
  BY <1>1, <1>4 DEF SetsKnown, KnownTo
<1>6. PICK s \in SetsAbove(source, Top.syn.text, Here) : TRUE
  BY <1>2, <1>3, <1>5 DEF Known
<1>7. s \in Passed /\ source[s].tag = "SET" /\ Introduces(source[s]) = Top.syn.text
  BY <1>1, <1>6 DEF SetsAbove
<1> QED
  BY <1>1, <1>3, <1>7 DEF Tabled

\* A statement that is no set is done.
LEMMA EvaluatedPrinted ==
    ASSUME Ways, Placed, Evaluated, Collecting, Complete, UNCHANGED source, NEW d, Emit(d)
    PROVE  Evaluated'
<1>1. CASE PrintFails(<<d>>)
  BY <1>1 DEF PrintFails, Return, Evaluated, Computing
<1>2. CASE /\ Give(d.id) /\ current' = IF Depth = 0 THEN <<>> ELSE current
           /\ UNCHANGED <<pc, todo, sets>>
  <2>1. stack # <<>> /\ pc = "generating"
    BY DEF Complete, Collecting
  <2>2. /\ Here \in DOMAIN source
        /\ Passed' = IF Depth = 0 THEN Passed \cup {Here} ELSE Passed
    BY <1>2, <2>1, PassedGiven
  <2>3. source[Here].tag # "SET"
    BY DEF Placed, Collecting, Statement
  <2>4. Passed \subseteq Passed' /\ \A s \in Passed' \ Passed : source[s].tag # "SET"
    BY <2>2, <2>3
  <2>5. ~Computing'
    BY <1>2 DEF Computing, Collecting, Statement
  <2> QED
    BY <1>2, <2>1, <2>4, <2>5, EvaluatedKept
<1> QED
  BY <1>1, <1>2 DEF Emit

LEMMA EvaluatedStep ==
    ASSUME Basics, Ways, IInv, Placed, Evaluated, [Next]_vars
    PROVE  Evaluated'
<1>1. CASE Include
  <2>1. CASE pc' = "returned" /\ res' = "IO"
    BY <2>1 DEF Evaluated, Computing
  <2>2. CASE pc' = "scanning" /\ UNCHANGED sets
    BY <1>1, <2>2 DEF Include, Evaluated, Computing
  <2> QED
    BY <1>1, <2>1, <2>2 DEF Include, PrintFails, Return
<1>2. CASE ScanStatement \/ Scanned \/ ScanAborts \/ EndScan
  <2>1. pc = "scanning" /\ pc' \in {"scanning", "declaring", "aborted"} /\ UNCHANGED sets
    BY <1>2 DEF ScanStatement, Scanned, ScanAborts, EndScan
  <2> QED
    BY <2>1 DEF Evaluated, Computing
<1>3. CASE \E name \in Undeclared : DeclareFunction(name)
  <2>1. pc = "declaring" /\ pc' = pc /\ UNCHANGED sets
    BY <1>3 DEF DeclareFunction
  <2> QED
    BY <2>1 DEF Evaluated, Computing
<1>4. CASE EndDeclare
  <2>1. /\ pc = "declaring" /\ pc' = "generating" /\ todo' = source /\ stack' = <<>>
        /\ current' = <<>> /\ UNCHANGED <<source, sets>>
    BY <1>4 DEF EndDeclare, scanned, Ways
  <2>2. Here' = 0
    BY <2>1, PlaceFacts DEF Here
  <2>3. Passed' = {} /\ sets' = <<>>
    BY <2>1, <2>2 DEF Passed, Evaluated
  <2>4. Tabled(source, <<>>, {})
    BY DEF Tabled
  <2> QED
    BY <2>1, <2>3, <2>4 DEF Evaluated, Computing
<1>5. CASE GenExtern
  <2>1. /\ pc = "generating" /\ current = <<>> /\ stack = <<>> /\ todo # <<>>
        /\ Head(todo).tag # "SET" /\ UNCHANGED source
    BY <1>5 DEF GenExtern, scanned, Ways
  <2>2. CASE pc' = "returned" /\ res' = "IO"
    BY <2>2 DEF Evaluated, Computing
  <2>3. CASE todo' = Tail(todo) /\ UNCHANGED <<pc, current, stack, sets>>
    <3>1. /\ Here' = Here + 1 /\ Head(todo) = source[Here + 1] /\ Here \in Nat
          /\ Passed = 1 .. Here
      BY <2>1, <2>3, GoesOn, PlaceFacts
    <3>2. Passed' = 1 .. Here + 1
      BY <2>1, <2>3, <3>1 DEF Passed
    <3>3. Passed \subseteq Passed' /\ \A s \in Passed' \ Passed : s = Here + 1
      BY <3>1, <3>2
    <3>4. \A s \in Passed' \ Passed : source[s].tag # "SET"
      BY <2>1, <3>1, <3>3
    <3>5. ~Computing'
      BY <2>1, <2>3 DEF Computing
    <3> QED
      BY <2>1, <2>3, <3>3, <3>4, <3>5, EvaluatedKept
  <2> QED
    BY <1>5, <2>2, <2>3 DEF GenExtern, PrintFails, Return
<1>6. CASE GenStatement
  <2>1. /\ pc = "generating" /\ stack = <<>> /\ todo # <<>> /\ todo' = Tail(todo)
        /\ stack' = Append(<<>>, [syn |-> Head(todo).kids[2], got |-> <<>>])
        /\ UNCHANGED <<source, pc, sets>> /\ IsSequence(<<>>)
    BY <1>6 DEF GenStatement, Call, scanned, Ways, WayDown
  <2>2. DOMAIN <<>> = {}
    OBVIOUS
  <2>3. stack' # <<>> /\ \A i \in DOMAIN stack' : DOMAIN stack'[i].got = {}
    BY <2>1, <2>2, CalledParts
  <2>4. Here' = Here + 1 /\ Here \in Nat /\ Passed = 1 .. Here
    BY <2>1, GoesOn, PlaceFacts
  <2>5. Passed' = Passed
    BY <2>3, <2>4 DEF Passed
  <2>6. Computed(source, Here', stack')
    BY <2>3 DEF Computed
  <2> QED
    BY <2>1, <2>5, <2>6, EvaluatedKept
<1>7. CASE GenReference
  <2>1. /\ Collecting /\ pc = "generating" /\ stack # <<>> /\ Give(Named(Top.syn.text))
        /\ Depth > 0 /\ UNCHANGED <<source, pc, todo, current, sets>>
    BY <1>7 DEF GenReference, Printing, Complete, Collecting, scanned
  <2>2. Passed' = Passed
    BY <2>1, PassedGiven
  <2>3. ~Computing'
    BY <2>1 DEF Computing, Collecting, Statement
  <2> QED
    BY <2>1, <2>2, <2>3, EvaluatedKept
<1>8. CASE GenAlias \/ GenNode
  <2>1. Collecting /\ Complete /\ UNCHANGED source
    BY <1>8 DEF GenAlias, GenNode, Printing, Collecting, scanned
  <2>2. PICK d : Emit(d)
    BY <1>8 DEF GenAlias, GenNode
  <2> QED
    BY <2>1, <2>2, EvaluatedPrinted
<1>9. CASE SetUnknown
  <2>1. /\ Computing /\ Complete /\ Values(Top.syn, Top.got) = {}
        /\ pc' = "returned" /\ res' = "SYN" /\ UNCHANGED source
    BY <1>9 DEF SetUnknown, Evaluating, Computing, Return, scanned
  <2>2. ~SetsKnown
    BY <2>1, EvaluatedUnknown
  <2> QED
    BY <2>1, <2>2 DEF Evaluated, Computing, SetsKnown
<1>10. CASE SetPart
  <2>1. Computing /\ Complete /\ Depth > 0 /\ UNCHANGED <<source, pc, todo, sets>>
    BY <1>10 DEF SetPart, Evaluating, Computing, scanned
  <2>2. PICK members \in Values(Top.syn, Top.got) : Give(members)
    BY <1>10 DEF SetPart
  <2> QED
    BY <2>1, <2>2, EvaluatedGiven
<1>11. CASE GenSet
  <2>1. Computing /\ Complete /\ Depth = 0 /\ UNCHANGED source
    BY <1>11 DEF GenSet, Evaluating, Computing, scanned
  <2>2. PICK members \in Values(Top.syn, Top.got) :
           \/ /\ sets' = Append(sets, [name |-> Name, members |-> members])
              /\ Give(members) /\ current' = <<>> /\ UNCHANGED <<pc, todo>>
           \/ pc' = "returned" /\ res' = "IO"
    BY <1>11 DEF GenSet, PrintFails, Return
  <2>3. CASE pc' = "returned" /\ res' = "IO"
    BY <2>3 DEF Evaluated, Computing
  <2> QED
    BY <2>1, <2>2, <2>3, EvaluatedEntered
<1>12. CASE EndStatements
  <2>1. /\ pc = "generating" /\ stack = <<>> /\ todo = <<>>
        /\ pc' = "returned" /\ res' = "OK" /\ UNCHANGED source
    BY <1>12 DEF EndStatements, Return, scanned, Ways
  <2>2. Passed = 1 .. Len(source)
    BY <2>1, PlaceFacts DEF Here
  <2>3. SetsKnown
    BY <2>1, <2>2 DEF SetsKnown, KnownTo, Evaluated, Tabled
  <2> QED
    BY <2>1, <2>3 DEF Evaluated, Computing, SetsKnown
<1>13. CASE Descend
  <2> DEFINE part == Parts(Top.syn)[Len(Top.got) + 1]
  <2>1. /\ stack # <<>> /\ stack' = Append(stack, [syn |-> part, got |-> <<>>])
        /\ UNCHANGED <<source, todo, pc, current, sets, res>> /\ IsSequence(stack)
    BY <1>13 DEF Descend, Call, scanned, Ways, WayDown
  <2> HIDE DEF part
  <2>2. /\ stack' # <<>>
        /\ \A i \in DOMAIN stack' :
              \/ i \in DOMAIN stack /\ stack'[i] = stack[i]
              \/ DOMAIN stack'[i].got = {}
    BY <2>1, CalledParts
  <2>3. Passed' = Passed /\ Here' = Here
    BY <2>1, <2>2 DEF Passed, Here
  <2>4. Computing' = Computing
    BY <2>1 DEF Computing, Statement
  <2>5. Computing' => Computed(source, Here', stack')
    BY <2>2, <2>3, <2>4 DEF Evaluated, Computed
  <2>6. CASE pc = "generating"
    BY <2>1, <2>3, <2>5, <2>6, EvaluatedKept
  <2>7. CASE pc # "generating"
    BY <2>1, <2>7 DEF Evaluated, Computing, SetsKnown
  <2> QED
    BY <2>6, <2>7
<1>14. CASE UNCHANGED vars
  <2>1. Passed' = Passed /\ Computing' = Computing /\ Here' = Here
    BY <1>14 DEF vars, Passed, Here, Computing, Statement
  <2> QED
    BY <1>14, <2>1 DEF vars, Evaluated, SetsKnown
<1> QED
  BY <1>1, <1>2, <1>3, <1>4, <1>5, <1>6, <1>7, <1>8, <1>9, <1>10, <1>11, <1>12, <1>13, <1>14
     DEF Next, Scan, Declare, Generate

\* The definitions that are printed are those of the statements that are done.
Parses(d) == "parser" \in DOMAIN d.id /\ d.what # "extern"
Faithful(list, o, done) ==
    /\ \A k \in DOMAIN o : Parses(o[k]) =>
          \E i \in done : /\ Defines(list[i]) /\ o[k].id = Named(Introduces(list[i]))
                          /\ Says(list, i, Unfolded(o)[k])
    /\ \A i \in done : Defines(list[i]) =>
          \E k \in DOMAIN o : Parses(o[k]) /\ o[k].id = Named(Introduces(list[i]))
Kept ==
    /\ pc \in {"starting", "scanning", "declaring"} => \A k \in DOMAIN out : ~Parses(out[k])
    /\ pc = "generating" /\ Single(source) => Faithful(source, out, Passed)
    /\ pc = "returned" /\ res = "OK" /\ Single(source) => Faithful(source, out, DOMAIN source)

\* One more declaration.
LEMMA FaithfulMore ==
    ASSUME NEW list, NEW o, IsSequence(o), NEW done, Faithful(list, o, done),
           NEW d, NEW done2, done \subseteq done2,
           Parses(d) => \E i \in done2 :
              /\ Defines(list[i]) /\ d.id = Named(Introduces(list[i]))
              /\ Says(list, i, Unfolded(Append(o, d))[Len(o) + 1]),
           \A i \in done2 \ done : Defines(list[i]) =>
              Parses(d) /\ d.id = Named(Introduces(list[i]))
    PROVE  Faithful(list, Append(o, d), done2)
<1> DEFINE p == Append(o, d)
           n == Len(o)
<1>1. /\ n \in Nat /\ DOMAIN o = 1 .. n /\ DOMAIN p = 1 .. n + 1
      /\ \A i \in 1 .. n : p[i] = o[i]
      /\ p[n + 1] = d
  BY Appended
<1>2. \A k \in DOMAIN o : Unfolded(p)[k] = Unfolded(o)[k]
  BY UnfoldedMore
<1> HIDE DEF p, n
<1>3. ASSUME NEW k \in DOMAIN p, Parses(p[k])
      PROVE  \E i \in done2 : /\ Defines(list[i]) /\ p[k].id = Named(Introduces(list[i]))
                              /\ Says(list, i, Unfolded(p)[k])
  <2>1. CASE k = n + 1
    BY <1>1, <1>3, <2>1 DEF p, n
  <2>2. CASE k \in 1 .. n
    <3>1. k \in DOMAIN o /\ p[k] = o[k] /\ Unfolded(p)[k] = Unfolded(o)[k]
      BY <1>1, <1>2, <2>2
    <3>2. PICK i \in done : /\ Defines(list[i]) /\ o[k].id = Named(Introduces(list[i]))
                            /\ Says(list, i, Unfolded(o)[k])
      BY <1>3, <3>1 DEF Faithful
    <3>3. i \in done2 /\ Says(list, i, Unfolded(p)[k])
      BY <3>1, <3>2
    <3> QED
      BY <3>1, <3>2, <3>3
  <2> QED
    BY <1>1, <2>1, <2>2
<1>4. ASSUME NEW i \in done2, Defines(list[i])
      PROVE  \E k \in DOMAIN p : Parses(p[k]) /\ p[k].id = Named(Introduces(list[i]))
  <2>1. CASE i \in done
    <3>1. PICK k \in DOMAIN o : Parses(o[k]) /\ o[k].id = Named(Introduces(list[i]))
      BY <1>4, <2>1 DEF Faithful
    <3>2. k \in DOMAIN p /\ p[k] = o[k]
      BY <1>1
    <3> QED
      BY <3>1, <3>2
  <2>2. CASE i \notin done
    <3>1. n + 1 \in DOMAIN p
      BY <1>1
    <3> QED
      BY <1>1, <1>4, <2>2, <3>1
  <2> QED
    BY <2>1, <2>2
<1>5. Faithful(list, p, done2)
  BY <1>3, <1>4, Zenon DEF Faithful
<1> QED
  BY <1>5 DEF p

\* A step that defines nothing.
LEMMA KeptSilently ==
    ASSUME Kept, pc = "generating", pc' = pc, UNCHANGED <<source, out>>, Passed' = Passed
    PROVE  Kept'
BY DEF Kept

\* A declaration for the innermost call.
LEMMA KeptPrinted ==
    ASSUME Ways, Placed, Numbers, Kept, Collecting, Complete, UNCHANGED source, NEW d, Emit(d),
           Depth # 0 => ~Parses(d),
           Depth = 0 => /\ Parses(d) /\ d.id = Named(Name)
                        /\ Says(source, Here, Unfolded(Append(out, d))[Len(out) + 1])
    PROVE  Kept'
<1>1. CASE PrintFails(<<d>>)
  BY <1>1 DEF PrintFails, Return, Kept
<1>2. CASE /\ out' = Append(out, d) /\ Give(d.id) /\ UNCHANGED <<pc, todo>>
  <2>1. stack # <<>> /\ pc = "generating" /\ IsSequence(out)
    BY DEF Complete, Collecting, Numbers, Sound
  <2>2. Passed' = IF Depth = 0 THEN Passed \cup {Here} ELSE Passed
    BY <1>2, <2>1, PassedGiven
  <2>3. Statement = source[Here] /\ Defines(source[Here])
    BY DEF Placed, Collecting, Statement
  <2>4. Name = Introduces(source[Here])
    BY <2>3 DEF Name, Introduces, Defines
  <2> SUFFICES ASSUME Single(source)
               PROVE  Faithful(source, Append(out, d), Passed')
    BY <1>2, <2>1 DEF Kept
  <2>5. Faithful(source, out, Passed)
    BY <2>1 DEF Kept
  <2>6. CASE Depth = 0
    <3>1. Faithful(source, Append(out, d), Passed \cup {Here})
      BY <2>1, <2>3, <2>4, <2>5, <2>6, FaithfulMore
    <3> QED
      BY <2>2, <2>6, <3>1
  <2>7. CASE Depth # 0
    <3>1. Faithful(source, Append(out, d), Passed)
      BY <2>1, <2>5, <2>7, FaithfulMore
    <3> QED
      BY <2>2, <2>7, <3>1
  <2> QED
    BY <2>6, <2>7
<1> QED
  BY <1>1, <1>2 DEF Emit

\* The words of a set and its parser.
LEMMA KeptSet ==
    ASSUME Ways, Placed, Numbers, Evaluated, Kept, Computing, Complete, Depth = 0,
           UNCHANGED <<source, pc, todo>>, NEW members \in Values(Top.syn, Top.got),
           Give(members), uid' = uid + 1,
           out' = out \o <<Declaration(Numbered(uid), "words", <<>>, <<members>>),
                           Declaration(Named(Name), "SET", <<Numbered(uid)>>, <<>>)>>
    PROVE  Kept'
<1> DEFINE words == Declaration(Numbered(uid), "words", <<>>, <<members>>)
           parser == Declaration(Named(Name), "SET", <<Numbered(uid)>>, <<>>)
           more == Append(out, words)
<1>1. /\ Sound(out, uid) /\ uid \in Nat /\ uid' \in Nat /\ uid < uid' /\ IsSequence(out)
      /\ stack # <<>> /\ pc = "generating"
  BY DEF Numbers, Sound, Complete, Computing
<1>2. out' = Append(more, parser)
  BY <1>1, CutOff
<1>3. /\ words.id = Numbered(uid) /\ words.refs = <<>> /\ words.data = <<members>>
      /\ parser.id = Named(Name) /\ parser.what = "SET" /\ parser.refs = <<Numbered(uid)>>
  BY DEF Declaration
<1> HIDE DEF words, parser
<1>4. Follows(words, out, uid, uid')
  <2>1. Range(words.refs) = {}
    BY <1>3 DEF Range
  <2> QED
    BY <1>1, <1>3, <2>1 DEF Follows
<1>5. Meant(more, Numbered(uid)).data = <<members>>
  <2>1. "number" \in DOMAIN words.id
    BY <1>3 DEF Numbered
  <2>2. Meant(more, words.id) =
           Said(words.what, [i \in DOMAIN words.refs |-> Meant(out, words.refs[i])], words.data)
    BY <1>1, <1>4, <2>1, MeantMore
  <2>3. \A w, x, y : Said(w, x, y).data = y
    BY DEF Said
  <2> QED
    BY <1>3, <2>2, <2>3
<1>6. IsSequence(more)
  BY <1>1, Appended
<1> HIDE DEF more
<1>7. /\ Unfolded(Append(more, parser))[Len(more) + 1].what = "SET"
      /\ Unfolded(Append(more, parser))[Len(more) + 1].refs[1].data = <<members>>
  <2>1. Unfolded(Append(more, parser))[Len(more) + 1] =
           Said(parser.what, [i \in DOMAIN parser.refs |-> Meant(more, parser.refs[i])],
                parser.data)
    BY <1>6, UnfoldedMore
  <2>2. \A w, x, y : Said(w, x, y).what = w /\ Said(w, x, y).refs = x
    BY DEF Said
  <2>3. DOMAIN parser.refs = {1} /\ parser.refs[1] = Numbered(uid)
    BY <1>3
  <2>4. [i \in DOMAIN parser.refs |-> Meant(more, parser.refs[i])][1] = Meant(more, Numbered(uid))
    BY <2>3
  <2> QED
    BY <1>3, <1>5, <2>1, <2>2, <2>4
<1>8. /\ source[Here].tag = "SET" /\ Defines(source[Here]) /\ Name = Introduces(source[Here])
      /\ Passed' = Passed \cup {Here}
  <2>1. source[Here].tag = "SET" /\ Statement = source[Here]
    BY ComputedHere
  <2> QED
    BY <1>1, <2>1, PassedGiven DEF Name, Introduces, Defines
<1> SUFFICES ASSUME Single(source)
             PROVE  Faithful(source, Append(more, parser), Passed')
  BY <1>1, <1>2 DEF Kept
<1>9. Faithful(source, more, Passed)
  <2>1. Faithful(source, out, Passed)
    BY <1>1 DEF Kept
  <2>2. ~Parses(words)
    BY <1>3 DEF Parses, Numbered
  <2> QED
    BY <1>1, <2>1, <2>2, FaithfulMore DEF more
<1>10. Says(source, Here, Unfolded(Append(more, parser))[Len(more) + 1])
  <2>1. members = Members(source, source[Here].kids[2], Here)
    BY SetFinished
  <2>2. ASSUME NEW said, said.what = "SET", said.refs[1].data = <<members>>
        PROVE  Says(source, Here, said)
    BY <1>8, <2>1, <2>2 DEF Says, HasExpression
  <2> QED
    BY <1>7, <2>2
<1>11. Parses(parser) /\ parser.id = Named(Introduces(source[Here]))
  BY <1>3, <1>8 DEF Parses, Named
<1>12. Faithful(source, Append(more, parser), Passed \cup {Here})
  BY <1>6, <1>8, <1>9, <1>10, <1>11, FaithfulMore
<1> QED
  BY <1>8, <1>12

LEMMA KeptStep ==
    ASSUME Ways, Placed, Gathered, Numbers, Understood, Evaluated, Kept, [Next]_vars
    PROVE  Kept'
<1>1. CASE Include
  <2>1. CASE pc' = "returned" /\ res' = "IO"
    BY <2>1 DEF Kept
  <2>2. CASE pc' = "scanning" /\ UNCHANGED out
    BY <1>1, <2>2 DEF Include, Kept
  <2> QED
    BY <1>1, <2>1, <2>2 DEF Include, PrintFails, Return
<1>2. CASE ScanStatement \/ Scanned \/ ScanAborts \/ EndScan
  <2>1. pc = "scanning" /\ pc' \in {"scanning", "declaring", "aborted"} /\ UNCHANGED out
    BY <1>2 DEF ScanStatement, Scanned, ScanAborts, EndScan
  <2> QED
    BY <2>1 DEF Kept
<1>3. ASSUME NEW name, DeclareFunction(name)
      PROVE  Kept'
  <2> DEFINE d == Extern(Function(functions[name], name))
  <2>1. pc = "declaring" /\ pc' = pc /\ (out' = out \/ out' = Append(out, d))
    BY <1>3 DEF DeclareFunction
  <2>2. ~Parses(d)
    BY DEF Extern, Declaration, Parses
  <2> HIDE DEF d
  <2>3. /\ Len(out) \in Nat /\ DOMAIN out = 1 .. Len(out)
        /\ DOMAIN Append(out, d) = 1 .. Len(out) + 1
        /\ \A k \in 1 .. Len(out) : Append(out, d)[k] = out[k]
        /\ Append(out, d)[Len(out) + 1] = d
    BY Appended DEF Numbers, Sound
  <2>4. \A k \in DOMAIN out : ~Parses(out[k])
    BY <2>1 DEF Kept
  <2> DEFINE p == Append(out, d)
             n == Len(out)
  <2>5. \A k \in DOMAIN p : ~Parses(p[k])
    <3> SUFFICES ASSUME NEW k \in DOMAIN p PROVE ~Parses(p[k])
      OBVIOUS
    <3> HIDE DEF p, n
    <3>1. k \in 1 .. n \/ k = n + 1
      BY <2>3 DEF p, n
    <3> QED
      BY <2>2, <2>3, <2>4, <3>1 DEF p, n
  <2> HIDE DEF p
  <2> QED
    BY <2>1, <2>4, <2>5 DEF Kept, p
<1>4. CASE EndDeclare
  <2>1. /\ pc = "declaring" /\ pc' = "generating" /\ todo' = source /\ stack' = <<>>
        /\ UNCHANGED <<source, out>>
    BY <1>4 DEF EndDeclare, scanned, Ways
  <2>2. Here' = 0
    BY <2>1, PlaceFacts DEF Here
  <2>3. Passed' = {}
    BY <2>1, <2>2 DEF Passed
  <2>4. Faithful(source, out, {})
    BY <2>1 DEF Kept, Faithful
  <2> QED
    BY <2>1, <2>3, <2>4 DEF Kept
<1>5. CASE GenExtern
  <2> DEFINE names == Head(todo).kids
             d == Extern(Named(names[Len(names)].text))
  <2>1. /\ pc = "generating" /\ stack = <<>> /\ todo # <<>>
        /\ Head(todo).tag \in {"DEC", "EXT"} /\ UNCHANGED source
    BY <1>5 DEF GenExtern, scanned, Ways
  <2>2. ~Parses(d)
    BY DEF Extern, Declaration, Parses
  <2>3. CASE pc' = "returned" /\ res' = "IO"
    BY <2>3 DEF Kept
  <2>4. CASE todo' = Tail(todo) /\ out' = Append(out, d) /\ UNCHANGED <<pc, stack>>
    <3> HIDE DEF d
    <3>1. /\ Here' = Here + 1 /\ Head(todo) = source[Here + 1] /\ Here \in Nat
          /\ Passed = 1 .. Here
      BY <2>1, <2>4, GoesOn, PlaceFacts
    <3>2. Passed' = 1 .. Here + 1
      BY <2>1, <2>4, <3>1 DEF Passed
    <3>3. Passed \subseteq Passed' /\ \A i \in Passed' \ Passed : i = Here + 1
      BY <3>1, <3>2
    <3>4. \A i \in Passed' \ Passed : ~Defines(source[i])
      BY <2>1, <3>1, <3>3 DEF Defines
    <3> SUFFICES ASSUME Single(source)
                 PROVE  Faithful(source, Append(out, d), Passed')
      BY <2>1, <2>4 DEF Kept
    <3>5. Faithful(source, out, Passed) /\ IsSequence(out)
      BY <2>1 DEF Kept, Numbers, Sound
    <3> DEFINE more == 1 .. Here + 1
    <3>6. Faithful(source, Append(out, d), more)
      <4>1. Passed \subseteq more /\ \A i \in more \ Passed : ~Defines(source[i])
        BY <3>2, <3>3, <3>4
      <4> HIDE DEF more
      <4> QED
        BY <2>2, <3>5, <4>1, FaithfulMore
    <3> QED
      BY <3>2, <3>6
  <2> QED
    BY <1>5, <2>3, <2>4 DEF GenExtern, PrintFails, Return
<1>6. CASE GenStatement
  <2>1. /\ pc = "generating" /\ stack = <<>> /\ todo # <<>> /\ todo' = Tail(todo)
        /\ stack' = Append(<<>>, [syn |-> Head(todo).kids[2], got |-> <<>>])
        /\ UNCHANGED <<source, pc, out>> /\ IsSequence(<<>>)
    BY <1>6 DEF GenStatement, Call, scanned, Ways, WayDown
  <2>2. stack' # <<>>
    BY <2>1, CalledParts
  <2>3. Here' = Here + 1 /\ Here \in Nat /\ Passed = 1 .. Here
    BY <2>1, GoesOn, PlaceFacts
  <2>4. Passed' = Passed
    BY <2>2, <2>3 DEF Passed
  <2> QED
    BY <2>1, <2>4, KeptSilently
<1>7. CASE GenReference \/ SetPart
  <2>1. /\ pc = "generating" /\ stack # <<>> /\ Depth > 0
        /\ UNCHANGED <<source, pc, todo, out>>
    BY <1>7 DEF GenReference, Printing, SetPart, Evaluating, Complete, scanned
  <2>2. PICK result : Give(result)
    BY <1>7 DEF GenReference, SetPart
  <2>3. Passed' = Passed
    BY <2>1, <2>2, PassedGiven
  <2> QED
    BY <2>1, <2>3, KeptSilently
<1>8. CASE GenAlias
  <2> DEFINE text == Top.syn.text
             d == Declaration(Named(Name), "alias", <<[unprefixed |-> text]>>, <<>>)
  <2>1. /\ Collecting /\ Complete /\ Emit(d) /\ UNCHANGED source
        /\ Top.syn.tag = "ID" /\ Depth = 0 /\ stack # <<>>
    BY <1>8 DEF GenAlias, Printing, Collecting, Complete, scanned
  <2>2. d.id = Named(Name) /\ d.what = "alias" /\ d.refs = <<[unprefixed |-> text]>>
    BY DEF Declaration
  <2>3. Parses(d)
    BY <2>2 DEF Parses, Named
  <2> HIDE DEF d, text
  <2>4. Says(source, Here, Unfolded(Append(out, d))[Len(out) + 1])
    <3>1. Unfolded(Append(out, d))[Len(out) + 1] =
             Said(d.what, [i \in DOMAIN d.refs |-> Meant(out, d.refs[i])], d.data)
      BY UnfoldedMore DEF Numbers, Sound
    <3>2. Meant(out, [unprefixed |-> text]) = [unprefixed |-> text]
      BY NotNumbers, NoNumberMeant
    <3>3. [i \in DOMAIN d.refs |-> Meant(out, d.refs[i])] = <<[unprefixed |-> text]>>
      BY <2>2, <3>2
    <3>4. \A w, x, y : Said(w, x, y).refs = x
      BY DEF Said
    <3>5. HasExpression(source[Here]) /\ source[Here].kids[2] = Top.syn
      BY <2>1, TopFacts DEF Placed, Collecting, Statement, HasExpression
    <3>6. ASSUME NEW said, said.refs = <<[unprefixed |-> text]>>
          PROVE  Says(source, Here, said)
      BY <2>1, <3>5, <3>6 DEF Says, HasExpression, text
    <3> QED
      BY <3>1, <3>3, <3>4, <3>6
  <2> QED
    BY <2>1, <2>2, <2>3, <2>4, KeptPrinted
<1>9. CASE GenNode
  <2> DEFINE refs == Top.got \o Uses(Top.syn)
             d == Declaration(Signed, Top.syn.tag, refs, Data(Top.syn))
  <2>1. /\ Collecting /\ Complete /\ Emit(d) /\ UNCHANGED source
        /\ Top.syn.tag # "ID" /\ stack # <<>>
    BY <1>9 DEF GenNode, Printing, Collecting, Complete, scanned
  <2>2. d.id = Signed /\ d.what = Top.syn.tag /\ d.refs = refs /\ d.data = Data(Top.syn)
    BY DEF Declaration
  <2>3. Said(Top.syn.tag, [i \in DOMAIN refs |-> Meant(out, refs[i])], Data(Top.syn)) =
           Described(Top.syn)
    BY <2>1, NodeSays
  <2> HIDE DEF d, refs
  <2>4. Top.syn.tag # "extern"
    BY <2>1, TopFacts, GeneratorAssumption DEF Tags
  <2>5. Depth # 0 => ~Parses(d)
    BY <2>2 DEF Signed, Numbered, Parses
  <2>6. Depth = 0 => Parses(d) /\ d.id = Named(Name)
    BY <2>2, <2>4 DEF Signed, Named, Parses
  <2>7. Depth = 0 => Says(source, Here, Unfolded(Append(out, d))[Len(out) + 1])
    <3> SUFFICES ASSUME Depth = 0
                 PROVE  Says(source, Here, Unfolded(Append(out, d))[Len(out) + 1])
      OBVIOUS
    <3>1. Unfolded(Append(out, d))[Len(out) + 1] =
             Said(d.what, [i \in DOMAIN d.refs |-> Meant(out, d.refs[i])], d.data)
      BY UnfoldedMore DEF Numbers, Sound
    <3>2. HasExpression(source[Here]) /\ source[Here].kids[2] = Top.syn
      BY <2>1, TopFacts DEF Placed, Collecting, Statement, HasExpression
    <3>3. Says(source, Here, Described(Top.syn))
      BY <2>1, <3>2 DEF Says, HasExpression
    <3> QED
      BY <2>2, <2>3, <3>1, <3>3
  <2> QED
    BY <2>1, <2>5, <2>6, <2>7, KeptPrinted
<1>10. CASE SetUnknown
  BY <1>10 DEF SetUnknown, Return, Kept
<1>11. CASE GenSet
  <2>1. Computing /\ Complete /\ Depth = 0 /\ UNCHANGED source /\ uid' = uid + 1
    BY <1>11 DEF GenSet, Evaluating, Computing, scanned
  <2>2. PICK members \in Values(Top.syn, Top.got) :
           \/ /\ out' = out \o <<Declaration(Numbered(uid), "words", <<>>, <<members>>),
                                 Declaration(Named(Name), "SET", <<Numbered(uid)>>, <<>>)>>
              /\ Give(members) /\ UNCHANGED <<pc, todo>>
           \/ pc' = "returned" /\ res' = "IO"
    BY <1>11 DEF GenSet, PrintFails, Return
  <2>3. CASE pc' = "returned" /\ res' = "IO"
    BY <2>3 DEF Kept
  <2> QED
    BY <2>1, <2>2, <2>3, KeptSet
<1>12. CASE EndStatements
  <2>1. /\ pc = "generating" /\ stack = <<>> /\ todo = <<>>
        /\ pc' = "returned" /\ UNCHANGED <<source, out>>
    BY <1>12 DEF EndStatements, Return, scanned, Ways
  <2>2. Passed = DOMAIN source
    BY <2>1, PlaceFacts DEF Here
  <2> QED
    BY <2>1, <2>2 DEF Kept
<1>13. CASE Descend
  <2> DEFINE part == Parts(Top.syn)[Len(Top.got) + 1]
  <2>1. /\ stack # <<>> /\ stack' = Append(stack, [syn |-> part, got |-> <<>>])
        /\ UNCHANGED <<source, todo, pc, out, res>> /\ IsSequence(stack)
    BY <1>13 DEF Descend, Call, scanned, Ways, WayDown
  <2> HIDE DEF part
  <2>2. stack' # <<>>
    BY <2>1, CalledParts
  <2>3. Passed' = Passed
    BY <2>1, <2>2 DEF Passed, Here
  <2> QED
    BY <2>1, <2>3 DEF Kept
<1>14. CASE UNCHANGED vars
  <2>1. Passed' = Passed
    BY <1>14 DEF vars, Passed, Here
  <2> QED
    BY <1>14, <2>1 DEF vars, Kept
<1> QED
  BY <1>1, <1>2, <1>3, <1>4, <1>5, <1>6, <1>7, <1>8, <1>9, <1>10, <1>11, <1>12, <1>13, <1>14
     DEF Next, Scan, Declare, Generate

\* From what the statements have, follows what the declarations mean.
LEMMA MeaningFollows ==
    ASSUME Gathered, Evaluated, Kept
    PROVE  MeansTheGrammar
<1>1. pc = "returned" /\ res = "OK" => \A x \in Expressions : IsNamed(x)
  BY DEF Gathered, AllNamed, Entered
<1>2. ASSUME pc = "returned", res = "OK", Single(source), NEW i \in DOMAIN source,
             Defines(source[i])
      PROVE  LET name == Introduces(source[i])
             IN  /\ \E k \in DOMAIN out : Definition(name, k)
                 /\ \A k \in DOMAIN out : Definition(name, k) =>
                       Says(source, i, Unfolded(out)[k])
  <2> DEFINE name == Introduces(source[i])
  <2>1. Faithful(source, out, DOMAIN source)
    BY <1>2 DEF Kept
  <2>2. \E k \in DOMAIN out : Definition(name, k)
    BY <1>2, <2>1 DEF Faithful, Parses, Definition
  <2>3. ASSUME NEW k \in DOMAIN out, Definition(name, k)
        PROVE  Says(source, i, Unfolded(out)[k])
    <3>1. Parses(out[k]) /\ out[k].id = Named(name)
      BY <2>3 DEF Definition, Parses, Named
    <3>2. PICK j \in DOMAIN source :
             /\ Defines(source[j]) /\ out[k].id = Named(Introduces(source[j]))
             /\ Says(source, j, Unfolded(out)[k])
      BY <2>1, <3>1 DEF Faithful
    <3>3. Introduces(source[j]) = Introduces(source[i])
      <4>1. \A x : Named(x).parser = x
        BY DEF Named
      <4> QED
        BY <3>1, <3>2, <4>1
    <3>4. i = j
      BY <1>2, <3>2, <3>3 DEF Single
    <3> QED
      BY <3>2, <3>4
  <2> QED
    BY <2>2, <2>3
<1> QED
  BY <1>1, <1>2 DEF MeansTheGrammar, Gathered, Evaluated

\* For every source in which no name is defined twice, when pgc_lang_gen succeeds
\* each name has a definition that says, unfolded, what its expression describes, and
\* that of a set has the characters of its expression; whatever the source, it
\* succeeds with none in which a set is not known, gives a syntax error for no other,
\* and stops the program for none in which only names are called.
THEOREM DeclarationsMeanTheGrammar == Spec => []MeansTheGrammar
<1>1. Init => Understood /\ Evaluated /\ Kept
  <2>1. DOMAIN <<>> = {}
    OBVIOUS
  <2> QED
    BY <2>1 DEF Init, Understood, Collecting, Evaluated, Computing, Kept
<1>2. Gathered /\ Evaluated /\ Kept => MeansTheGrammar
  BY MeaningFollows
<1> QED
  BY <1>1, <1>2, UnderstoodStep, EvaluatedStep, KeptStep, PlaceInvariance, CallInvariance, PTL
     DEF Spec
=============================================================================
