--------------------------- MODULE CharsetProofs ---------------------------
(***************************************************************************)
(* Theorems about Charset.tla: the operations on words of bits are those   *)
(* on sets, whatever the width of a word and the number of words.          *)
(***************************************************************************)
EXTENDS Charset, TLAPS

LEMMA SizeInNat == Size \in Nat
BY CharsetAssumption DEF Size

\* A character is its word and its bit.
LEMMA Division ==
    ASSUME NEW c \in Nat
    PROVE  /\ WordOf(c) \in Nat /\ BitOf(c) \in 0 .. WordBits - 1
           /\ c = WordBits * WordOf(c) + BitOf(c)
BY CharsetAssumption DEF WordOf, BitOf

LEMMA PlaceInWords ==
    ASSUME NEW c \in Char
    PROVE  WordOf(c) \in 0 .. WordCount - 1 /\ BitOf(c) \in 0 .. WordBits - 1
<1> DEFINE w == WordOf(c)
<1>1. c \in Nat /\ c < WordCount * WordBits
  BY CharsetAssumption DEF Char, Size
<1>2. w \in Nat /\ BitOf(c) \in 0 .. WordBits - 1 /\ c = WordBits * w + BitOf(c)
  BY <1>1, Division
<1>3. WordBits * w < WordCount * WordBits
  BY <1>1, <1>2, CharsetAssumption
<1>4. w < WordCount
  <2> SUFFICES ASSUME w >= WordCount PROVE FALSE
    BY <1>2, CharsetAssumption
  <2> HIDE DEF w
  <2>1. PICK k \in Nat : w = WordCount + k
    BY <1>2, CharsetAssumption
  <2>2. WordBits * w = WordCount * WordBits + WordBits * k
    BY <2>1, CharsetAssumption
  <2>3. WordBits * k \in Nat /\ WordCount * WordBits \in Nat
    BY CharsetAssumption
  <2> QED
    BY <1>3, <2>2, <2>3
<1> QED
  BY <1>2, <1>4, CharsetAssumption

LEMMA PlaceIsUnique ==
    ASSUME NEW c \in Char, NEW d \in Char, WordOf(c) = WordOf(d), BitOf(c) = BitOf(d)
    PROVE  c = d
<1>1. c \in Nat /\ d \in Nat
  BY DEF Char
<1> QED
  BY <1>1, Division

\* What is in a set that gained or lost a character, and in the empty one.
LEMMA MembersWith ==
    ASSUME NEW set \in Words, NEW c \in Char
    PROVE  With(set, c) \in Words /\ Members(With(set, c)) = Members(set) \cup {c}
<1>1. WordOf(c) \in 0 .. WordCount - 1 /\ BitOf(c) \in 0 .. WordBits - 1
  BY PlaceInWords
<1>2. With(set, c) \in Words
  BY <1>1 DEF With, Words
<1>3. ASSUME NEW d \in Char
      PROVE  In(With(set, c), d) <=> In(set, d) \/ d = c
  <2>1. WordOf(d) \in 0 .. WordCount - 1
    BY PlaceInWords
  <2>2. CASE WordOf(d) = WordOf(c)
    <3>1. BitOf(d) = BitOf(c) <=> d = c
      BY <2>2, PlaceIsUnique
    <3>2. With(set, c)[WordOf(d)] = set[WordOf(d)] \cup {BitOf(c)}
      BY <1>1, <2>1, <2>2 DEF With, Words
    <3> QED
      BY <3>1, <3>2 DEF In
  <2>3. CASE WordOf(d) # WordOf(c)
    BY <1>1, <2>1, <2>3 DEF With, Words, In
  <2> QED
    BY <2>2, <2>3
<1> QED
  BY <1>2, <1>3 DEF Members

LEMMA MembersWithout ==
    ASSUME NEW set \in Words, NEW c \in Char
    PROVE  Without(set, c) \in Words /\ Members(Without(set, c)) = Members(set) \ {c}
<1>1. WordOf(c) \in 0 .. WordCount - 1 /\ BitOf(c) \in 0 .. WordBits - 1
  BY PlaceInWords
<1>2. Without(set, c) \in Words
  BY <1>1 DEF Without, Words
<1>3. ASSUME NEW d \in Char
      PROVE  In(Without(set, c), d) <=> In(set, d) /\ d # c
  <2>1. WordOf(d) \in 0 .. WordCount - 1
    BY PlaceInWords
  <2>2. CASE WordOf(d) = WordOf(c)
    <3>1. BitOf(d) = BitOf(c) <=> d = c
      BY <2>2, PlaceIsUnique
    <3>2. Without(set, c)[WordOf(d)] = set[WordOf(d)] \ {BitOf(c)}
      BY <1>1, <2>1, <2>2 DEF Without, Words
    <3> QED
      BY <3>1, <3>2 DEF In
  <2>3. CASE WordOf(d) # WordOf(c)
    BY <1>1, <2>1, <2>3 DEF Without, Words, In
  <2> QED
    BY <2>2, <2>3
<1> QED
  BY <1>2, <1>3 DEF Members

LEMMA MembersZero == Zero \in Words /\ Members(Zero) = {}
BY PlaceInWords DEF Zero, Words, Members, In
-----------------------------------------------------------------------------
\* The invariant that is inductive: only the operations with a loop are ever on the
\* way.
IInv ==
    /\ TypeOK
    /\ Computes
    /\ ~Idle => call.op \in {"isect", "union", "diff", "iso"}

LEMMA InitInv == Init => IInv
<1> SUFFICES ASSUME Init PROVE IInv
  OBVIOUS
<1>1. TypeOK
  BY SizeInNat, MembersZero DEF Init, TypeOK
<1>2. \A a \in Address : Members(words[a]) = {}
  BY MembersZero DEF Init
<1>3. Result = {} /\ \A a \in Address : before[a] = {}
  BY DEF Init, Result
<1>4. Idle
  BY DEF Init, Idle
<1> QED
  BY <1>1, <1>2, <1>3, <1>4 DEF IInv, Computes

\* A call that has no loop: the result is there at once.
LEMMA OneComputes ==
    ASSUME IInv, NEW dest \in Address, NEW set \in Words,
           words' = [words EXCEPT ![dest] = set], call'.dest = dest,
           call' \in [op : {"zero", "cpy", "set", "unset"}, dest : Address,
                      fst : Address, snd : Address, arg : SUBSET Char, c : {Size}],
           before' = [a \in Address |-> Members(words[a])],
           Members(set) = Result'
    PROVE  IInv'
<1>1. words' \in [Address -> Words]
  BY DEF IInv, TypeOK
<1>2. before' \in [Address -> SUBSET Char]
  BY DEF Members
<1>3. call'.c = Size /\ call' \in [op : {"zero", "cpy", "set", "unset", "isect", "union",
                                         "diff", "iso"},
                                  dest : Address, fst : Address, snd : Address,
                                  arg : SUBSET Char, c : 0 .. Size]
  BY SizeInNat
<1>4. TypeOK'
  BY <1>1, <1>2, <1>3 DEF TypeOK
<1>5. \A a \in Address : a # dest => words'[a] = words[a]
  BY DEF IInv, TypeOK
<1>6. words'[dest] = set
  BY DEF IInv, TypeOK
<1>7. \A c \in Members(set) : c < Size
  BY SizeInNat DEF Members, Char
<1> QED
  BY <1>3, <1>4, <1>5, <1>6, <1>7 DEF IInv, Computes, Idle

\* A call with a loop begins with nothing in the destination.
LEMMA BeginComputes ==
    ASSUME IInv, NEW dest \in Address,
           words' = Cleared(dest), call'.dest = dest, call'.c = 0,
           call' \in [op : {"isect", "union", "diff", "iso"}, dest : Address,
                      fst : Address, snd : Address, arg : SUBSET Char, c : {0}],
           before' = [a \in Address |-> Members(words[a])]
    PROVE  IInv'
<1>1. words' \in [Address -> Words] /\ words'[dest] = Zero
      /\ \A a \in Address : a # dest => words'[a] = words[a]
  BY MembersZero DEF IInv, TypeOK, Cleared
<1>2. before' \in [Address -> SUBSET Char]
  BY DEF Members
<1>3. TypeOK'
  BY <1>1, <1>2, SizeInNat DEF TypeOK
<1>4. Result' \subseteq Char
  BY <1>2 DEF Result
<1>5. \A c \in Char : ~(c < 0)
  BY SizeInNat DEF Char
<1>6. \A a \in Address :
        Members(words'[a]) =
            IF a = dest THEN {c \in Result' : c < 0} ELSE before'[a]
  BY <1>1, <1>4, <1>5, MembersZero
<1> QED
  BY <1>3, <1>6 DEF IInv, Computes, Idle

\* The arguments of a loop are still what they were before the call when none is the
\* destination.
LEMMA ChosenIsResult ==
    ASSUME IInv, ~Idle, Apart
    PROVE  call.c \in Char /\ (Chosen(call.c) <=> call.c \in Result)
<1> DEFINE k == call.c
<1>1. k \in Char
  BY SizeInNat DEF IInv, TypeOK, Idle, Char
<1>2. ASSUME NEW a \in Address, a # call.dest
      PROVE  In(words[a], k) <=> k \in before[a]
  <2>1. In(words[a], k) <=> k \in Members(words[a])
    BY <1>1 DEF Members
  <2> QED
    BY <1>2, <2>1 DEF IInv, Computes
<1>3. call.fst \in Address /\ call.snd \in Address
  BY DEF IInv, TypeOK
<1>4. call.op \in {"isect", "union", "diff", "iso"}
  BY DEF IInv
<1> QED
  BY <1>1, <1>2, <1>3, <1>4 DEF Chosen, Result, Apart

LEMMA TurnComputes ==
    ASSUME IInv, Turn
    PROVE  IInv'
<1> DEFINE k == call.c
           d == call.dest
<1>1. ~Idle /\ k \in Char /\ d \in Address /\ words[d] \in Words
  BY SizeInNat DEF Turn, IInv, TypeOK, Idle, Char
<1>2. k \in 0 .. Size - 1 /\ k + 1 \in 0 .. Size
  BY <1>1, SizeInNat DEF Char
<1>3. call' = [call EXCEPT !.c = k + 1] /\ UNCHANGED before
  BY DEF Turn
<1>4. /\ call'.op = call.op /\ call'.dest = d /\ call'.fst = call.fst
      /\ call'.snd = call.snd /\ call'.arg = call.arg /\ call'.c = k + 1
  BY <1>3 DEF IInv, TypeOK
<1>5. Result' = Result /\ (Apart' <=> Apart)
  BY <1>3, <1>4 DEF Result, Apart
<1> DEFINE new == IF Chosen(k) THEN With(words[d], k) ELSE words[d]
<1>6. /\ words' \in [Address -> Words] /\ words'[d] = new
      /\ \A a \in Address : a # d => words'[a] = words[a]
  BY <1>1, MembersWith DEF Turn, IInv, TypeOK
<1>7. TypeOK'
  BY <1>2, <1>3, <1>6 DEF IInv, TypeOK
<1>8. ASSUME Apart
      PROVE  Members(words'[d]) = {c \in Result : c < k + 1}
  <2>1. Members(words[d]) = {c \in Result : c < k}
    BY <1>1, <1>8 DEF IInv, Computes
  <2>2. Members(new) = Members(words[d]) \cup (IF k \in Result THEN {k} ELSE {})
    BY <1>1, <1>8, ChosenIsResult, MembersWith
  <2>3. Result \subseteq Char
    BY DEF IInv, TypeOK, Result
  <2>4. \A c \in Char : c < k + 1 <=> c < k \/ c = k
    BY <1>2, SizeInNat DEF Char
  <2> QED
    BY <1>6, <2>1, <2>2, <2>3, <2>4
<1>9. Computes'
  <2>1. ASSUME NEW a \in Address, a # d
        PROVE  Members(words'[a]) = before'[a]
    BY <1>3, <1>6, <2>1 DEF IInv, Computes
  <2> QED
    BY <1>4, <1>5, <1>8, <2>1 DEF Computes
<1> QED
  BY <1>1, <1>4, <1>7, <1>9 DEF IInv

LEMMA StepInv == IInv /\ [Next]_vars => IInv'
<1> SUFFICES ASSUME IInv, [Next]_vars PROVE IInv'
  OBVIOUS
<1>1. ASSUME NEW dest \in Address, ZeroAll(dest) PROVE IInv'
  <2>1. Result' = {}
    BY <1>1 DEF ZeroAll, Made, Result
  <2> QED
    BY <1>1, <2>1, MembersZero, OneComputes DEF ZeroAll, Made, Cleared
<1>2. ASSUME NEW dest \in Address, NEW src \in Address, Copy(dest, src) PROVE IInv'
  <2>1. words[src] \in Words
    BY DEF IInv, TypeOK
  <2>2. Result' = Members(words[src])
    BY <1>2 DEF Copy, Made, Result
  <2> QED
    BY <1>2, <2>1, <2>2, OneComputes DEF Copy, Made
<1>3. ASSUME NEW dest \in Address, NEW c \in Char, SetOne(dest, c) PROVE IInv'
  <2>1. words[dest] \in Words
    BY DEF IInv, TypeOK
  <2>2. Result' = Members(words[dest]) \cup {c}
    BY <1>3 DEF SetOne, Made, Result
  <2>3. With(words[dest], c) \in Words /\ Members(With(words[dest], c)) = Result'
    BY <2>1, <2>2, MembersWith
  <2> QED
    BY <1>3, <2>3, OneComputes DEF SetOne, Made
<1>4. ASSUME NEW dest \in Address, NEW c \in Char, UnsetOne(dest, c) PROVE IInv'
  <2>1. words[dest] \in Words
    BY DEF IInv, TypeOK
  <2>2. Result' = Members(words[dest]) \ {c}
    BY <1>4 DEF UnsetOne, Made, Result
  <2>3. Without(words[dest], c) \in Words /\ Members(Without(words[dest], c)) = Result'
    BY <2>1, <2>2, MembersWithout
  <2> QED
    BY <1>4, <2>3, OneComputes DEF UnsetOne, Made
<1>5. ASSUME NEW dest \in Address, NEW op \in {"isect", "union", "diff"},
             NEW fst \in Address, NEW snd \in Address, BeginCombine(op, dest, fst, snd)
      PROVE  IInv'
  BY <1>5, BeginComputes DEF BeginCombine, Made
<1>6. ASSUME NEW dest \in Address, NEW pred \in Predicates, BeginIso(dest, pred)
      PROVE  IInv'
  <2>1. pred \in SUBSET Char
    BY CharsetAssumption
  <2> QED
    BY <1>6, <2>1, BeginComputes DEF BeginIso, Made
<1>7. CASE Turn
  BY <1>7, TurnComputes
<1>8. CASE UNCHANGED vars
  BY <1>8 DEF vars, IInv, TypeOK, Computes, Result, Apart, Idle
<1> QED
  BY <1>1, <1>2, <1>3, <1>4, <1>5, <1>6, <1>7, <1>8 DEF Next, One, Loops

\* For every number and width of words: the operations of charset.c construct the
\* sets that charset.h says, except in a destination that is an argument of a union,
\* intersection or difference, and change no other set.
THEOREM OperationsAreSets == Spec => []Computes
<1>1. IInv => Computes
  BY DEF IInv
<1> QED
  BY InitInv, StepInv, <1>1, PTL DEF Spec

\* The words stay words.
THEOREM TypeCorrect == Spec => []TypeOK
<1>1. IInv => TypeOK
  BY DEF IInv
<1> QED
  BY InitInv, StepInv, <1>1, PTL DEF Spec

=============================================================================
