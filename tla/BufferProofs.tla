---------------------------- MODULE BufferProofs ----------------------------
(***************************************************************************)
(* Proofs about the buffer (Buffer.tla, with the calls of BufferText.tla    *)
(* and BufferLens.tla), for every storage length and every bound: the type  *)
(* invariant, that the window only holds bytes that were stored, that no    *)
(* call damages or loses a byte that is still to be read, that a lens shows *)
(* what it was taken for, and that the buffer implements ByteStream.tla.    *)
(***************************************************************************)
EXTENDS BufferLens, TLAPS

USE BufferAssumption

\* What PGC_BUF_ENSURE leaves: room behind the window for the n bytes, and every
\* position still in the window at its place.
LEMMA EnsureKeepsWindow ==
    ASSUME TypeOK, NEW n \in Nat, Fits(n)
    PROVE  /\ EnsuredBegin(n) \in Nat
           /\ begin <= EnsuredBegin(n) /\ EnsuredBegin(n) <= offset
           /\ end + n - EnsuredBegin(n) <= Max
           /\ EnsuredMem(n) \in Storage
           /\ \A i \in EnsuredBegin(n) .. end - 1 :
                 EnsuredMem(n)[i - EnsuredBegin(n)] = mem[i - begin]
<1>1. CASE Compacts(n)
  <2>1. EnsuredBegin(n) = offset /\ EnsuredMem(n) = Backcopy
    BY <1>1 DEF EnsuredBegin, EnsuredMem
  <2>2. Backcopy \in Storage
    BY DEF Backcopy, TypeOK, Storage
  <2>3. \A i \in offset .. end - 1 : Backcopy[i - offset] = mem[i - begin]
    BY DEF Backcopy, TypeOK
  <2> QED
    BY <2>1, <2>2, <2>3 DEF TypeOK, Fits
<1>2. CASE ~Compacts(n)
  BY <1>2 DEF EnsuredBegin, EnsuredMem, Compacts, TypeOK
<1> QED
  BY <1>1, <1>2

\* What a chunk stored behind the ensured window leaves.
LEMMA FillKeepsWindow ==
    ASSUME TypeOK, NEW n \in Nat, Fits(n), NEW r \in 0 .. n, NEW c \in Chunk(r),
           Fill(n, r, c)
    PROVE  /\ begin' \in Nat /\ begin <= begin' /\ begin' <= offset
           /\ offset' = offset
           /\ end + n - begin' <= Max
           /\ mem' \in Storage
           /\ \A i \in begin' .. end - 1 : mem'[i - begin'] = mem[i - begin]
           /\ \A i \in end .. end + r - 1 : mem'[i - begin'] \in Byte
<1> DEFINE b == EnsuredBegin(n)
           m == EnsuredMem(n)
<1>1. /\ b \in Nat /\ begin <= b /\ b <= offset
      /\ end + n - b <= Max
      /\ m \in Storage
      /\ \A i \in b .. end - 1 : m[i - b] = mem[i - begin]
  BY EnsureKeepsWindow
<1>2. begin' = b /\ mem' = Store(m, end - b, r, c) /\ offset' = offset
  BY DEF Fill
<1> HIDE DEF b, m
<1>3. \A k \in 0 .. r - 1 : c[k] \in Byte
  BY DEF Chunk
<1>4. mem' \in Storage
  BY <1>1, <1>2, <1>3 DEF Store, Storage, TypeOK
<1>5. ASSUME NEW i \in b .. end - 1
      PROVE  mem'[i - b] = mem[i - begin]
  <2>1. i - b \in 0 .. Max - 1 /\ ~(end - b <= i - b)
    BY <1>1 DEF TypeOK
  <2>2. mem'[i - b] = m[i - b]
    BY <1>2, <2>1 DEF Store
  <2> QED
    BY <1>1, <2>2
<1>6. ASSUME NEW i \in end .. end + r - 1
      PROVE  mem'[i - b] \in Byte
  <2>1. /\ i - b \in 0 .. Max - 1 /\ end - b <= i - b /\ i - b < (end - b) + r
        /\ (i - b) - (end - b) \in 0 .. r - 1
    BY <1>1 DEF TypeOK
  <2>2. mem'[i - b] = c[(i - b) - (end - b)]
    BY <1>2, <2>1 DEF Store
  <2> QED
    BY <1>3, <2>1, <2>2
<1> QED
  BY <1>1, <1>2, <1>4, <1>5, <1>6
-----------------------------------------------------------------------------
\* The inductive invariant, and what one step may do to the window.
Inv == TypeOK /\ WindowWritten
Survival ==
    /\ begin <= begin' /\ begin' <= offset
    /\ end <= end'
    /\ \A i \in begin' .. end - 1 : mem'[i - begin'] = mem[i - begin]
Keeps == TypeOK' /\ Survival /\ (WindowWritten => WindowWritten')

\* A call that leaves begin, end and the storage alone.
LEMMA Reading ==
    ASSUME TypeOK, UNCHANGED <<begin, end, mem>>,
           offset' \in begin .. end, reply'.code \in Codes
    PROVE  Keeps
BY DEF Keeps, TypeOK, WindowWritten, Survival

\* A call that stored r bytes of a chunk and advanced end by k of them.
LEMMA Writing ==
    ASSUME TypeOK, NEW n \in Nat, Fits(n), NEW r \in 0 .. n, NEW c \in Chunk(r),
           Fill(n, r, c), NEW k \in 0 .. r, end' = end + k,
           reply'.code \in Codes
    PROVE  Keeps
<1>1. PICK b \in Nat :
        /\ begin' = b /\ begin <= b /\ b <= offset
        /\ offset' = offset
        /\ end + n - b <= Max
        /\ mem' \in Storage
        /\ \A i \in b .. end - 1 : mem'[i - b] = mem[i - begin]
        /\ \A i \in end .. end + r - 1 : mem'[i - b] \in Byte
  BY FillKeepsWindow
<1>2. begin \in Nat /\ offset \in Nat /\ end \in Nat /\ begin <= offset /\ offset <= end
  BY DEF TypeOK
<1>3. TypeOK'
  BY <1>1, <1>2 DEF TypeOK
<1>4. Survival
  BY <1>1, <1>2 DEF Survival
<1>5. ASSUME WindowWritten, NEW j \in 0 .. (end + k) - b - 1
      PROVE  mem'[j] \in Byte
  <2>1. CASE b + j < end
    <3>1. b + j \in b .. end - 1 /\ (b + j) - b = j
      BY <1>1, <1>2, <2>1
    <3>2. mem'[(b + j) - b] = mem[(b + j) - begin]
      BY <1>1, <3>1
    <3>3. (b + j) - begin \in 0 .. end - begin - 1
      BY <1>1, <1>2, <2>1
    <3> QED
      BY <1>5, <3>1, <3>2, <3>3 DEF WindowWritten
  <2>2. CASE end <= b + j
    <3>1. b + j \in end .. end + r - 1 /\ (b + j) - b = j
      BY <1>2, <2>2
    <3> QED
      BY <1>1, <3>1
  <2> QED
    BY <1>2, <2>1, <2>2
<1>6. WindowWritten => WindowWritten'
  BY <1>1, <1>5 DEF WindowWritten
<1> QED
  BY <1>3, <1>4, <1>6 DEF Keeps

\* Every call keeps the invariant and the window, one step per call.
LEMMA Step ==
    ASSUME TypeOK, [Next]_vars
    PROVE  Keeps
<1> USE DEF Return, Codes
<1>a. begin \in Nat /\ offset \in Nat /\ end \in Nat /\ begin <= offset /\ offset <= end
  BY DEF TypeOK
<1>b. ASSUME NEW code \in Codes, Fail(code)
      PROVE  Keeps
  BY <1>a, <1>b, Reading DEF Fail
<1>1. ASSUME NEW p \in 0 .. MaxEnd + 1, Seek(p)
      PROVE  Keeps
  BY <1>a, <1>b, <1>1, Reading DEF Seek
<1>2. ASSUME NEW n \in Nat, Get(n)
      PROVE  Keeps
  BY <1>a, <1>b, <1>2, Reading DEF Get, Available
<1>3. ASSUME NEW n \in Nat, CbRead(n)
      PROVE  Keeps
  <2>1. ASSUME Fits(n), NEW r \in 0 .. n, NEW c \in Chunk(r), Fill(n, r, c),
               \/ end' = end + r /\ Return("OK", Nothing)
               \/ end' = end /\ Return("USER", Nothing)
        PROVE  Keeps
    <3>1. PICK k \in 0 .. r : end' = end + k
      BY <1>a, <2>1
    <3> QED
      BY <2>1, <3>1, Writing
  <2> QED
    BY <1>b, <1>3, <2>1 DEF CbRead
<1>4. ASSUME NEW n \in Nat, FRead(n)
      PROVE  Keeps
  <2>1. ASSUME Fits(n), NEW r \in 0 .. n, NEW c \in Chunk(r), Fill(n, r, c),
               \/ end' = end /\ Return("SYS", Nothing)
               \/ end' = end /\ Return("EOF", Nothing)
               \/ end' = end + r /\ Return("OK", Nothing)
        PROVE  Keeps
    <3>1. PICK k \in 0 .. r : end' = end + k
      BY <1>a, <2>1
    <3> QED
      BY <2>1, <3>1, Writing
  <2> QED
    BY <1>b, <1>4, <2>1 DEF FRead
<1>5. ASSUME NEW n \in Nat, CbWrite(n)
      PROVE  Keeps
  BY <1>a, <1>b, <1>5, Reading DEF CbWrite, Available
<1>6. ASSUME NEW n \in Nat, FWrite(n)
      PROVE  Keeps
  BY <1>a, <1>b, <1>6, Reading DEF FWrite, Available
<1>7. ASSUME NEW n \in Nat, Decode(n)
      PROVE  Keeps
  BY <1>a, <1>b, <1>7, Reading DEF Decode, Available
<1>8. ASSUME NEW n \in Nat, NEW c \in Chunk(n), Put(n, c)
      PROVE  Keeps
  BY <1>b, <1>8, Writing DEF Put
<1>9. ASSUME NEW n \in Nat, NEW c \in Chunk(n), Cmp(n, c)
      PROVE  Keeps
  BY <1>a, <1>b, <1>9, Reading DEF Cmp, Available
<1>10. ASSUME NEW n \in Nat, NEW c \in Chunk(n), Scan(n, c)
       PROVE  Keeps
  <2> DEFINE hits == {p \in offset .. end - n : Bytes(p, n) = c}
  <2>1. n = 0 => hits # {}
    <3> SUFFICES ASSUME n = 0 PROVE offset \in hits
      OBVIOUS
    <3>1. Bytes(offset, 0) = c
      BY DEF Bytes, Chunk
    <3> QED
      BY <1>a, <3>1
  <2>2. \/ \E p \in hits : offset' = p + n
        \/ hits = {} /\ offset' = IF offset + n <= end THEN end - n + 1 ELSE offset
    BY <1>10 DEF Scan, Available
  <2>3. offset' \in begin .. end
    BY <1>a, <2>1, <2>2
  <2>4. UNCHANGED <<begin, end, mem>> /\ reply'.code \in Codes
    BY <1>10 DEF Scan
  <2> QED
    BY <2>3, <2>4, Reading
<1>11. ASSUME NEW P \in SUBSET Byte, Match(P)
       PROVE  Keeps
  BY <1>a, <1>b, <1>11, Reading DEF Match, Available
<1>12. CASE UNCHANGED vars
  BY <1>a, <1>12, Reading DEF vars, TypeOK
<1>13. 0 .. MaxChunk \subseteq Nat /\ 1 \in Nat
  OBVIOUS
<1> QED
  BY <1>1, <1>2, <1>3, <1>4, <1>5, <1>6, <1>7, <1>8, <1>9, <1>10, <1>11,
     <1>12, <1>13 DEF Next, GetChar

LEMMA Initially == Init => Inv
BY DEF Init, Inv, TypeOK, WindowWritten, Storage, Chunk, Codes

-----------------------------------------------------------------------------
\* Printing and encoding, which do not go through the append path.

\* What a chunk stored from an address on leaves.
LEMMA StoreKeepsBelow ==
    ASSUME NEW m \in Storage, NEW at \in Nat, NEW r \in Nat, NEW c,
           \A k \in 0 .. r - 1 : c[k] \in Byte
    PROVE  /\ Store(m, at, r, c) \in Storage
           /\ \A k \in 0 .. Max - 1 : k < at => Store(m, at, r, c)[k] = m[k]
BY DEF Store, Storage

\* Storage m that shows the window, and what it becomes when no byte below the end
\* of the window is stored to.
LEMMA Behind ==
    ASSUME TypeOK, NEW b \in {begin, offset}, begin' = b, NEW m,
           \A i \in b .. end - 1 : m[i - b] = mem[i - begin],
           mem' \in Storage,
           \A k \in 0 .. Max - 1 : k < end - b => mem'[k] = m[k],
           offset' = offset, end <= end', end' \in Nat, end' - b <= Max,
           reply'.code \in Codes
    PROVE  TypeOK' /\ Survival
<1>1. /\ begin \in Nat /\ offset \in Nat /\ end \in Nat
      /\ begin <= offset /\ offset <= end /\ end - begin <= Max
  BY DEF TypeOK
<1>2. TypeOK'
  <2>1. b \in Nat /\ b <= offset /\ offset <= end'
    BY <1>1
  <2>2. begin' \in Nat /\ begin' <= offset' /\ offset' <= end' /\ end' - begin' <= Max
    BY <2>1
  <2> QED
    BY <1>1, <2>2 DEF TypeOK
<1>3. ASSUME NEW i \in b .. end - 1
      PROVE  mem'[i - b] = mem[i - begin]
  <2>1. i - b \in 0 .. Max - 1 /\ i - b < end - b
    BY <1>1
  <2> QED
    BY <2>1
<1> QED
  BY <1>1, <1>2, <1>3 DEF Survival

LEMMA VPrintfStep ==
    ASSUME TypeOK, NEW n \in Nat, NEW c \in Text(n), VPrintf(n, c)
    PROVE  TypeOK' /\ Survival
<1> DEFINE unread == end - offset
           room == Max - unread
           kept == Smaller(n, room - 1)
           nul == [k \in 0 .. 0 |-> Nul]
<1>1. /\ begin \in Nat /\ offset \in Nat /\ end \in Nat
      /\ begin <= offset /\ offset <= end /\ end - begin <= Max
  BY DEF TypeOK
<1>2. unread \in Nat /\ room \in Nat /\ end - offset = unread /\ unread + room = Max
  BY <1>1
<1>3. /\ begin' = offset /\ offset' = offset
      /\ \/ /\ mem' = IF room = 0 THEN Backcopy
                      ELSE Store(Store(Backcopy, unread, kept, c), unread + kept, 1, nul)
            /\ \/ n > room /\ end' = end /\ Return("OOB", Nothing)
               \/ n <= room /\ end' = end + n /\ Return("OK", Nothing)
         \/ /\ \E r \in 0 .. n : (r = 0 \/ r < room) /\ mem' = Store(Backcopy, unread, r, c)
            /\ end' = end
            /\ Return("SYS", Nothing)
  BY DEF VPrintf
<1>4. Backcopy \in Storage /\ \A i \in offset .. end - 1 : Backcopy[i - offset] = mem[i - begin]
  BY DEF Backcopy, TypeOK, Storage
<1>5. \A k \in 0 .. n - 1 : c[k] \in Byte
  BY DEF Text
<1>6. room # 0 => kept \in 0 .. n
  BY <1>2 DEF Smaller
<1>7. Nul \in Byte
  BY TextAssumption
<1> HIDE DEF unread, room, kept
<1>8. mem' \in Storage /\ \A k \in 0 .. Max - 1 : k < unread => mem'[k] = Backcopy[k]
  <2>1. CASE room = 0 /\ mem' = Backcopy
    BY <1>4, <2>1
  <2>2. CASE room # 0 /\ mem' = Store(Store(Backcopy, unread, kept, c), unread + kept, 1, nul)
    <3> DEFINE m == Store(Backcopy, unread, kept, c)
    <3>1. kept \in Nat /\ \A k \in 0 .. kept - 1 : c[k] \in Byte
      BY <1>5, <1>6, <2>2
    <3>2. m \in Storage /\ \A k \in 0 .. Max - 1 : k < unread => m[k] = Backcopy[k]
      BY <1>2, <1>4, <3>1, StoreKeepsBelow
    <3> HIDE DEF m
    <3>3. unread + kept \in Nat /\ 1 \in Nat /\ \A k \in 0 .. 1 - 1 : nul[k] \in Byte
      BY <1>2, <1>7, <3>1
    <3> HIDE DEF nul
    <3>4. /\ Store(m, unread + kept, 1, nul) \in Storage
          /\ \A k \in 0 .. Max - 1 :
                k < unread + kept => Store(m, unread + kept, 1, nul)[k] = m[k]
      BY <3>2, <3>3, StoreKeepsBelow
    <3>5. mem' = Store(m, unread + kept, 1, nul)
      BY <2>2 DEF m
    <3>6. \A k \in 0 .. Max - 1 : k < unread => k < unread + kept
      BY <1>2, <3>1
    <3> QED
      BY <3>2, <3>4, <3>5, <3>6
  <2>3. CASE \E r \in 0 .. n : mem' = Store(Backcopy, unread, r, c)
    <3>1. PICK r \in 0 .. n : mem' = Store(Backcopy, unread, r, c)
      BY <2>3
    <3>2. r \in Nat /\ \A k \in 0 .. r - 1 : c[k] \in Byte
      BY <1>5
    <3> QED
      BY <1>2, <1>4, <3>1, <3>2, StoreKeepsBelow
  <2> QED
    BY <1>3, <2>1, <2>2, <2>3
<1>9. end <= end' /\ end' \in Nat /\ end' - offset <= Max /\ reply'.code \in Codes
  BY <1>1, <1>2, <1>3 DEF Return, Codes
<1> QED
  BY <1>2, <1>3, <1>4, <1>8, <1>9, Behind

\* The digits are stored from the old end of the window on, which is not before
\* its new end.
LEMMA EncodeStep ==
    ASSUME TypeOK, NEW n \in Nat, NEW c \in [0 .. n - 1 -> Digit], Encode(n, c)
    PROVE  TypeOK' /\ Survival
<1> DEFINE at == end - begin
           room == Max - (end - offset)
<1>1. /\ begin \in Nat /\ offset \in Nat /\ end \in Nat
      /\ begin <= offset /\ offset <= end /\ end - begin <= Max
  BY DEF TypeOK
<1>2. at \in Nat /\ room \in Nat /\ \A k \in 0 .. room : Fits(k)
  BY <1>1 DEF Fits
<1>3. offset' = offset /\ \E k \in 0 .. room : \E r \in 0 .. n : \E d :
        /\ begin' = EnsuredBegin(k)
        /\ mem' = Store(EnsuredMem(k), at, r, d)
        /\ \A j \in 0 .. r - 1 : d[j] \in Byte
        /\ end' \in end .. end + k
        /\ reply'.code \in Codes
  <2>1. /\ \A j \in 0 .. n - 1 : c[j] \in Byte /\ Reversed(n, c)[j] \in Byte
        /\ offset' = offset
    BY DEF Reversed, Encode
  <2>2. CASE /\ room < n /\ begin' = EnsuredBegin(room)
             /\ mem' = Store(EnsuredMem(room), at, room, c)
             /\ end' = end /\ Return("OOB", Nothing)
    <3>1. /\ room \in 0 .. room /\ room \in 0 .. n /\ end' \in end .. end + room
          /\ reply'.code \in Codes /\ \A j \in 0 .. room - 1 : c[j] \in Byte
      BY <1>1, <1>2, <2>1, <2>2 DEF Return, Codes
    <3> HIDE DEF room, at
    <3> QED
      BY <2>1, <2>2, <3>1
  <2>3. CASE \E k \in 1 .. Smaller(n, room) :
                /\ begin' = EnsuredBegin(k)
                /\ mem' = Store(EnsuredMem(k), at, k - 1, c)
                /\ end' = end /\ Return("ENC", Nothing)
    <3>1. PICK k \in 1 .. Smaller(n, room) :
                /\ begin' = EnsuredBegin(k)
                /\ mem' = Store(EnsuredMem(k), at, k - 1, c)
                /\ end' = end /\ Return("ENC", Nothing)
      BY <2>3
    <3>2. k \in 0 .. room /\ k - 1 \in 0 .. n /\ end' \in end .. end + k
          /\ reply'.code \in Codes /\ \A j \in 0 .. k - 1 - 1 : c[j] \in Byte
      BY <1>1, <1>2, <2>1, <3>1 DEF Return, Codes, Smaller
    <3> HIDE DEF room, at
    <3> QED
      BY <2>1, <3>1, <3>2
  <2>4. CASE /\ n <= room /\ begin' = EnsuredBegin(n)
             /\ mem' = Store(EnsuredMem(n), at, n, Reversed(n, c))
             /\ end' = end + n /\ Return("OK", Nothing)
    <3>1. n \in 0 .. room /\ n \in 0 .. n /\ end' \in end .. end + n /\ reply'.code \in Codes
      BY <1>1, <1>2, <2>4 DEF Return, Codes
    <3> HIDE DEF room, at
    <3> QED
      BY <2>1, <2>4, <3>1
  <2> QED
    BY <2>1, <2>2, <2>3, <2>4 DEF Encode
<1>a. PICK k \in 0 .. room, r \in 0 .. n : \E d :
        /\ begin' = EnsuredBegin(k)
        /\ mem' = Store(EnsuredMem(k), at, r, d)
        /\ \A j \in 0 .. r - 1 : d[j] \in Byte
        /\ end' \in end .. end + k
        /\ reply'.code \in Codes
  BY <1>3
<1>4. PICK d :
        /\ begin' = EnsuredBegin(k)
        /\ mem' = Store(EnsuredMem(k), at, r, d)
        /\ \A j \in 0 .. r - 1 : d[j] \in Byte
        /\ end' \in end .. end + k
        /\ reply'.code \in Codes
  BY <1>a
<1> DEFINE b == EnsuredBegin(k)
           m == EnsuredMem(k)
<1>5. /\ b \in Nat /\ begin <= b /\ b <= offset
      /\ end + k - b <= Max
      /\ m \in Storage
      /\ \A i \in b .. end - 1 : m[i - b] = mem[i - begin]
  BY <1>2, EnsureKeepsWindow
<1>6. b \in {begin, offset}
  BY DEF EnsuredBegin
<1>7. begin' = b /\ mem' = Store(m, at, r, d)
  BY <1>4
<1> HIDE DEF b, m
<1>8. mem' \in Storage /\ \A j \in 0 .. Max - 1 : j < at => mem'[j] = m[j]
  BY <1>2, <1>4, <1>5, <1>7, StoreKeepsBelow
<1>9. \A j \in 0 .. Max - 1 : j < end - b => mem'[j] = m[j]
  BY <1>1, <1>5, <1>8
<1>10. end <= end' /\ end' \in Nat /\ end' - b <= Max /\ reply'.code \in Codes
  <2>1. PICK e \in end .. end + k : end' = e
    BY <1>4
  <2>2. k \in Nat
    BY <1>2
  <2> HIDE DEF room, at
  <2>3. end <= e /\ e \in Nat /\ e - b <= Max
    BY <1>1, <1>5, <2>2
  <2> QED
    BY <1>4, <2>1, <2>3
<1> QED
  BY <1>3, <1>5, <1>6, <1>7, <1>8, <1>9, <1>10, Behind
-----------------------------------------------------------------------------
\* The refinement: what the stream sees of the storage, and of what a call does
\* to it.
LEMMA WindowFacts ==
    ASSUME Inv
    PROVE  /\ begin \in Nat /\ offset \in Nat /\ end \in Nat
           /\ begin <= offset /\ offset <= end
           /\ \A i \in begin .. end - 1 : Window[i] = mem[i - begin]
BY DEF Inv, TypeOK, Window

\* The bytes of the storage are the slice of the stream.
LEMMA BytesAreSlice ==
    ASSUME Inv, NEW p \in begin .. end, NEW n \in Nat, p + n <= end
    PROVE  Bytes(p, n) = Stream!Slice(p, n)
<1>1. begin \in Nat /\ end \in Nat /\ \A i \in begin .. end - 1 : Window[i] = mem[i - begin]
  BY WindowFacts
<1>2. ASSUME NEW k \in 0 .. n - 1
      PROVE  mem[p - begin + k] = Window[p + k]
  <2>1. p + k \in begin .. end - 1 /\ (p + k) - begin = p - begin + k
    BY <1>1
  <2> QED
    BY <1>1, <2>1
<1> QED
  BY <1>2 DEF Bytes, Stream!Slice

\* A call that fails with nothing done.
LEMMA FailIsRefuse ==
    ASSUME NEW code, Fail(code)
    PROVE  Stream!Refuse(code)
<1>1. UNCHANGED <<begin, offset, end, mem>> /\ Return(code, Nothing)
  BY DEF Fail
<1>2. UNCHANGED Window
  BY <1>1 DEF Window
<1> QED
  BY <1>1, <1>2 DEF Stream!Refuse, Return, Stream!Answer, Nothing, Stream!Nothing

\* A chunk of which k bytes count, none or all of those that were stored.
LEMMA FillIsArrive ==
    ASSUME Inv, NEW n \in Nat, Fits(n), NEW r \in 0 .. n, NEW c \in Chunk(r),
           Fill(n, r, c), NEW k \in {0, r}, NEW d, k = r => d = c,
           end' = end + k
    PROVE  Stream!Room(n) /\ Stream!Arrive(n, k, d) /\ UNCHANGED offset
<1> DEFINE b == EnsuredBegin(n)
           m == EnsuredMem(n)
<1>1. begin \in Nat /\ offset \in Nat /\ end \in Nat /\ begin <= offset /\ offset <= end
  BY WindowFacts
<1>2. /\ b \in Nat /\ begin <= b /\ b <= offset
      /\ end + n - b <= Max
      /\ m \in Storage
      /\ \A i \in b .. end - 1 : m[i - b] = mem[i - begin]
  BY EnsureKeepsWindow DEF Inv
<1>3. begin' = b /\ mem' = Store(m, end - b, r, c) /\ offset' = offset
  BY DEF Fill
<1>4. b = Stream!Keep(n)
  BY <1>1 DEF EnsuredBegin, Compacts, Stream!Keep
<1> HIDE DEF b, m
<1>5. ASSUME NEW i \in b .. (end + k) - 1
      PROVE  mem'[i - b] = IF i < end THEN Window[i] ELSE d[i - end]
  <2>1. CASE i < end
    <3>1. i \in b .. end - 1 /\ i \in begin .. end - 1 /\ i - b \in 0 .. Max - 1
      BY <1>1, <1>2, <1>5, <2>1
    <3>2. mem'[i - b] = m[i - b]
      BY <1>1, <1>2, <1>3, <2>1, <3>1 DEF Store
    <3>3. Window[i] = mem[i - begin]
      BY <3>1, WindowFacts
    <3> QED
      BY <1>2, <2>1, <3>1, <3>2, <3>3
  <2>2. CASE ~(i < end)
    <3>1. k = r /\ d = c
      BY <1>1, <1>2, <1>5, <2>2
    <3>2. i - b \in 0 .. Max - 1 /\ end - b <= i - b /\ i - b < end - b + r
          /\ (i - b) - (end - b) = i - end
      BY <1>1, <1>2, <1>5, <2>2, <3>1
    <3>3. mem'[i - b] = c[(i - b) - (end - b)]
      BY <1>3, <3>2 DEF Store
    <3> QED
      BY <2>2, <3>1, <3>2, <3>3
  <2> QED
    BY <2>1, <2>2
<1>6. Window' = [i \in b .. end + k - 1 |-> IF i < end THEN Window[i] ELSE d[i - end]]
  <2>1. begin' .. end' - 1 = b .. end + k - 1
    BY <1>1, <1>3
  <2>2. Window' = [i \in begin' .. end' - 1 |-> mem'[i - begin']]
    BY DEF Window
  <2>3. Window' = [i \in b .. end + k - 1 |-> mem'[i - b]]
    BY <1>3, <2>1, <2>2
  <2> QED
    BY <1>1, <1>2, <1>5, <2>3
<1>7. Stream!Room(n)
  BY DEF Stream!Room, Fits
<1> QED
  BY <1>3, <1>4, <1>6, <1>7 DEF Stream!Arrive, Stream!Extend

\* What every call does, and the call of the stream that it is.
LEMMA SeekIsMove ==
    ASSUME Inv, NEW p \in Nat, Seek(p)
    PROVE  Stream!Move(p)
<1>1. CASE Fail("OOB") /\ ~(begin <= p /\ p <= end)
  BY <1>1, FailIsRefuse DEF Stream!Move
<1>2. CASE /\ begin <= p /\ p <= end /\ offset' = p
           /\ Return("OK", Nothing) /\ UNCHANGED <<begin, end, mem>>
  BY <1>2 DEF Stream!Move, Window, Return, Stream!Answer, Nothing, Stream!Nothing
<1> QED
  BY <1>1, <1>2 DEF Seek

LEMMA GetIsConsume ==
    ASSUME Inv, NEW n \in Nat, Get(n)
    PROVE  Stream!Consume(n)
<1>1. begin \in Nat /\ offset \in Nat /\ end \in Nat /\ begin <= offset /\ offset <= end
  BY WindowFacts
<1>2. CASE Fail("OOB") /\ ~Available(n)
  BY <1>1, <1>2, FailIsRefuse DEF Stream!Consume, Available
<1>3. CASE /\ Available(n) /\ offset' = offset + n
           /\ Return("OK", Bytes(offset, n)) /\ UNCHANGED <<begin, end, mem>>
  <2>1. Bytes(offset, n) = Stream!Slice(offset, n)
    BY <1>1, <1>3, BytesAreSlice DEF Available
  <2>2. UNCHANGED Window
    BY <1>3 DEF Window
  <2> QED
    BY <1>3, <2>1, <2>2 DEF Stream!Consume, Available, Return, Stream!Answer
<1> QED
  BY <1>2, <1>3 DEF Get

LEMMA PutIsAppend ==
    ASSUME Inv, NEW n \in Nat, NEW c \in Chunk(n), Put(n, c)
    PROVE  Stream!Append(n)
<1>1. CASE Fail("OOB") /\ ~Fits(n)
  BY <1>1, FailIsRefuse DEF Stream!Append, Stream!Room, Fits
<1>2. CASE Fits(n) /\ Fill(n, n, c) /\ end' = end + n /\ Return("OK", Nothing)
  <2>1. Stream!Room(n) /\ Stream!Arrive(n, n, c) /\ UNCHANGED offset
    BY <1>2, FillIsArrive
  <2>2. c \in Stream!Chunk(n)
    BY DEF Chunk, Stream!Chunk
  <2> QED
    BY <1>2, <2>1, <2>2
    DEF Stream!Append, Return, Stream!Answer, Nothing, Stream!Nothing
<1> QED
  BY <1>1, <1>2 DEF Put

LEMMA ReadIsFill ==
    ASSUME Inv, NEW n \in Nat, CbRead(n) \/ FRead(n)
    PROVE  Stream!Fill(n)
<1>1. CASE Fail("OOB") /\ ~Fits(n)
  BY <1>1, FailIsRefuse DEF Stream!Fill, Stream!Room, Fits
<1>2. ASSUME Fits(n), NEW r \in 0 .. n, NEW c \in Chunk(r), Fill(n, r, c),
             \/ end' = end + r /\ Return("OK", Nothing)
             \/ end' = end /\ \E code \in {"EOF", "SYS", "USER"} : Return(code, Nothing)
      PROVE  Stream!Fill(n)
  <2>1. CASE end' = end + r /\ Return("OK", Nothing)
    <3>1. Stream!Room(n) /\ Stream!Arrive(n, r, c) /\ UNCHANGED offset
      BY <1>2, <2>1, FillIsArrive
    <3>2. c \in Stream!Chunk(r)
      BY DEF Chunk, Stream!Chunk
    <3> QED
      BY <2>1, <3>1, <3>2
      DEF Stream!Fill, Return, Stream!Answer, Nothing, Stream!Nothing
  <2>2. CASE end' = end /\ \E code \in {"EOF", "SYS", "USER"} : Return(code, Nothing)
    <3> DEFINE d == IF r = 0 THEN c ELSE Stream!Nothing
    <3>1. end' = end + 0 /\ (0 = r => d = c)
      BY <2>2, WindowFacts
    <3> HIDE DEF d
    <3>2. Stream!Room(n) /\ Stream!Arrive(n, 0, d) /\ UNCHANGED offset
      BY <1>2, <3>1, FillIsArrive
    <3>3. Stream!Arrive(n, 0, Stream!Nothing)
      <4>1. end \in Nat /\ end' = end
        BY <2>2, WindowFacts
      <4>2. begin' \in Nat
        BY <1>2, FillKeepsWindow DEF Inv
      <4> QED
        BY <3>2, <4>1, <4>2 DEF Stream!Arrive, Stream!Extend
    <3> QED
      BY <2>2, <3>2, <3>3
      DEF Stream!Fill, Return, Stream!Answer, Nothing, Stream!Nothing
  <2> QED
    BY <1>2, <2>1, <2>2
<1>3. CASE CbRead(n)
  BY <1>1, <1>2, <1>3 DEF CbRead
<1>4. CASE FRead(n)
  BY <1>1, <1>2, <1>4 DEF FRead
<1> QED
  BY <1>3, <1>4

LEMMA WriteIsSend ==
    ASSUME Inv, NEW n \in Nat, CbWrite(n) \/ FWrite(n)
    PROVE  Stream!Send(n)
<1>1. begin \in Nat /\ offset \in Nat /\ end \in Nat /\ begin <= offset /\ offset <= end
  BY WindowFacts
<1>2. CASE Fail("OOB") /\ ~Available(n)
  BY <1>1, <1>2, FailIsRefuse DEF Stream!Send, Available
<1>3. ASSUME Available(n), NEW r \in 0 .. n, UNCHANGED <<begin, end, mem>>,
             \/ offset' = offset + r /\ Return("OK", Bytes(offset, r))
             \/ /\ offset' = offset
                /\ \E code \in {"SYS", "USER"} : Return(code, Bytes(offset, r))
      PROVE  Stream!Send(n)
  <2>1. Bytes(offset, r) = Stream!Slice(offset, r)
    <3>1. offset \in begin .. end /\ r \in Nat /\ offset + r <= end
      BY <1>1, <1>3 DEF Available
    <3> QED
      BY <3>1, BytesAreSlice
  <2>2. UNCHANGED Window
    BY <1>3 DEF Window
  <2>3. offset + n <= end
    BY <1>3 DEF Available
  <2> QED
    BY <1>3, <2>1, <2>2, <2>3 DEF Stream!Send, Return, Stream!Answer
<1>4. CASE CbWrite(n)
  BY <1>2, <1>3, <1>4 DEF CbWrite
<1>5. CASE FWrite(n)
  <2>1. n \in 0 .. n
    OBVIOUS
  <2> QED
    BY <1>2, <1>3, <1>5, <2>1 DEF FWrite
<1> QED
  BY <1>4, <1>5

LEMMA DecodeIsNumber ==
    ASSUME Inv, NEW n \in Nat, Decode(n)
    PROVE  Stream!Number(n)
<1>1. /\ begin \in Nat /\ offset \in Nat /\ end \in Nat /\ begin <= offset /\ offset <= end
      /\ \A i \in begin .. end - 1 : Window[i] = mem[i - begin]
  BY WindowFacts
<1>2. CASE Fail("OOB") /\ ~Available(n)
  <2>1. Stream!Consume(n) /\ ~(offset + n <= end)
    BY <1>1, <1>2, FailIsRefuse DEF Stream!Consume, Available
  <2> QED
    BY <2>1 DEF Stream!Number
<1>3. ASSUME Available(n), NEW k \in 0 .. n - 1
      PROVE  mem[offset - begin + k] = Window[offset + k]
  <2>1. offset + k \in begin .. end - 1 /\ (offset + k) - begin = offset - begin + k
    BY <1>1, <1>3 DEF Available
  <2> QED
    BY <1>1, <2>1
<1>4. CASE /\ Available(n) /\ UNCHANGED <<begin, end, mem>>
           /\ \A k \in 0 .. n - 1 : mem[offset - begin + k] \in Digit
           /\ offset' = offset + n /\ Return("OK", Bytes(offset, n))
  <2>1. \A k \in 0 .. n - 1 : Window[offset + k] \in Digit
    BY <1>3, <1>4
  <2>2. Get(n)
    BY <1>4 DEF Get
  <2> QED
    BY <2>1, <2>2, GetIsConsume DEF Stream!Number
<1>5. CASE /\ Available(n) /\ UNCHANGED <<begin, offset, end, mem>>
           /\ \E k \in 0 .. n - 1 :
                 /\ mem[offset - begin + k] \notin Digit
                 /\ \A j \in 0 .. k - 1 : mem[offset - begin + j] \in Digit
                 /\ Return("ENC", Bytes(offset, k))
  <2>1. PICK k \in 0 .. n - 1 :
                 /\ mem[offset - begin + k] \notin Digit
                 /\ \A j \in 0 .. k - 1 : mem[offset - begin + j] \in Digit
                 /\ Return("ENC", Bytes(offset, k))
    BY <1>5
  <2>2. k \in Nat /\ offset + k <= end /\ offset \in begin .. end
        /\ offset + n <= end /\ \A j \in 0 .. k - 1 : j \in 0 .. n - 1
    BY <1>1, <1>5, <2>1 DEF Available
  <2>3. Bytes(offset, k) = Stream!Slice(offset, k)
    BY <2>2, BytesAreSlice
  <2>4. /\ Window[offset + k] \notin Digit
        /\ \A j \in 0 .. k - 1 : Window[offset + j] \in Digit
    BY <1>3, <1>5, <2>1, <2>2
  <2>5. UNCHANGED Window
    BY <1>5 DEF Window
  <2> QED
    BY <1>5, <2>1, <2>2, <2>3, <2>4, <2>5 DEF Stream!Number, Return, Stream!Answer
<1> QED
  BY <1>2, <1>4, <1>5 DEF Decode

LEMMA CmpIsCompare ==
    ASSUME Inv, NEW n \in Nat, NEW c \in Chunk(n), Cmp(n, c)
    PROVE  Stream!Compare(n, c)
<1>1. begin \in Nat /\ offset \in Nat /\ end \in Nat /\ begin <= offset /\ offset <= end
  BY WindowFacts
<1>2. CASE Fail("OOB") /\ ~Available(n)
  BY <1>1, <1>2, FailIsRefuse DEF Stream!Compare, Available
<1>3. Available(n) => Bytes(offset, n) = Stream!Slice(offset, n) /\ offset + n <= end
  BY <1>1, BytesAreSlice DEF Available
<1>4. CASE Available(n) /\ Bytes(offset, n) # c /\ Fail("CMP")
  BY <1>3, <1>4, FailIsRefuse DEF Stream!Compare
<1>5. CASE /\ Available(n) /\ Bytes(offset, n) = c /\ offset' = offset + n
           /\ Return("OK", Nothing) /\ UNCHANGED <<begin, end, mem>>
  <2>1. UNCHANGED Window
    BY <1>5 DEF Window
  <2> QED
    BY <1>3, <1>5, <2>1
    DEF Stream!Compare, Return, Stream!Answer, Nothing, Stream!Nothing
<1> QED
  BY <1>2, <1>4, <1>5 DEF Cmp

LEMMA ScanIsFind ==
    ASSUME Inv, NEW n \in Nat, NEW c \in Chunk(n), Scan(n, c)
    PROVE  Stream!Find(n, c)
<1> DEFINE hits == {p \in offset .. end - n : Bytes(p, n) = c}
           found == {p \in offset .. end - n : Stream!Slice(p, n) = c}
<1>1. begin \in Nat /\ offset \in Nat /\ end \in Nat /\ begin <= offset /\ offset <= end
  BY WindowFacts
<1>2. ASSUME NEW p \in offset .. end - n
      PROVE  Bytes(p, n) = Stream!Slice(p, n)
  <2>1. p \in begin .. end /\ p + n <= end
    BY <1>1
  <2> QED
    BY <2>1, BytesAreSlice
<1>3. hits = found
  BY <1>2
<1>4. /\ \/ \E p \in hits : /\ \A q \in hits : p <= q
                            /\ offset' = p + n
                            /\ Return("OK", Nothing)
         \/ /\ hits = {}
            /\ offset' = IF Available(n) THEN end - n + 1 ELSE offset
            /\ Return("OOB", Nothing)
      /\ UNCHANGED <<begin, end, mem>>
  BY DEF Scan
<1>5. (IF Available(n) THEN end - n + 1 ELSE offset)
        = (IF offset + n > end THEN offset ELSE end - n + 1)
  BY <1>1 DEF Available
<1>6. UNCHANGED Window
  BY <1>4 DEF Window
<1>7. \A code : Return(code, Nothing) => Stream!Answer(code, Stream!Nothing)
  BY DEF Return, Stream!Answer, Nothing, Stream!Nothing
<1> HIDE DEF hits
<1>8. /\ \/ \E p \in found : /\ \A q \in found : p <= q
                             /\ offset' = p + n
                             /\ Stream!Answer("OK", Stream!Nothing)
         \/ /\ found = {}
            /\ offset' = IF offset + n > end THEN offset ELSE end - n + 1
            /\ Stream!Answer("OOB", Stream!Nothing)
      /\ UNCHANGED <<begin, end, Window>>
  BY <1>3, <1>4, <1>5, <1>6, <1>7
<1> QED
  BY <1>8 DEF Stream!Find

LEMMA MatchIsMatchOne ==
    ASSUME Inv, NEW P, Match(P)
    PROVE  Stream!MatchOne(P)
<1>1. /\ begin \in Nat /\ offset \in Nat /\ end \in Nat /\ begin <= offset /\ offset <= end
      /\ \A i \in begin .. end - 1 : Window[i] = mem[i - begin]
  BY WindowFacts
<1>2. Available(1) => offset < end /\ Window[offset] = mem[offset - begin]
  BY <1>1 DEF Available
<1>3. ~Available(1) => offset = end
  BY <1>1 DEF Available
<1>4. CASE ~Available(1) /\ Fail("OOB")
  BY <1>3, <1>4, FailIsRefuse DEF Stream!MatchOne
<1>5. CASE Available(1) /\ mem[offset - begin] \notin P /\ Fail("CMP")
  BY <1>2, <1>5, FailIsRefuse DEF Stream!MatchOne
<1>6. CASE /\ Available(1) /\ mem[offset - begin] \in P /\ offset' = offset + 1
           /\ Return("OK", Nothing) /\ UNCHANGED <<begin, end, mem>>
  <2>1. UNCHANGED Window
    BY <1>6 DEF Window
  <2> QED
    BY <1>2, <1>6, <2>1
    DEF Stream!MatchOne, Return, Stream!Answer, Nothing, Stream!Nothing
<1> QED
  BY <1>4, <1>5, <1>6 DEF Match

\* Every step of the buffer is the step of the stream that was asked for.
LEMMA StepIsStreamStep ==
    ASSUME Inv, [Next]_vars
    PROVE  [Stream!StreamNext]_Stream!streamVars
<1>1. \A call, arg : Asked(call, arg) => Stream!Asked(call, arg)
  BY DEF Asked, Stream!Asked
<1>2. CASE \E p \in 0 .. MaxEnd + 1 : Asked("move", p) /\ Seek(p)
  <2>1. PICK p \in 0 .. MaxEnd + 1 : Asked("move", p) /\ Seek(p)
    BY <1>2
  <2>2. p \in Nat
    BY <2>1
  <2>3. Stream!Asked("move", p) /\ Stream!Move(p)
    BY <1>1, <2>1, <2>2, SeekIsMove
  <2> QED
    BY <2>3 DEF Stream!StreamNext
<1>3. ASSUME NEW n \in 0 .. MaxChunk,
             \/ Asked("consume", n) /\ Get(n)
             \/ Asked("fill", n) /\ (CbRead(n) \/ FRead(n))
             \/ Asked("send", n) /\ (CbWrite(n) \/ FWrite(n))
             \/ Asked("number", n) /\ Decode(n)
      PROVE  Stream!StreamNext
  <2>1. n \in Nat
    BY <1>3
  <2>2. \/ Stream!Asked("consume", n) /\ Stream!Consume(n)
        \/ Stream!Asked("fill", n) /\ Stream!Fill(n)
        \/ Stream!Asked("send", n) /\ Stream!Send(n)
        \/ Stream!Asked("number", n) /\ Stream!Number(n)
    BY <1>1, <1>3, <2>1, GetIsConsume, ReadIsFill, WriteIsSend, DecodeIsNumber
  <2> QED
    BY <2>2 DEF Stream!StreamNext
<1>4. ASSUME NEW n \in 0 .. MaxChunk, NEW c \in Chunk(n),
             \/ Asked("append", n) /\ Put(n, c)
             \/ Asked("compare", c) /\ Cmp(n, c)
             \/ Asked("find", c) /\ Scan(n, c)
      PROVE  Stream!StreamNext
  <2>1. n \in Nat /\ c \in Stream!Chunk(n)
    BY <1>4 DEF Chunk, Stream!Chunk
  <2>2. \/ Stream!Asked("append", n) /\ Stream!Append(n)
        \/ Stream!Asked("compare", c) /\ Stream!Compare(n, c)
        \/ Stream!Asked("find", c) /\ Stream!Find(n, c)
    BY <1>1, <1>4, <2>1, PutIsAppend, CmpIsCompare, ScanIsFind
  <2> QED
    BY <2>1, <2>2 DEF Stream!StreamNext
<1>5. CASE Asked("consume", 1) /\ GetChar
  <2>1. 1 \in 0 .. MaxChunk /\ Get(1)
    BY <1>5 DEF GetChar
  <2> QED
    BY <1>3, <1>5, <2>1
<1>6. CASE \E P \in SUBSET Byte : Asked("match", P) /\ Match(P)
  BY <1>1, <1>6, MatchIsMatchOne DEF Stream!StreamNext
<1>7. CASE UNCHANGED vars
  <2>1. UNCHANGED <<begin, offset, end, Window, asked, reply>>
    BY <1>7 DEF vars, Window
  <2> QED
    BY <2>1 DEF Stream!streamVars
<1> QED
  BY <1>2, <1>3, <1>4, <1>5, <1>6, <1>7 DEF Next

LEMMA InitIsStreamInit == Init => Stream!StreamInit
<1> SUFFICES ASSUME Init PROVE Stream!StreamInit
  OBVIOUS
<1>1. begin = 0 /\ offset = 0 /\ end \in 0 .. Max /\ asked = <<"init", end>>
      /\ reply = [code |-> "OK", data |-> Stream!Nothing]
  BY DEF Init, Nothing, Stream!Nothing
<1>2. PICK c \in Chunk(end) :
         mem = [k \in 0 .. Max - 1 |-> IF k < end THEN c[k] ELSE Junk]
  BY DEF Init
<1>3. ASSUME NEW i \in 0 .. end - 1
      PROVE  mem[i - begin] \in Byte
  <2>1. i - begin = i /\ i \in 0 .. Max - 1 /\ i < end
    BY <1>1
  <2> QED
    BY <1>2, <2>1 DEF Chunk
<1>4. Window \in Stream!Chunk(end)
  BY <1>1, <1>3 DEF Window, Stream!Chunk
<1> QED
  BY <1>1, <1>4 DEF Stream!StreamInit

-----------------------------------------------------------------------------
\* Printing and encoding as calls of the stream.

\* A call that leaves the n bytes of d behind the window.
LEMMA Extending ==
    ASSUME Inv, TypeOK', Survival, offset' = offset,
           NEW n \in Nat, end' = end + n, NEW d \in Chunk(n),
           \A k \in 0 .. n - 1 : mem'[end - begin' + k] = d[k]
    PROVE  Inv' /\ Stream!Extend(begin', n, d)
<1>1. /\ begin \in Nat /\ offset \in Nat /\ end \in Nat /\ begin <= offset /\ offset <= end
      /\ \A i \in begin .. end - 1 : Window[i] = mem[i - begin] /\ mem[i - begin] \in Byte
  <2>1. \A i \in begin .. end - 1 : i - begin \in 0 .. end - begin - 1
    BY WindowFacts
  <2> QED
    BY <2>1, WindowFacts DEF Inv, WindowWritten
<1>2. PICK b \in Nat :
        /\ begin' = b /\ begin <= b /\ b <= offset
        /\ \A i \in b .. end - 1 : mem'[i - b] = mem[i - begin]
  BY DEF Survival, TypeOK
<1>3. (\A k \in 0 .. n - 1 : d[k] \in Byte) /\ \A k \in 0 .. n - 1 : mem'[end - b + k] = d[k]
  BY <1>2 DEF Chunk
<1>4. ASSUME NEW i \in b .. end + n - 1
      PROVE  /\ mem'[i - b] = IF i < end THEN Window[i] ELSE d[i - end]
             /\ mem'[i - b] \in Byte
  <2>1. CASE i < end
    <3>1. i \in b .. end - 1 /\ i \in begin .. end - 1
      BY <1>1, <1>2, <1>4, <2>1
    <3> QED
      BY <1>1, <1>2, <2>1, <3>1
  <2>2. CASE ~(i < end)
    <3>1. i - end \in 0 .. n - 1 /\ end - b + (i - end) = i - b
      BY <1>1, <1>2, <1>4, <2>2
    <3> QED
      BY <1>3, <2>2, <3>1
  <2> QED
    BY <2>1, <2>2
<1>5. Window' = [i \in b .. end + n - 1 |-> IF i < end THEN Window[i] ELSE d[i - end]]
  <2>1. begin' .. end' - 1 = b .. end + n - 1
    BY <1>1, <1>2
  <2>2. Window' = [i \in begin' .. end' - 1 |-> mem'[i - begin']]
    BY DEF Window
  <2>3. Window' = [i \in b .. end + n - 1 |-> mem'[i - b]]
    BY <1>2, <2>1, <2>2
  <2> QED
    BY <1>1, <1>4, <2>3
<1>6. ASSUME NEW k \in 0 .. end + n - b - 1
      PROVE  mem'[k] \in Byte
  <2>1. b + k \in b .. end + n - 1 /\ (b + k) - b = k
    BY <1>1, <1>2
  <2> QED
    BY <1>4, <2>1
<1>7. WindowWritten'
  <2>1. 0 .. end' - begin' - 1 = 0 .. end + n - b - 1
    BY <1>1, <1>2
  <2> QED
    BY <1>6, <2>1 DEF WindowWritten
<1>8. Stream!Extend(b, n, d)
  BY <1>2, <1>5 DEF Stream!Extend
<1> QED
  BY <1>2, <1>7, <1>8 DEF Inv

\* A call that appends nothing.
LEMMA ExtendingByNothing ==
    ASSUME Inv, TypeOK', Survival, offset' = offset, end' = end
    PROVE  Inv' /\ Stream!Extend(begin', 0, Stream!Nothing)
<1>1. end' = end + 0 /\ Nothing \in Chunk(0) /\ Nothing = Stream!Nothing
  BY WindowFacts DEF Nothing, Stream!Nothing, Chunk
<1> QED
  BY <1>1, Extending

LEMMA VPrintfIsPrint ==
    ASSUME Inv, NEW n \in Nat, NEW c \in Text(n), VPrintf(n, c)
    PROVE  Inv' /\ Stream!Printf(n, c)
<1> DEFINE unread == end - offset
           room == Max - unread
           kept == Smaller(n, room - 1)
           nul == [k \in 0 .. 0 |-> Nul]
<1>1. /\ begin \in Nat /\ offset \in Nat /\ end \in Nat
      /\ begin <= offset /\ offset <= end /\ end - begin <= Max
  BY DEF Inv, TypeOK
<1>2. unread \in Nat /\ room \in Nat /\ unread + room = Max
  BY <1>1
<1>3. TypeOK' /\ Survival
  BY VPrintfStep DEF Inv
<1>4. begin' = offset /\ offset' = offset
  BY DEF VPrintf
<1>5. Stream!Room(n) <=> n <= room
  BY <1>1 DEF Stream!Room
<1>6. CASE n > room /\ end' = end /\ Return("OOB", Nothing)
  <2>1. Stream!Answer("OOB", Stream!Nothing) /\ ~Stream!Room(n)
    BY <1>2, <1>5, <1>6 DEF Return, Stream!Answer, Nothing, Stream!Nothing
  <2> QED
    BY <1>3, <1>4, <1>6, <2>1, ExtendingByNothing DEF Stream!Printf
<1>7. CASE end' = end /\ Return("SYS", Nothing)
  <2>1. Stream!Answer("SYS", Stream!Nothing)
    BY <1>7 DEF Return, Stream!Answer, Nothing, Stream!Nothing
  <2> QED
    BY <1>3, <1>4, <1>7, <2>1, ExtendingByNothing DEF Stream!Printf
<1>8. CASE /\ n <= room /\ end' = end + n /\ Return("OK", Nothing)
           /\ mem' = IF room = 0 THEN Backcopy
                     ELSE Store(Store(Backcopy, unread, kept, c), unread + kept, 1, nul)
  <2> DEFINE d == [k \in 0 .. n - 1 |-> mem'[unread + k]]
  <2>1. ASSUME NEW k \in 0 .. n - 1
        PROVE  d[k] = c[k] \/ (k = n - 1 /\ n = room /\ d[k] = Nul)
    <3>1. /\ room # 0 /\ kept = IF n <= room - 1 THEN n ELSE room - 1
          /\ unread + k \in 0 .. Max - 1 /\ k \in Nat /\ k < n
      BY <1>2, <1>8 DEF Smaller
    <3>2. d[k] = Store(Store(Backcopy, unread, kept, c), unread + kept, 1, nul)[unread + k]
      BY <1>8, <3>1
    <3> HIDE DEF unread, room, kept, d
    <3>3. CASE k < kept
      <4>1. /\ ~(unread + kept <= unread + k)
            /\ unread <= unread + k /\ unread + k < unread + kept
            /\ (unread + k) - unread = k
        BY <1>2, <3>1, <3>3
      <4> QED
        BY <3>1, <3>2, <4>1 DEF Store
    <3>4. CASE ~(k < kept)
      <4>1. /\ k = n - 1 /\ n = room /\ k = kept
            /\ unread + kept <= unread + k /\ unread + k < (unread + kept) + 1
            /\ (unread + k) - (unread + kept) = 0
        BY <1>2, <1>8, <3>1, <3>4
      <4>2. d[k] = nul[0]
        BY <3>1, <3>2, <4>1 DEF Store
      <4> QED
        BY <4>1, <4>2
    <3> QED
      BY <3>3, <3>4
  <2>2. d \in Chunk(n)
    <3>1. \A k \in 0 .. n - 1 : c[k] \in Byte
      BY DEF Text
    <3>2. \A k \in 0 .. n - 1 : d[k] \in Byte
      BY <2>1, <3>1, TextAssumption
    <3> QED
      BY <3>2 DEF Chunk
  <2>3. \A k \in 0 .. n - 1 : mem'[end - begin' + k] = d[k]
    BY <1>4
  <2> HIDE DEF d
  <2>4. Inv' /\ Stream!Extend(begin', n, d)
    BY <1>3, <1>4, <1>8, <2>2, <2>3, Extending
  <2>5. \A k \in 0 .. n - 1 : d[k] = c[k] \/ (k = n - 1 /\ end + n - offset = Max)
    BY <1>1, <2>1
  <2>6. Stream!Answer("OK", Stream!Nothing) /\ Stream!Room(n) /\ d \in Stream!Chunk(n)
    BY <1>5, <1>8, <2>2 DEF Return, Stream!Answer, Nothing, Stream!Nothing, Chunk, Stream!Chunk
  <2> QED
    BY <1>4, <2>4, <2>5, <2>6 DEF Stream!Printf
<1> QED
  BY <1>6, <1>7, <1>8 DEF VPrintf

LEMMA EncodeIsEncode ==
    ASSUME Inv, NEW n \in Nat, NEW c \in [0 .. n - 1 -> Digit], Encode(n, c)
    PROVE  Inv' /\ Stream!Encode(n, c)
<1> DEFINE at == end - begin
           room == Max - (end - offset)
<1>1. /\ begin \in Nat /\ offset \in Nat /\ end \in Nat
      /\ begin <= offset /\ offset <= end /\ end - begin <= Max
  BY DEF Inv, TypeOK
<1>2. at \in Nat /\ room \in Nat
  BY <1>1
<1>3. TypeOK' /\ Survival
  BY EncodeStep DEF Inv
<1>4. offset' = offset
  BY DEF Encode
<1>5. \A k \in Nat : (Stream!Room(k) <=> k <= room) /\ Stream!Keep(k) = EnsuredBegin(k)
  BY <1>1 DEF Stream!Room, Stream!Keep, EnsuredBegin, Compacts
<1>6. CASE room < n /\ begin' = EnsuredBegin(room) /\ end' = end /\ Return("OOB", Nothing)
  <2>1. begin' = offset
    BY <1>1, <1>6 DEF EnsuredBegin, Compacts
  <2>2. Stream!Answer("OOB", Stream!Nothing) /\ ~Stream!Room(n)
    BY <1>2, <1>5, <1>6 DEF Return, Stream!Answer, Nothing, Stream!Nothing
  <2> QED
    BY <1>3, <1>4, <1>6, <2>1, <2>2, ExtendingByNothing DEF Stream!Encode
<1>7. CASE \E k \in 1 .. Smaller(n, room) :
              begin' = EnsuredBegin(k) /\ end' = end /\ Return("ENC", Nothing)
  <2>1. PICK k \in 1 .. Smaller(n, room) :
              begin' = EnsuredBegin(k) /\ end' = end /\ Return("ENC", Nothing)
    BY <1>7
  <2>2. k \in Nat /\ k \in 1 .. n /\ k <= room
    BY <1>2 DEF Smaller
  <2>3. Stream!Answer("ENC", Stream!Nothing)
    BY <2>1 DEF Return, Stream!Answer, Nothing, Stream!Nothing
  <2>4. Inv' /\ Stream!Arrive(k, 0, Stream!Nothing) /\ Stream!Room(k)
    BY <1>3, <1>4, <1>5, <2>1, <2>2, ExtendingByNothing DEF Stream!Arrive
  <2> QED
    BY <1>4, <2>2, <2>3, <2>4 DEF Stream!Encode
<1>8. CASE /\ n <= room /\ begin' = EnsuredBegin(n) /\ end' = end + n /\ Return("OK", Nothing)
           /\ mem' = Store(EnsuredMem(n), at, n, Reversed(n, c))
  <2> DEFINE d == [k \in 0 .. n - 1 |-> mem'[end - begin' + k]]
  <2>1. \A k \in 0 .. n - 1 : Reversed(n, c)[k] = c[n - 1 - k] /\ c[n - 1 - k] \in Byte
    BY DEF Reversed
  <2>2. ASSUME begin' = begin
        PROVE  \A k \in 0 .. n - 1 : d[k] = c[n - 1 - k]
    <3>1. EnsuredBegin(n) = begin
      BY <1>8, <2>2
    <3>2. ASSUME NEW k \in 0 .. n - 1
          PROVE  d[k] = c[n - 1 - k]
      <4>1. at + k \in 0 .. Max - 1 /\ at <= at + k /\ at + k < at + n /\ (at + k) - at = k
        <5>1. end + n - begin <= Max
          BY <1>1, <1>8, <3>1 DEF EnsuredBegin, Compacts
        <5> QED
          BY <1>1, <5>1
      <4>2. mem'[at + k] = Reversed(n, c)[k]
        BY <1>8, <4>1 DEF Store
      <4> QED
        BY <2>1, <2>2, <4>2
    <3> QED
      BY <3>2
  <2>3. ASSUME begin' # begin
        PROVE  \A k \in 0 .. n - 1 : d[k] \in Byte
    <3>1. begin' = offset /\ EnsuredMem(n) = Backcopy
      BY <1>8, <2>3 DEF EnsuredBegin, EnsuredMem
    <3>2. ASSUME NEW k \in 0 .. n - 1
          PROVE  d[k] \in Byte
      <4> DEFINE p == end - offset + k
      <4>1. p \in 0 .. Max - 1 /\ d[k] = mem'[p] /\ p <= at + k /\ ~(p < end - offset)
        BY <1>1, <1>8, <3>1
      <4>2. CASE p < at
        <5>1. mem'[p] = Backcopy[p]
          <6>1. ~(at <= p)
            BY <1>1, <4>2
          <6> QED
            BY <1>8, <3>1, <4>1, <6>1 DEF Store
        <5>2. Backcopy[p] = mem[p]
          BY <4>1 DEF Backcopy
        <5>3. mem[p] \in Byte
          BY <1>1, <4>1, <4>2 DEF Inv, WindowWritten
        <5> QED
          BY <4>1, <5>1, <5>2, <5>3
      <4>3. CASE ~(p < at)
        <5>1. p - at \in 0 .. n - 1 /\ at <= p /\ p < at + n
          BY <1>1, <1>2, <4>1, <4>3
        <5> HIDE DEF p, at, d
        <5>2. mem'[p] = Reversed(n, c)[p - at]
          BY <1>8, <4>1, <5>1 DEF Store
        <5> QED
          BY <2>1, <4>1, <5>1, <5>2
      <4> QED
        BY <4>2, <4>3
    <3> QED
      BY <3>2
  <2>4. d \in Chunk(n) /\ (begin' = begin => \A k \in 0 .. n - 1 : d[k] = c[n - 1 - k])
    <3>1. \A k \in 0 .. n - 1 : d[k] \in Byte
      BY <2>1, <2>2, <2>3
    <3> QED
      BY <2>2, <3>1 DEF Chunk
  <2>5. \A k \in 0 .. n - 1 : mem'[end - begin' + k] = d[k]
    OBVIOUS
  <2> HIDE DEF d
  <2>6. Inv' /\ Stream!Extend(begin', n, d)
    BY <1>3, <1>4, <1>8, <2>4, <2>5, Extending
  <2>7. Stream!Room(n) /\ Stream!Keep(n) = begin' /\ d \in Stream!Chunk(n)
        /\ Stream!Answer("OK", Stream!Nothing)
    BY <1>5, <1>8, <2>4 DEF Return, Stream!Answer, Nothing, Stream!Nothing, Chunk, Stream!Chunk
  <2>8. Stream!Arrive(n, n, d)
    BY <2>6, <2>7 DEF Stream!Arrive
  <2> QED
    BY <1>4, <2>4, <2>6, <2>7, <2>8 DEF Stream!Encode
<1> QED
  BY <1>6, <1>7, <1>8 DEF Encode

\* Every call on the source keeps the invariant and the unread bytes, and is the
\* call of the stream that was asked for.
LEMMA TextStep ==
    ASSUME Inv, [TextNext]_textVars
    PROVE  Inv' /\ Survival /\ [Stream!StreamNext]_Stream!streamVars
<1>1. CASE Next \/ UNCHANGED vars
  <2>1. [Next]_vars
    BY <1>1
  <2> QED
    BY <2>1, Step, StepIsStreamStep DEF Keeps, Inv
<1>2. ASSUME NEW n \in 0 .. MaxChunk, NEW c \in Text(n), Asked("print", c), VPrintf(n, c)
      PROVE  Inv' /\ Survival /\ Stream!StreamNext
  <2>1. n \in Nat /\ c \in Stream!Chunk(n) /\ Stream!Asked("print", c)
    BY <1>2 DEF Text, Stream!Chunk, Asked, Stream!Asked
  <2>2. Survival /\ Inv' /\ Stream!Printf(n, c)
    BY <1>2, <2>1, VPrintfStep, VPrintfIsPrint DEF Inv
  <2> QED
    BY <2>1, <2>2 DEF Stream!StreamNext
<1>3. ASSUME NEW n \in 0 .. MaxChunk, NEW c \in [0 .. n - 1 -> Digit],
             Asked("encode", c), Encode(n, c)
      PROVE  Inv' /\ Survival /\ Stream!StreamNext
  <2>1. n \in Nat /\ c \in Stream!Chunk(n) /\ Stream!Asked("encode", c)
    BY <1>3 DEF Stream!Chunk, Asked, Stream!Asked
  <2>2. Survival /\ Inv' /\ Stream!Encode(n, c)
    BY <1>3, <2>1, EncodeStep, EncodeIsEncode DEF Inv
  <2> QED
    BY <2>1, <2>2 DEF Stream!StreamNext
<1> QED
  BY <1>1, <1>2, <1>3 DEF TextNext, textVars, vars
-----------------------------------------------------------------------------
\* The lens: its bytes are bytes of the window of the source, and no call stores
\* to the window or moves it without compacting.
LensInv ==
    /\ Inv
    /\ \A i \in DOMAIN lens : \A k \in DOMAIN lens[i].bytes :
          /\ lens[i].at + k \in 0 .. end - begin - 1
          /\ mem[lens[i].at + k] = lens[i].bytes[k]

LEMMA LensStep ==
    ASSUME LensInv, [LensNext]_lensVars
    PROVE  LensInv' /\ Survival /\ [Stream!StreamNext]_Stream!streamVars
<1>1. /\ begin \in Nat /\ offset \in Nat /\ end \in Nat /\ Max \in Nat
      /\ begin <= offset /\ offset <= end /\ end - begin <= Max
  BY DEF LensInv, Inv, TypeOK
<1>2. CASE OnSource
  <2>1. Inv' /\ Survival /\ [Stream!StreamNext]_Stream!streamVars
    BY <1>2, TextStep DEF OnSource, LensInv
  <2>2. CASE begin' # begin
    BY <1>2, <2>1, <2>2 DEF OnSource, LensInv
  <2>3. CASE begin' = begin
    <3>1. lens' = lens
      BY <1>2, <2>3 DEF OnSource
    <3>2. end' \in Nat /\ end <= end'
      BY <2>1 DEF Inv, TypeOK, Survival
    <3>3. ASSUME NEW i \in DOMAIN lens, NEW k \in DOMAIN lens[i].bytes
          PROVE  /\ lens[i].at + k \in 0 .. end' - begin' - 1
                 /\ mem'[lens[i].at + k] = lens[i].bytes[k]
      <4>1. /\ lens[i].at + k \in 0 .. end - begin - 1
            /\ mem[lens[i].at + k] = lens[i].bytes[k]
        BY DEF LensInv
      <4>2. PICK j \in begin .. end - 1 : j - begin = lens[i].at + k
        <5>1. PICK p \in 0 .. end - begin - 1 : p = lens[i].at + k
          BY <4>1
        <5>2. begin + p \in begin .. end - 1 /\ (begin + p) - begin = p
          BY <1>1
        <5> QED
          BY <5>1, <5>2
      <4>3. mem'[j - begin] = mem[j - begin]
        BY <2>1, <2>3 DEF Survival
      <4>4. lens[i].at + k \in 0 .. end' - begin' - 1
        BY <1>1, <2>3, <3>2, <4>1
      <4> QED
        BY <4>1, <4>2, <4>3, <4>4
    <3> QED
      BY <2>1, <3>1, <3>3 DEF LensInv
  <2> QED
    BY <2>2, <2>3
<1>3. CASE \E n \in 1 .. MaxChunk : Asked("lens", n) /\ Lens(n)
  <2>1. PICK n \in 1 .. MaxChunk : Asked("lens", n) /\ Lens(n)
    BY <1>3
  <2>2. /\ n \in Nat /\ n <= end - offset
        /\ lens' = <<[at |-> offset - begin, bytes |-> Bytes(offset, n)]>>
        /\ UNCHANGED <<begin, offset, end, mem>> /\ reply'.code \in Codes
    BY <2>1 DEF Lens, Return, Codes
  <2>3. Inv' /\ Survival
    BY <2>2 DEF LensInv, Inv, TypeOK, WindowWritten, Survival
  <2>4. ASSUME NEW k \in 0 .. n - 1
        PROVE  /\ offset - begin + k \in 0 .. end - begin - 1
               /\ mem[offset - begin + k] = Bytes(offset, n)[k]
    BY <1>1, <2>2 DEF Bytes
  <2>5. DOMAIN Bytes(offset, n) = 0 .. n - 1
    BY DEF Bytes
  <2>6. DOMAIN lens' = {1} /\ lens'[1].at = offset - begin /\ lens'[1].bytes = Bytes(offset, n)
    BY <2>2
  <2>7. \A i \in DOMAIN lens' : \A k \in DOMAIN lens'[i].bytes :
          /\ lens'[i].at + k \in 0 .. end' - begin' - 1
          /\ mem'[lens'[i].at + k] = lens'[i].bytes[k]
    BY <2>2, <2>4, <2>5, <2>6
  <2>8. Stream!Asked("lens", n) /\ Stream!Lend(n)
    <3>1. offset + n <= end /\ UNCHANGED Window /\ Stream!Answer("OK", Stream!Nothing)
      BY <1>1, <2>1, <2>2
      DEF Lens, Window, Return, Stream!Answer, Nothing, Stream!Nothing
    <3> QED
      BY <2>1, <2>2, <3>1 DEF Stream!Lend, Asked, Stream!Asked
  <2>9. n \in 0 .. MaxChunk
    BY <2>1
  <2> QED
    BY <2>3, <2>7, <2>8, <2>9 DEF LensInv, Stream!StreamNext
<1>4. CASE UNCHANGED lensVars
  <2>1. Inv' /\ Survival /\ [Stream!StreamNext]_Stream!streamVars
    BY <1>4, TextStep DEF lensVars, textVars, LensInv
  <2> QED
    BY <1>4, <2>1 DEF lensVars, LensInv
<1> QED
  BY <1>2, <1>3, <1>4 DEF LensNext

LEMMA LensInvariance == LensSpec => []LensInv
<1>1. LensInit => LensInv
  BY Initially DEF LensInit, TextInit, Inv, LensInv
<1> QED
  BY <1>1, LensStep, PTL DEF LensSpec

\* The fields keep the geometry that buffer.h:10-14 defines, and their types, under
\* every call.
THEOREM TypeCorrect == LensSpec => []TypeOK
BY LensInvariance, PTL DEF LensInv, Inv

\* A byte that can be read is a byte that was stored: also where encode compacted
\* the window under the digits it was storing.
THEOREM OnlyWrittenBytes == LensSpec => []WindowWritten
BY LensInvariance, PTL DEF LensInv, Inv

\* Whatever calls are mixed, printing and encoding included, none changes a byte
\* that stays readable or gives up one not yet read: neither the compaction inside
\* encode nor the NUL of vprintf reaches back into the window.
THEOREM NothingUnreadIsLost == LensSpec => BytesSurvive
<1>1. LensInv /\ [LensNext]_lensVars => [Survival]_vars
  BY LensStep
<1> QED
  BY <1>1, LensInvariance, PTL DEF LensSpec, BytesSurvive, Survival

\* A lens shows the bytes it was taken for until its source is compacted, whatever
\* is read, appended, printed or encoded at the source meanwhile.
THEOREM LensIsFaithful == LensSpec => []LensShowsSource
<1>1. LensInv => LensShowsSource
  BY DEF LensInv, LensShowsSource
<1> QED
  BY <1>1, LensInvariance, PTL

\* The buffer implements the stream that has no storage: wherever the bytes lie
\* and whenever they are moved, no caller can tell.
THEOREM BufferIsStream == LensSpec => ImplementsStream
<1>1. LensInit => Stream!StreamInit
  BY InitIsStreamInit DEF LensInit, TextInit
<1>2. LensInv /\ [LensNext]_lensVars => [Stream!StreamNext]_Stream!streamVars
  BY LensStep
<1> QED
  BY <1>1, <1>2, LensInvariance, PTL DEF LensSpec, ImplementsStream, Stream!StreamSpec
=============================================================================
