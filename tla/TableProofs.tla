---------------------------- MODULE TableProofs ----------------------------
(***************************************************************************)
(* The hash table keeps every node where it is looked for, and is a        *)
(* multimap, for every hash, number of nodes and capacity.                 *)
(*                                                                         *)
(* A chain is described by the function that has its nodes by position,    *)
(* Null from its end on: linking, unlinking and moving a node shift such   *)
(* functions.                                                              *)
(***************************************************************************)
EXTENDS Table, FiniteSetTheorems, WellFoundedInduction, TLAPS

\* Induction over the natural numbers, for sets.
LEMMA Least ==
    ASSUME NEW T, T \subseteq Nat, T # {}
    PROVE  \E x \in T : \A y \in T : x <= y
<1> DEFINE R == OpToRel(<, Nat)
<1>1. IsWellFoundedOn(R, Nat)
  BY NatLessThanWellFounded
<1> HIDE DEF R
<1>2. PICK x \in T : \A y \in T : ~(<<y, x>> \in R)
  BY <1>1, WFMin
<1>3. \A y \in T : x \in Nat /\ y \in Nat /\ ~(y < x)
  BY <1>2 DEF R, OpToRel
<1> QED
  BY <1>3

LEMMA Induct ==
    ASSUME NEW S, 0 \in S, \A n \in Nat : n \in S => n + 1 \in S
    PROVE  Nat \subseteq S
<1> SUFFICES ASSUME Nat \ S # {} PROVE FALSE
  OBVIOUS
<1>1. PICK x \in Nat \ S : \A y \in Nat \ S : x <= y
  BY Least
<1>2. x # 0 /\ x - 1 \in Nat
  BY <1>1
<1>3. x - 1 \in S
  BY <1>1, <1>2
<1> QED
  BY <1>2, <1>3

LEMMA MinOf ==
    ASSUME NEW T, T \subseteq Nat, T # {}
    PROVE  Min(T) \in T /\ \A y \in T : Min(T) <= y
BY Least DEF Min
-----------------------------------------------------------------------------
\* Function f has a chain of heap h by position.
Chained(h, f) ==
    /\ f \in [Nat -> Address \cup {Null}]
    /\ \A n \in Nat : f[n + 1] = IF f[n] = Null THEN Null ELSE h[f[n]].next
    /\ \A m, n \in Nat : f[m] = f[n] /\ f[m] # Null => m = n
Nodes(f) == {f[n] : n \in Nat} \ {Null}

\* A chain has no gaps, and fewer nodes than there are addresses.
LEMMA Ends ==
    ASSUME NEW h, NEW f, Chained(h, f), NEW n \in Nat, f[n] # Null
    PROVE  /\ \A m \in 0 .. n : f[m] # Null
           /\ n < Cardinality(Address)
<1>1. \A m \in 0 .. n : f[m] # Null
  <2> DEFINE S == {k \in Nat : k <= n => f[n - k] # Null}
  <2>1. 0 \in S
    OBVIOUS
  <2>2. ASSUME NEW k \in Nat, k \in S PROVE k + 1 \in S
    <3> SUFFICES ASSUME k + 1 <= n PROVE f[n - (k + 1)] # Null
      OBVIOUS
    <3> DEFINE i == n - (k + 1)
    <3>1. i \in Nat /\ i + 1 = n - k
      OBVIOUS
    <3>2. f[i + 1] # Null
      BY <3>1, <2>2
    <3> QED
      BY <3>1, <3>2 DEF Chained
  <2> HIDE DEF S
  <2>3. Nat \subseteq S
    BY <2>1, <2>2, Induct
  <2>4. ASSUME NEW m \in 0 .. n PROVE f[m] # Null
    <3>1. n - m \in S /\ n - m \in Nat /\ n - (n - m) = m
      BY <2>3
    <3> QED
      BY <3>1 DEF S
  <2> QED
    BY <2>4
<1>2. n < Cardinality(Address)
  <2> DEFINE g == [m \in 0 .. n |-> f[m]]
  <2>1. g \in Injection(0 .. n, Address)
    <3>1. g \in [0 .. n -> Address]
      BY <1>1 DEF Chained
    <3>2. \A x, y \in 0 .. n : g[x] = g[y] => x = y
      BY <1>1 DEF Chained
    <3> QED
      BY <3>1, <3>2 DEF Injection, IsInjective
  <2>2. Cardinality(0 .. n) <= Cardinality(Address)
    <3> HIDE DEF g
    <3> QED
      BY <2>1, FS_Injection, TableAssumption
  <2>3. Cardinality(0 .. n) = n + 1
    BY FS_Interval
  <2>4. Cardinality(Address) \in Nat
    BY FS_CardinalityType, TableAssumption
  <2> QED
    BY <2>2, <2>3, <2>4
<1> QED
  BY <1>1, <1>2

\* What the loops of the code walk is the chain.
LEMMA WalkIs ==
    ASSUME NEW f, Chained(heap, f)
    PROVE  Walk(f[0]) = [n \in 0 .. Cardinality(Address) |-> f[n]]
<1> DEFINE N == 0 .. Cardinality(Address)
           Solves(g) == g = [n \in N |-> IF n = 0 THEN f[0]
                               ELSE IF g[n - 1] = Null THEN Null ELSE heap[g[n - 1]].next]
           F == [n \in N |-> f[n]]
<1>1. Cardinality(Address) \in Nat
  BY FS_CardinalityType, TableAssumption
<1>2. Solves(F)
  <2>1. ASSUME NEW n \in N, n # 0
        PROVE  f[n] = IF F[n - 1] = Null THEN Null ELSE heap[F[n - 1]].next
    <3>1. n - 1 \in Nat /\ n - 1 \in N /\ (n - 1) + 1 = n
      BY <2>1, <1>1
    <3> QED
      BY <3>1 DEF Chained
  <2> QED
    BY <2>1, Zenon
<1>3. ASSUME NEW g, Solves(g) PROVE g = F
  <2> DEFINE S == {n \in Nat : n \in N => g[n] = f[n]}
  <2>1. 0 \in S
    BY <1>1, <1>3
  <2>2. ASSUME NEW n \in Nat, n \in S PROVE n + 1 \in S
    <3> SUFFICES ASSUME n + 1 \in N PROVE g[n + 1] = f[n + 1]
      OBVIOUS
    <3>1. n \in N /\ g[n] = f[n] /\ (n + 1) - 1 = n /\ n + 1 # 0
      BY <2>2, <1>1
    <3>2. g[n + 1] = IF g[n] = Null THEN Null ELSE heap[g[n]].next
      BY <1>3, <3>1
    <3> QED
      BY <3>1, <3>2 DEF Chained
  <2> HIDE DEF S
  <2>3. Nat \subseteq S
    BY <2>1, <2>2, Induct
  <2>4. \A n \in N : g[n] = f[n]
    BY <2>3, <1>1 DEF S
  <2>5. DOMAIN g = N /\ g = [n \in DOMAIN g |-> g[n]]
    BY <1>3
  <2> QED
    BY <2>4, <2>5
<1>4. Walk(f[0]) = CHOOSE g : Solves(g)
  BY DEF Walk
<1> HIDE DEF Solves, F
<1>5. Walk(f[0]) = F
  BY <1>2, <1>3, <1>4
<1> QED
  BY <1>5 DEF F

\* Chain and Hits, which the walk defines, in terms of positions.
LEMMA ChainIs ==
    ASSUME NEW f, Chained(heap, f)
    PROVE  /\ Chain(f[0]) = Nodes(f)
           /\ Cardinality(Chain(f[0])) =
                Cardinality({n \in DOMAIN Walk(f[0]) : Walk(f[0])[n] # Null})
           /\ \A key : Hits(f[0], key) = {n \in Nat : f[n] # Null /\ heap[f[n]].key = key}
<1> DEFINE N == 0 .. Cardinality(Address)
           W == Walk(f[0])
           P == {n \in DOMAIN W : W[n] # Null}
<1>1. W = [n \in N |-> f[n]]
  BY WalkIs
<1>2. Cardinality(Address) \in Nat
  BY FS_CardinalityType, TableAssumption
<1>3. \A n \in Nat : f[n] # Null => n \in N
  BY <1>2, Ends
<1>4. Chain(f[0]) = Nodes(f)
  BY <1>1, <1>2, <1>3 DEF Chain, Range, Nodes
<1>5. \A key : Hits(f[0], key) = {n \in Nat : f[n] # Null /\ heap[f[n]].key = key}
  <2> TAKE key
  <2> HIDE DEF W
  <2>1. Hits(f[0], key) = {n \in DOMAIN W : W[n] # Null /\ heap[W[n]].key = key}
    BY DEF Hits, W
  <2> QED
    BY <1>1, <1>2, <1>3, <2>1
<1>6. Cardinality(Nodes(f)) = Cardinality(P)
  <2> HIDE DEF W
  <2>1. P = {n \in Nat : f[n] # Null}
    BY <1>1, <1>2, <1>3
  <2> DEFINE g == [n \in P |-> f[n]]
  <2>2. g \in Bijection(P, Nodes(f))
    <3>1. g \in [P -> Nodes(f)]
      BY <2>1 DEF Nodes
    <3>2. \A x, y \in P : g[x] = g[y] => x = y
      BY <2>1 DEF Chained
    <3>3. \A a \in Nodes(f) : \E x \in P : g[x] = a
      BY <2>1 DEF Nodes
    <3> QED
      BY <3>1, <3>2, <3>3 DEF Bijection, Injection, Surjection, IsInjective
  <2>3. IsFiniteSet(P)
    <3>1. IsFiniteSet(N) /\ P \in SUBSET N
      BY <1>1, <1>2, FS_Interval
    <3> QED
      BY <3>1, FS_Subset
  <2> HIDE DEF g, P
  <2>4. ExistsBijection(P, Nodes(f))
    BY <2>2 DEF ExistsBijection
  <2> QED
    BY <2>3, <2>4, FS_Bijection
<1> QED
  BY <1>4, <1>5, <1>6
-----------------------------------------------------------------------------

\* The nodes of S that belong into bucket b, in a chain f from its head.
Place(h, cap, a) == Hash[h[a].key] % cap
InBucket(h, cap, b, head, S, f) ==
    /\ f \in [Nat -> S \cup {Null}]
    /\ f[0] = head
    /\ \A n \in Nat : f[n + 1] = IF f[n] = Null THEN Null ELSE h[f[n]].next
    /\ \A n \in Nat : f[n] # Null => Place(h, cap, f[n]) = b
    /\ \A m, n \in Nat : f[m] = f[n] /\ f[m] # Null => m = n

\* All nodes of S in chains c, one for each bucket, from the heads.
Layout(h, heads, cap, S, c) ==
    /\ S \subseteq Address
    /\ \A b \in 0 .. cap - 1 : InBucket(h, cap, b, heads[b], S, c[b])
    /\ \A a \in S : \E n \in Nat : c[Place(h, cap, a)][n] = a

\* The nodes are where their keys belong.
Keyed(h, S) == \A a \in S : h[a].key \in Key

\* A key belongs into one of the buckets.
LEMMA PlaceInTable ==
    ASSUME NEW cap \in Nat \ {0}, NEW h, NEW S, Keyed(h, S), NEW a \in S
    PROVE  Place(h, cap, a) \in 0 .. cap - 1
<1>1. Hash[h[a].key] \in Nat
  BY TableAssumption DEF Keyed
<1> QED
  BY <1>1 DEF Place

LEMMA BucketChained ==
    ASSUME NEW cap \in Nat \ {0}, NEW h, NEW head, NEW S, NEW f, NEW b,
           S \subseteq Address, InBucket(h, cap, b, head, S, f)
    PROVE  Chained(h, f)
<1>1. f \in [Nat -> Address \cup {Null}]
  BY DEF InBucket
<1> QED
  BY <1>1 DEF InBucket, Chained

\* Only the nodes that are in the chain matter.
LEMMA BucketSame ==
    ASSUME NEW cap \in Nat \ {0}, NEW h, NEW g, NEW head, NEW S, NEW T, NEW f, NEW b,
           InBucket(h, cap, b, head, S, f),
           \A n \in Nat : f[n] # Null =>
              /\ f[n] \in T
              /\ g[f[n]].next = h[f[n]].next /\ g[f[n]].key = h[f[n]].key
    PROVE  InBucket(g, cap, b, head, T, f)
<1>1. \A n \in Nat : f[n] # Null => Place(g, cap, f[n]) = Place(h, cap, f[n])
  BY DEF Place
<1>2. f \in [Nat -> T \cup {Null}]
  BY DEF InBucket
<1> QED
  BY <1>1, <1>2 DEF InBucket

\* A node that is put in front (pgc_tbl_insert_n).
LEMMA BucketPush ==
    ASSUME NEW cap \in Nat \ {0}, NEW h, NEW g, NEW head, NEW S, NEW f, NEW b, NEW a,
           a # Null, a \notin S, Null \notin S,
           InBucket(h, cap, b, head, S, f),
           \A x \in S : g[x].next = h[x].next /\ g[x].key = h[x].key,
           g[a].next = head, Place(g, cap, a) = b
    PROVE  InBucket(g, cap, b, a, S \cup {a}, [n \in Nat |-> IF n = 0 THEN a ELSE f[n - 1]])
<1> DEFINE e == [n \in Nat |-> IF n = 0 THEN a ELSE f[n - 1]]
<1>1. \A n \in Nat : f[n] \in S \cup {Null} /\ f[n] # a
  BY DEF InBucket
<1>2. \A x \in S : Place(g, cap, x) = Place(h, cap, x)
  BY DEF Place
<1>3. e[0] = a /\ \A n \in Nat : e[n + 1] = f[n]
  OBVIOUS
<1>4. e \in [Nat -> (S \cup {a}) \cup {Null}]
  BY <1>1
<1>5. ASSUME NEW n \in Nat, n # 0 PROVE \E k \in Nat : n = k + 1
  <2>1. n - 1 \in Nat /\ n = (n - 1) + 1
    BY <1>5
  <2> QED
    BY <2>1
<1> HIDE DEF e
<1>6. ASSUME NEW n \in Nat
      PROVE  e[n + 1] = IF e[n] = Null THEN Null ELSE g[e[n]].next
  <2>1. CASE n = 0
    BY <2>1, <1>3 DEF InBucket
  <2>2. CASE n # 0
    <3>1. PICK k \in Nat : n = k + 1
      BY <2>2, <1>5
    <3>2. e[n] = f[k] /\ e[n + 1] = f[k + 1]
      BY <3>1, <1>3
    <3> QED
      BY <3>2, <1>1 DEF InBucket
  <2> QED
    BY <2>1, <2>2
<1>7. ASSUME NEW n \in Nat, e[n] # Null PROVE Place(g, cap, e[n]) = b
  <2>1. CASE n = 0
    BY <2>1, <1>3
  <2>2. CASE n # 0
    <3>1. PICK k \in Nat : n = k + 1
      BY <2>2, <1>5
    <3> QED
      BY <3>1, <1>1, <1>2, <1>3, <1>7 DEF InBucket
  <2> QED
    BY <2>1, <2>2
<1>8. ASSUME NEW m \in Nat, NEW n \in Nat, e[m] = e[n], e[m] # Null PROVE m = n
  <2>1. CASE m = 0 \/ n = 0
    <3>1. \A i \in Nat : i # 0 => e[i] # a
      BY <1>1, <1>3, <1>5
    <3> QED
      BY <2>1, <3>1, <1>3, <1>8
  <2>2. CASE m # 0 /\ n # 0
    <3>1. PICK k \in Nat : m = k + 1
      BY <2>2, <1>5
    <3>2. PICK l \in Nat : n = l + 1
      BY <2>2, <1>5
    <3>3. e[m] = f[k] /\ e[n] = f[l]
      BY <3>1, <3>2, <1>3
    <3>4. f[k] = f[l] /\ f[k] # Null
      BY <3>3, <1>8
    <3>5. k = l
      BY <3>4 DEF InBucket
    <3> QED
      BY <3>1, <3>2, <3>5
  <2> QED
    BY <2>1, <2>2
<1>9. InBucket(g, cap, b, a, S \cup {a}, e)
  BY <1>3, <1>4, <1>6, <1>7, <1>8 DEF InBucket
<1> QED
  BY <1>9 DEF e

\* A node that is taken out of chain f at position k, which makes it e: the one
\* before it, if there is one, links to the one behind it.
CutOut(h, g, S, f, k, e) ==
    /\ e \in [Nat -> S \cup {Null}]
    /\ \A n \in Nat : e[n] = IF n < k THEN f[n] ELSE f[n + 1]
    /\ \A n \in Nat : f[n] # Null /\ n # k =>
          /\ g[f[n]].key = h[f[n]].key
          /\ g[f[n]].next = IF n + 1 = k THEN f[k + 1] ELSE h[f[n]].next

LEMMA SameSuccessor == \A m, n \in Nat : m + 1 = n + 1 => m = n
OBVIOUS

\* The rest of the chain of a bucket when its node at k is taken out.
LEMMA BucketCut ==
    ASSUME NEW cap, NEW h, NEW g, NEW head, NEW S, NEW f, NEW b, NEW k \in Nat, NEW e, NEW top,
           Null \notin S, f[k] # Null,
           InBucket(h, cap, b, head, S, f), CutOut(h, g, S, f, k, e),
           top = IF k = 0 THEN f[1] ELSE head
    PROVE  InBucket(g, cap, b, top, S \ {f[k]}, e)
<1>1. \A n \in Nat : f[n] \in S \cup {Null}
  BY DEF InBucket
<1>2. \A m, n \in Nat : f[m] = f[n] /\ f[m] # Null => m = n
  BY DEF InBucket
<1>3. \A n \in Nat : f[n + 1] = IF f[n] = Null THEN Null ELSE h[f[n]].next
  BY DEF InBucket
<1>4. \A n \in Nat : f[n] # Null /\ n # k => Place(g, cap, f[n]) = b
  BY DEF InBucket, Place, CutOut
<1>5. \A n \in Nat : e[n] = IF n < k THEN f[n] ELSE f[n + 1]
  BY DEF CutOut
<1>6. e \in [Nat -> (S \ {f[k]}) \cup {Null}]
  <2>1. ASSUME NEW n \in Nat PROVE e[n] \in (S \ {f[k]}) \cup {Null}
    <3>1. PICK i \in Nat : i # k /\ e[n] = f[i]
      BY <1>5
    <3>2. f[i] \in S \cup {Null} /\ f[i] # f[k]
      BY <3>1, <1>1, <1>2
    <3> QED
      BY <3>1, <3>2
  <2>2. e \in [Nat -> S \cup {Null}]
    BY DEF CutOut
  <2> QED
    BY <2>1, <2>2
<1>7. e[0] = top
  <2>1. f[0] = head
    BY DEF InBucket
  <2>2. e[0] = IF 0 < k THEN f[0] ELSE f[0 + 1]
    BY <1>5
  <2> QED
    BY <2>1, <2>2
<1>8. ASSUME NEW n \in Nat
      PROVE  e[n + 1] = IF e[n] = Null THEN Null ELSE g[e[n]].next
  <2>1. CASE n + 1 < k
    <3>1. e[n] = f[n] /\ e[n + 1] = f[n + 1] /\ n # k /\ n + 1 # k
      BY <2>1, <1>5
    <3>2. f[n] # Null => g[f[n]].next = h[f[n]].next
      BY <3>1 DEF CutOut
    <3> QED
      BY <3>1, <3>2, <1>3
  <2>2. CASE n + 1 = k
    <3>1. e[n] = f[n] /\ e[n + 1] = f[k + 1] /\ f[n] # Null
      BY <2>2, <1>3, <1>5
    <3> QED
      BY <2>2, <3>1 DEF CutOut
  <2>3. CASE k < n + 1
    <3>1. e[n] = f[n + 1] /\ e[n + 1] = f[(n + 1) + 1] /\ n + 1 \in Nat
      BY <2>3, <1>5
    <3>2. f[(n + 1) + 1] = IF f[n + 1] = Null THEN Null ELSE h[f[n + 1]].next
      BY <3>1, <1>3
    <3>3. f[n + 1] # Null => g[f[n + 1]].next = h[f[n + 1]].next
      BY <2>3, <3>1 DEF CutOut
    <3> QED
      BY <3>1, <3>2, <3>3
  <2> QED
    BY <2>1, <2>2, <2>3
<1>9. ASSUME NEW n \in Nat, e[n] # Null PROVE Place(g, cap, e[n]) = b
  <2>1. PICK i \in Nat : i # k /\ e[n] = f[i]
    BY <1>5
  <2> QED
    BY <2>1, <1>4, <1>9
<1>10. ASSUME NEW m \in Nat, NEW n \in Nat, e[m] = e[n], e[m] # Null PROVE m = n
  <2>1. CASE m < k /\ n < k
    BY <2>1, <1>2, <1>5, <1>10
  <2>2. CASE m < k /\ ~(n < k)
    <3>1. m = n + 1
      BY <2>2, <1>2, <1>5, <1>10
    <3> QED
      BY <2>2, <3>1
  <2>3. CASE ~(m < k) /\ n < k
    <3>1. m + 1 = n
      BY <2>3, <1>2, <1>5, <1>10
    <3> QED
      BY <2>3, <3>1
  <2>4. CASE ~(m < k) /\ ~(n < k)
    <3>1. f[m + 1] = f[n + 1] /\ f[m + 1] # Null
      BY <2>4, <1>5, <1>10
    <3>2. m + 1 \in Nat /\ n + 1 \in Nat
      OBVIOUS
    <3>3. m + 1 = n + 1
      BY <3>1, <3>2, <1>2
    <3> QED
      BY <3>3, SameSuccessor
  <2> QED
    BY <2>1, <2>2, <2>3, <2>4
<1> QED
  BY <1>6, <1>7, <1>8, <1>9, <1>10 DEF InBucket
-----------------------------------------------------------------------------
\* What pgc_tbl_insert_n does about the node at a, which belongs into bucket b.
InFront(h, g, heads, heads2, cap, S, b, a) ==
    /\ \A x \in S : g[x].next = h[x].next /\ g[x].key = h[x].key
    /\ g[a].next = heads[b] /\ Place(g, cap, a) = b
    /\ heads2[b] = a /\ \A x \in 0 .. cap - 1 : x # b => heads2[x] = heads[x]

\* A table that gets one more node holds the old ones and this one.
LEMMA LayoutPush ==
    ASSUME NEW cap \in Nat \ {0}, NEW h, NEW g, NEW heads, NEW heads2, NEW S, NEW c,
           Layout(h, heads, cap, S, c), Keyed(h, S),
           NEW b \in 0 .. cap - 1, NEW a \in Address, a \notin S,
           InFront(h, g, heads, heads2, cap, S, b, a)
    PROVE  \E d : Layout(g, heads2, cap, S \cup {a}, d)
<1> USE DEF InFront
<1> DEFINE e == [n \in Nat |-> IF n = 0 THEN a ELSE c[b][n - 1]]
           d == [x \in 0 .. cap - 1 |-> IF x = b THEN e ELSE c[x]]
<1>1. Null \notin S /\ a # Null
  BY TableAssumption DEF Layout
<1>2. \A x \in 0 .. cap - 1 : InBucket(h, cap, x, heads[x], S, c[x])
  BY DEF Layout
<1>3. InBucket(g, cap, b, a, S \cup {a}, e)
  BY <1>1, <1>2, BucketPush
<1>4. ASSUME NEW x \in 0 .. cap - 1, x # b
      PROVE  InBucket(g, cap, x, heads[x], S \cup {a}, c[x])
  <2>1. InBucket(h, cap, x, heads[x], S, c[x])
    BY <1>2
  <2>2. \A n \in Nat : c[x][n] # Null => c[x][n] \in S
    BY <2>1 DEF InBucket
  <2> QED
    BY <2>1, <2>2, BucketSame
<1>5. ASSUME NEW y \in S \cup {a} PROVE \E n \in Nat : d[Place(g, cap, y)][n] = y
  <2>1. CASE y = a
    BY <2>1
  <2>2. CASE y \in S
    <3>1. Place(g, cap, y) = Place(h, cap, y)
      BY <2>2 DEF Place
    <3>2. PICK n \in Nat : c[Place(h, cap, y)][n] = y
      BY <2>2 DEF Layout
    <3>3. CASE Place(h, cap, y) = b
      <4>1. n + 1 \in Nat /\ e[n + 1] = y
        BY <3>2, <3>3
      <4>2. d[b] = e
        OBVIOUS
      <4> HIDE DEF e, d
      <4> QED
        BY <3>1, <3>3, <4>1, <4>2
    <3>4. CASE Place(h, cap, y) # b
      <4>1. Place(h, cap, y) \in 0 .. cap - 1
        BY <2>2, PlaceInTable
      <4> QED
        BY <3>1, <3>2, <3>4, <4>1
    <3> QED
      BY <3>3, <3>4
  <2> QED
    BY <2>1, <2>2
<1>6. \A x \in 0 .. cap - 1 : InBucket(g, cap, x, heads2[x], S \cup {a}, d[x])
  <2> TAKE x \in 0 .. cap - 1
  <2>1. d[x] = IF x = b THEN e ELSE c[x]
    OBVIOUS
  <2> HIDE DEF e, d
  <2> QED
    BY <2>1, <1>3, <1>4
<1> HIDE DEF d, e
<1>7. Layout(g, heads2, cap, S \cup {a}, d)
  BY <1>5, <1>6 DEF Layout
<1> QED
  BY <1>7

\* What pgc_tbl_remove does about position k of chain f.
Relinked(h, g, heads, heads2, cap, S, f, b, k) ==
    /\ \A x \in S \ {f[k]} :
          /\ g[x].key = h[x].key
          /\ g[x].next = IF k > 0 /\ x = f[k - 1] THEN f[k + 1] ELSE h[x].next
    /\ heads2[b] = IF k = 0 THEN f[1] ELSE heads[b]
    /\ \A x \in 0 .. cap - 1 : x # b => heads2[x] = heads[x]

\* A table that loses a node holds the others.
LEMMA LayoutCut ==
    ASSUME NEW cap \in Nat \ {0}, NEW h, NEW g, NEW heads, NEW heads2, NEW S, NEW c,
           Layout(h, heads, cap, S, c), Keyed(h, S),
           NEW b \in 0 .. cap - 1, NEW k \in Nat, c[b][k] # Null,
           Relinked(h, g, heads, heads2, cap, S, c[b], b, k)
    PROVE  \E d : Layout(g, heads2, cap, S \ {c[b][k]}, d)
<1> USE DEF Relinked
<1> DEFINE a == c[b][k]
           e == [n \in Nat |-> IF n < k THEN c[b][n] ELSE c[b][n + 1]]
           d == [x \in 0 .. cap - 1 |-> IF x = b THEN e ELSE c[x]]
<1>1. Null \notin S
  BY TableAssumption DEF Layout
<1>2. \A x \in 0 .. cap - 1 : InBucket(h, cap, x, heads[x], S, c[x])
  BY DEF Layout
<1>3. \A x \in 0 .. cap - 1 : \A n \in Nat :
         c[x][n] # Null => c[x][n] \in S /\ Place(h, cap, c[x][n]) = x
  BY <1>2 DEF InBucket
<1>4. \A m, n \in Nat : c[b][m] = c[b][n] /\ c[b][m] # Null => m = n
  BY <1>2 DEF InBucket
<1>5. k > 0 => k - 1 \in Nat /\ c[b][k - 1] # Null
  <2>1. ASSUME k > 0 PROVE c[b][k - 1] # Null
    <3>1. k - 1 \in Nat /\ (k - 1) + 1 = k
      BY <2>1
    <3>2. \A n \in Nat : c[b][n] = Null => c[b][n + 1] = Null
      BY <1>2 DEF InBucket
    <3> QED
      BY <3>1, <3>2
  <2> QED
    BY <2>1
<1>6. InBucket(g, cap, b, heads2[b], S \ {a}, e)
  <2>1. InBucket(h, cap, b, heads[b], S, c[b])
    BY <1>2
  <2>2. ASSUME NEW n \in Nat, c[b][n] # Null, n # k
        PROVE  /\ g[c[b][n]].key = h[c[b][n]].key
               /\ g[c[b][n]].next = IF n + 1 = k THEN c[b][k + 1] ELSE h[c[b][n]].next
    <3>1. c[b][n] \in S \ {a}
      BY <2>2, <1>3, <1>4
    <3>2. (k > 0 /\ c[b][n] = c[b][k - 1]) <=> n + 1 = k
      BY <2>2, <1>4, <1>5
    <3> QED
      BY <3>1, <3>2
  <2>3. e \in [Nat -> S \cup {Null}]
    BY <1>2 DEF InBucket
  <2>4. CutOut(h, g, S, c[b], k, e)
    BY <2>2, <2>3 DEF CutOut
  <2> HIDE DEF e, d
  <2> QED
    BY <1>1, <2>1, <2>4, BucketCut
<1>7. ASSUME NEW x \in 0 .. cap - 1, x # b
      PROVE  InBucket(g, cap, x, heads[x], S \ {a}, c[x])
  <2>1. InBucket(h, cap, x, heads[x], S, c[x])
    BY <1>2
  <2>2. ASSUME NEW n \in Nat, c[x][n] # Null
        PROVE  /\ c[x][n] \in S \ {a}
               /\ g[c[x][n]].key = h[c[x][n]].key /\ g[c[x][n]].next = h[c[x][n]].next
    <3>1. c[x][n] \in S /\ Place(h, cap, c[x][n]) = x
      BY <1>3, <2>2
    <3>2. c[x][n] # a /\ (k > 0 => c[x][n] # c[b][k - 1])
      BY <3>1, <1>3, <1>5, <1>7
    <3> QED
      BY <3>1, <3>2
  <2> HIDE DEF a
  <2> QED
    BY <2>1, <2>2, BucketSame
<1>8. ASSUME NEW y \in S \ {a} PROVE \E n \in Nat : d[Place(g, cap, y)][n] = y
  <2>1. Place(g, cap, y) = Place(h, cap, y)
    BY DEF Place
  <2>2. PICK n \in Nat : c[Place(h, cap, y)][n] = y
    BY DEF Layout
  <2>3. Place(h, cap, y) \in 0 .. cap - 1
    BY PlaceInTable
  <2>4. CASE Place(h, cap, y) = b
    <3>1. n # k
      BY <2>2, <2>4
    <3>2. CASE n < k
      <4>1. e[n] = y
        BY <2>2, <2>4, <3>2
      <4>2. d[b] = e
        OBVIOUS
      <4> HIDE DEF e, d
      <4> QED
        BY <4>1, <4>2, <2>1, <2>4
    <3>3. CASE k < n
      <4>1. n - 1 \in Nat /\ (n - 1) + 1 = n /\ ~(n - 1 < k)
        BY <3>3
      <4>2. e[n - 1] = y
        BY <2>2, <2>4, <4>1
      <4>3. d[b] = e
        OBVIOUS
      <4> HIDE DEF e, d
      <4>4. d[Place(g, cap, y)][n - 1] = y
        BY <4>2, <4>3, <2>1, <2>4
      <4> QED
        BY <4>1, <4>4
    <3> HIDE DEF e, d
    <3> QED
      BY <3>1, <3>2, <3>3
  <2>5. CASE Place(h, cap, y) # b
    BY <2>1, <2>2, <2>3, <2>5
  <2> QED
    BY <2>4, <2>5
<1>9. \A x \in 0 .. cap - 1 : InBucket(g, cap, x, heads2[x], S \ {a}, d[x])
  <2> TAKE x \in 0 .. cap - 1
  <2>1. d[x] = IF x = b THEN e ELSE c[x]
    OBVIOUS
  <2> HIDE DEF e, d, a
  <2> QED
    BY <2>1, <1>6, <1>7
<1>10. S \ {a} \subseteq Address
  BY DEF Layout
<1> HIDE DEF d, e, a
<1>11. Layout(g, heads2, cap, S \ {a}, d)
  BY <1>8, <1>9, <1>10 DEF Layout
<1> QED
  BY <1>11 DEF a

\* The layout depends on nothing but the heads and the nodes of S.
LEMMA LayoutSame ==
    ASSUME NEW cap \in Nat \ {0}, NEW h, NEW g, NEW heads, NEW heads2, NEW S, NEW c,
           Layout(h, heads, cap, S, c),
           \A x \in S : g[x].next = h[x].next /\ g[x].key = h[x].key,
           \A x \in 0 .. cap - 1 : heads2[x] = heads[x]
    PROVE  Layout(g, heads2, cap, S, c)
<1>1. ASSUME NEW x \in 0 .. cap - 1 PROVE InBucket(g, cap, x, heads2[x], S, c[x])
  <2>1. InBucket(h, cap, x, heads2[x], S, c[x])
    BY DEF Layout
  <2>2. \A n \in Nat : c[x][n] # Null => c[x][n] \in S
    BY <2>1 DEF InBucket
  <2> QED
    BY <2>1, <2>2, BucketSame
<1>2. ASSUME NEW a \in S PROVE \E n \in Nat : c[Place(g, cap, a)][n] = a
  <2>1. Place(g, cap, a) = Place(h, cap, a)
    BY DEF Place
  <2> QED
    BY <2>1 DEF Layout
<1> QED
  BY <1>1, <1>2 DEF Layout

\* A table without heads holds no node, and one without nodes is laid out.
LEMMA LayoutEmpty ==
    ASSUME NEW cap \in Nat \ {0}, NEW h, NEW heads, NEW S, NEW c,
           Layout(h, heads, cap, S, c), Keyed(h, S),
           \A x \in 0 .. cap - 1 : heads[x] = Null
    PROVE  S = {}
<1> SUFFICES ASSUME NEW a \in S PROVE FALSE
  OBVIOUS
<1> DEFINE p == Place(h, cap, a)
<1>1. p \in 0 .. cap - 1
  BY PlaceInTable
<1>2. PICK n \in Nat : c[p][n] = a
  BY DEF Layout
<1>3. InBucket(h, cap, p, heads[p], S, c[p]) /\ S \subseteq Address
  BY <1>1 DEF Layout
<1>4. c[p][0] = Null
  BY <1>1, <1>3 DEF InBucket
<1>5. a # Null
  BY <1>3, TableAssumption
<1> HIDE DEF p
<1>6. Chained(h, c[p])
  BY <1>3, BucketChained
<1>7. c[p][0] # Null
  BY <1>2, <1>5, <1>6, Ends
<1> QED
  BY <1>4, <1>7

LEMMA LayoutNew ==
    ASSUME NEW cap \in Nat \ {0}, NEW h, NEW heads,
           \A x \in 0 .. cap - 1 : heads[x] = Null
    PROVE  \E c : Layout(h, heads, cap, {}, c)
<1> DEFINE none == [n \in Nat |-> Null]
           c == [b \in 0 .. cap - 1 |-> none]
<1>1. none \in [Nat -> {Null}] /\ \A n \in Nat : none[n] = Null
  OBVIOUS
<1>2. \A b \in 0 .. cap - 1 : c[b] = none
  OBVIOUS
<1> HIDE DEF none, c
<1>3. \A b \in 0 .. cap - 1 : InBucket(h, cap, b, heads[b], {}, c[b])
  <2>1. \A b : InBucket(h, cap, b, Null, {}, none)
    BY <1>1 DEF InBucket
  <2> QED
    BY <1>2, <2>1
<1>4. Layout(h, heads, cap, {}, c)
  BY <1>3 DEF Layout
<1> QED
  BY <1>4

\* A head is the first node of its bucket.
LEMMA HeadOf ==
    ASSUME NEW cap \in Nat \ {0}, NEW h, NEW heads, NEW S, NEW c,
           Layout(h, heads, cap, S, c),
           NEW b \in 0 .. cap - 1, heads[b] # Null
    PROVE  /\ heads[b] \in S
           /\ c[b][0] = heads[b]
           /\ c[b][1] = h[heads[b]].next
           /\ h[heads[b]].next \in S \cup {Null}
<1>1. InBucket(h, cap, b, heads[b], S, c[b])
  BY DEF Layout
<1>2. c[b][0] = heads[b] /\ c[b][0] \in S \cup {Null} /\ c[b][1] \in S \cup {Null}
  BY <1>1 DEF InBucket
<1>3. c[b][0 + 1] = IF c[b][0] = Null THEN Null ELSE h[c[b][0]].next
  BY <1>1 DEF InBucket
<1> QED
  BY <1>2, <1>3

\* The head of bucket b goes: what is left begins behind it.
Behind(h, g, heads, heads2, cap, S, b) ==
    /\ \A x \in S \ {heads[b]} : g[x].key = h[x].key /\ g[x].next = h[x].next
    /\ heads2[b] = h[heads[b]].next
    /\ \A x \in 0 .. cap - 1 : x # b => heads2[x] = heads[x]

LEMMA LayoutPop ==
    ASSUME NEW cap \in Nat \ {0}, NEW h, NEW g, NEW heads, NEW heads2, NEW S, NEW c,
           Layout(h, heads, cap, S, c), Keyed(h, S),
           NEW b \in 0 .. cap - 1, heads[b] # Null,
           Behind(h, g, heads, heads2, cap, S, b)
    PROVE  \E d : Layout(g, heads2, cap, S \ {heads[b]}, d)
<1>1. c[b][0] = heads[b] /\ c[b][1] = h[heads[b]].next
  BY HeadOf
<1>2. 0 \in Nat /\ c[b][0] # Null
  BY <1>1
<1>3. Relinked(h, g, heads, heads2, cap, S, c[b], b, 0)
  BY <1>1 DEF Relinked, Behind
<1>4. \E d : Layout(g, heads2, cap, S \ {c[b][0]}, d)
  BY <1>2, <1>3, LayoutCut
<1> QED
  BY <1>1, <1>4
-----------------------------------------------------------------------------
\* A table whose nodes are those of S: its size counts them, its chains hold them.
Sound(h, t, S) ==
    /\ t.size = Cardinality(S)
    /\ \E c : Layout(h, t.nodes, t.capacity, S, c)

\* An iterator of t, and the heads of what it has still to visit.
Within(t, i) ==
    /\ i \in Iterators
    /\ i = End \/ (i.node \in Address /\ i.bucket \in 0 .. t.capacity - 1)
Rest(t, i) ==
    [b \in 0 .. t.capacity - 1 |->
       IF i = End \/ b < i.bucket THEN Null
       ELSE IF b = i.bucket THEN i.node ELSE t.nodes[b]]
Ahead(h, t, i, S) ==
    /\ Within(t, i)
    /\ \E c : Layout(h, Rest(t, i), t.capacity, S, c)

\* A layout is what Intact asks of the chains.
LEMMA ChainsOfLayout ==
    ASSUME NEW cap \in Nat \ {0}, NEW heads, NEW S, NEW c,
           Layout(heap, heads, cap, S, c), Keyed(heap, S)
    PROVE  /\ S = UNION {Chain(heads[b]) : b \in 0 .. cap - 1}
           /\ \A b \in 0 .. cap - 1 :
                /\ Cardinality(Chain(heads[b])) =
                     Cardinality({n \in DOMAIN Walk(heads[b]) : Walk(heads[b])[n] # Null})
                /\ \A a \in Chain(heads[b]) : Place(heap, cap, a) = b
<1>1. S \subseteq Address /\ Null \notin S
  BY TableAssumption DEF Layout
<1>2. ASSUME NEW b \in 0 .. cap - 1
      PROVE  /\ InBucket(heap, cap, b, heads[b], S, c[b])
             /\ Chain(heads[b]) = Nodes(c[b])
             /\ Cardinality(Chain(heads[b])) =
                  Cardinality({n \in DOMAIN Walk(heads[b]) : Walk(heads[b])[n] # Null})
  <2>1. InBucket(heap, cap, b, heads[b], S, c[b])
    BY DEF Layout
  <2>2. Chained(heap, c[b])
    BY <2>1, <1>1, BucketChained
  <2>3. c[b][0] = heads[b]
    BY <2>1 DEF InBucket
  <2> QED
    BY <2>1, <2>2, <2>3, ChainIs
<1>3. ASSUME NEW b \in 0 .. cap - 1, NEW a \in Chain(heads[b])
      PROVE  a \in S /\ Place(heap, cap, a) = b
  <2>1. PICK n \in Nat : c[b][n] = a /\ a # Null
    BY <1>2, <1>3 DEF Nodes
  <2>2. InBucket(heap, cap, b, heads[b], S, c[b])
    BY <1>2
  <2> QED
    BY <2>1, <2>2 DEF InBucket
<1>4. ASSUME NEW a \in S PROVE \E b \in 0 .. cap - 1 : a \in Chain(heads[b])
  <2>1. Place(heap, cap, a) \in 0 .. cap - 1
    BY PlaceInTable
  <2>2. PICK n \in Nat : c[Place(heap, cap, a)][n] = a
    BY DEF Layout
  <2>3. a \in Nodes(c[Place(heap, cap, a)])
    BY <2>2, <1>1 DEF Nodes
  <2> QED
    BY <2>1, <2>3, <1>2
<1>5. S = UNION {Chain(heads[b]) : b \in 0 .. cap - 1}
  BY <1>3, <1>4
<1> QED
  BY <1>2, <1>3, <1>5

\* The search of begin and next skips only empty buckets ...
LEMMA FirstFromIs ==
    ASSUME NEW t, IsTable(t), NEW b \in 0 .. t.capacity
    PROVE  /\ Within(t, FirstFrom(t, b))
           /\ \A x \in 0 .. t.capacity - 1 :
                Rest(t, FirstFrom(t, b))[x] = IF x < b THEN Null ELSE t.nodes[x]
<1> DEFINE used == {n \in b .. t.capacity - 1 : t.nodes[n] # Null}
<1>1. t.capacity \in Nat \ {0} /\ b \in Nat
  BY DEF IsTable
<1>2. used \subseteq 0 .. t.capacity - 1 /\ used \subseteq Nat
  BY <1>1
<1>3. CASE used = {}
  <2>1. FirstFrom(t, b) = End
    BY <1>3 DEF FirstFrom
  <2>2. \A x \in 0 .. t.capacity - 1 : ~(x < b) => t.nodes[x] = Null
    BY <1>1, <1>3
  <2>3. Within(t, End)
    BY DEF Within, End, Iterators
  <2>4. \A x \in 0 .. t.capacity - 1 : Rest(t, End)[x] = Null
    BY DEF Rest
  <2> QED
    BY <2>1, <2>2, <2>3, <2>4
<1>4. CASE used # {}
  <2> DEFINE m == Min(used)
             i == [node |-> t.nodes[m], bucket |-> m]
  <2>1. m \in used /\ \A y \in used : m <= y
    BY <1>2, <1>4, MinOf
  <2>2. FirstFrom(t, b) = i
    BY <1>4 DEF FirstFrom
  <2>3. m \in 0 .. t.capacity - 1 /\ b <= m /\ t.nodes[m] # Null /\ m \in Nat
    BY <2>1, <1>1
  <2>4. t.nodes[m] \in Address
    BY <2>3 DEF IsTable
  <2>5. \A x \in 0 .. t.capacity - 1 : ~(x < b) /\ x < m => t.nodes[x] = Null
    BY <2>1, <2>3, <1>1
  <2> HIDE DEF m, used
  <2>6. i # End /\ i.node = t.nodes[m] /\ i.bucket = m
    BY <2>3 DEF End
  <2>7. Within(t, i)
    BY <2>3, <2>4 DEF Within, Iterators
  <2> HIDE DEF i
  <2>8. ASSUME NEW x \in 0 .. t.capacity - 1
        PROVE  Rest(t, i)[x] = IF x < b THEN Null ELSE t.nodes[x]
    <3>1. Rest(t, i)[x] = IF x < m THEN Null ELSE IF x = m THEN t.nodes[m] ELSE t.nodes[x]
      BY <2>6 DEF Rest
    <3> QED
      BY <3>1, <2>3, <2>5, <1>1
  <2> QED
    BY <2>2, <2>7, <2>8
<1> QED
  BY <1>3, <1>4

\* ... and pgc_tbl_next leaves just the node it was at.
LEMMA NextOfIs ==
    ASSUME NEW t, IsTable(t), NEW i, Within(t, i), i # End,
           heap[i.node].next \in Address \cup {Null}
    PROVE  /\ Within(t, NextOf(t, i))
           /\ \A x \in 0 .. t.capacity - 1 :
                Rest(t, NextOf(t, i))[x] =
                  IF x = i.bucket THEN heap[i.node].next ELSE Rest(t, i)[x]
<1>1. i \in Iterators /\ i.node \in Address /\ i.bucket \in 0 .. t.capacity - 1
  BY DEF Within
<1>2. t.capacity \in Nat \ {0} /\ i.bucket \in Nat
  BY <1>1 DEF IsTable
<1>3. \A x \in 0 .. t.capacity - 1 :
         Rest(t, i)[x] = IF x < i.bucket THEN Null
                         ELSE IF x = i.bucket THEN i.node ELSE t.nodes[x]
  BY DEF Rest
<1>4. CASE heap[i.node].next # Null
  <2> DEFINE j == [i EXCEPT !.node = heap[i.node].next]
  <2>1. NextOf(t, i) = j
    BY <1>4 DEF NextOf
  <2>2. j \in Iterators /\ j.node = heap[i.node].next /\ j.bucket = i.bucket
    BY <1>1 DEF Iterators
  <2>3. j # End
    BY <1>4, <2>2 DEF End
  <2> HIDE DEF j
  <2>4. Within(t, j)
    BY <1>1, <1>4, <2>2 DEF Within
  <2>5. \A x \in 0 .. t.capacity - 1 :
         Rest(t, j)[x] = IF x < i.bucket THEN Null
                         ELSE IF x = i.bucket THEN heap[i.node].next ELSE t.nodes[x]
    BY <2>2, <2>3 DEF Rest
  <2>6. \A x \in 0 .. t.capacity - 1 :
          Rest(t, j)[x] = IF x = i.bucket THEN heap[i.node].next ELSE Rest(t, i)[x]
    BY <2>5, <1>2, <1>3
  <2> QED
    BY <2>1, <2>4, <2>6
<1>5. CASE heap[i.node].next = Null
  <2> DEFINE j == FirstFrom(t, i.bucket + 1)
  <2>1. NextOf(t, i) = j
    BY <1>5 DEF NextOf
  <2>2. i.bucket + 1 \in 0 .. t.capacity
    BY <1>1, <1>2
  <2>3. Within(t, j) /\ \A x \in 0 .. t.capacity - 1 :
          Rest(t, j)[x] = IF x < i.bucket + 1 THEN Null ELSE t.nodes[x]
    BY <2>2, FirstFromIs
  <2> HIDE DEF j
  <2>4. \A x \in 0 .. t.capacity - 1 :
          Rest(t, j)[x] = IF x = i.bucket THEN heap[i.node].next ELSE Rest(t, i)[x]
    BY <2>3, <1>2, <1>3, <1>5
  <2> QED
    BY <2>1, <2>3, <2>4
<1> QED
  BY <1>4, <1>5
-----------------------------------------------------------------------------
Found(h) == \A a \in DOMAIN h : h[a] \in [key : Key, next : Address \cup {Null}]

LEMMA IsKeyed ==
    ASSUME NEW h, Found(h), NEW S, S \subseteq DOMAIN h
    PROVE  Keyed(h, S)
BY DEF Found, Keyed

LEMMA MallocIs ==
    ASSUME DOMAIN heap \subseteq Address, DOMAIN heap # Address
    PROVE  Malloc \in Address /\ Malloc \notin DOMAIN heap
BY DEF Malloc

Updated(t, b, a, z) == [t EXCEPT !.nodes[b] = a, !.size = z]

\* A table with one head and the size replaced.
LEMMA UpdatedIs ==
    ASSUME NEW t, IsTable(t), NEW b \in 0 .. t.capacity - 1,
           NEW a \in Address \cup {Null}, NEW z \in Nat
    PROVE  /\ IsTable(Updated(t, b, a, z))
           /\ Updated(t, b, a, z).size = z
           /\ Updated(t, b, a, z).capacity = t.capacity
           /\ Updated(t, b, a, z).nodes[b] = a
           /\ \A x \in 0 .. t.capacity - 1 :
                x # b => Updated(t, b, a, z).nodes[x] = t.nodes[x]
<1> DEFINE u == Updated(t, b, a, z)
           N == [0 .. t.capacity - 1 -> Address \cup {Null}]
<1>1. t \in [nodes : N, capacity : Nat \ {0}, size : Nat]
  BY DEF IsTable
<1>2. t.nodes \in N /\ [t.nodes EXCEPT ![b] = a] \in N
  BY <1>1
<1>3. /\ u.size = z /\ u.capacity = t.capacity
      /\ u.nodes = [t.nodes EXCEPT ![b] = a]
  BY DEF IsTable, Updated
<1>4. u.nodes[b] = a /\ \A x \in 0 .. t.capacity - 1 : x # b => u.nodes[x] = t.nodes[x]
  BY <1>2, <1>3
<1>5. u \in [nodes : N, capacity : Nat \ {0}, size : Nat]
  <2> HIDE DEF N
  <2> QED
    BY <1>1, <1>2 DEF Updated
<1> QED
  BY <1>3, <1>4, <1>5 DEF IsTable

LEMMA LinkedIs ==
    ASSUME NEW t, IsTable(t), NEW key \in Key, NEW a \in Address
    PROVE  /\ IsTable(Linked(t, key, a))
           /\ Bucket(t, key) \in 0 .. t.capacity - 1
           /\ Linked(t, key, a).size = t.size + 1
           /\ Linked(t, key, a).capacity = t.capacity
           /\ Linked(t, key, a).nodes[Bucket(t, key)] = a
           /\ \A x \in 0 .. t.capacity - 1 :
                x # Bucket(t, key) => Linked(t, key, a).nodes[x] = t.nodes[x]
<1>1. t.capacity \in Nat \ {0} /\ t.size \in Nat
  BY DEF IsTable
<1>2. Bucket(t, key) \in 0 .. t.capacity - 1
  <2>1. Hash[key] \in Nat
    BY TableAssumption
  <2> QED
    BY <2>1, <1>1 DEF Bucket
<1> DEFINE b == Bucket(t, key)
           z == t.size + 1
           u == Linked(t, key, a)
<1>3. u = Updated(t, b, a, z)
  BY DEF Linked, Updated
<1>4. z \in Nat /\ b \in 0 .. t.capacity - 1 /\ a \in Address \cup {Null}
  BY <1>1, <1>2
<1> HIDE DEF b, z, u
<1>5. /\ IsTable(u) /\ u.size = z /\ u.capacity = t.capacity /\ u.nodes[b] = a
      /\ \A x \in 0 .. t.capacity - 1 : x # b => u.nodes[x] = t.nodes[x]
  BY <1>3, <1>4, UpdatedIs
<1> QED
  BY <1>2, <1>5 DEF b, z, u

\* pgc_tbl_insert_n keeps a table sound.
LEMMA SoundLinked ==
    ASSUME NEW h, NEW g, NEW t, NEW key \in Key, NEW a \in Address, NEW S,
           IsTable(t), Sound(h, t, S), Keyed(h, S), a \notin S,
           \A x \in S : g[x].next = h[x].next /\ g[x].key = h[x].key,
           g[a].key = key, g[a].next = t.nodes[Bucket(t, key)]
    PROVE  Sound(g, Linked(t, key, a), S \cup {a})
<1> DEFINE u == Linked(t, key, a)
           b == Bucket(t, key)
<1>1. PICK c : Layout(h, t.nodes, t.capacity, S, c)
  BY DEF Sound
<1>2. t.capacity \in Nat \ {0}
  BY DEF IsTable
<1>3. b \in 0 .. t.capacity - 1 /\ u.capacity = t.capacity /\ u.size = t.size + 1
      /\ u.nodes[b] = a /\ \A x \in 0 .. t.capacity - 1 : x # b => u.nodes[x] = t.nodes[x]
  BY LinkedIs
<1>4. Place(g, t.capacity, a) = b
  BY DEF Place, Bucket
<1>5. g[a].next = t.nodes[b]
  OBVIOUS
<1> HIDE DEF b, u
<1>6. \E d : Layout(g, u.nodes, t.capacity, S \cup {a}, d)
  <2>1. InFront(h, g, t.nodes, u.nodes, t.capacity, S, b, a)
    BY <1>3, <1>4, <1>5 DEF InFront
  <2> QED
    BY <1>1, <1>2, <1>3, <2>1, LayoutPush
<1>7. Cardinality(S \cup {a}) = Cardinality(S) + 1
  <2>1. IsFiniteSet(S)
    <3>1. S \subseteq Address
      BY <1>1 DEF Layout
    <3> QED
      BY <3>1, FS_Subset, TableAssumption
  <2> QED
    BY <2>1, FS_AddElement
<1> QED
  BY <1>3, <1>6, <1>7 DEF Sound, u
-----------------------------------------------------------------------------
\* An iterator starts with everything ahead of it, leaves one node behind in each
\* turn, and ends when nothing is left.
LEMMA StartsWithAll ==
    ASSUME NEW t, IsTable(t), NEW h, NEW S, Sound(h, t, S)
    PROVE  Ahead(h, t, FirstFrom(t, 0), S)
<1>1. t.capacity \in Nat \ {0} /\ 0 \in 0 .. t.capacity
  BY DEF IsTable
<1>2. PICK c : Layout(h, t.nodes, t.capacity, S, c)
  BY DEF Sound
<1> DEFINE i == FirstFrom(t, 0)
<1>3. Within(t, i) /\ \A x \in 0 .. t.capacity - 1 :
         Rest(t, i)[x] = IF x < 0 THEN Null ELSE t.nodes[x]
  BY <1>1, FirstFromIs
<1> HIDE DEF i
<1>4. \A x \in 0 .. t.capacity - 1 : Rest(t, i)[x] = t.nodes[x]
  BY <1>1, <1>3
<1>5. Layout(h, Rest(t, i), t.capacity, S, c)
  BY <1>1, <1>2, <1>4, LayoutSame
<1> QED
  BY <1>3, <1>5 DEF Ahead, i

LEMMA LeavesOne ==
    ASSUME NEW t, IsTable(t), Found(heap), NEW S, S \subseteq DOMAIN heap,
           NEW i, i # End, Ahead(heap, t, i, S), NEW g,
           \A x \in S \ {i.node} : g[x].key = heap[x].key /\ g[x].next = heap[x].next
    PROVE  i.node \in S /\ Ahead(g, t, NextOf(t, i), S \ {i.node})
<1> DEFINE j == NextOf(t, i)
           b == i.bucket
<1>1. t.capacity \in Nat \ {0}
  BY DEF IsTable
<1>2. Within(t, i) /\ Keyed(heap, S)
  BY IsKeyed DEF Ahead
<1>3. PICK c : Layout(heap, Rest(t, i), t.capacity, S, c)
  BY DEF Ahead
<1>4. b \in 0 .. t.capacity - 1 /\ i.node \in Address /\ i.node # Null
  BY <1>2, TableAssumption DEF Within
<1>5. Rest(t, i)[b] = i.node
  BY <1>4, <1>1 DEF Rest
<1>6. i.node \in S
  BY <1>1, <1>3, <1>4, <1>5, HeadOf
<1>7. heap[i.node].next \in Address \cup {Null}
  BY <1>6 DEF Found
<1>8. Within(t, j) /\ \A x \in 0 .. t.capacity - 1 :
         Rest(t, j)[x] = IF x = b THEN heap[i.node].next ELSE Rest(t, i)[x]
  BY <1>2, <1>7, NextOfIs
<1> HIDE DEF j, b
<1>9. Behind(heap, g, Rest(t, i), Rest(t, j), t.capacity, S, b)
  BY <1>4, <1>5, <1>8 DEF Behind
<1>10. \E d : Layout(g, Rest(t, j), t.capacity, S \ {i.node}, d)
  <2>1. Rest(t, i)[b] # Null
    BY <1>4, <1>5
  <2>2. \E d : Layout(g, Rest(t, j), t.capacity, S \ {Rest(t, i)[b]}, d)
    BY <1>1, <1>2, <1>3, <1>4, <1>9, <2>1, LayoutPop
  <2> QED
    BY <2>2, <1>5
<1> QED
  BY <1>6, <1>8, <1>10 DEF Ahead, j

LEMMA EndsWithNone ==
    ASSUME NEW t, IsTable(t), NEW h, NEW S, Keyed(h, S), Ahead(h, t, End, S)
    PROVE  S = {}
<1>1. t.capacity \in Nat \ {0}
  BY DEF IsTable
<1>2. PICK c : Layout(h, Rest(t, End), t.capacity, S, c)
  BY DEF Ahead
<1>3. \A x \in 0 .. t.capacity - 1 : Rest(t, End)[x] = Null
  BY DEF Rest
<1> QED
  BY <1>1, <1>2, <1>3, LayoutEmpty
-----------------------------------------------------------------------------
\* The inductive invariant.  A table that nobody takes apart holds the nodes that
\* are allocated, and an iteration of the caller has the nodes still to visit ahead
\* of it.  While it is taken apart the iterator of the loop has them ahead, and when
\* it is resized the new table has the others.
IdleOK ==
    /\ Sound(heap, table, DOMAIN heap)
    /\ iter # End =>
          \E S \in SUBSET DOMAIN heap :
             /\ Ahead(heap, table, iter, S)
             /\ seen = (DOMAIN heap \ S) \cup {iter.node}
ResizingOK ==
    /\ pending \in Key
    /\ DOMAIN heap # Address
    /\ \E S \in SUBSET DOMAIN heap :
          /\ Sound(heap, new, DOMAIN heap \ S)
          /\ Ahead(heap, table, at, S)
Tidy ==
    /\ TypeOK
    /\ pc = "idle" => IdleOK
    /\ pc = "resizing" => ResizingOK
    /\ pc = "destroying" => Ahead(heap, table, at, DOMAIN heap)

\* pgc_tbl_init
LEMMA EmptyIs ==
    ASSUME NEW cap \in Nat \ {0}, NEW h
    PROVE  /\ IsTable(Empty(cap))
           /\ Sound(h, Empty(cap), {})
           /\ Empty(cap).capacity = cap
<1>1. Empty(cap).capacity = cap /\ Empty(cap).size = 0
      /\ \A b \in 0 .. cap - 1 : Empty(cap).nodes[b] = Null
  BY DEF Empty
<1>2. IsTable(Empty(cap))
  BY <1>1 DEF Empty, IsTable
<1>3. \E c : Layout(h, Empty(cap).nodes, cap, {}, c)
  BY <1>1, LayoutNew
<1> QED
  BY <1>1, <1>2, <1>3, FS_EmptySet DEF Sound

LEMMA InitTidy == Init => Tidy
<1> SUFFICES ASSUME Init PROVE Tidy
  OBVIOUS
<1>1. PICK cap \in Nat \ {0} : table = Empty(cap)
  BY TableAssumption DEF Init
<1>2. IsTable(table) /\ Sound(heap, table, {}) /\ IsTable(new)
  BY <1>1, EmptyIs DEF Init
<1>3. DOMAIN heap = {}
  BY DEF Init
<1>4. End \in Iterators
  BY DEF End, Iterators
<1>5. TypeOK
  BY <1>2, <1>3, <1>4 DEF TypeOK, Init
<1>6. IdleOK
  BY <1>2, <1>3 DEF IdleOK, Init
<1> QED
  BY <1>5, <1>6 DEF Tidy, Init
-----------------------------------------------------------------------------
\* An insertion adds the node that it returns.
LEMMA InsertIntoIs ==
    ASSUME Found(heap), DOMAIN heap \subseteq Address, DOMAIN heap # Address,
           NEW t, IsTable(t), Sound(heap, t, DOMAIN heap),
           NEW key \in Key, InsertInto(t, key)
    PROVE  /\ returned' \in Address \ DOMAIN heap
           /\ DOMAIN heap' = DOMAIN heap \cup {returned'}
           /\ \A x \in DOMAIN heap : heap'[x] = heap[x]
           /\ heap'[returned'].key = key
           /\ Found(heap') /\ IsTable(table') /\ Sound(heap', table', DOMAIN heap')
<1> DEFINE a == Malloc
           head == t.nodes[Bucket(t, key)]
<1>1. a \in Address /\ a \notin DOMAIN heap
  BY MallocIs
<1>2. head \in Address \cup {Null}
  BY <1>1, LinkedIs DEF IsTable
<1>3. /\ returned' = a
      /\ heap' = [x \in DOMAIN heap \cup {a} |->
                    IF x = a THEN [key |-> key, next |-> head] ELSE heap[x]]
      /\ table' = Linked(t, key, a)
  BY DEF InsertInto
<1> HIDE DEF a
<1>4. /\ DOMAIN heap' = DOMAIN heap \cup {a}
      /\ heap'[a] = [key |-> key, next |-> head]
      /\ \A x \in DOMAIN heap : heap'[x] = heap[x]
  BY <1>1, <1>3
<1>5. Found(heap')
  BY <1>2, <1>4 DEF Found
<1>6. IsTable(table')
  BY <1>1, <1>3, LinkedIs
<1>7. Sound(heap', table', DOMAIN heap \cup {a})
  <2>1. Keyed(heap, DOMAIN heap)
    BY IsKeyed
  <2>2. \A x \in DOMAIN heap : heap'[x].next = heap[x].next /\ heap'[x].key = heap[x].key
    BY <1>4
  <2>3. heap'[a].key = key /\ heap'[a].next = t.nodes[Bucket(t, key)]
    BY <1>4
  <2> HIDE DEF head
  <2> QED
    BY <1>1, <1>3, <2>1, <2>2, <2>3, SoundLinked
<1> QED
  BY <1>1, <1>3, <1>4, <1>5, <1>6, <1>7

\* The walk from the head is along f, up to position n.
Reads(f, head, n) == \A m \in 0 .. n : Walk(head)[m] = f[m]

\* What the chain of a key has of it: the first one that pgc_tbl_lookup and
\* pgc_tbl_remove come to is an entry of the key, and when they come to none there
\* is none.
LEMMA HitsAre ==
    ASSUME Found(heap), IsTable(table), NEW c,
           Layout(heap, table.nodes, table.capacity, DOMAIN heap, c), NEW key \in Key,
           NEW b, b = Bucket(table, key), NEW hits, hits = Hits(table.nodes[b], key)
    PROVE  /\ b \in 0 .. table.capacity - 1
           /\ hits = {} => \A a \in DOMAIN heap : heap[a].key # key
           /\ hits # {} =>
                /\ Min(hits) \in Nat
                /\ c[b][Min(hits)] \in DOMAIN heap
                /\ c[b][Min(hits)] # Null
                /\ heap[c[b][Min(hits)]].key = key
                /\ Reads(c[b], table.nodes[b], Min(hits))
<1> USE DEF Reads
<1>1. table.capacity \in Nat \ {0}
  BY DEF IsTable
<1>2. b \in 0 .. table.capacity - 1
  <2>1. Hash[key] \in Nat
    BY TableAssumption
  <2> QED
    BY <2>1, <1>1 DEF Bucket
<1>3. InBucket(heap, table.capacity, b, table.nodes[b], DOMAIN heap, c[b])
      /\ DOMAIN heap \subseteq Address
  BY <1>2 DEF Layout
<1>4. c[b][0] = table.nodes[b]
  BY <1>3 DEF InBucket
<1>5. Chained(heap, c[b])
  BY <1>1, <1>3, BucketChained
<1>6. hits = {n \in Nat : c[b][n] # Null /\ heap[c[b][n]].key = key}
  <2>1. \A k : Hits(c[b][0], k) = {n \in Nat : c[b][n] # Null /\ heap[c[b][n]].key = k}
    BY <1>5, ChainIs
  <2> QED
    BY <2>1, <1>4
<1>7. Walk(table.nodes[b]) = [n \in 0 .. Cardinality(Address) |-> c[b][n]]
  BY <1>4, <1>5, WalkIs
<1>8. ASSUME hits = {}, NEW a \in DOMAIN heap, heap[a].key = key PROVE FALSE
  <2>1. Place(heap, table.capacity, a) = b
    BY <1>8 DEF Place, Bucket
  <2>2. PICK n \in Nat : c[b][n] = a
    BY <2>1 DEF Layout
  <2>3. a # Null
    BY <1>3, TableAssumption
  <2> QED
    BY <1>6, <1>8, <2>2, <2>3
<1>9. ASSUME hits # {}
      PROVE  /\ Min(hits) \in Nat
             /\ c[b][Min(hits)] \in DOMAIN heap
             /\ c[b][Min(hits)] # Null
             /\ heap[c[b][Min(hits)]].key = key
             /\ \A n \in 0 .. Min(hits) : Walk(table.nodes[b])[n] = c[b][n]
  <2> DEFINE m == Min(hits)
  <2>1. hits \subseteq Nat
    BY <1>6
  <2>2. m \in hits
    BY <2>1, <1>9, MinOf
  <2> HIDE DEF m
  <2>3. m \in Nat /\ c[b][m] # Null /\ heap[c[b][m]].key = key
    BY <2>2, <1>6
  <2>4. c[b][m] \in DOMAIN heap
    BY <2>3, <1>3 DEF InBucket
  <2>5. m < Cardinality(Address)
    BY <2>3, <1>5, Ends
  <2>6. Cardinality(Address) \in Nat
    BY FS_CardinalityType, TableAssumption
  <2>7. \A n \in 0 .. m : Walk(table.nodes[b])[n] = c[b][n]
    BY <2>3, <2>5, <2>6, <1>7
  <2> QED
    BY <2>3, <2>4, <2>7 DEF m
<1> QED
  BY <1>2, <1>8, <1>9
-----------------------------------------------------------------------------
Linking(h, p, next) == [h EXCEPT ![p].next = next]
Sized(t, z) == [t EXCEPT !.size = z]

\* The two ways to take a node out of its chain, with names for what they read.
LEMMA UnlinkCases ==
    ASSUME NEW b, NEW head, NEW n, Unlink(b, head, n),
           NEW a, Walk(head)[n] = a, NEW p, n > 0 => Walk(head)[n - 1] = p,
           NEW next, heap[a].next = next
    PROVE  \/ /\ n = 0
              /\ heap' = Restrict(heap, DOMAIN heap \ {a})
              /\ table' = Updated(table, b, next, table.size - 1)
           \/ /\ n > 0
              /\ heap' = Linking(Restrict(heap, DOMAIN heap \ {a}), p, next)
              /\ table' = Sized(table, table.size - 1)
<1> DEFINE z == table.size - 1
           rest == Restrict(heap, DOMAIN heap \ {a})
<1>1. \/ /\ n = 0
         /\ table' = [table EXCEPT !.nodes[b] = next, !.size = z]
         /\ heap' = rest
      \/ /\ n > 0
         /\ table' = [table EXCEPT !.size = z]
         /\ heap' = [rest EXCEPT ![Walk(head)[n - 1]].next = next]
  BY Zenon DEF Unlink
<1> QED
  BY <1>1 DEF Updated, Sized, Linking

\* Both lose the one node, and keep the table sound.
LEMMA UnlinkIs ==
    ASSUME Found(heap), IsTable(table), table.size = Cardinality(DOMAIN heap), NEW c,
           Layout(heap, table.nodes, table.capacity, DOMAIN heap, c),
           NEW b \in 0 .. table.capacity - 1, NEW n \in Nat, c[b][n] # Null,
           Reads(c[b], table.nodes[b], n),
           Unlink(b, table.nodes[b], n)
    PROVE  /\ DOMAIN heap' = DOMAIN heap \ {c[b][n]}
           /\ \A x \in DOMAIN heap' : heap'[x].key = heap[x].key
           /\ Found(heap') /\ IsTable(table') /\ Sound(heap', table', DOMAIN heap')
<1> DEFINE S == DOMAIN heap
           head == table.nodes[b]
           a == c[b][n]
           rest == Restrict(heap, S \ {a})
<1>1. table.capacity \in Nat \ {0} /\ table.size \in Nat
  BY DEF IsTable
<1>2. InBucket(heap, table.capacity, b, head, S, c[b]) /\ S \subseteq Address /\ Null \notin S
  BY TableAssumption DEF Layout
<1>3. \A m \in Nat : c[b][m] \in S \cup {Null}
  BY <1>2 DEF InBucket
<1>4. a \in S /\ heap[a].next = c[b][n + 1] /\ c[b][n + 1] \in Address \cup {Null}
  <2>1. a \in S
    BY <1>3
  <2>2. c[b][n + 1] = IF c[b][n] = Null THEN Null ELSE heap[c[b][n]].next
    BY <1>2 DEF InBucket
  <2> QED
    BY <2>1, <2>2, <1>2, <1>3
<1>5. Walk(head)[n] = a /\ (n > 0 => Walk(head)[n - 1] = c[b][n - 1])
  BY DEF Reads
<1>0. \/ /\ n = 0
         /\ heap' = rest
         /\ table' = Updated(table, b, c[b][n + 1], table.size - 1)
      \/ /\ n > 0
         /\ heap' = Linking(rest, c[b][n - 1], c[b][n + 1])
         /\ table' = Sized(table, table.size - 1)
  <2> DEFINE p == c[b][n - 1]
             next == c[b][n + 1]
  <2>1. Walk(head)[n] = a /\ (n > 0 => Walk(head)[n - 1] = p) /\ heap[a].next = next
    BY <1>4, <1>5
  <2>2. Unlink(b, head, n)
    OBVIOUS
  <2> HIDE DEF p, next, a, head
  <2>3. \/ /\ n = 0
           /\ heap' = rest
           /\ table' = Updated(table, b, next, table.size - 1)
        \/ /\ n > 0
           /\ heap' = Linking(rest, p, next)
           /\ table' = Sized(table, table.size - 1)
    BY <2>1, <2>2, UnlinkCases
  <2> QED
    BY <2>3 DEF p, next
<1>6. DOMAIN rest = S \ {a} /\ \A x \in S \ {a} : rest[x] = heap[x]
  BY DEF Restrict
<1>7. table.size - 1 = Cardinality(S \ {a}) /\ table.size - 1 \in Nat
  <2>1. IsFiniteSet(S)
    BY <1>2, FS_Subset, TableAssumption
  <2>2. Cardinality(S \ {a}) = Cardinality(S) - 1
    BY <2>1, <1>4, FS_RemoveElement
  <2>3. Cardinality(S \ {a}) \in Nat
    <3>1. IsFiniteSet(S \ {a})
      BY <2>1, FS_RemoveElement
    <3> QED
      BY <3>1, FS_CardinalityType
  <2> QED
    BY <2>2, <2>3
<1>8. /\ DOMAIN heap' = S \ {a}
      /\ \A x \in S \ {a} :
           /\ heap'[x] \in [key : Key, next : Address \cup {Null}]
           /\ heap'[x].key = heap[x].key
           /\ heap'[x].next = IF n > 0 /\ x = c[b][n - 1] THEN c[b][n + 1] ELSE heap[x].next
      /\ IsTable(table')
      /\ table'.size = table.size - 1 /\ table'.capacity = table.capacity
      /\ table'.nodes[b] = IF n = 0 THEN c[b][1] ELSE head
      /\ \A x \in 0 .. table.capacity - 1 : x # b => table'.nodes[x] = table.nodes[x]
  <2>1. CASE n = 0
    <3>1. heap' = rest /\ table' = Updated(table, b, c[b][n + 1], table.size - 1)
      BY <2>1, <1>0
    <3>2. \A x \in S \ {a} : heap[x] \in [key : Key, next : Address \cup {Null}]
      BY DEF Found
    <3>3. /\ IsTable(table')
          /\ table'.size = table.size - 1 /\ table'.capacity = table.capacity
          /\ table'.nodes[b] = c[b][n + 1]
          /\ \A x \in 0 .. table.capacity - 1 : x # b => table'.nodes[x] = table.nodes[x]
      <4> DEFINE z == table.size - 1
                 y == c[b][n + 1]
      <4>1. z \in Nat /\ y \in Address \cup {Null}
        BY <1>4, <1>7
      <4>2. table' = Updated(table, b, y, z)
        BY <3>1
      <4> HIDE DEF y, z
      <4>3. /\ IsTable(table')
            /\ table'.size = z /\ table'.capacity = table.capacity
            /\ table'.nodes[b] = y
            /\ \A x \in 0 .. table.capacity - 1 : x # b => table'.nodes[x] = table.nodes[x]
        BY <4>1, <4>2, UpdatedIs
      <4> QED
        BY <4>3 DEF y, z
    <3> HIDE DEF rest, a, S, head
    <3> QED
      BY <3>1, <3>2, <3>3, <2>1, <1>6
  <2>2. CASE n > 0
    <3> DEFINE p == c[b][n - 1]
               next == c[b][n + 1]
    <3>1. heap' = Linking(rest, p, next) /\ table' = Sized(table, table.size - 1)
      BY <2>2, <1>0
    <3>2. p \in S \ {a}
      <4>1. n - 1 \in Nat /\ (n - 1) + 1 = n /\ n - 1 # n
        BY <2>2
      <4>2. c[b][(n - 1) + 1] = IF p = Null THEN Null ELSE heap[p].next
        BY <1>2, <4>1 DEF InBucket
      <4>3. p # Null
        BY <4>1, <4>2
      <4>4. p # a
        BY <4>1, <4>3, <1>2 DEF InBucket
      <4> QED
        BY <4>1, <4>3, <4>4, <1>3
    <3>3. \A x \in S \ {a} : rest[x] \in [key : Key, next : Address \cup {Null}]
      BY <1>6 DEF Found
    <3>4. next \in Address \cup {Null}
      BY <1>4
    <3> HIDE DEF p, next, rest
    <3>5. /\ DOMAIN heap' = S \ {a}
          /\ heap'[p] = [rest[p] EXCEPT !.next = next]
          /\ \A x \in S \ {a} : x # p => heap'[x] = rest[x]
      BY <3>1, <3>2, <1>6 DEF Linking
    <3>6. [rest[p] EXCEPT !.next = next] \in [key : Key, next : Address \cup {Null}]
          /\ [rest[p] EXCEPT !.next = next].key = rest[p].key
          /\ [rest[p] EXCEPT !.next = next].next = next
      BY <3>2, <3>3, <3>4
    <3>7. \A x \in S \ {a} :
            /\ heap'[x] \in [key : Key, next : Address \cup {Null}]
            /\ heap'[x].key = heap[x].key
            /\ heap'[x].next = IF x = p THEN next ELSE heap[x].next
      BY <3>3, <3>5, <3>6, <1>6
    <3>8. /\ IsTable(table')
          /\ table'.size = table.size - 1 /\ table'.capacity = table.capacity
          /\ table'.nodes = table.nodes
      <4> DEFINE z == table.size - 1
      <4>1. z \in Nat /\ table' = Sized(table, z)
        BY <3>1, <1>7
      <4> HIDE DEF z
      <4>2. table' \in [nodes : [0 .. table.capacity - 1 -> Address \cup {Null}],
                        capacity : Nat \ {0}, size : Nat]
            /\ table'.size = z /\ table'.capacity = table.capacity
            /\ table'.nodes = table.nodes
        BY <4>1 DEF IsTable, Sized
      <4> QED
        BY <4>2 DEF IsTable, z
    <3> QED
      BY <3>5, <3>7, <3>8, <2>2 DEF p, next
  <2> QED
    BY <2>1, <2>2
<1>9. Keyed(heap, S)
  BY IsKeyed
<1>10. Relinked(heap, heap', table.nodes, table'.nodes, table.capacity, S, c[b], b, n)
  BY <1>8 DEF Relinked
<1>11. \E d : Layout(heap', table'.nodes, table.capacity, S \ {a}, d)
  BY <1>1, <1>9, <1>10, LayoutCut
<1>12. Found(heap') /\ \A x \in DOMAIN heap' : heap'[x].key = heap[x].key
  BY <1>8 DEF Found
<1> QED
  BY <1>7, <1>8, <1>11, <1>12 DEF Sound

\* A removal takes one entry of the key, if there is one.
LEMMA RemoveIs ==
    ASSUME Found(heap), IsTable(table), Sound(heap, table, DOMAIN heap),
           NEW key \in Key, Remove(key)
    PROVE  \/ /\ \A a \in DOMAIN heap : heap[a].key # key
              /\ UNCHANGED <<table, heap>>
           \/ \E a \in DOMAIN heap :
                /\ heap[a].key = key
                /\ DOMAIN heap' = DOMAIN heap \ {a}
                /\ \A x \in DOMAIN heap' : heap'[x].key = heap[x].key
                /\ Found(heap') /\ IsTable(table') /\ Sound(heap', table', DOMAIN heap')
<1> DEFINE b == Bucket(table, key)
           hits == Hits(table.nodes[b], key)
<1>1. PICK c : Layout(heap, table.nodes, table.capacity, DOMAIN heap, c)
  BY DEF Sound
<1>2. \/ hits = {} /\ UNCHANGED <<table, heap>>
      \/ hits # {} /\ Unlink(b, table.nodes[b], Min(hits))
  BY DEF Remove
<1>3. table.size = Cardinality(DOMAIN heap)
  BY DEF Sound
<1>4. b = Bucket(table, key) /\ hits = Hits(table.nodes[b], key)
  OBVIOUS
<1> HIDE DEF b, hits
<1>5. /\ b \in 0 .. table.capacity - 1
      /\ hits = {} => \A a \in DOMAIN heap : heap[a].key # key
      /\ hits # {} =>
            /\ Min(hits) \in Nat
            /\ c[b][Min(hits)] \in DOMAIN heap
            /\ c[b][Min(hits)] # Null
            /\ heap[c[b][Min(hits)]].key = key
            /\ Reads(c[b], table.nodes[b], Min(hits))
  BY <1>1, <1>4, HitsAre
<1>6. CASE hits = {}
  BY <1>2, <1>5, <1>6
<1>7. CASE hits # {}
  <2> DEFINE n == Min(hits)
  <2>1. Unlink(b, table.nodes[b], n) /\ n \in Nat /\ c[b][n] # Null
        /\ Reads(c[b], table.nodes[b], n)
    BY <1>2, <1>5, <1>7
  <2> HIDE DEF n
  <2>2. /\ DOMAIN heap' = DOMAIN heap \ {c[b][n]}
        /\ \A x \in DOMAIN heap' : heap'[x].key = heap[x].key
        /\ Found(heap') /\ IsTable(table') /\ Sound(heap', table', DOMAIN heap')
    BY <2>1, <1>1, <1>3, <1>5, UnlinkIs
  <2>3. c[b][n] \in DOMAIN heap /\ heap[c[b][n]].key = key
    BY <1>5, <1>7 DEF n
  <2> QED
    BY <2>2, <2>3
<1> QED
  BY <1>6, <1>7

\* A look-up returns an entry of the key, if there is one.
LEMMA LookupIs ==
    ASSUME Found(heap), IsTable(table), Sound(heap, table, DOMAIN heap),
           NEW key \in Key, Lookup(key)
    PROVE  \/ returned' = Null /\ \A a \in DOMAIN heap : heap[a].key # key
           \/ returned' \in DOMAIN heap /\ heap[returned'].key = key
<1> DEFINE b == Bucket(table, key)
           hits == Hits(table.nodes[b], key)
<1>1. PICK c : Layout(heap, table.nodes, table.capacity, DOMAIN heap, c)
  BY DEF Sound
<1>2. returned' = IF hits = {} THEN Null ELSE Walk(table.nodes[b])[Min(hits)]
  BY DEF Lookup, Called
<1>3. b = Bucket(table, key) /\ hits = Hits(table.nodes[b], key)
  OBVIOUS
<1> HIDE DEF b, hits
<1>4. /\ hits = {} => \A a \in DOMAIN heap : heap[a].key # key
      /\ hits # {} =>
            /\ Min(hits) \in Nat
            /\ c[b][Min(hits)] \in DOMAIN heap
            /\ heap[c[b][Min(hits)]].key = key
            /\ Reads(c[b], table.nodes[b], Min(hits))
  BY <1>1, <1>3, HitsAre
<1> QED
  BY <1>2, <1>4 DEF Reads
-----------------------------------------------------------------------------
\* An iterator that has come to its end has nothing ahead.
LEMMA AheadIs ==
    ASSUME NEW t, IsTable(t), Found(heap), NEW S, S \subseteq DOMAIN heap,
           NEW i, Ahead(heap, t, i, S)
    PROVE  /\ i \in Iterators
           /\ i.node \in Address \cup {Null}
           /\ i = End => S = {} /\ i.node = Null
           /\ i # End => i.node \in S /\ i.node # Null
<1>1. i \in Iterators /\ (i = End \/ i.node \in Address)
  BY DEF Ahead, Within
<1>2. i.node \in Address \cup {Null}
  BY <1>1 DEF Iterators
<1>3. ASSUME i = End PROVE S = {} /\ i.node = Null
  <2>1. Keyed(heap, S)
    BY IsKeyed
  <2>2. S = {}
    BY <1>3, <2>1, EndsWithNone
  <2> QED
    BY <2>2, <1>3 DEF End
<1>4. ASSUME i # End PROVE i.node \in S /\ i.node # Null
  <2>1. i.node \in S
    BY <1>4, LeavesOne
  <2> QED
    BY <2>1, <1>1, <1>4, TableAssumption
<1> QED
  BY <1>1, <1>2, <1>3, <1>4

LEMMA TypesOf ==
    ASSUME Tidy
    PROVE  /\ IsTable(table) /\ IsTable(new) /\ Found(heap) /\ DOMAIN heap \subseteq Address
           /\ at \in Iterators /\ iter \in Iterators /\ seen \subseteq Address
           /\ returned \in Address \cup {Null} /\ pending \in Key \cup {Null}
BY DEF Tidy, TypeOK, Found

\* Each call, and each turn of the loops inside them, keeps the table in order.
LEMMA InsertTidy ==
    ASSUME Tidy, NEW key \in Key, Insert(key)
    PROVE  Tidy'
<1> USE TypesOf
<1>1. /\ returned' \in Address \ DOMAIN heap
      /\ DOMAIN heap' = DOMAIN heap \cup {returned'}
      /\ Found(heap') /\ IsTable(table') /\ Sound(heap', table', DOMAIN heap')
  <2>1. Sound(heap, table, DOMAIN heap)
    BY DEF Tidy, IdleOK, Insert
  <2>2. InsertInto(table, key) /\ DOMAIN heap # Address
    BY DEF Insert
  <2> QED
    BY <2>1, <2>2, InsertIntoIs
<1>2. iter' = End /\ seen' = {} /\ UNCHANGED <<new, at, pending, pc>> /\ pc = "idle"
  BY DEF Insert, Disturbs
<1>3. iter' \in Iterators
  BY <1>2 DEF End, Iterators
<1>4. TypeOK'
  BY <1>1, <1>2, <1>3 DEF TypeOK, Found
<1>5. IdleOK'
  BY <1>1, <1>2 DEF IdleOK
<1> QED
  BY <1>2, <1>4, <1>5 DEF Tidy

LEMMA InsertResizingTidy ==
    ASSUME Tidy, NEW key \in Key, InsertResizing(key)
    PROVE  Tidy'
<1> USE TypesOf
<1> DEFINE cap == table.capacity * 2
<1>1. /\ pc' = "resizing" /\ pending' = key /\ new' = Empty(cap)
      /\ at' = FirstFrom(table, 0) /\ DOMAIN heap # Address
      /\ UNCHANGED <<table, heap, iter, seen, called, returned>>
  BY DEF InsertResizing, calls
<1>2. cap \in Nat \ {0}
  BY DEF IsTable
<1>3. Sound(heap, table, DOMAIN heap)
  BY DEF Tidy, IdleOK, InsertResizing
<1> HIDE DEF cap
<1>4. IsTable(new') /\ Sound(heap, new', {})
  BY <1>1, <1>2, EmptyIs
<1>5. Ahead(heap, table, at', DOMAIN heap)
  BY <1>1, <1>3, StartsWithAll
<1>6. at' \in Iterators
  BY <1>5 DEF Ahead, Within
<1>7. TypeOK'
  BY <1>1, <1>4, <1>6 DEF TypeOK, Found
<1>8. ResizingOK'
  <2>1. DOMAIN heap \in SUBSET DOMAIN heap /\ DOMAIN heap \ DOMAIN heap = {}
    OBVIOUS
  <2> QED
    BY <1>1, <1>4, <1>5, <2>1 DEF ResizingOK
<1> QED
  BY <1>1, <1>7, <1>8 DEF Tidy

LEMMA ResizeStepTidy ==
    ASSUME Tidy, ResizeStep
    PROVE  Tidy'
<1> USE TypesOf
<1> DEFINE a == at.node
           key == heap[a].key
           head == new.nodes[Bucket(new, key)]
<1>1. pc = "resizing" /\ at # End
      /\ at' = NextOf(table, at)
      /\ new' = Linked(new, key, a)
      /\ heap' = [heap EXCEPT ![a].next = head]
      /\ UNCHANGED <<table, pending, pc, iter, seen, called, returned>>
  BY DEF ResizeStep, calls
<1>2. PICK S \in SUBSET DOMAIN heap :
         Sound(heap, new, DOMAIN heap \ S) /\ Ahead(heap, table, at, S)
  BY <1>1 DEF Tidy, ResizingOK
<1>3. a \in S /\ a \in Address
  BY <1>1, <1>2, AheadIs
<1>4. key \in Key
  BY <1>2, <1>3 DEF Found
<1>5. head \in Address \cup {Null}
  <2>1. Bucket(new, key) \in 0 .. new.capacity - 1
    BY <1>3, <1>4, LinkedIs
  <2> QED
    BY <2>1 DEF IsTable
<1>6. /\ DOMAIN heap' = DOMAIN heap
      /\ heap'[a].key = key /\ heap'[a].next = head
      /\ heap'[a] \in [key : Key, next : Address \cup {Null}]
      /\ \A x \in DOMAIN heap : x # a => heap'[x] = heap[x]
  <2>1. a \in DOMAIN heap /\ heap[a] \in [key : Key, next : Address \cup {Null}]
    BY <1>2, <1>3 DEF Found
  <2>2. [heap[a] EXCEPT !.next = head] \in [key : Key, next : Address \cup {Null}]
        /\ [heap[a] EXCEPT !.next = head].key = heap[a].key
        /\ [heap[a] EXCEPT !.next = head].next = head
    BY <2>1, <1>5
  <2> HIDE DEF a, head
  <2>3. DOMAIN heap' = DOMAIN heap /\ heap'[a] = [heap[a] EXCEPT !.next = head]
        /\ \A x \in DOMAIN heap : x # a => heap'[x] = heap[x]
    BY <2>1, <1>1
  <2> QED
    BY <2>2, <2>3
<1>7. Found(heap')
  BY <1>6 DEF Found
<1>8. IsTable(new')
  BY <1>1, <1>3, <1>4, LinkedIs
<1>9. Sound(heap', new', (DOMAIN heap \ S) \cup {a})
  <2> DEFINE T == DOMAIN heap \ S
  <2>1. Keyed(heap, T)
    BY IsKeyed
  <2>2. a \notin T /\ \A x \in T : heap'[x].next = heap[x].next /\ heap'[x].key = heap[x].key
    BY <1>3, <1>6
  <2>3. Sound(heap, new, T) /\ heap'[a].key = key /\ heap'[a].next = new.nodes[Bucket(new, key)]
    BY <1>2, <1>6
  <2> HIDE DEF T, a, key, head
  <2>4. Sound(heap', Linked(new, key, a), T \cup {a})
    BY <2>1, <2>2, <2>3, <1>3, <1>4, SoundLinked
  <2> QED
    BY <2>4, <1>1 DEF T
<1>10. Ahead(heap', table, at', S \ {a})
  <2>1. \A x \in S \ {a} : heap'[x].key = heap[x].key /\ heap'[x].next = heap[x].next
    BY <1>2, <1>6
  <2> QED
    BY <2>1, <1>1, <1>2, LeavesOne
<1>11. at' \in Iterators
  BY <1>10 DEF Ahead, Within
<1>12. TypeOK'
  BY <1>1, <1>6, <1>7, <1>8, <1>11 DEF TypeOK, Found
<1>13. ResizingOK'
  <2> DEFINE T == S \ {a}
  <2>1. T \in SUBSET DOMAIN heap' /\ DOMAIN heap' \ T = (DOMAIN heap \ S) \cup {a}
    BY <1>2, <1>3, <1>6
  <2>2. Sound(heap', new', DOMAIN heap' \ T) /\ Ahead(heap', table', at', T)
    BY <2>1, <1>1, <1>9, <1>10
  <2>3. pending' \in Key /\ DOMAIN heap' # Address
    BY <1>1, <1>6 DEF Tidy, ResizingOK
  <2> HIDE DEF T
  <2> QED
    BY <2>1, <2>2, <2>3 DEF ResizingOK
<1> QED
  BY <1>1, <1>12, <1>13 DEF Tidy

LEMMA ResizedTidy ==
    ASSUME Tidy, Resized
    PROVE  /\ Tidy'
           /\ pending \in Key
           /\ returned' \in Address \ DOMAIN heap
           /\ DOMAIN heap' = DOMAIN heap \cup {returned'}
           /\ \A x \in DOMAIN heap : heap'[x] = heap[x]
           /\ heap'[returned'].key = pending
<1> USE TypesOf
<1>1. pc = "resizing" /\ at = End /\ InsertInto(new, pending) /\ iter' = End /\ seen' = {}
      /\ pc' = "idle" /\ pending' = Null /\ new' = Empty(1) /\ at' = at
  BY DEF Resized, Disturbs
<1>2. pending \in Key /\ DOMAIN heap # Address
  BY <1>1 DEF Tidy, ResizingOK
<1>3. Sound(heap, new, DOMAIN heap)
  <2>1. PICK S \in SUBSET DOMAIN heap :
           Sound(heap, new, DOMAIN heap \ S) /\ Ahead(heap, table, at, S)
    BY <1>1 DEF Tidy, ResizingOK
  <2>2. S = {}
    BY <2>1, <1>1, AheadIs
  <2>3. DOMAIN heap \ S = DOMAIN heap
    BY <2>2
  <2> QED
    BY <2>1, <2>3
<1>4. /\ returned' \in Address \ DOMAIN heap
      /\ DOMAIN heap' = DOMAIN heap \cup {returned'}
      /\ \A x \in DOMAIN heap : heap'[x] = heap[x]
      /\ heap'[returned'].key = pending
      /\ Found(heap') /\ IsTable(table') /\ Sound(heap', table', DOMAIN heap')
  BY <1>1, <1>2, <1>3, InsertIntoIs
<1>5. IsTable(new')
  BY <1>1, EmptyIs
<1>6. iter' \in Iterators
  BY <1>1 DEF End, Iterators
<1>7. TypeOK'
  BY <1>1, <1>4, <1>5, <1>6 DEF TypeOK, Found
<1>8. IdleOK'
  BY <1>1, <1>4 DEF IdleOK
<1>9. Tidy'
  BY <1>1, <1>7, <1>8 DEF Tidy
<1> QED
  BY <1>2, <1>4, <1>9
-----------------------------------------------------------------------------
LEMMA LookupTidy ==
    ASSUME Tidy, NEW key \in Key, Lookup(key)
    PROVE  Tidy'
<1> USE TypesOf
<1>1. pc = "idle" /\ UNCHANGED <<table, new, heap, at, pending, pc, iter, seen>>
  BY DEF Lookup, Called
<1>2. Sound(heap, table, DOMAIN heap)
  BY <1>1 DEF Tidy, IdleOK
<1>3. returned' \in Address \cup {Null}
  BY <1>2, LookupIs
<1>4. TypeOK'
  BY <1>1, <1>3 DEF TypeOK, Found
<1>5. IdleOK'
  BY <1>1 DEF Tidy, IdleOK
<1> QED
  BY <1>1, <1>4, <1>5 DEF Tidy

LEMMA RemoveTidy ==
    ASSUME Tidy, NEW key \in Key, Remove(key)
    PROVE  Tidy'
<1> USE TypesOf
<1>1. pc = "idle" /\ UNCHANGED <<new, at, pending, pc>>
      /\ iter' = End /\ seen' = {} /\ returned' = Null
  BY DEF Remove, Called, Disturbs
<1>2. Sound(heap, table, DOMAIN heap)
  BY <1>1 DEF Tidy, IdleOK
<1>3. DOMAIN heap' \subseteq Address /\ Found(heap') /\ IsTable(table')
      /\ Sound(heap', table', DOMAIN heap')
  BY <1>2, RemoveIs
<1>4. iter' \in Iterators
  BY <1>1 DEF End, Iterators
<1>5. TypeOK'
  BY <1>1, <1>3, <1>4 DEF TypeOK, Found
<1>6. IdleOK'
  BY <1>1, <1>3 DEF IdleOK
<1> QED
  BY <1>1, <1>5, <1>6 DEF Tidy

\* Begin comes to a node if there is one, and Advance to one that is new to it.
LEMMA BeginTidy ==
    ASSUME Tidy, Begin
    PROVE  /\ Tidy'
           /\ iter' = End => DOMAIN heap = {} /\ returned' = Null /\ seen' = {}
           /\ iter' # End => returned' \in DOMAIN heap /\ seen' = {returned'}
<1> USE TypesOf
<1>1. pc = "idle" /\ UNCHANGED <<table, new, heap, at, pending, pc>>
      /\ iter' = FirstFrom(table, 0) /\ returned' = iter'.node /\ seen' = {iter'.node} \ {Null}
  BY DEF Begin, Called
<1>2. Sound(heap, table, DOMAIN heap)
  BY <1>1 DEF Tidy, IdleOK
<1>3. Ahead(heap, table, iter', DOMAIN heap)
  BY <1>1, <1>2, StartsWithAll
<1>4. /\ iter' \in Iterators /\ iter'.node \in Address \cup {Null}
      /\ iter' = End => DOMAIN heap = {} /\ iter'.node = Null
      /\ iter' # End => iter'.node \in DOMAIN heap /\ iter'.node # Null
  BY <1>3, AheadIs
<1>5. TypeOK'
  BY <1>1, <1>4 DEF TypeOK, Found
<1>6. IdleOK'
  <2>1. DOMAIN heap \in SUBSET DOMAIN heap
        /\ (iter' # End => seen' = (DOMAIN heap \ DOMAIN heap) \cup {iter'.node})
    BY <1>1, <1>4
  <2> QED
    BY <2>1, <1>1, <1>2, <1>3 DEF IdleOK
<1>7. Tidy'
  BY <1>1, <1>5, <1>6 DEF Tidy
<1> QED
  BY <1>1, <1>4, <1>7

\* An iteration ends when it has been at every node.
LEMMA AdvanceTidy ==
    ASSUME Tidy, Advance
    PROVE  /\ Tidy'
           /\ iter' = End => seen = DOMAIN heap /\ returned' = Null /\ seen' = seen
           /\ iter' # End =>
                returned' \in DOMAIN heap \ seen /\ seen' = seen \cup {returned'}
<1> USE TypesOf
<1>1. pc = "idle" /\ UNCHANGED <<table, new, heap, at, pending, pc>> /\ iter # End
      /\ iter' = NextOf(table, iter) /\ returned' = iter'.node
      /\ seen' = seen \cup ({iter'.node} \ {Null})
  BY DEF Advance, Called
<1>2. PICK S \in SUBSET DOMAIN heap :
         Ahead(heap, table, iter, S) /\ seen = (DOMAIN heap \ S) \cup {iter.node}
  BY <1>1 DEF Tidy, IdleOK
<1> DEFINE T == S \ {iter.node}
<1>3. iter.node \in S /\ Ahead(heap, table, iter', T)
  BY <1>1, <1>2, LeavesOne
<1>4. T \in SUBSET DOMAIN heap /\ seen = DOMAIN heap \ T
  BY <1>2, <1>3
<1> HIDE DEF T
<1>5. /\ iter' \in Iterators /\ iter'.node \in Address \cup {Null}
      /\ iter' = End => T = {} /\ iter'.node = Null
      /\ iter' # End => iter'.node \in T /\ iter'.node # Null
  BY <1>3, <1>4, AheadIs
<1>6. TypeOK'
  BY <1>1, <1>4, <1>5 DEF TypeOK, Found
<1>7. IdleOK'
  <2>1. iter' # End => seen' = (DOMAIN heap \ T) \cup {iter'.node}
    BY <1>1, <1>4, <1>5
  <2>2. Sound(heap, table, DOMAIN heap)
    BY <1>1 DEF Tidy, IdleOK
  <2> QED
    BY <2>1, <2>2, <1>1, <1>3, <1>4 DEF IdleOK
<1>8. Tidy'
  BY <1>1, <1>6, <1>7 DEF Tidy
<1>9. iter' = End => seen = DOMAIN heap /\ returned' = Null /\ seen' = seen
  BY <1>1, <1>4, <1>5
<1>10. iter' # End => returned' \in DOMAIN heap \ seen /\ seen' = seen \cup {returned'}
  BY <1>1, <1>4, <1>5
<1> QED
  BY <1>8, <1>9, <1>10

LEMMA DestroyTidy ==
    ASSUME Tidy, Destroy
    PROVE  Tidy'
<1> USE TypesOf
<1>1. pc = "idle" /\ pc' = "destroying" /\ UNCHANGED <<table, new, heap, pending>>
      /\ at' = FirstFrom(table, 0) /\ iter' = End /\ seen' = {} /\ returned' = Null
  BY DEF Destroy, Called, Disturbs
<1>2. Sound(heap, table, DOMAIN heap)
  BY <1>1 DEF Tidy, IdleOK
<1>3. Ahead(heap, table, at', DOMAIN heap)
  BY <1>1, <1>2, StartsWithAll
<1>4. at' \in Iterators
  BY <1>3 DEF Ahead, Within
<1>5. iter' \in Iterators
  BY <1>1 DEF End, Iterators
<1>6. TypeOK'
  BY <1>1, <1>4, <1>5 DEF TypeOK, Found
<1> QED
  BY <1>1, <1>3, <1>6 DEF Tidy

LEMMA DestroyStepTidy ==
    ASSUME Tidy, DestroyStep
    PROVE  Tidy'
<1> USE TypesOf
<1>1. pc = "destroying" /\ at # End /\ at' = NextOf(table, at)
      /\ heap' = Restrict(heap, DOMAIN heap \ {at.node})
      /\ UNCHANGED <<table, new, pending, pc, iter, seen, called, returned>>
  BY DEF DestroyStep, calls
<1>2. Ahead(heap, table, at, DOMAIN heap)
  BY <1>1 DEF Tidy
<1>3. DOMAIN heap' = DOMAIN heap \ {at.node} /\ \A x \in DOMAIN heap' : heap'[x] = heap[x]
  BY <1>1 DEF Restrict
<1>4. \A x \in DOMAIN heap \ {at.node} : heap'[x].key = heap[x].key /\ heap'[x].next = heap[x].next
  BY <1>3
<1>5. Ahead(heap', table, at', DOMAIN heap')
  <2>1. Ahead(heap', table, NextOf(table, at), DOMAIN heap \ {at.node})
    BY <1>1, <1>2, <1>4, LeavesOne
  <2> QED
    BY <2>1, <1>1, <1>3
<1>6. at' \in Iterators
  BY <1>5 DEF Ahead, Within
<1>7. TypeOK'
  BY <1>1, <1>3, <1>6 DEF TypeOK, Found
<1> QED
  BY <1>1, <1>5, <1>7 DEF Tidy

LEMMA DestroyedTidy ==
    ASSUME Tidy, Destroyed
    PROVE  Tidy'
<1>1. pc' = "destroyed" /\ UNCHANGED <<table, new, heap, at, pending, iter, seen, called, returned>>
  BY DEF Destroyed, calls
<1>2. TypeOK'
  BY <1>1 DEF Tidy, TypeOK
<1> QED
  BY <1>1, <1>2 DEF Tidy

LEMMA NextTidy == Tidy /\ [Next]_vars => Tidy'
<1> SUFFICES ASSUME Tidy, [Next]_vars PROVE Tidy'
  OBVIOUS
<1>1. ASSUME NEW key \in Key, Insert(key) PROVE Tidy'
  BY <1>1, InsertTidy
<1>2. ASSUME NEW key \in Key, InsertResizing(key) PROVE Tidy'
  BY <1>2, InsertResizingTidy
<1>3. ASSUME NEW key \in Key, Lookup(key) PROVE Tidy'
  BY <1>3, LookupTidy
<1>4. ASSUME NEW key \in Key, Remove(key) PROVE Tidy'
  BY <1>4, RemoveTidy
<1>5. ASSUME UNCHANGED vars PROVE Tidy'
  BY <1>5 DEF vars, Tidy, TypeOK, IdleOK, ResizingOK
<1> QED
  BY <1>1, <1>2, <1>3, <1>4, <1>5, BeginTidy, AdvanceTidy, DestroyTidy,
     ResizeStepTidy, ResizedTidy, DestroyStepTidy, DestroyedTidy DEF Next, Turn

\* What is filed is in order at every moment, also while the nodes are moved.
THEOREM StaysTidy == Spec => []Tidy
BY InitTidy, NextTidy, PTL DEF Spec

\* The variables keep their types.
THEOREM TypesCorrect == Spec => []TypeOK
<1>1. Tidy => TypeOK
  BY DEF Tidy
<1> QED
  BY <1>1, StaysTidy, PTL
-----------------------------------------------------------------------------
\* What Intact says, from the layouts of the invariant.
LEMMA ChainsHold ==
    ASSUME NEW t, IsTable(t), Found(heap), NEW S, S \subseteq DOMAIN heap, Sound(heap, t, S)
    PROVE  Chains(t, S)
<1>1. t.capacity \in Nat \ {0} /\ Keyed(heap, S) /\ t.size = Cardinality(S)
  BY IsKeyed DEF IsTable, Sound
<1>2. PICK c : Layout(heap, t.nodes, t.capacity, S, c)
  BY DEF Sound
<1>3. /\ S = UNION {Chain(t.nodes[b]) : b \in 0 .. t.capacity - 1}
      /\ \A b \in 0 .. t.capacity - 1 :
           /\ Cardinality(Chain(t.nodes[b])) =
                Cardinality({n \in DOMAIN Walk(t.nodes[b]) : Walk(t.nodes[b])[n] # Null})
           /\ \A a \in Chain(t.nodes[b]) : Place(heap, t.capacity, a) = b
  BY <1>1, <1>2, ChainsOfLayout
<1> QED
  BY <1>1, <1>3 DEF Chains, Place, Bucket

LEMMA RemainingIs ==
    ASSUME Tidy, NEW S, S \subseteq DOMAIN heap, Ahead(heap, table, at, S)
    PROVE  Remaining = S
<1> USE TypesOf
<1> DEFINE heads == Rest(table, at)
           cap == table.capacity
<1>1. cap \in Nat \ {0} /\ Keyed(heap, S)
  BY IsKeyed DEF IsTable
<1>2. PICK c : Layout(heap, heads, cap, S, c)
  BY DEF Ahead
<1>3. S = UNION {Chain(heads[b]) : b \in 0 .. cap - 1}
  <2> HIDE DEF heads, cap
  <2> QED
    BY <1>1, <1>2, ChainsOfLayout
<1>4. CASE at = End
  BY <1>4, AheadIs DEF Remaining
<1>5. CASE at # End
  <2> DEFINE B == at.bucket
  <2>1. B \in 0 .. cap - 1 /\ at.node \in Address
    BY <1>5 DEF Ahead, Within
  <2>2. /\ heads[B] = at.node
        /\ \A b \in B + 1 .. cap - 1 : b \in 0 .. cap - 1 /\ heads[b] = table.nodes[b]
        /\ \A b \in 0 .. cap - 1 : b < B => heads[b] = Null
    BY <1>1, <1>5, <2>1 DEF Rest
  <2>3. \A b \in 0 .. cap - 1 : b < B \/ b = B \/ b \in B + 1 .. cap - 1
    BY <1>1, <2>1
  <2>4. Remaining = Chain(at.node) \cup UNION {Chain(table.nodes[b]) : b \in B + 1 .. cap - 1}
    BY <1>5 DEF Remaining
  <2>5. Chain(Null) = {}
    <3> DEFINE none == [n \in Nat |-> Null]
    <3>1. none[0] = Null /\ Nodes(none) = {}
      BY DEF Nodes
    <3>2. Chained(heap, none)
      BY DEF Chained
    <3> HIDE DEF none
    <3> QED
      BY <3>1, <3>2, ChainIs
  <2> HIDE DEF heads, B, cap
  <2>6. ASSUME NEW a \in S PROVE a \in Remaining
    <3>1. PICK b \in 0 .. cap - 1 : a \in Chain(heads[b])
      BY <1>3
    <3>2. CASE b < B
      BY <3>1, <3>2, <2>2, <2>5
    <3>3. CASE b = B
      BY <3>1, <3>3, <2>2, <2>4
    <3>4. CASE b \in B + 1 .. cap - 1
      BY <3>1, <3>4, <2>2, <2>4
    <3> QED
      BY <3>2, <3>3, <3>4, <2>3
  <2>7. ASSUME NEW a \in Remaining PROVE a \in S
    <3>1. CASE a \in Chain(at.node)
      BY <3>1, <2>1, <2>2, <1>3
    <3>2. CASE \E b \in B + 1 .. cap - 1 : a \in Chain(table.nodes[b])
      BY <3>2, <2>2, <1>3
    <3> QED
      BY <3>1, <3>2, <2>4, <2>7
  <2> QED
    BY <2>6, <2>7
<1> QED
  BY <1>4, <1>5

LEMMA TidyIntact == Tidy => Intact
<1> SUFFICES ASSUME Tidy PROVE Intact
  OBVIOUS
<1> USE TypesOf
<1>1. ASSUME pc = "idle" PROVE Chains(table, DOMAIN heap)
  BY <1>1, ChainsHold DEF Tidy, IdleOK
<1>2. ASSUME pc = "resizing"
      PROVE  Chains(new, DOMAIN heap \ Remaining) /\ Remaining \subseteq DOMAIN heap
  <2>1. PICK S \in SUBSET DOMAIN heap :
           Sound(heap, new, DOMAIN heap \ S) /\ Ahead(heap, table, at, S)
    BY <1>2 DEF Tidy, ResizingOK
  <2>2. Remaining = S
    BY <2>1, RemainingIs
  <2>3. Chains(new, DOMAIN heap \ S)
    BY <2>1, ChainsHold
  <2> QED
    BY <2>1, <2>2, <2>3
<1>3. ASSUME pc = "destroying" PROVE DOMAIN heap = Remaining
  BY <1>3, RemainingIs DEF Tidy
<1> QED
  BY <1>1, <1>2, <1>3 DEF Intact

\* No node is lost, shared or filed under the wrong bucket.
THEOREM StaysIntact == Spec => []Intact
BY TidyIntact, StaysTidy, PTL
-----------------------------------------------------------------------------
Entries(h) == [a \in DOMAIN h |-> h[a].key]

LEMMA InitMap == Init => Map!MapInit
<1> SUFFICES ASSUME Init PROVE Map!MapInit
  OBVIOUS
<1>1. heap = <<>> /\ pc = "idle" /\ seen = {} /\ called = <<"create">> /\ returned = Null
  BY DEF Init
<1>2. Entries(<<>>) = <<>>
  BY DEF Entries
<1> QED
  BY <1>1, <1>2 DEF Map!MapInit, Entries

\* The entries of the table as Map sees them.
Shown == IF pc \in {"destroying", "destroyed"} THEN <<>>
         ELSE [a \in DOMAIN heap |-> heap[a].key]

LEMMA ShownIs ==
    ASSUME pc \in {"idle", "resizing"}
    PROVE  DOMAIN Shown = DOMAIN heap /\ \A a \in DOMAIN heap : Shown[a] = heap[a].key
BY DEF Shown

\* Each call is the call of the multimap with the same result.
LEMMA InsertedMap ==
    ASSUME pc \in {"idle", "resizing"}, pc' = "idle", NEW key \in Key,
           returned' \in Address \ DOMAIN heap,
           DOMAIN heap' = DOMAIN heap \cup {returned'},
           \A x \in DOMAIN heap : heap'[x] = heap[x],
           heap'[returned'].key = key,
           called' = <<"insert", key>>, seen' = {}
    PROVE  Map!MapInsert(key)
<1>1. Shown' = [x \in DOMAIN Shown \cup {returned'} |->
                  IF x = returned' THEN key ELSE Shown[x]]
  <2>1. Shown' = [a \in DOMAIN heap' |-> heap'[a].key]
    BY DEF Shown
  <2> QED
    BY <2>1, ShownIs
<1>2. returned' \in Address \ DOMAIN Shown
  BY ShownIs
<1> QED
  BY <1>1, <1>2 DEF Shown, Map!MapInsert, Map!Calls

LEMMA LookupMap ==
    ASSUME Tidy, NEW key \in Key, Lookup(key)
    PROVE  Map!MapLookup(key)
<1> USE TypesOf
<1>1. pc = "idle" /\ called' = <<"lookup", key>>
      /\ UNCHANGED <<table, new, heap, at, pending, pc, iter, seen>>
  BY DEF Lookup, Called
<1>2. Sound(heap, table, DOMAIN heap)
  BY <1>1 DEF Tidy, IdleOK
<1>3. \/ returned' = Null /\ \A a \in DOMAIN heap : heap[a].key # key
      \/ returned' \in DOMAIN heap /\ heap[returned'].key = key
  BY <1>2, LookupIs
<1>4. \/ returned' = Null /\ {h \in DOMAIN Shown : Shown[h] = key} = {}
      \/ returned' \in {h \in DOMAIN Shown : Shown[h] = key}
  BY <1>1, <1>3, ShownIs
<1>5. Shown' = Shown
  BY <1>1 DEF Shown
<1> QED
  BY <1>1, <1>4, <1>5 DEF Shown, Map!MapLookup, Map!Calls, Map!Of

LEMMA RemoveMap ==
    ASSUME Tidy, NEW key \in Key, Remove(key)
    PROVE  Map!MapRemove(key)
<1> USE TypesOf
<1>1. pc = "idle" /\ pc' = "idle" /\ called' = <<"remove", key>> /\ returned' = Null /\ seen' = {}
  BY DEF Remove, Called, Disturbs
<1>2. Sound(heap, table, DOMAIN heap)
  BY <1>1 DEF Tidy, IdleOK
<1>3. \/ /\ \A a \in DOMAIN heap : heap[a].key # key
         /\ UNCHANGED <<table, heap>>
      \/ \E a \in DOMAIN heap :
           /\ heap[a].key = key
           /\ DOMAIN heap' = DOMAIN heap \ {a}
           /\ \A x \in DOMAIN heap' : heap'[x].key = heap[x].key
  BY <1>2, RemoveIs
<1>4. \/ {h \in DOMAIN Shown : Shown[h] = key} = {} /\ Shown' = Shown
      \/ \E a \in {h \in DOMAIN Shown : Shown[h] = key} :
           Shown' = [x \in DOMAIN Shown \ {a} |-> Shown[x]]
  <2>1. CASE (\A a \in DOMAIN heap : heap[a].key # key) /\ heap' = heap
    <3>1. Shown' = Shown
      BY <2>1, <1>1 DEF Shown
    <3> QED
      BY <2>1, <3>1, <1>1, ShownIs
  <2>2. ASSUME NEW a \in DOMAIN heap, heap[a].key = key, DOMAIN heap' = DOMAIN heap \ {a},
               \A x \in DOMAIN heap' : heap'[x].key = heap[x].key
        PROVE  /\ a \in {h \in DOMAIN Shown : Shown[h] = key}
               /\ Shown' = [x \in DOMAIN Shown \ {a} |-> Shown[x]]
    <3>1. Shown' = [x \in DOMAIN heap' |-> heap'[x].key]
      BY <1>1 DEF Shown
    <3> QED
      BY <3>1, <2>2, <1>1, ShownIs
  <2> QED
    BY <2>1, <2>2, <1>3
<1> QED
  BY <1>1, <1>4 DEF Shown, Map!MapRemove, Map!Calls, Map!Of

LEMMA BeginMap ==
    ASSUME Tidy, Begin
    PROVE  Map!MapVisit("begin", {})
<1>1. pc = "idle" /\ UNCHANGED <<heap, pc>> /\ called' = <<"begin">>
  BY DEF Begin, Called
<1>2. \/ DOMAIN heap = {} /\ returned' = Null /\ seen' = {}
      \/ returned' \in DOMAIN heap /\ seen' = {returned'}
  BY BeginTidy
<1>3. \/ DOMAIN Shown = {} /\ returned' = Null /\ seen' = {}
      \/ returned' \in DOMAIN Shown \ {} /\ seen' = {} \cup {returned'}
  BY <1>1, <1>2, ShownIs
<1>4. Shown' = Shown
  BY <1>1 DEF Shown
<1> QED
  BY <1>1, <1>3, <1>4 DEF Shown, Map!MapVisit, Map!Calls

LEMMA AdvanceMap ==
    ASSUME Tidy, Advance
    PROVE  Map!MapVisit("next", seen)
<1>1. pc = "idle" /\ UNCHANGED <<heap, pc>> /\ called' = <<"next">>
  BY DEF Advance, Called
<1>2. \/ seen = DOMAIN heap /\ returned' = Null /\ seen' = seen
      \/ returned' \in DOMAIN heap \ seen /\ seen' = seen \cup {returned'}
  BY AdvanceTidy
<1>3. \/ seen = DOMAIN Shown /\ returned' = Null /\ seen' = seen
      \/ returned' \in DOMAIN Shown \ seen /\ seen' = seen \cup {returned'}
  BY <1>1, <1>2, ShownIs
<1>4. Shown' = Shown
  BY <1>1 DEF Shown
<1> QED
  BY <1>1, <1>3, <1>4 DEF Shown, Map!MapVisit, Map!Calls

\* The turns of the loops show nothing.
LEMMA QuietMap ==
    ASSUME Shown' = Shown, UNCHANGED <<seen, called, returned>>,
           (pc' \notin {"destroying", "destroyed"}) = (pc \notin {"destroying", "destroyed"})
    PROVE  UNCHANGED Map!mapVars
BY DEF Map!mapVars, Shown

LEMMA NextMap == Tidy /\ [Next]_vars => [Map!MapNext]_Map!mapVars
<1> SUFFICES ASSUME Tidy, [Next]_vars PROVE [Map!MapNext]_Map!mapVars
  OBVIOUS
<1> USE TypesOf
<1>1. ASSUME NEW key \in Key, Insert(key) PROVE Map!MapInsert(key)
  <2>1. InsertInto(table, key) /\ DOMAIN heap # Address /\ Sound(heap, table, DOMAIN heap)
        /\ pc = "idle" /\ pc' = "idle" /\ seen' = {}
    BY <1>1 DEF Insert, Disturbs, Tidy, IdleOK
  <2>2. /\ returned' \in Address \ DOMAIN heap
        /\ DOMAIN heap' = DOMAIN heap \cup {returned'}
        /\ \A x \in DOMAIN heap : heap'[x] = heap[x]
        /\ heap'[returned'].key = key
    BY <2>1, InsertIntoIs
  <2>3. called' = <<"insert", key>>
    BY <2>1 DEF InsertInto
  <2> QED
    BY <2>1, <2>2, <2>3, InsertedMap
<1>2. ASSUME NEW key \in Key, InsertResizing(key) PROVE UNCHANGED Map!mapVars
  BY <1>2, QuietMap DEF InsertResizing, calls, Shown
<1>3. ASSUME ResizeStep PROVE UNCHANGED Map!mapVars
  <2>1. pc = "resizing" /\ pc' = "resizing" /\ UNCHANGED <<seen, called, returned>>
    BY <1>3 DEF ResizeStep, calls
  <2>2. DOMAIN heap' = DOMAIN heap /\ \A x \in DOMAIN heap : heap'[x].key = heap[x].key
    <3> DEFINE head == new.nodes[Bucket(new, heap[at.node].key)]
    <3>1. heap' = [heap EXCEPT ![at.node].next = head]
      BY <1>3 DEF ResizeStep
    <3>2. \A x \in DOMAIN heap : heap[x] \in [key : Key, next : Address \cup {Null}]
      BY DEF Found
    <3> HIDE DEF head
    <3> QED
      BY <3>1, <3>2
  <2>3. Shown' = Shown
    BY <2>1, <2>2 DEF Shown
  <2> QED
    BY <2>1, <2>3, QuietMap
<1>4. ASSUME Resized PROVE \E key \in Key : Map!MapInsert(key)
  <2>1. PICK key \in Key : key = pending
    BY <1>4, ResizedTidy
  <2>2. pc = "resizing" /\ pc' = "idle" /\ called' = <<"insert", key>> /\ seen' = {}
    BY <1>4, <2>1 DEF Resized, Disturbs, InsertInto
  <2>3. /\ returned' \in Address \ DOMAIN heap
        /\ DOMAIN heap' = DOMAIN heap \cup {returned'}
        /\ \A x \in DOMAIN heap : heap'[x] = heap[x]
        /\ heap'[returned'].key = key
    BY <1>4, <2>1, ResizedTidy
  <2>4. Map!MapInsert(key)
    BY <2>2, <2>3, InsertedMap
  <2> QED
    BY <2>4
<1>5. ASSUME NEW key \in Key, Lookup(key) PROVE Map!MapLookup(key)
  BY <1>5, LookupMap
<1>6. ASSUME NEW key \in Key, Remove(key) PROVE Map!MapRemove(key)
  BY <1>6, RemoveMap
<1>7. ASSUME Destroy PROVE Map!MapDestroy
  BY <1>7 DEF Destroy, Disturbs, Called, Map!MapDestroy, Map!Calls
<1>8. ASSUME DestroyStep \/ Destroyed PROVE UNCHANGED Map!mapVars
  <2>1. pc \in {"destroying", "destroyed"} /\ pc' \in {"destroying", "destroyed"}
        /\ UNCHANGED <<seen, called, returned>>
    BY <1>8 DEF DestroyStep, Destroyed, calls
  <2>2. Shown' = Shown
    BY <2>1 DEF Shown
  <2> QED
    BY <2>1, <2>2, QuietMap
<1>9. ASSUME UNCHANGED vars PROVE UNCHANGED Map!mapVars
  BY <1>9 DEF vars, Map!mapVars
<1> QED
  BY <1>1, <1>2, <1>3, <1>4, <1>5, <1>6, <1>7, <1>8, <1>9, BeginMap, AdvanceMap
     DEF Next, Turn, Map!MapNext

\* The table is a multimap: look-ups, iterations and removals see every entry that
\* is in it, through every resizing.
THEOREM IsMultimap == Spec => ImplementsMultimap
BY InitTidy, InitMap, NextTidy, NextMap, PTL DEF Spec, ImplementsMultimap, Map!MapSpec

=============================================================================
