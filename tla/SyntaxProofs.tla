---------------------------- MODULE SyntaxProofs ----------------------------
(***************************************************************************)
(* Theorems about Syntax.tla, for every program of calls that C's types    *)
(* allow: the nodes and cells are typed, each of them is referred to once  *)
(* while a tree is built and used, and pgc_syn_free releases each of them  *)
(* once.                                                                   *)
(*                                                                         *)
(* The memory is a forest whose roots are what the program holds.  A new   *)
(* object takes roots and becomes one (Grow); a step of pgc_ast_rev or     *)
(* pgc_ast_cat moves one pointer to a root that the cell is not below      *)
(* (Relink); pgc_syn_free takes a root away, and what it owned become      *)
(* roots (Uproot).  Nothing in a forest is shared, and nothing is lost.    *)
(***************************************************************************)
EXTENDS Syntax, FiniteSetTheorems, SequenceTheorems, TLAPS

Fields == {"val", "nxt", "lst"}
ListTags == PairTags \cup {"DEC", "SRC"}

\* The pointers of a memory h: a has x in its field f.
Edge(h, a, f, x) ==
    /\ a \in DOMAIN h /\ x \in DOMAIN h
    /\ f \in Fields /\ f \in DOMAIN h[a] /\ h[a][f] = x
Owner(h, x) == \E a, f : Edge(h, a, f, x)

\* The memory is trees and lists with the roots X: everything else has one owner,
\* and nothing owns itself in the end.
Rootless(h, S) == \A x \in S : \E a \in S : \E f : Edge(h, a, f, x)
Forest(h, X) ==
    /\ \A x \in DOMAIN h : x \in X \/ Owner(h, x)
    /\ \A x \in X : x \in DOMAIN h /\ ~Owner(h, x)
    /\ \A x, a, b, f, g : Edge(h, a, f, x) /\ Edge(h, b, g, x) => a = b /\ f = g
    /\ \A S : S \subseteq DOMAIN h /\ Rootless(h, S) => S = {}

\* What the objects are, and what they may point to.
IsLeaf(o) == DOMAIN o = {"tag", "data"} /\ o.tag \in LeafTags
IsList(o) == DOMAIN o = {"tag", "lst"} /\ o.tag \in ListTags
IsCell(o) == DOMAIN o = {"val", "nxt"}
TreePtr(h, x) == x \in DOMAIN h /\ (IsLeaf(h[x]) \/ IsList(h[x]))
ListPtr(h, x) == x = NULL \/ (x \in DOMAIN h /\ IsCell(h[x]))
ObjectOK(h, o) ==
    \/ IsLeaf(o)
    \/ IsList(o) /\ ListPtr(h, o.lst)
    \/ IsCell(o) /\ TreePtr(h, o.val) /\ ListPtr(h, o.nxt)
Shape(h) == NULL \notin DOMAIN h /\ \A a \in DOMAIN h : ObjectOK(h, h[a])

Put(h, n, o) == [a \in DOMAIN h \cup {n} |-> IF a = n THEN o ELSE h[a]]

LEMMA Kinds ==
    ASSUME NEW o
    PROVE  /\ ~(IsLeaf(o) /\ IsCell(o)) /\ ~(IsList(o) /\ IsCell(o)) /\ ~(IsLeaf(o) /\ IsList(o))
           /\ IsLeaf(o) => \A f \in Fields : f \notin DOMAIN o
           /\ IsList(o) => \A f \in Fields : f \in DOMAIN o <=> f = "lst"
           /\ IsCell(o) => \A f \in Fields : f \in DOMAIN o <=> f \in {"val", "nxt"}
<1>1. "val" \notin {"tag", "data"} /\ "nxt" \notin {"tag", "data"} /\ "lst" \notin {"tag", "data"}
      /\ "val" \notin {"tag", "lst"} /\ "nxt" \notin {"tag", "lst"} /\ "lst" \in {"tag", "lst"}
      /\ "val" \in {"val", "nxt"} /\ "nxt" \in {"val", "nxt"} /\ "lst" \notin {"val", "nxt"}
      /\ "tag" \notin {"val", "nxt"}
  OBVIOUS
<1>2. {"tag", "data"} # {"tag", "lst"} /\ {"tag", "data"} # {"val", "nxt"}
      /\ {"tag", "lst"} # {"val", "nxt"}
  BY <1>1, Zenon
<1> QED
  BY <1>1, <1>2, Zenon DEF IsLeaf, IsList, IsCell, Fields

\* The edges of a memory, by what the objects are.
LEMMA EdgeKinds ==
    ASSUME NEW h, Shape(h), NEW a, NEW f, NEW x, Edge(h, a, f, x)
    PROVE  \/ IsCell(h[a]) /\ f = "val" /\ h[a].val = x /\ ~IsCell(h[x])
           \/ IsCell(h[a]) /\ f = "nxt" /\ h[a].nxt = x /\ IsCell(h[x])
           \/ IsList(h[a]) /\ f = "lst" /\ h[a].lst = x /\ IsCell(h[x])
<1>1. a \in DOMAIN h /\ x \in DOMAIN h /\ f \in Fields /\ f \in DOMAIN h[a] /\ h[a][f] = x
      /\ ObjectOK(h, h[a]) /\ x # NULL
  BY Zenon DEF Edge, Shape
<1>2. CASE IsLeaf(h[a])
  BY <1>1, <1>2, Kinds, Zenon
<1>3. CASE IsList(h[a]) /\ ListPtr(h, h[a].lst)
  <2>1. f = "lst"
    BY <1>1, <1>3, Kinds, Zenon
  <2> QED
    BY <1>1, <1>3, <2>1, Zenon DEF ListPtr
<1>4. CASE IsCell(h[a]) /\ TreePtr(h, h[a].val) /\ ListPtr(h, h[a].nxt)
  <2>1. f \in {"val", "nxt"}
    BY <1>1, <1>4, Kinds, Zenon
  <2>2. CASE f = "val"
    BY <1>1, <1>4, <2>2, Kinds, Zenon DEF TreePtr
  <2>3. CASE f = "nxt"
    BY <1>1, <1>4, <2>3, Zenon DEF ListPtr
  <2> QED
    BY <2>1, <2>2, <2>3, Zenon
<1> QED
  BY <1>1, <1>2, <1>3, <1>4, Zenon DEF ObjectOK

LEMMA Edges ==
    ASSUME NEW h, Shape(h), NEW a \in DOMAIN h
    PROVE  /\ IsCell(h[a]) => /\ Edge(h, a, "val", h[a].val)
                              /\ h[a].nxt # NULL => Edge(h, a, "nxt", h[a].nxt)
           /\ IsList(h[a]) /\ h[a].lst # NULL => Edge(h, a, "lst", h[a].lst)
<1>1. ObjectOK(h, h[a])
  BY DEF Shape
<1>2. ASSUME IsCell(h[a])
      PROVE  /\ Edge(h, a, "val", h[a].val)
             /\ h[a].nxt # NULL => Edge(h, a, "nxt", h[a].nxt)
  <2>1. TreePtr(h, h[a].val) /\ ListPtr(h, h[a].nxt)
    BY <1>1, <1>2, Kinds, Zenon DEF ObjectOK
  <2>2. "val" \in DOMAIN h[a] /\ "nxt" \in DOMAIN h[a] /\ "val" \in Fields /\ "nxt" \in Fields
    BY <1>2 DEF IsCell, Fields
  <2> QED
    BY <2>1, <2>2, Zenon DEF Edge, TreePtr, ListPtr
<1>3. ASSUME IsList(h[a]), h[a].lst # NULL
      PROVE  Edge(h, a, "lst", h[a].lst)
  <2>1. ListPtr(h, h[a].lst)
    BY <1>1, <1>3, Kinds, Zenon DEF ObjectOK
  <2>2. "lst" \in DOMAIN h[a] /\ "lst" \in Fields
    BY <1>3 DEF IsList, Fields
  <2> QED
    BY <1>3, <2>1, <2>2, Zenon DEF Edge, ListPtr
<1> QED
  BY <1>2, <1>3, Zenon

\* A new object takes some of the roots and is one.
LEMMA PutEdges ==
    ASSUME NEW h, Shape(h), NEW n, n \notin DOMAIN h, n # NULL, NEW o, ObjectOK(h, o)
    PROVE  /\ Shape(Put(h, n, o))
           /\ \A a, f, x : Edge(Put(h, n, o), a, f, x) <=>
                 \/ Edge(h, a, f, x)
                 \/ a = n /\ x \in DOMAIN h /\ f \in Fields /\ f \in DOMAIN o /\ o[f] = x
<1> DEFINE h2 == Put(h, n, o)
<1>1. DOMAIN h2 = DOMAIN h \cup {n} /\ h2[n] = o /\ \A a \in DOMAIN h : h2[a] = h[a]
  BY DEF Put
<1> HIDE DEF h2
<1>2. \A x : TreePtr(h, x) => TreePtr(h2, x)
  BY <1>1, Zenon DEF TreePtr
<1>3. \A x : ListPtr(h, x) => ListPtr(h2, x)
  BY <1>1, Zenon DEF ListPtr
<1>4. \A p : ObjectOK(h, p) => ObjectOK(h2, p)
  BY <1>2, <1>3, Zenon DEF ObjectOK
<1>5. Shape(h2)
  BY <1>1, <1>4, Zenon DEF Shape
\* Nothing points to a place where there was nothing.
<1>6. ASSUME NEW p, ObjectOK(h, p), NEW f \in Fields, f \in DOMAIN p
      PROVE  p[f] # n
  <2>1. CASE IsLeaf(p)
    BY <1>6, <2>1, Kinds, Zenon
  <2>2. CASE IsList(p) /\ ListPtr(h, p.lst)
    <3>1. f = "lst"
      BY <1>6, <2>2, Kinds, Zenon
    <3> QED
      BY <2>2, <3>1, Zenon DEF ListPtr
  <2>3. CASE IsCell(p) /\ TreePtr(h, p.val) /\ ListPtr(h, p.nxt)
    <3>1. f = "val" \/ f = "nxt"
      BY <1>6, <2>3, Kinds, Zenon
    <3> QED
      BY <2>3, <3>1, Zenon DEF ListPtr, TreePtr
  <2> QED
    BY <1>6, <2>1, <2>2, <2>3, Zenon DEF ObjectOK
<1>7. ASSUME NEW a, NEW f, NEW x
      PROVE  Edge(h2, a, f, x) <=>
                     \/ Edge(h, a, f, x)
                     \/ a = n /\ x \in DOMAIN h /\ f \in Fields /\ f \in DOMAIN o /\ o[f] = x
  <2>1. CASE a = n
    <3>1. Edge(h2, n, f, x) <=> x \in DOMAIN h2 /\ f \in Fields /\ f \in DOMAIN o /\ o[f] = x
      BY <1>1, Zenon DEF Edge
    <3>2. f \in Fields /\ f \in DOMAIN o /\ o[f] = x => x # n
      BY <1>6, Zenon
    <3>3. ~Edge(h, n, f, x)
      BY Zenon DEF Edge
    <3> QED
      BY <1>1, <2>1, <3>1, <3>2, <3>3, Zenon
  <2>2. CASE a # n
    <3>1. ASSUME a \in DOMAIN h, f \in Fields, f \in DOMAIN h[a], h[a][f] = x
          PROVE  x # n
      BY <1>6, <3>1, Zenon DEF Shape
    <3> QED
      BY <1>1, <2>2, <3>1, Zenon DEF Edge
  <2> QED
    BY <2>1, <2>2, Zenon
<1> QED
  BY <1>5, <1>7, Zenon DEF h2

LEMMA Grow ==
    ASSUME NEW h, NEW X, Shape(h), Forest(h, X), NEW n, n \notin DOMAIN h, n # NULL,
           NEW o, ObjectOK(h, o), NEW T, T \subseteq X,
           \A x \in DOMAIN h : x \in T <=> \E f \in Fields : f \in DOMAIN o /\ o[f] = x,
           \A f, g \in Fields : f \in DOMAIN o /\ g \in DOMAIN o /\ o[f] \in T /\ o[f] = o[g] => f = g
    PROVE  Shape(Put(h, n, o)) /\ Forest(Put(h, n, o), (X \ T) \cup {n})
<1> DEFINE h2 == Put(h, n, o)
           X2 == (X \ T) \cup {n}
<1>1. DOMAIN h2 = DOMAIN h \cup {n}
  BY DEF Put
<1>2. Shape(h2) /\ \A a, f, x : Edge(h2, a, f, x) <=>
                     \/ Edge(h, a, f, x)
                     \/ a = n /\ x \in DOMAIN h /\ f \in Fields /\ f \in DOMAIN o /\ o[f] = x
  BY PutEdges, Zenon
<1> HIDE DEF h2
<1>3. /\ \A x \in DOMAIN h : x \in X \/ Owner(h, x)
      /\ \A x \in X : x \in DOMAIN h /\ ~Owner(h, x)
      /\ \A x, a, b, f, g : Edge(h, a, f, x) /\ Edge(h, b, g, x) => a = b /\ f = g
      /\ \A S : S \subseteq DOMAIN h /\ Rootless(h, S) => S = {}
  BY Zenon DEF Forest
<1>4. \A x \in DOMAIN h : Owner(h2, x) <=> Owner(h, x) \/ x \in T
  BY <1>2, Zenon DEF Owner
<1>5. ~Owner(h2, n)
  BY <1>2, Zenon DEF Owner, Edge
<1>6. \A x \in DOMAIN h2 : x \in X2 \/ Owner(h2, x)
  BY <1>1, <1>3, <1>4, Zenon
<1>7. \A x \in X2 : x \in DOMAIN h2 /\ ~Owner(h2, x)
  BY <1>1, <1>3, <1>4, <1>5, Zenon
<1>8. ASSUME NEW x, NEW a, NEW b, NEW f, NEW g, Edge(h2, a, f, x), Edge(h2, b, g, x)
      PROVE  a = b /\ f = g
  <2>1. CASE x \in T
    <3>1. ~Owner(h, x)
      BY <1>3, <2>1, Zenon
    <3>2. ~Edge(h, a, f, x) /\ ~Edge(h, b, g, x)
      BY <3>1, Zenon DEF Owner
    <3>3. /\ a = n /\ x \in DOMAIN h /\ f \in Fields /\ f \in DOMAIN o /\ o[f] = x
          /\ b = n /\ g \in Fields /\ g \in DOMAIN o /\ o[g] = x
      BY <1>2, <1>8, <3>2, Zenon
    <3>4. o[f] \in T /\ o[f] = o[g]
      BY <2>1, <3>3
    <3> QED
      BY <3>3, <3>4, Zenon
  <2>2. CASE x \notin T
    <3>1. Edge(h, a, f, x) /\ Edge(h, b, g, x)
      BY <1>2, <1>8, <2>2, Zenon
    <3> QED
      BY <1>3, <3>1, Zenon
  <2> QED
    BY <2>1, <2>2, Zenon
<1>9. ASSUME NEW S, S \subseteq DOMAIN h2, Rootless(h2, S)
      PROVE  S = {}
  <2>1. n \notin S
    BY <1>5, <1>9, Zenon DEF Rootless, Owner
  <2>2. S \subseteq DOMAIN h
    BY <1>1, <1>9, <2>1, Zenon
  <2>3. ASSUME NEW x \in S
        PROVE  \E a \in S : \E f : Edge(h, a, f, x)
    <3>1. PICK a \in S : \E f : Edge(h2, a, f, x)
      BY <1>9, Zenon DEF Rootless
    <3>2. PICK f : Edge(h2, a, f, x)
      BY <3>1
    <3>3. a # n
      BY <2>1, Zenon
    <3> QED
      BY <1>2, <3>2, <3>3, Zenon
  <2> QED
    BY <1>3, <2>2, <2>3, Zenon DEF Rootless
<1> QED
  BY <1>2, <1>6, <1>7, <1>8, <1>9, Zenon DEF Forest, h2

\* Every way up from a comes through r.
Above(h, r, a) ==
    \A S : a \in S /\ (\A x \in S : \A b, f : Edge(h, b, f, x) => b \in S) => r \in S

\* One pointer of a changes, to a root that a is not below or to nothing; what it
\* pointed to becomes a root.
Changed(h, X, a, p, v, h2) ==
    /\ DOMAIN h2 = DOMAIN h
    /\ \A b, f, x : Edge(h2, b, f, x) <=>
          \/ Edge(h, b, f, x) /\ ~(b = a /\ f = p)
          \/ b = a /\ f = p /\ x = v /\ v \in X

LEMMA Relink ==
    ASSUME NEW h, NEW X, Forest(h, X), NEW a, NEW p, NEW v, NEW h2, Changed(h, X, a, p, v, h2),
           v \in X => \E r \in X : r # v /\ Above(h, r, a)
    PROVE  Forest(h2, (X \ {v}) \cup {x \in DOMAIN h : Edge(h, a, p, x)})
<1> DEFINE X2 == (X \ {v}) \cup {x \in DOMAIN h : Edge(h, a, p, x)}
<1>1. /\ DOMAIN h2 = DOMAIN h
      /\ \A b, f, x : Edge(h2, b, f, x) <=>
            \/ Edge(h, b, f, x) /\ ~(b = a /\ f = p)
            \/ b = a /\ f = p /\ x = v /\ v \in X
  BY Zenon DEF Changed
<1>2. /\ \A x \in DOMAIN h : x \in X \/ Owner(h, x)
      /\ \A x \in X : x \in DOMAIN h /\ ~Owner(h, x)
      /\ \A x, b, c, f, g : Edge(h, b, f, x) /\ Edge(h, c, g, x) => b = c /\ f = g
      /\ \A S : S \subseteq DOMAIN h /\ Rootless(h, S) => S = {}
  BY Zenon DEF Forest
<1>3. \A x \in X : \A b, f : ~Edge(h, b, f, x)
  BY <1>2, Zenon DEF Owner
<1>4. ASSUME NEW b, NEW f, NEW x, Edge(h2, b, f, x), x \notin X \/ x # v
      PROVE  Edge(h, b, f, x) /\ ~(b = a /\ f = p)
  BY <1>1, <1>4
<1>5. ASSUME NEW b, NEW f, NEW x \in X, Edge(h2, b, f, x)
      PROVE  b = a /\ f = p /\ x = v
  BY <1>1, <1>5, <1>3
<1>6. ASSUME NEW x \in DOMAIN h2
      PROVE  x \in X2 \/ Owner(h2, x)
  <2>1. CASE x \in X
    <3>1. CASE x = v
      <4>1. Edge(h2, a, p, x)
        BY <1>1, <2>1, <3>1, Zenon
      <4> QED
        BY <4>1, Zenon DEF Owner
    <3> QED
      BY <1>1, <2>1, <3>1, Zenon
  <2>2. CASE x \notin X
    <3>1. PICK b, f : Edge(h, b, f, x)
      BY <1>1, <1>2, <2>2, Zenon DEF Owner
    <3>2. CASE b = a /\ f = p
      BY <1>1, <3>1, <3>2, Zenon
    <3>3. CASE ~(b = a /\ f = p)
      <4>1. Edge(h2, b, f, x)
        BY <1>1, <3>1, <3>3, Zenon
      <4> QED
        BY <4>1, Zenon DEF Owner
    <3> QED
      BY <3>2, <3>3, Zenon
  <2> QED
    BY <2>1, <2>2, Zenon
<1>7. ASSUME NEW x \in X2
      PROVE  x \in DOMAIN h2 /\ ~Owner(h2, x)
  <2>1. ASSUME NEW b, NEW f, Edge(h2, b, f, x)
        PROVE  FALSE
    <3>1. CASE x \in X /\ x # v
      BY <1>5, <2>1, <3>1, Zenon
    <3>2. CASE Edge(h, a, p, x)
      <4>1. x \notin X
        BY <1>3, <3>2, Zenon
      <4>2. Edge(h, b, f, x) /\ ~(b = a /\ f = p)
        BY <1>4, <2>1, <4>1, Zenon
      <4> QED
        BY <1>2, <3>2, <4>2, Zenon
    <3> QED
      BY <1>7, <3>1, <3>2, Zenon
  <2> QED
    BY <1>1, <1>2, <1>7, <2>1, Zenon DEF Owner
<1>8. ASSUME NEW x, NEW b, NEW c, NEW f, NEW g, Edge(h2, b, f, x), Edge(h2, c, g, x)
      PROVE  b = c /\ f = g
  <2>1. CASE x \in X
    BY <1>5, <1>8, <2>1
  <2>2. CASE x \notin X
    <3>1. Edge(h, b, f, x) /\ Edge(h, c, g, x)
      BY <1>4, <1>8, <2>2, Zenon
    <3> QED
      BY <1>2, <3>1, Zenon
  <2> QED
    BY <2>1, <2>2, Zenon
<1>9. ASSUME NEW S, S \subseteq DOMAIN h2, Rootless(h2, S)
      PROVE  S = {}
  <2>1. \A x \in S : \E b \in S : \E f : Edge(h2, b, f, x)
    BY <1>9, Zenon DEF Rootless
  <2>2. \A x \in S : x \notin X \/ x # v => \E b \in S : \E f : Edge(h, b, f, x)
    BY <1>4, <2>1, Zenon
  <2>3. CASE v \in S /\ v \in X
    <3>1. a \in S
      BY <1>5, <2>1, <2>3, Zenon
    <3>2. ASSUME NEW x \in S, NEW b, NEW f, Edge(h, b, f, x)
          PROVE  b \in S
      <4>1. x \notin X
        BY <1>3, <3>2, Zenon
      <4>2. PICK c \in S : \E g : Edge(h, c, g, x)
        BY <2>2, <4>1, Zenon
      <4> QED
        BY <1>2, <3>2, <4>2, Zenon
    <3>3. PICK r \in X : r # v /\ Above(h, r, a)
      BY <2>3, Zenon
    <3>4. r \in S
      BY <3>1, <3>2, <3>3, Zenon DEF Above
    <3> QED
      BY <1>3, <2>2, <3>3, <3>4, Zenon
  <2>4. CASE ~(v \in S /\ v \in X)
    <3>1. Rootless(h, S)
      BY <2>2, <2>4, Zenon DEF Rootless
    <3> QED
      BY <1>1, <1>2, <1>9, <3>1, Zenon
  <2> QED
    BY <2>3, <2>4, Zenon
<1> QED
  BY <1>6, <1>7, <1>8, <1>9, Zenon DEF Forest

\* A root is taken away: what it pointed to are roots then.
Without(h, r) == [a \in DOMAIN h \ {r} |-> h[a]]

LEMMA Uproot ==
    ASSUME NEW h, NEW X, Shape(h), Forest(h, X), NEW r \in X
    PROVE  /\ Shape(Without(h, r))
           /\ Forest(Without(h, r), (X \ {r}) \cup {x \in DOMAIN h : \E f : Edge(h, r, f, x)})
<1> DEFINE h2 == Without(h, r)
           X2 == (X \ {r}) \cup {x \in DOMAIN h : \E f : Edge(h, r, f, x)}
<1>1. DOMAIN h2 = DOMAIN h \ {r} /\ \A a \in DOMAIN h2 : h2[a] = h[a]
  BY DEF Without
<1> HIDE DEF h2
<1>2. /\ \A x \in DOMAIN h : x \in X \/ Owner(h, x)
      /\ \A x \in X : x \in DOMAIN h /\ ~Owner(h, x)
      /\ \A x, b, c, f, g : Edge(h, b, f, x) /\ Edge(h, c, g, x) => b = c /\ f = g
      /\ \A S : S \subseteq DOMAIN h /\ Rootless(h, S) => S = {}
  BY Zenon DEF Forest
<1>3. \A b, f : ~Edge(h, b, f, r)
  BY <1>2, Zenon DEF Owner
<1>4. ASSUME NEW b, NEW f, NEW x
      PROVE  Edge(h2, b, f, x) <=> Edge(h, b, f, x) /\ b # r
  <2>1. CASE b = r
    BY <1>1, <2>1, Zenon DEF Edge
  <2>2. CASE b # r
    <3>1. x = r => ~Edge(h, b, f, x)
      BY <1>3, Zenon
    <3>2. x = r => ~Edge(h2, b, f, x)
      BY <1>1, Zenon DEF Edge
    <3>3. x # r => (Edge(h2, b, f, x) <=> Edge(h, b, f, x))
      BY <1>1, <2>2, Zenon DEF Edge
    <3> QED
      BY <2>2, <3>1, <3>2, <3>3, Zenon
  <2> QED
    BY <2>1, <2>2, Zenon
<1>5. ASSUME NEW a \in DOMAIN h2
      PROVE  ObjectOK(h2, h2[a])
  <2>1. a \in DOMAIN h /\ h2[a] = h[a] /\ ObjectOK(h, h[a])
    BY <1>1, Zenon DEF Shape
  <2>2. IsCell(h[a]) => h[a].val # r /\ h[a].nxt # r
    <3>1. r # NULL
      BY <1>2, Zenon DEF Shape
    <3> QED
      BY <1>3, <2>1, <3>1, Edges, Zenon
  <2>3. IsList(h[a]) => h[a].lst # r
    <3>1. r # NULL
      BY <1>2, Zenon DEF Shape
    <3> QED
      BY <1>3, <2>1, <3>1, Edges, Zenon
  <2>4. \A x : (x # r /\ TreePtr(h, x) => TreePtr(h2, x)) /\ (x # r /\ ListPtr(h, x) => ListPtr(h2, x))
    BY <1>1, Zenon DEF TreePtr, ListPtr
  <2> QED
    BY <2>1, <2>2, <2>3, <2>4, Zenon DEF ObjectOK
<1>6. Shape(h2)
  BY <1>1, <1>5, Zenon DEF Shape
<1>7. ASSUME NEW x \in DOMAIN h2
      PROVE  x \in X2 \/ Owner(h2, x)
  <2>1. x \in DOMAIN h /\ x # r
    BY <1>1, Zenon
  <2>2. CASE x \in X
    BY <2>1, <2>2, Zenon
  <2>3. CASE x \notin X
    <3>1. PICK b, f : Edge(h, b, f, x)
      BY <1>2, <2>1, <2>3, Zenon DEF Owner
    <3>2. CASE b = r
      BY <2>1, <3>1, <3>2, Zenon
    <3>3. CASE b # r
      BY <1>4, <3>1, <3>3, Zenon DEF Owner
    <3> QED
      BY <3>2, <3>3, Zenon
  <2> QED
    BY <2>2, <2>3, Zenon
<1>8. ASSUME NEW x \in X2
      PROVE  x \in DOMAIN h2 /\ ~Owner(h2, x)
  <2>1. CASE x \in X /\ x # r
    BY <1>1, <1>2, <1>4, <2>1, Zenon DEF Owner
  <2>2. ASSUME NEW f, Edge(h, r, f, x)
        PROVE  x \in DOMAIN h2 /\ ~Owner(h2, x)
    <3>1. x \in DOMAIN h /\ x # r
      BY <1>3, <2>2, Zenon DEF Edge
    <3>2. ASSUME NEW b, NEW g, Edge(h2, b, g, x)
          PROVE  FALSE
      BY <1>2, <1>4, <2>2, <3>2, Zenon
    <3> QED
      BY <1>1, <3>1, <3>2, Zenon DEF Owner
  <2> QED
    BY <1>8, <2>1, <2>2, Zenon
<1>9. ASSUME NEW x, NEW b, NEW c, NEW f, NEW g, Edge(h2, b, f, x), Edge(h2, c, g, x)
      PROVE  b = c /\ f = g
  <2>1. Edge(h, b, f, x) /\ Edge(h, c, g, x)
    BY <1>4, <1>9, Zenon
  <2> QED
    BY <1>2, <2>1, Zenon
<1>10. ASSUME NEW S, S \subseteq DOMAIN h2, Rootless(h2, S)
       PROVE  S = {}
  <2>1. Rootless(h, S)
    BY <1>4, <1>10, Zenon DEF Rootless
  <2>2. S \subseteq DOMAIN h
    BY <1>1, <1>10, Zenon
  <2> QED
    BY <1>2, <2>1, <2>2, Zenon
<1> QED
  BY <1>6, <1>7, <1>8, <1>9, <1>10, Zenon DEF Forest, h2
-----------------------------------------------------------------------------
\* What a program holds, t, is of the types ty, and no two of them are the same.
RootsOf(t) == {t[i] : i \in 1 .. Len(t)} \ {NULL}
Fits(h, t, ty) ==
    /\ Len(t) = Len(ty)
    /\ \A i \in 1 .. Len(t) :
          (ty[i] = "tree" => TreePtr(h, t[i])) /\ (ty[i] = "list" => ListPtr(h, t[i]))
Apart(t) == \A i, j \in 1 .. Len(t) : t[i] = t[j] /\ t[i] # NULL => i = j

\* All that held until an object was put there is of the same types.
Keeps(h, h2) == \A x : (TreePtr(h, x) => TreePtr(h2, x)) /\ (ListPtr(h, x) => ListPtr(h2, x))

LEMMA PutKeeps ==
    ASSUME NEW h, NEW n, n \notin DOMAIN h, NEW o
    PROVE  Keeps(h, Put(h, n, o))
<1>1. \A a \in DOMAIN h : a \in DOMAIN Put(h, n, o) /\ Put(h, n, o)[a] = h[a]
  BY DEF Put
<1> HIDE DEF Put
<1> QED
  BY <1>1, Zenon DEF Keeps, TreePtr, ListPtr

\* The last of what a program holds are given up for one.
LEMMA Pushed ==
    ASSUME NEW t \in Seq(Int), NEW b \in 0 .. Len(t), NEW r \in Int, NEW t2,
           t2 = SubSeq(t, 1, b) \o <<r>>
    PROVE  /\ t2 \in Seq(Int) /\ Len(t2) = b + 1 /\ t2[b + 1] = r
           /\ \A i \in 1 .. b : t2[i] = t[i]
OBVIOUS

LEMMA PushedTypes ==
    ASSUME NEW ty \in Seq({"tree", "list"}), NEW b \in 0 .. Len(ty), NEW kind \in {"tree", "list"},
           NEW ty2, ty2 = Append(SubSeq(ty, 1, b), kind)
    PROVE  /\ ty2 \in Seq({"tree", "list"}) /\ Len(ty2) = b + 1 /\ ty2[b + 1] = kind
           /\ \A i \in 1 .. b : ty2[i] = ty[i]
OBVIOUS

LEMMA PushedHolds ==
    ASSUME NEW t \in Seq(Int), NEW b \in 0 .. Len(t), NEW r \in Int,
           NEW ty \in Seq({"tree", "list"}), NEW kind \in {"tree", "list"},
           NEW h, NEW h2, Fits(h, t, ty), Keeps(h, h2), Apart(t),
           r = NULL \/ \A i \in 1 .. b : r # t[i],
           kind = "tree" => TreePtr(h2, r), kind = "list" => ListPtr(h2, r)
    PROVE  /\ SubSeq(t, 1, b) \o <<r>> \in Seq(Int) /\ Apart(SubSeq(t, 1, b) \o <<r>>)
           /\ Fits(h2, SubSeq(t, 1, b) \o <<r>>, Append(SubSeq(ty, 1, b), kind))
           /\ RootsOf(SubSeq(t, 1, b) \o <<r>>) =
                  (RootsOf(t) \ {t[i] : i \in b + 1 .. Len(t)}) \cup ({r} \ {NULL})
<1> DEFINE t2 == SubSeq(t, 1, b) \o <<r>>
           ty2 == Append(SubSeq(ty, 1, b), kind)
<1>1. /\ t2 \in Seq(Int) /\ Len(t2) = b + 1 /\ t2[b + 1] = r
      /\ \A i \in 1 .. b : t2[i] = t[i]
  BY Pushed
<1>2. Len(ty) = Len(t)
  BY DEF Fits
<1>3. /\ Len(ty2) = b + 1 /\ ty2[b + 1] = kind
      /\ \A i \in 1 .. b : ty2[i] = ty[i]
  BY <1>2, PushedTypes
<1> HIDE DEF t2, ty2
<1>4. b \in Nat /\ b + 1 \in 1 .. b + 1 /\ b + 1 \notin 1 .. b
      /\ 1 .. b + 1 = (1 .. b) \cup {b + 1} /\ 1 .. b \subseteq 1 .. Len(t)
      /\ 1 .. Len(t) = (1 .. b) \cup (b + 1 .. Len(t)) /\ \A i \in b + 1 .. Len(t) : i \notin 1 .. b
  OBVIOUS
<1>5. Fits(h2, t2, ty2)
  <2>1. ASSUME NEW i \in 1 .. Len(t2)
        PROVE  (ty2[i] = "tree" => TreePtr(h2, t2[i])) /\ (ty2[i] = "list" => ListPtr(h2, t2[i]))
    <3>1. CASE i \in 1 .. b
      <4>1. i \in 1 .. Len(t) /\ t2[i] = t[i] /\ ty2[i] = ty[i]
        BY <1>1, <1>3, <1>4, <3>1, Zenon
      <4> QED
        BY <4>1, Zenon DEF Fits, Keeps
    <3>2. CASE i = b + 1
      BY <1>1, <1>3, <3>2, Zenon
    <3> QED
      BY <1>1, <1>4, <3>1, <3>2, Zenon
  <2> QED
    BY <1>1, <1>3, <2>1, Zenon DEF Fits
<1>6. Apart(t2)
  <2>1. ASSUME NEW i \in 1 .. b + 1, NEW j \in 1 .. b + 1, t2[i] = t2[j], t2[i] # NULL
        PROVE  i = j
    <3>1. CASE i \in 1 .. b /\ j \in 1 .. b
      <4>1. i \in 1 .. Len(t) /\ j \in 1 .. Len(t) /\ t[i] = t[j] /\ t[i] # NULL
        BY <1>1, <1>4, <2>1, <3>1, Zenon
      <4> QED
        BY <4>1, Zenon DEF Apart
    <3> QED
      BY <1>1, <1>4, <2>1, <3>1, Zenon
  <2> QED
    BY <1>1, <2>1, Zenon DEF Apart
<1>7. RootsOf(t2) = (RootsOf(t) \ {t[i] : i \in b + 1 .. Len(t)}) \cup ({r} \ {NULL})
  <2>1. RootsOf(t2) = ({t[i] : i \in 1 .. b} \cup {r}) \ {NULL}
    <3>1. {t2[i] : i \in 1 .. b + 1} = {t[i] : i \in 1 .. b} \cup {r}
      BY <1>1, <1>4, Zenon
    <3> QED
      BY <1>1, <3>1, Zenon DEF RootsOf
  <2>2. {t[i] : i \in 1 .. b} \ {NULL} = RootsOf(t) \ {t[i] : i \in b + 1 .. Len(t)}
    <3>1. ASSUME NEW x
          PROVE  x \in {t[i] : i \in 1 .. b} \ {NULL} <=>
                 x \in RootsOf(t) \ {t[i] : i \in b + 1 .. Len(t)}
      <4>1. ASSUME NEW i \in 1 .. b, x = t[i], x # NULL, NEW j \in b + 1 .. Len(t), x = t[j]
            PROVE  FALSE
        <5>1. i \in 1 .. Len(t) /\ j \in 1 .. Len(t) /\ i # j
          BY <1>4, <4>1, Zenon
        <5> QED
          BY <4>1, <5>1, Zenon DEF Apart
      <4>2. \A i \in 1 .. Len(t) : i \in 1 .. b \/ i \in b + 1 .. Len(t)
        BY <1>4, Zenon
      <4>3. x \in RootsOf(t) <=> x # NULL /\ \E i \in 1 .. Len(t) : x = t[i]
        BY Zenon DEF RootsOf
      <4>4. x \in {t[i] : i \in 1 .. b} /\ x # NULL => x \notin {t[i] : i \in b + 1 .. Len(t)}
        BY <4>1, Zenon
      <4> QED
        BY <1>4, <4>2, <4>3, <4>4, Zenon
    <3> QED
      BY <3>1, Zenon
  <2> QED
    BY <2>1, <2>2, Zenon
<1> QED
  BY <1>1, <1>5, <1>6, <1>7, Zenon DEF t2, ty2
-----------------------------------------------------------------------------
\* All there is in the memory belongs to what a program holds.
Owned(h, t, ty) ==
    /\ t \in Seq(Int) /\ ty \in Seq({"tree", "list"})
    /\ Fits(h, t, ty) /\ Apart(t)
    /\ Shape(h) /\ Forest(h, RootsOf(t))

\* The kind of object a temporary points to.
KindOf(o) == IF IsCell(o) THEN "list" ELSE "tree"

LEMMA Made ==
    ASSUME NEW h, NEW t, NEW ty, Owned(h, t, ty), NEW b \in 0 .. Len(t),
           NEW n \in Int, n # NULL, n \notin DOMAIN h, NEW o, ObjectOK(h, o),
           \A x \in DOMAIN h : (\E i \in b + 1 .. Len(t) : t[i] = x) <=>
                               \E f \in Fields : f \in DOMAIN o /\ o[f] = x,
           \A f, g \in Fields : f \in DOMAIN o /\ g \in DOMAIN o /\ o[f] \in DOMAIN h /\ o[f] = o[g]
                                => f = g
    PROVE  Owned(Put(h, n, o), SubSeq(t, 1, b) \o <<n>>, Append(SubSeq(ty, 1, b), KindOf(o)))
<1> DEFINE X == RootsOf(t)
           T == {t[i] : i \in b + 1 .. Len(t)} \ {NULL}
           t2 == SubSeq(t, 1, b) \o <<n>>
           ty2 == Append(SubSeq(ty, 1, b), KindOf(o))
           h2 == Put(h, n, o)
<1>1. /\ t \in Seq(Int) /\ ty \in Seq({"tree", "list"}) /\ Fits(h, t, ty) /\ Apart(t)
      /\ Shape(h) /\ Forest(h, X)
  BY Zenon DEF Owned
<1>2. \A x \in X : x \in DOMAIN h
  BY <1>1, Zenon DEF Forest
<1>3. T \subseteq X
  <2>1. \A i \in b + 1 .. Len(t) : i \in 1 .. Len(t)
    BY <1>1
  <2> QED
    BY <2>1, Zenon DEF RootsOf
<1>4. \A i \in 1 .. Len(t) : t[i] = NULL \/ t[i] \in DOMAIN h
  BY <1>2, Zenon DEF RootsOf
<1>5. \A x \in DOMAIN h : x \in T <=> \E f \in Fields : f \in DOMAIN o /\ o[f] = x
  BY <1>1, Zenon DEF Shape
<1>6. \A f, g \in Fields : f \in DOMAIN o /\ g \in DOMAIN o /\ o[f] \in T /\ o[f] = o[g] => f = g
  BY <1>2, <1>3, Zenon
<1>7. Shape(h2) /\ Forest(h2, (X \ T) \cup {n})
  <2> HIDE DEF X, T
  <2> QED
    BY <1>1, <1>3, <1>5, <1>6, Grow, Zenon
<1>8. Keeps(h, h2)
  BY PutKeeps, Zenon
<1>9. KindOf(o) \in {"tree", "list"} /\ "tree" # "list"
  BY DEF KindOf
<1>10. n \in DOMAIN h2 /\ h2[n] = o
  BY DEF Put
<1>11. (KindOf(o) = "tree" => TreePtr(h2, n)) /\ (KindOf(o) = "list" => ListPtr(h2, n))
  <2> HIDE DEF h2
  <2> QED
    BY <1>9, <1>10, Zenon DEF TreePtr, ListPtr, KindOf, ObjectOK
<1>12. \A i \in 1 .. b : n # t[i]
  <2>1. \A i \in 1 .. b : i \in 1 .. Len(t)
    BY <1>1
  <2>2. ASSUME NEW i \in 1 .. b, n = t[i]
        PROVE  FALSE
    <3>1. t[i] = NULL \/ t[i] \in DOMAIN h
      BY <1>4, <2>1, Zenon
    <3> QED
      BY <2>2, <3>1
  <2> QED
    BY <2>2, Zenon
<1>13. t2 \in Seq(Int) /\ Fits(h2, t2, ty2) /\ Apart(t2)
       /\ RootsOf(t2) = (RootsOf(t) \ {t[i] : i \in b + 1 .. Len(t)}) \cup ({n} \ {NULL})
  <2>1. t2 = SubSeq(t, 1, b) \o <<n>> /\ ty2 = Append(SubSeq(ty, 1, b), KindOf(o))
    OBVIOUS
  <2> DEFINE kind == KindOf(o)
  <2>2. /\ kind \in {"tree", "list"} /\ ty2 = Append(SubSeq(ty, 1, b), kind)
        /\ (n = NULL \/ \A i \in 1 .. b : n # t[i])
        /\ (kind = "tree" => TreePtr(h2, n)) /\ (kind = "list" => ListPtr(h2, n))
    BY <1>9, <1>11, <1>12, <2>1, Zenon
  <2> HIDE DEF h2, t2, ty2, kind
  <2> QED
    BY <1>1, <1>8, <2>2, PushedHolds, Zenon DEF t2, ty2
<1>14. RootsOf(t2) = (X \ T) \cup {n}
  <2>1. NULL \notin X
    BY Zenon DEF RootsOf
  <2> HIDE DEF X, t2
  <2>2. X = RootsOf(t)
    BY DEF X
  <2> QED
    BY <1>13, <2>1, <2>2, Zenon
<1>15. ty2 \in Seq({"tree", "list"})
  <2>1. Len(ty) = Len(t)
    BY <1>1 DEF Fits
  <2> QED
    BY <1>1, <1>9, <2>1
<1> QED
  BY <1>7, <1>13, <1>14, <1>15, Zenon DEF Owned

\* The objects that the functions of syntax.c make, from what is on top.
LEMMA MadeLeaf ==
    ASSUME NEW h, NEW t, NEW ty, Owned(h, t, ty), NEW n \in Int, n # NULL, n \notin DOMAIN h,
           NEW tag \in LeafTags, NEW data
    PROVE  Owned(Put(h, n, Leaf(tag, data)), SubSeq(t, 1, Len(t)) \o <<n>>,
                 Append(SubSeq(ty, 1, Len(t)), "tree"))
<1> DEFINE o == Leaf(tag, data)
<1>1. IsLeaf(o) /\ ObjectOK(h, o)
  BY DEF IsLeaf, ObjectOK, Leaf
<1> HIDE DEF o
<1>2. KindOf(o) = "tree"
  BY <1>1, Kinds, Zenon DEF KindOf
<1>3. Len(t) \in 0 .. Len(t) /\ \A i : i \notin Len(t) + 1 .. Len(t)
  BY DEF Owned
<1>4. \A f \in Fields : f \notin DOMAIN o
  BY <1>1, Kinds, Zenon
<1>5. Owned(Put(h, n, o), SubSeq(t, 1, Len(t)) \o <<n>>, Append(SubSeq(ty, 1, Len(t)), KindOf(o)))
  BY <1>1, <1>3, <1>4, Made, Zenon
<1> QED
  BY <1>2, <1>5, Zenon DEF o

LEMMA MadeList ==
    ASSUME NEW h, NEW t, NEW ty, Owned(h, t, ty), Len(t) > 0, ty[Len(t)] = "list",
           NEW n \in Int, n # NULL, n \notin DOMAIN h, NEW tag \in ListTags
    PROVE  Owned(Put(h, n, ListNode(tag, t[Len(t)])), SubSeq(t, 1, Len(t) - 1) \o <<n>>,
                 Append(SubSeq(ty, 1, Len(t) - 1), "tree"))
<1> DEFINE o == ListNode(tag, t[Len(t)])
           b == Len(t) - 1
<1>1. IsList(o) /\ o.lst = t[Len(t)]
  BY DEF IsList, ListNode
<1>2. Len(t) \in 1 .. Len(t) /\ b \in 0 .. Len(t) /\ b + 1 .. Len(t) = {Len(t)}
  BY DEF Owned
<1> HIDE DEF o, b
<1>3. ListPtr(h, o.lst)
  BY <1>1, <1>2, Zenon DEF Owned, Fits
<1>4. ObjectOK(h, o)
  BY <1>1, <1>3, Zenon DEF ObjectOK
<1>5. KindOf(o) = "tree"
  BY <1>1, Kinds, Zenon DEF KindOf
<1>6. "lst" \in Fields /\ \A f \in Fields : f \in DOMAIN o <=> f = "lst"
  BY <1>1, Kinds, Zenon DEF Fields
<1>7. \A x \in DOMAIN h : (\E i \in b + 1 .. Len(t) : t[i] = x) <=>
                         \E f \in Fields : f \in DOMAIN o /\ o[f] = x
  BY <1>1, <1>2, <1>6, Zenon
<1>8. \A f, g \in Fields : f \in DOMAIN o /\ g \in DOMAIN o /\ o[f] \in DOMAIN h /\ o[f] = o[g]
                             => f = g
  BY <1>6, Zenon
<1>9. Owned(Put(h, n, o), SubSeq(t, 1, b) \o <<n>>, Append(SubSeq(ty, 1, b), KindOf(o)))
  BY <1>2, <1>4, <1>7, <1>8, Made, Zenon
<1> QED
  BY <1>5, <1>9, Zenon DEF o, b

LEMMA MadeLast ==
    ASSUME NEW h, NEW t, NEW ty, Owned(h, t, ty), Len(t) > 0, ty[Len(t)] = "tree",
           NEW n \in Int, n # NULL, n \notin DOMAIN h
    PROVE  Owned(Put(h, n, Cell(t[Len(t)], NULL)), SubSeq(t, 1, Len(t) - 1) \o <<n>>,
                 Append(SubSeq(ty, 1, Len(t) - 1), "list"))
<1> DEFINE o == Cell(t[Len(t)], NULL)
           b == Len(t) - 1
<1>1. IsCell(o) /\ o.val = t[Len(t)] /\ o.nxt = NULL
  BY DEF IsCell, Cell
<1>2. Len(t) \in 1 .. Len(t) /\ b \in 0 .. Len(t) /\ b + 1 .. Len(t) = {Len(t)}
  BY DEF Owned
<1> HIDE DEF o, b
<1>3. TreePtr(h, o.val) /\ ListPtr(h, o.nxt)
  BY <1>1, <1>2, Zenon DEF Owned, Fits, ListPtr
<1>4. ObjectOK(h, o)
  BY <1>1, <1>3, Zenon DEF ObjectOK
<1>5. KindOf(o) = "list"
  BY <1>1, Zenon DEF KindOf
<1>6. "val" \in Fields /\ "nxt" \in Fields /\ \A f \in Fields : f \in DOMAIN o <=> f \in {"val", "nxt"}
  BY <1>1, Kinds, Zenon DEF Fields
<1>7. NULL \notin DOMAIN h
  BY Zenon DEF Owned, Shape
<1>8. ASSUME NEW x \in DOMAIN h
      PROVE  (\E i \in b + 1 .. Len(t) : t[i] = x) <=> \E f \in Fields : f \in DOMAIN o /\ o[f] = x
  <2>1. (\E i \in b + 1 .. Len(t) : t[i] = x) <=> x = t[Len(t)]
    BY <1>2, Zenon
  <2>2. (\E f \in Fields : f \in DOMAIN o /\ o[f] = x) <=> x = o["val"] \/ x = o["nxt"]
    BY <1>6, Zenon
  <2>3. x # NULL
    BY <1>7, Zenon
  <2> QED
    BY <1>1, <2>1, <2>2, <2>3, Zenon
<1>9. \A f, g \in Fields : f \in DOMAIN o /\ g \in DOMAIN o /\ o[f] \in DOMAIN h /\ o[f] = o[g]
                             => f = g
  <2>1. \A f \in Fields : f \in DOMAIN o /\ o[f] \in DOMAIN h => f = "val"
    BY <1>1, <1>6, <1>7, Zenon
  <2>2. ASSUME NEW f \in Fields, NEW g \in Fields, f \in DOMAIN o, g \in DOMAIN o,
               o[f] \in DOMAIN h, o[f] = o[g]
        PROVE  f = g
    <3>1. o[g] \in DOMAIN h
      BY <2>2
    <3> QED
      BY <2>1, <2>2, <3>1
  <2> QED
    BY <2>2, Zenon
<1>10. Owned(Put(h, n, o), SubSeq(t, 1, b) \o <<n>>, Append(SubSeq(ty, 1, b), KindOf(o)))
  BY <1>2, <1>4, <1>8, <1>9, Made, Zenon
<1> QED
  BY <1>5, <1>10, Zenon DEF o, b

LEMMA MadeCell ==
    ASSUME NEW h, NEW t, NEW ty, Owned(h, t, ty), Len(t) > 1,
           NEW i \in {Len(t) - 1, Len(t)}, NEW j \in {Len(t) - 1, Len(t)}, i # j,
           ty[i] = "tree", ty[j] = "list",
           NEW n \in Int, n # NULL, n \notin DOMAIN h
    PROVE  Owned(Put(h, n, Cell(t[i], t[j])), SubSeq(t, 1, Len(t) - 2) \o <<n>>,
                 Append(SubSeq(ty, 1, Len(t) - 2), "list"))
<1> DEFINE o == Cell(t[i], t[j])
           b == Len(t) - 2
<1>1. IsCell(o) /\ o.val = t[i] /\ o.nxt = t[j]
  BY DEF IsCell, Cell
<1>2. i \in 1 .. Len(t) /\ j \in 1 .. Len(t) /\ b \in 0 .. Len(t) /\ b + 1 .. Len(t) = {i, j}
  BY DEF Owned
<1> HIDE DEF o, b
<1>3. TreePtr(h, o.val) /\ ListPtr(h, o.nxt)
  BY <1>1, <1>2, Zenon DEF Owned, Fits
<1>4. ObjectOK(h, o)
  BY <1>1, <1>3, Zenon DEF ObjectOK
<1>5. KindOf(o) = "list"
  BY <1>1, Zenon DEF KindOf
<1>6. "val" \in Fields /\ "nxt" \in Fields /\ \A f \in Fields : f \in DOMAIN o <=> f \in {"val", "nxt"}
  BY <1>1, Kinds, Zenon DEF Fields
<1>7. o["nxt"] = NULL \/ o["val"] # o["nxt"]
  <2>1. ASSUME o.nxt # NULL, o.val = o.nxt
        PROVE  FALSE
    <3>1. TreePtr(h, o.val) /\ IsCell(h[o.val])
      BY <1>3, <2>1 DEF ListPtr
    <3> QED
      BY <3>1, Kinds, Zenon DEF TreePtr
  <2> QED
    BY <2>1, Zenon
<1>8. ASSUME NEW x \in DOMAIN h
      PROVE  (\E k \in b + 1 .. Len(t) : t[k] = x) <=> \E f \in Fields : f \in DOMAIN o /\ o[f] = x
  <2>1. (\E k \in b + 1 .. Len(t) : t[k] = x) <=> x = t[i] \/ x = t[j]
    BY <1>2, Zenon
  <2>2. (\E f \in Fields : f \in DOMAIN o /\ o[f] = x) <=> x = o["val"] \/ x = o["nxt"]
    BY <1>6, Zenon
  <2> QED
    BY <1>1, <2>1, <2>2, Zenon
<1>9. ASSUME NEW f \in Fields, NEW g \in Fields, f \in DOMAIN o, g \in DOMAIN o,
             o[f] \in DOMAIN h, o[f] = o[g]
      PROVE  f = g
  <2>1. f \in {"val", "nxt"} /\ g \in {"val", "nxt"}
    BY <1>6, <1>9, Zenon
  <2>2. NULL \notin DOMAIN h
    BY Zenon DEF Owned, Shape
  <2>3. o[f] # NULL /\ o[g] # NULL
    BY <1>9, <2>2
  <2> QED
    BY <1>7, <1>9, <2>1, <2>3
<1>10. Owned(Put(h, n, o), SubSeq(t, 1, b) \o <<n>>, Append(SubSeq(ty, 1, b), KindOf(o)))
  BY <1>2, <1>4, <1>8, <1>9, Made, Zenon
<1> QED
  BY <1>5, <1>10, Zenon DEF o, b
-----------------------------------------------------------------------------
\* How far the program is, and what it holds before and after the next call.
Executed == Len(program.calls) - Len(code)
Before == program.types[Executed + 1]
After == program.types[Executed + 2]
Progress ==
    /\ program \in Programs
    /\ code \in Seq(Range(program.calls))
    /\ Len(code) <= Len(program.calls)
    /\ \A i \in 1 .. Len(code) : code[i] = program.calls[Executed + i]

LEMMA Calls ==
    ASSUME Progress
    PROVE  /\ Len(program.calls) \in Nat /\ Len(code) \in Nat /\ Executed \in Nat
           /\ Before \in Seq({"tree", "list"})
           /\ code = <<>> => Before = <<"tree">>
<1>1. /\ program.calls \in Seq(Range(program.calls))
      /\ program.types \in [1 .. Len(program.calls) + 1 -> Seq({"tree", "list"})]
      /\ program.types[Len(program.calls) + 1] = <<"tree">>
  BY SyntaxAssumption DEF Progress
<1>2. code \in Seq(Range(program.calls)) /\ Len(code) <= Len(program.calls)
  BY DEF Progress
<1>3. Len(program.calls) \in Nat /\ Len(code) \in Nat
  BY <1>1, <1>2
<1>4. Executed \in Nat /\ Executed + 1 \in 1 .. Len(program.calls) + 1
  BY <1>2, <1>3 DEF Executed
<1>5. code = <<>> => Executed = Len(program.calls)
  BY <1>3 DEF Executed
<1> QED
  BY <1>1, <1>3, <1>4, <1>5 DEF Before

LEMMA NextCall ==
    ASSUME Progress, code # <<>>
    PROVE  /\ Typed(Instruction, Before, After)
           /\ Before \in Seq({"tree", "list"}) /\ After \in Seq({"tree", "list"})
           /\ program' = program /\ code' = Tail(code) => Progress' /\ Before' = After
<1> DEFINE n == Len(program.calls)
           m == Len(code)
           k == Executed
<1>1. /\ program.calls \in Seq(Range(program.calls))
      /\ program.types \in [1 .. n + 1 -> Seq({"tree", "list"})]
      /\ \A i \in 1 .. n : Typed(program.calls[i], program.types[i], program.types[i + 1])
  BY SyntaxAssumption DEF Progress
<1>2. code \in Seq(Range(program.calls)) /\ m <= n
      /\ \A i \in 1 .. m : code[i] = program.calls[k + i]
  BY DEF Progress
<1>3. n \in Nat /\ m \in Nat /\ m > 0 /\ k \in Nat /\ k = n - m
  BY <1>1, <1>2 DEF Executed
<1>4. Instruction = code[1] /\ 1 \in 1 .. m
  BY <1>2, <1>3 DEF Instruction
<1>5. k + 1 \in 1 .. n /\ k + 1 \in 1 .. n + 1 /\ k + 2 \in 1 .. n + 1 /\ (k + 1) + 1 = k + 2
  BY <1>2, <1>3
<1>6. Typed(Instruction, Before, After)
  <2> HIDE DEF k, n, m
  <2>1. Typed(program.calls[k + 1], program.types[k + 1], program.types[k + 2])
    BY <1>1, <1>5
  <2> QED
    BY <1>2, <1>4, <2>1 DEF k, Before, After
<1>7. Before \in Seq({"tree", "list"}) /\ After \in Seq({"tree", "list"})
  BY <1>1, <1>5 DEF Before, After
<1>8. ASSUME program' = program, code' = Tail(code)
      PROVE  Progress' /\ Before' = After
  <2>1. Len(code') = m - 1 /\ code' \in Seq(Range(program.calls))
        /\ \A i \in 1 .. m - 1 : code'[i] = code[i + 1]
    BY <1>2, <1>3, <1>8
  <2>2. Executed' = k + 1
    BY <1>3, <1>8, <2>1 DEF Executed
  <2>3. ASSUME NEW i \in 1 .. m - 1
        PROVE  code'[i] = program.calls[(k + 1) + i]
    <3> HIDE DEF k, m, n
    <3>1. i + 1 \in 1 .. m /\ k + (i + 1) = (k + 1) + i
      BY <1>3
    <3> QED
      BY <1>2, <2>1, <3>1
  <2>4. Len(code') <= Len(program'.calls)
    BY <1>2, <1>3, <1>8, <2>1
  <2>5. Progress'
    <3>1. program' \in Programs /\ code' \in Seq(Range(program'.calls))
      BY <1>8, <2>1, Zenon DEF Progress
    <3>2. \A i \in 1 .. Len(code') : code'[i] = program'.calls[Executed' + i]
      <4> HIDE DEF k, m, n
      <4> QED
        BY <1>8, <2>1, <2>2, <2>3
    <3> QED
      BY <2>4, <3>1, <3>2, Zenon DEF Progress
  <2>6. Before' = After
    <3>1. Executed' + 1 = k + 2
      BY <1>3, <2>2
    <3> HIDE DEF k
    <3> QED
      BY <1>8, <3>1 DEF Before, After, k
  <2> QED
    BY <2>5, <2>6
<1> QED
  BY <1>6, <1>7, <1>8

\* What C's types say of each instruction.
LEMMA TypedCalls ==
    ASSUME NEW call, NEW before \in Seq({"tree", "list"}), NEW after, Typed(call, before, after)
    PROVE  LET n == Len(before)
           IN  /\ call.op = "leaf" =>
                    call.tag \in LeafTags /\ after = Append(SubSeq(before, 1, n), "tree")
               /\ call.op = "pair" =>
                    /\ call.tag \in PairTags /\ n > 1 /\ before[n] = "tree" /\ before[n - 1] = "tree"
                    /\ after = Append(SubSeq(before, 1, n - 2), "tree")
               /\ call.op = "singleton" =>
                    /\ call.tag = "DEC" /\ n > 0 /\ before[n] = "tree"
                    /\ after = Append(SubSeq(before, 1, n - 1), "tree")
               /\ call.op = "src" =>
                    /\ n > 0 /\ before[n] = "list"
                    /\ after = Append(SubSeq(before, 1, n - 1), "tree")
               /\ call.op = "nil" => after = Append(SubSeq(before, 1, n), "list")
               /\ call.op = "cons" =>
                    /\ n > 1 /\ before[n] = "tree" /\ before[n - 1] = "list"
                    /\ after = Append(SubSeq(before, 1, n - 2), "list")
               /\ call.op = "rev" =>
                    /\ n > 0 /\ before[n] = "list"
                    /\ after = Append(SubSeq(before, 1, n - 1), "list")
               /\ call.op = "cat" =>
                    /\ n > 1 /\ before[n] = "list" /\ before[n - 1] = "list"
                    /\ after = Append(SubSeq(before, 1, n - 2), "list")
<1> DEFINE n == Len(before)
<1>1. n \in Nat /\ (n + 1) - 1 = n /\ (n + 1) - 2 = n - 1 /\ n - 0 = n
  OBVIOUS
<1>2. n <= n /\ (2 <= n => n > 1) /\ (1 <= n => n > 0)
  BY <1>1
<1> HIDE DEF n
<1>3. /\ "leaf" \notin {"pair", "singleton", "src", "nil", "cons", "rev", "cat"}
      /\ "pair" \notin {"singleton", "src", "nil", "cons", "rev", "cat"}
      /\ "singleton" \notin {"src", "nil", "cons", "rev", "cat"}
      /\ "src" \notin {"nil", "cons", "rev", "cat"} /\ "nil" \notin {"cons", "rev", "cat"}
      /\ "cons" \notin {"rev", "cat"} /\ "rev" # "cat"
  OBVIOUS
<1>4. CASE call.op = "leaf"
  BY <1>1, <1>3, <1>4 DEF Typed, n
<1>5. CASE call.op = "pair"
  BY <1>1, <1>2, <1>3, <1>5 DEF Typed, n
<1>6. CASE call.op = "singleton"
  BY <1>1, <1>2, <1>3, <1>6 DEF Typed, n
<1>7. CASE call.op = "src"
  BY <1>1, <1>2, <1>3, <1>7 DEF Typed, n
<1>8. CASE call.op = "nil"
  BY <1>1, <1>2, <1>3, <1>8 DEF Typed, n
<1>9. CASE call.op = "cons"
  BY <1>1, <1>2, <1>3, <1>9 DEF Typed, n
<1>10. CASE call.op = "rev"
  BY <1>1, <1>2, <1>3, <1>10 DEF Typed, n
<1>11. CASE call.op = "cat"
  BY <1>1, <1>2, <1>3, <1>11 DEF Typed, n
<1>12. CASE call.op \notin {"leaf", "pair", "singleton", "src", "nil", "cons", "rev", "cat"}
  BY <1>12 DEF Typed
<1> QED
  BY <1>4, <1>5, <1>6, <1>7, <1>8, <1>9, <1>10, <1>11, <1>12
-----------------------------------------------------------------------------
\* malloc has returned the addresses from 1 on.
LEMMA Addresses ==
    ASSUME NEW n \in Nat, DOMAIN heap = 1 .. n
    PROVE  /\ Cardinality(DOMAIN heap) = n
           /\ \A k \in Int : Fresh(k) = n + k
           /\ n + 1 \in Int /\ n + 2 \in Int /\ n + 3 \in Int
           /\ n + 1 # NULL /\ n + 2 # NULL /\ n + 3 # NULL
           /\ n + 1 \notin DOMAIN heap /\ n + 2 \notin DOMAIN heap /\ n + 3 \notin DOMAIN heap
<1>1. Cardinality(1 .. n) = n
  <2>1. Cardinality(1 .. n) = IF 1 > n THEN 0 ELSE n - 1 + 1
    BY FS_Interval
  <2> QED
    BY <2>1
<1> QED
  BY <1>1 DEF Fresh, NULL

LEMMA Allocated1 ==
    ASSUME NEW n \in Nat, DOMAIN heap = 1 .. n, NEW o, Allocate(<<o>>)
    PROVE  DOMAIN heap' = 1 .. n + 1 /\ heap' = Put(heap, n + 1, o)
<1>1. Cardinality(DOMAIN heap) = n /\ \A k \in Int : Fresh(k) = n + k
  BY Addresses
<1>2. DOMAIN <<o>> = {1} /\ <<o>>[1] = o
  OBVIOUS
<1>3. heap' = [a \in DOMAIN heap \cup {Fresh(k) : k \in DOMAIN <<o>>} |->
                  IF a \in DOMAIN heap THEN heap[a] ELSE <<o>>[a - Cardinality(DOMAIN heap)]]
  BY Zenon DEF Allocate
<1>4. {Fresh(k) : k \in DOMAIN <<o>>} = {n + 1}
  BY <1>1, <1>2
<1>5. heap' = [a \in DOMAIN heap \cup {n + 1} |->
                  IF a \in DOMAIN heap THEN heap[a] ELSE <<o>>[a - n]]
  BY <1>1, <1>3, <1>4, Zenon
<1>6. \A a \in DOMAIN heap \cup {n + 1} :
          (IF a \in DOMAIN heap THEN heap[a] ELSE <<o>>[a - n]) =
          (IF a = n + 1 THEN o ELSE heap[a])
  BY <1>2
<1>7. heap' = Put(heap, n + 1, o)
  BY <1>5, <1>6, Zenon DEF Put
<1>8. DOMAIN heap' = 1 .. n + 1
  <2>1. DOMAIN heap' = DOMAIN heap \cup {n + 1}
    BY <1>5
  <2> QED
    BY <2>1
<1> QED
  BY <1>7, <1>8

LEMMA Allocated2 ==
    ASSUME NEW n \in Nat, DOMAIN heap = 1 .. n, NEW o, NEW p, Allocate(<<o, p>>)
    PROVE  DOMAIN heap' = 1 .. n + 2 /\ heap' = Put(Put(heap, n + 1, o), n + 2, p)
<1>1. Cardinality(DOMAIN heap) = n /\ \A k \in Int : Fresh(k) = n + k
  BY Addresses
<1>2. DOMAIN <<o, p>> = {1, 2} /\ <<o, p>>[1] = o /\ <<o, p>>[2] = p
  OBVIOUS
<1>3. heap' = [a \in DOMAIN heap \cup {Fresh(k) : k \in DOMAIN <<o, p>>} |->
                  IF a \in DOMAIN heap THEN heap[a] ELSE <<o, p>>[a - Cardinality(DOMAIN heap)]]
  BY Zenon DEF Allocate
<1>4. {Fresh(k) : k \in DOMAIN <<o, p>>} = {n + 1, n + 2}
  <2>1. Fresh(1) = n + 1 /\ Fresh(2) = n + 2
    BY <1>1
  <2> QED
    BY <1>2, <2>1, Zenon
<1>5. heap' = [a \in DOMAIN heap \cup {n + 1, n + 2} |->
                  IF a \in DOMAIN heap THEN heap[a] ELSE <<o, p>>[a - n]]
  BY <1>1, <1>3, <1>4, Zenon
<1> DEFINE h1 == Put(heap, n + 1, o)
           h2 == Put(h1, n + 2, p)
<1>6. /\ h1 = [a \in DOMAIN heap \cup {n + 1} |-> IF a = n + 1 THEN o ELSE heap[a]]
      /\ h2 = [a \in DOMAIN h1 \cup {n + 2} |-> IF a = n + 2 THEN p ELSE h1[a]]
  BY Zenon DEF Put
<1> HIDE DEF h1, h2
<1>7. DOMAIN h1 = DOMAIN heap \cup {n + 1}
  BY <1>6
<1>8. h2 = [a \in DOMAIN heap \cup {n + 1, n + 2} |-> IF a = n + 2 THEN p ELSE h1[a]]
  <2>1. DOMAIN h1 \cup {n + 2} = DOMAIN heap \cup {n + 1, n + 2}
    BY <1>7
  <2> QED
    BY <1>6, <2>1
<1>9. \A a \in DOMAIN heap \cup {n + 1, n + 2} :
          (IF a \in DOMAIN heap THEN heap[a] ELSE <<o, p>>[a - n]) =
          (IF a = n + 2 THEN p ELSE h1[a])
  BY <1>2, <1>6
<1>10. heap' = h2
  BY <1>5, <1>8, <1>9, Zenon
<1>11. DOMAIN heap' = 1 .. n + 2
  <2>1. DOMAIN heap' = DOMAIN heap \cup {n + 1, n + 2}
    BY <1>5
  <2> QED
    BY <2>1
<1> QED
  BY <1>10, <1>11 DEF h1, h2

\* The second before the first, which points to it.
LEMMA Allocated3 ==
    ASSUME NEW n \in Nat, DOMAIN heap = 1 .. n, NEW o, NEW p, NEW q, Allocate(<<o, p, q>>)
    PROVE  /\ DOMAIN heap' = 1 .. n + 3
           /\ heap' = Put(Put(Put(heap, n + 2, p), n + 1, o), n + 3, q)
<1>1. Cardinality(DOMAIN heap) = n /\ \A k \in Int : Fresh(k) = n + k
  BY Addresses
<1>2. DOMAIN <<o, p, q>> = {1, 2, 3} /\ <<o, p, q>>[1] = o /\ <<o, p, q>>[2] = p
      /\ <<o, p, q>>[3] = q
  OBVIOUS
<1>3. heap' = [a \in DOMAIN heap \cup {Fresh(k) : k \in DOMAIN <<o, p, q>>} |->
                  IF a \in DOMAIN heap THEN heap[a] ELSE <<o, p, q>>[a - Cardinality(DOMAIN heap)]]
  BY Zenon DEF Allocate
<1>4. {Fresh(k) : k \in DOMAIN <<o, p, q>>} = {n + 1, n + 2, n + 3}
  <2>1. Fresh(1) = n + 1 /\ Fresh(2) = n + 2 /\ Fresh(3) = n + 3
    BY <1>1
  <2> QED
    BY <1>2, <2>1, Zenon
<1>5. heap' = [a \in DOMAIN heap \cup {n + 1, n + 2, n + 3} |->
                  IF a \in DOMAIN heap THEN heap[a] ELSE <<o, p, q>>[a - n]]
  BY <1>1, <1>3, <1>4, Zenon
<1> DEFINE h1 == Put(heap, n + 2, p)
           h2 == Put(h1, n + 1, o)
           h3 == Put(h2, n + 3, q)
<1>6. /\ h1 = [a \in DOMAIN heap \cup {n + 2} |-> IF a = n + 2 THEN p ELSE heap[a]]
      /\ h2 = [a \in DOMAIN h1 \cup {n + 1} |-> IF a = n + 1 THEN o ELSE h1[a]]
      /\ h3 = [a \in DOMAIN h2 \cup {n + 3} |-> IF a = n + 3 THEN q ELSE h2[a]]
  BY Zenon DEF Put
<1> HIDE DEF h1, h2, h3
<1>7. /\ DOMAIN h1 = DOMAIN heap \cup {n + 2}
      /\ DOMAIN h2 = DOMAIN heap \cup {n + 1, n + 2}
      /\ DOMAIN h2 \cup {n + 3} = DOMAIN heap \cup {n + 1, n + 2, n + 3}
  <2>1. DOMAIN h1 = DOMAIN heap \cup {n + 2}
    BY <1>6
  <2>2. DOMAIN h2 = DOMAIN h1 \cup {n + 1}
    BY <1>6
  <2> QED
    BY <2>1, <2>2
<1>8. h3 = [a \in DOMAIN heap \cup {n + 1, n + 2, n + 3} |-> IF a = n + 3 THEN q ELSE h2[a]]
  BY <1>6, <1>7
<1>9. ASSUME NEW a \in DOMAIN heap \cup {n + 1, n + 2, n + 3}
      PROVE  (IF a \in DOMAIN heap THEN heap[a] ELSE <<o, p, q>>[a - n]) =
             (IF a = n + 3 THEN q ELSE h2[a])
  <2>1. CASE a \in DOMAIN heap
    <3>1. h2[a] = h1[a] /\ h1[a] = heap[a] /\ a # n + 3
      BY <1>6, <1>7, <2>1
    <3> QED
      BY <2>1, <3>1
  <2>2. CASE a \in {n + 1, n + 2, n + 3}
    <3>1. h2[n + 1] = o /\ h2[n + 2] = p
      BY <1>6, <1>7
    <3> QED
      BY <1>2, <2>2, <3>1
  <2> QED
    BY <2>1, <2>2
<1>10. heap' = h3
  BY <1>5, <1>8, <1>9, Zenon
<1>11. DOMAIN heap' = 1 .. n + 3
  <2>1. DOMAIN heap' = DOMAIN heap \cup {n + 1, n + 2, n + 3}
    BY <1>5
  <2> QED
    BY <2>1
<1> QED
  BY <1>10, <1>11 DEF h1, h2, h3
-----------------------------------------------------------------------------
\* Between two calls, in the middle of pgc_ast_rev, and in that of pgc_ast_cat.
Dense == \E n \in Nat : DOMAIN heap = 1 .. n
Idle == loop = <<>> /\ Owned(heap, values, Before)
Reversing ==
    /\ code # <<>> /\ Instruction.op = "rev" /\ values \in Seq(Int)
    /\ \E l, r \in Int :
          /\ loop = <<[lst |-> l, res |-> r]>>
          /\ Owned(heap, values \o <<l, r>>, Append(Before, "list"))
Joining ==
    /\ code # <<>> /\ Instruction.op = "cat" /\ values \in Seq(Int)
    /\ \E f, a, s \in Int :
          /\ loop = <<[fst |-> f, at |-> a, snd |-> s]>>
          /\ f # NULL /\ a \in DOMAIN heap /\ IsCell(heap[a]) /\ Above(heap, f, a)
          /\ Owned(heap, values \o <<f, s>>, Before)

LEMMA Top ==
    ASSUME NEW h, NEW ty, Owned(h, values, ty)
    PROVE  /\ values \in Seq(Int) /\ Len(values) \in Nat /\ Len(ty) = Len(values)
           /\ Held(1) = values[Len(values)] /\ Held(2) = values[Len(values) - 1]
<1>1. values \in Seq(Int) /\ Len(ty) = Len(values)
  BY Zenon DEF Owned, Fits
<1> QED
  BY <1>1 DEF Held

\* Each call that is one step leaves the memory as its type says.
LEMMA LeafStep ==
    ASSUME Progress, Dense, Idle, NewLeaf
    PROVE  Progress' /\ Dense' /\ Idle'
<1> DEFINE t == values
           l == Len(values)
<1>1. PICK n \in Nat : DOMAIN heap = 1 .. n
  BY Zenon DEF Dense
<1>2. n + 1 \in Int /\ n + 1 # NULL /\ n + 1 \notin DOMAIN heap /\ Fresh(1) = n + 1
  BY <1>1, Addresses
<1>3. Owned(heap, t, Before) /\ loop = <<>>
  BY Zenon DEF Idle
<1>4. /\ code # <<>> /\ Instruction.op = "leaf" /\ program' = program /\ code' = Tail(code)
      /\ Allocate(<<Leaf(Instruction.tag, Instruction.data)>>)
      /\ values' = SubSeq(values, 1, l - 0) \o <<Fresh(1)>> /\ loop' = loop
  BY Zenon DEF NewLeaf, Executes, Done, Replace
<1>5. t \in Seq(Int) /\ l \in Nat /\ Len(Before) = l
  BY <1>3, Top
<1>6. /\ Typed(Instruction, Before, After) /\ Before \in Seq({"tree", "list"})
      /\ Progress' /\ Before' = After
  BY <1>4, NextCall
<1>7. Instruction.tag \in LeafTags /\ After = Append(SubSeq(Before, 1, l), "tree")
  BY <1>4, <1>5, <1>6, TypedCalls
<1>8. DOMAIN heap' = 1 .. n + 1 /\ heap' = Put(heap, n + 1, Leaf(Instruction.tag, Instruction.data))
  BY <1>1, <1>4, Allocated1
<1>9. Owned(Put(heap, n + 1, Leaf(Instruction.tag, Instruction.data)),
            SubSeq(t, 1, l) \o <<n + 1>>, Append(SubSeq(Before, 1, l), "tree"))
  BY <1>2, <1>3, <1>7, MadeLeaf, Zenon
<1>10. values' = SubSeq(t, 1, l) \o <<n + 1>>
  <2>1. l - 0 = l
    BY <1>5
  <2> HIDE DEF l
  <2> QED
    BY <1>2, <1>4, <2>1
<1>11. Owned(heap', values', Before')
  <2> HIDE DEF l
  <2> QED
    BY <1>6, <1>7, <1>8, <1>9, <1>10
<1>12. Dense'
  <2>1. n + 1 \in Nat
    OBVIOUS
  <2> QED
    BY <1>8, <2>1, Zenon DEF Dense
<1> QED
  BY <1>3, <1>4, <1>6, <1>11, <1>12 DEF Idle

LEMMA SrcStep ==
    ASSUME Progress, Dense, Idle, NewSrc
    PROVE  Progress' /\ Dense' /\ Idle'
<1> DEFINE t == values
           l == Len(values)
<1>1. PICK n \in Nat : DOMAIN heap = 1 .. n
  BY Zenon DEF Dense
<1>2. n + 1 \in Int /\ n + 1 # NULL /\ n + 1 \notin DOMAIN heap /\ Fresh(1) = n + 1
  BY <1>1, Addresses
<1>3. Owned(heap, t, Before) /\ loop = <<>>
  BY Zenon DEF Idle
<1>4. /\ code # <<>> /\ Instruction.op = "src" /\ program' = program /\ code' = Tail(code)
      /\ Allocate(<<ListNode("SRC", Held(1))>>)
      /\ values' = SubSeq(values, 1, l - 1) \o <<Fresh(1)>> /\ loop' = loop
  BY Zenon DEF NewSrc, Executes, Done, Replace
<1>5. t \in Seq(Int) /\ l \in Nat /\ Len(Before) = l /\ Held(1) = t[l]
  BY <1>3, Top
<1>6. /\ Typed(Instruction, Before, After) /\ Before \in Seq({"tree", "list"})
      /\ Progress' /\ Before' = After
  BY <1>4, NextCall
<1>7. l > 0 /\ Before[l] = "list" /\ After = Append(SubSeq(Before, 1, l - 1), "tree")
  BY <1>4, <1>5, <1>6, TypedCalls
<1>8. DOMAIN heap' = 1 .. n + 1 /\ heap' = Put(heap, n + 1, ListNode("SRC", t[l]))
  BY <1>1, <1>4, <1>5, Allocated1
<1>9. Owned(Put(heap, n + 1, ListNode("SRC", t[l])),
            SubSeq(t, 1, l - 1) \o <<n + 1>>, Append(SubSeq(Before, 1, l - 1), "tree"))
  <2>1. "SRC" \in ListTags
    BY DEF ListTags
  <2> QED
    BY <1>2, <1>3, <1>7, <2>1, MadeList, Zenon
<1>10. Owned(heap', values', Before')
  <2> HIDE DEF l
  <2> QED
    BY <1>2, <1>4, <1>6, <1>7, <1>8, <1>9
<1>11. Dense'
  <2>1. n + 1 \in Nat
    OBVIOUS
  <2> QED
    BY <1>8, <2>1, Zenon DEF Dense
<1> QED
  BY <1>3, <1>4, <1>6, <1>10, <1>11 DEF Idle

LEMMA ConsStep ==
    ASSUME Progress, Dense, Idle, ConsCell
    PROVE  Progress' /\ Dense' /\ Idle'
<1> DEFINE t == values
           l == Len(values)
<1>1. PICK n \in Nat : DOMAIN heap = 1 .. n
  BY Zenon DEF Dense
<1>2. n + 1 \in Int /\ n + 1 # NULL /\ n + 1 \notin DOMAIN heap /\ Fresh(1) = n + 1
  BY <1>1, Addresses
<1>3. Owned(heap, t, Before) /\ loop = <<>>
  BY Zenon DEF Idle
<1>4. /\ code # <<>> /\ Instruction.op = "cons" /\ program' = program /\ code' = Tail(code)
      /\ Allocate(<<Cell(Held(1), Held(2))>>)
      /\ values' = SubSeq(values, 1, l - 2) \o <<Fresh(1)>> /\ loop' = loop
  BY Zenon DEF ConsCell, Executes, Done, Replace
<1>5. t \in Seq(Int) /\ l \in Nat /\ Len(Before) = l /\ Held(1) = t[l] /\ Held(2) = t[l - 1]
  BY <1>3, Top
<1>6. /\ Typed(Instruction, Before, After) /\ Before \in Seq({"tree", "list"})
      /\ Progress' /\ Before' = After
  BY <1>4, NextCall
<1>7. /\ l > 1 /\ Before[l] = "tree" /\ Before[l - 1] = "list"
      /\ After = Append(SubSeq(Before, 1, l - 2), "list")
  BY <1>4, <1>5, <1>6, TypedCalls
<1>8. DOMAIN heap' = 1 .. n + 1 /\ heap' = Put(heap, n + 1, Cell(t[l], t[l - 1]))
  BY <1>1, <1>4, <1>5, Allocated1
<1>9. Owned(Put(heap, n + 1, Cell(t[l], t[l - 1])),
            SubSeq(t, 1, l - 2) \o <<n + 1>>, Append(SubSeq(Before, 1, l - 2), "list"))
  <2>1. l \in {l - 1, l} /\ l - 1 \in {l - 1, l} /\ l # l - 1
    BY <1>5
  <2> QED
    BY <1>2, <1>3, <1>7, <2>1, MadeCell, Zenon
<1>10. Owned(heap', values', Before')
  <2> HIDE DEF l
  <2> QED
    BY <1>2, <1>4, <1>6, <1>7, <1>8, <1>9
<1>11. Dense'
  <2>1. n + 1 \in Nat
    OBVIOUS
  <2> QED
    BY <1>8, <2>1, Zenon DEF Dense
<1> QED
  BY <1>3, <1>4, <1>6, <1>10, <1>11 DEF Idle

LEMMA SingletonStep ==
    ASSUME Progress, Dense, Idle, NewSingleton
    PROVE  Progress' /\ Dense' /\ Idle'
<1> DEFINE t == values
           l == Len(values)
           ty == Before
<1>1. PICK n \in Nat : DOMAIN heap = 1 .. n
  BY Zenon DEF Dense
<1>2. /\ n + 1 \in Int /\ n + 1 # NULL /\ n + 1 \notin DOMAIN heap /\ Fresh(1) = n + 1
      /\ n + 2 \in Int /\ n + 2 # NULL /\ n + 2 \notin DOMAIN heap /\ Fresh(2) = n + 2
      /\ n + 2 # n + 1
  BY <1>1, Addresses
<1>3. Owned(heap, t, ty) /\ loop = <<>>
  BY Zenon DEF Idle
<1>4. /\ code # <<>> /\ Instruction.op = "singleton" /\ program' = program /\ code' = Tail(code)
      /\ Allocate(<<Cell(Held(1), NULL), ListNode(Instruction.tag, Fresh(1))>>)
      /\ values' = SubSeq(values, 1, l - 1) \o <<Fresh(2)>> /\ loop' = loop
  BY Zenon DEF NewSingleton, Executes, Done, Replace
<1>5. t \in Seq(Int) /\ l \in Nat /\ Len(ty) = l /\ Held(1) = t[l]
  BY <1>3, Top
<1>6. /\ Typed(Instruction, ty, After) /\ ty \in Seq({"tree", "list"})
      /\ Progress' /\ Before' = After
  BY <1>4, NextCall
<1>7. /\ l > 0 /\ ty[l] = "tree" /\ After = Append(SubSeq(ty, 1, l - 1), "tree")
      /\ Instruction.tag = "DEC"
  BY <1>4, <1>5, <1>6, TypedCalls
<1> DEFINE h1 == Put(heap, n + 1, Cell(t[l], NULL))
           t1 == SubSeq(t, 1, l - 1) \o <<n + 1>>
           ty1 == Append(SubSeq(ty, 1, l - 1), "list")
<1>8. DOMAIN heap' = 1 .. n + 2 /\ heap' = Put(h1, n + 2, ListNode("DEC", n + 1))
  BY <1>1, <1>2, <1>4, <1>5, <1>7, Allocated2
<1>9. Owned(h1, t1, ty1)
  BY <1>2, <1>3, <1>7, MadeLast, Zenon
<1>10. /\ Len(t1) = l /\ Len(t1) > 0 /\ t1[l] = n + 1 /\ ty1[l] = "list"
       /\ SubSeq(t1, 1, l - 1) = SubSeq(t, 1, l - 1)
       /\ SubSeq(ty1, 1, l - 1) = SubSeq(ty, 1, l - 1)
  <2> DEFINE b == l - 1
  <2>1. b \in 0 .. Len(t) /\ b \in 0 .. b /\ b + 1 = l /\ "list" \in {"tree", "list"} /\ n + 1 \in Int
    BY <1>5, <1>7
  <2>2. t1 = SubSeq(t, 1, b) \o <<n + 1>> /\ ty1 = Append(SubSeq(ty, 1, b), "list")
    OBVIOUS
  <2>3. Len(ty) = Len(t) /\ ty \in Seq({"tree", "list"})
    BY <1>5, <1>6
  <2> HIDE DEF t1, ty1, b, ty
  <2>4. Len(t1) = b + 1 /\ t1[b + 1] = n + 1 /\ SubSeq(t1, 1, b) = SubSeq(t, 1, b)
    BY <1>5, <2>1, <2>2
  <2>5. ty1[b + 1] = "list" /\ SubSeq(ty1, 1, b) = SubSeq(ty, 1, b)
    BY <1>5, <2>1, <2>2, <2>3
  <2>6. b = l - 1
    BY DEF b
  <2> HIDE DEF l
  <2> QED
    BY <1>7, <2>1, <2>4, <2>5, <2>6
<1>11. n + 2 \notin DOMAIN h1
  <2>1. DOMAIN h1 = DOMAIN heap \cup {n + 1}
    BY DEF Put
  <2> QED
    BY <1>2, <2>1, Zenon
<1>12. Owned(Put(h1, n + 2, ListNode("DEC", n + 1)), SubSeq(t, 1, l - 1) \o <<n + 2>>,
             Append(SubSeq(ty, 1, l - 1), "tree"))
  <2>1. "DEC" \in ListTags
    BY DEF ListTags
  <2> HIDE DEF h1, t1, ty1
  <2>2. Owned(Put(h1, n + 2, ListNode("DEC", t1[Len(t1)])), SubSeq(t1, 1, Len(t1) - 1) \o <<n + 2>>,
             Append(SubSeq(ty1, 1, Len(t1) - 1), "tree"))
    BY <1>2, <1>9, <1>10, <1>11, <2>1, MadeList, Zenon
  <2> QED
    BY <1>10, <2>2
<1>13. Owned(heap', values', Before')
  <2> HIDE DEF l, h1, ty
  <2> QED
    BY <1>2, <1>4, <1>6, <1>7, <1>8, <1>12
<1>14. Dense'
  <2>1. n + 2 \in Nat
    OBVIOUS
  <2> QED
    BY <1>8, <2>1, Zenon DEF Dense
<1> QED
  BY <1>3, <1>4, <1>6, <1>13, <1>14 DEF Idle

LEMMA PairStep ==
    ASSUME Progress, Dense, Idle, NewPair
    PROVE  Progress' /\ Dense' /\ Idle'
<1> DEFINE t == values
           l == Len(values)
           ty == Before
           tag == Instruction.tag
<1>1. PICK n \in Nat : DOMAIN heap = 1 .. n
  BY Zenon DEF Dense
<1>2. /\ n + 1 \in Int /\ n + 1 # NULL /\ n + 1 \notin DOMAIN heap /\ Fresh(1) = n + 1
      /\ n + 2 \in Int /\ n + 2 # NULL /\ n + 2 \notin DOMAIN heap /\ Fresh(2) = n + 2
      /\ n + 3 \in Int /\ n + 3 # NULL /\ n + 3 \notin DOMAIN heap /\ Fresh(3) = n + 3
      /\ n + 2 # n + 1 /\ n + 3 # n + 1 /\ n + 3 # n + 2
  <2>1. n + 2 # n + 1 /\ n + 3 # n + 1 /\ n + 3 # n + 2
    OBVIOUS
  <2>2. Fresh(1) = n + 1 /\ Fresh(2) = n + 2 /\ Fresh(3) = n + 3
    <3>1. \A k \in Int : Fresh(k) = n + k
      BY <1>1, Addresses, Zenon
    <3> QED
      BY <3>1
  <2> QED
    BY <1>1, <2>1, <2>2, Addresses, Zenon
<1>3. Owned(heap, t, ty) /\ loop = <<>>
  BY Zenon DEF Idle
<1>4. /\ code # <<>> /\ Instruction.op = "pair" /\ program' = program /\ code' = Tail(code)
      /\ Allocate(Append(<<Cell(Held(2), Fresh(2)), Cell(Held(1), NULL)>>, ListNode(tag, Fresh(1))))
      /\ values' = SubSeq(values, 1, l - 2) \o <<Fresh(3)>> /\ loop' = loop
  BY Zenon DEF NewPair, Executes, Done, Replace, Pair
<1>5. t \in Seq(Int) /\ l \in Nat /\ Len(ty) = l /\ Held(1) = t[l] /\ Held(2) = t[l - 1]
  BY <1>3, Top
<1>6. /\ Typed(Instruction, ty, After) /\ ty \in Seq({"tree", "list"})
      /\ Progress' /\ Before' = After
  BY <1>4, NextCall
<1>7. /\ l > 1 /\ ty[l] = "tree" /\ ty[l - 1] = "tree"
      /\ After = Append(SubSeq(ty, 1, l - 2), "tree") /\ tag \in PairTags
  BY <1>4, <1>5, <1>6, TypedCalls
<1> DEFINE h1 == Put(heap, n + 2, Cell(t[l], NULL))
           h2 == Put(h1, n + 1, Cell(t[l - 1], n + 2))
           t1 == SubSeq(t, 1, l - 1) \o <<n + 2>>
           ty1 == Append(SubSeq(ty, 1, l - 1), "list")
           t2 == SubSeq(t, 1, l - 2) \o <<n + 1>>
           ty2 == Append(SubSeq(ty, 1, l - 2), "list")
<1>8. DOMAIN heap' = 1 .. n + 3 /\ heap' = Put(h2, n + 3, ListNode(tag, n + 1))
  <2>1. ASSUME NEW o, NEW p, NEW q
        PROVE  Append(<<o, p>>, q) = <<o, p, q>>
    <3> DEFINE S == {o, p, q}
    <3>1. <<o, p>> \in Seq(S) /\ <<o, p, q>> \in Seq(S) /\ q \in S
      OBVIOUS
    <3>2. Append(<<o, p>>, q) \in Seq(S) /\ Len(Append(<<o, p>>, q)) = 3
      BY <3>1
    <3>3. \A i \in 1 .. 3 : Append(<<o, p>>, q)[i] = <<o, p, q>>[i]
      OBVIOUS
    <3>4. Len(<<o, p, q>>) = 3
      OBVIOUS
    <3> HIDE DEF S
    <3> QED
      BY <3>1, <3>2, <3>3, <3>4, SeqEqual, Zenon
  <2>2. Allocate(<<Cell(t[l - 1], n + 2), Cell(t[l], NULL), ListNode(tag, n + 1)>>)
    BY <1>2, <1>4, <1>5, <2>1
  <2> QED
    BY <1>1, <2>2, Allocated3
<1>9. Owned(h1, t1, ty1)
  <2>1. l > 0
    BY <1>7
  <2> QED
    BY <1>2, <1>3, <1>7, <2>1, MadeLast, Zenon
<1>10. /\ Len(t1) = l /\ t1[l] = n + 2 /\ t1[l - 1] = t[l - 1]
       /\ SubSeq(t1, 1, l - 2) = SubSeq(t, 1, l - 2)
       /\ Len(t2) = l - 1 /\ t2[l - 1] = n + 1 /\ SubSeq(t2, 1, l - 2) = SubSeq(t, 1, l - 2)
  <2>1. t \in Seq(Int) /\ l - 1 \in 0 .. Len(t) /\ l - 2 \in 0 .. Len(t) /\ (l - 1) + 1 = l
        /\ (l - 2) + 1 = l - 1 /\ l - 1 \in 1 .. l - 1 /\ n + 1 \in Int /\ n + 2 \in Int
        /\ l - 2 \in 0 .. l - 1 /\ l - 2 \in 0 .. l - 2
    BY <1>5, <1>7
  <2>2. /\ t1 \in Seq(Int) /\ Len(t1) = l /\ t1[l] = n + 2
        /\ \A i \in 1 .. l - 1 : t1[i] = t[i]
    <3> HIDE DEF l
    <3> QED
      BY <2>1, Pushed
  <2>3. /\ t2 \in Seq(Int) /\ Len(t2) = l - 1 /\ t2[l - 1] = n + 1
        /\ \A i \in 1 .. l - 2 : t2[i] = t[i]
    <3> DEFINE b == l - 2
    <3>1. b \in 0 .. Len(t) /\ n + 1 \in Int /\ t2 = SubSeq(t, 1, b) \o <<n + 1>>
      BY <2>1
    <3> HIDE DEF b, t2
    <3>2. /\ t2 \in Seq(Int) /\ Len(t2) = b + 1 /\ t2[b + 1] = n + 1
          /\ \A i \in 1 .. b : t2[i] = t[i]
      BY <2>1, <3>1, Pushed
    <3> QED
      BY <2>1, <3>2 DEF b
  <2>4. SubSeq(t1, 1, l - 2) = SubSeq(t, 1, l - 2)
    <3> HIDE DEF t1
    <3> QED
      BY <1>5, <1>7, <2>2
  <2>5. SubSeq(t2, 1, l - 2) = SubSeq(t, 1, l - 2)
    <3> HIDE DEF t2
    <3> QED
      BY <1>5, <1>7, <2>3
  <2> QED
    BY <2>1, <2>2, <2>3, <2>4, <2>5, Zenon
<1>11. /\ ty1[l] = "list" /\ ty1[l - 1] = "tree" /\ SubSeq(ty1, 1, l - 2) = SubSeq(ty, 1, l - 2)
       /\ ty2[l - 1] = "list" /\ SubSeq(ty2, 1, l - 2) = SubSeq(ty, 1, l - 2)
  <2> HIDE DEF ty
  <2> QED
    BY <1>5, <1>6, <1>7
<1>12. DOMAIN h1 = DOMAIN heap \cup {n + 2} /\ DOMAIN h2 = DOMAIN heap \cup {n + 2, n + 1}
  <2>1. DOMAIN h1 = DOMAIN heap \cup {n + 2}
    BY Zenon DEF Put
  <2>2. DOMAIN h2 = DOMAIN h1 \cup {n + 1}
    BY DEF Put
  <2> HIDE DEF h1, h2
  <2> QED
    BY <2>1, <2>2
<1>13. n + 1 \notin DOMAIN h1 /\ n + 3 \notin DOMAIN h2
  <2> HIDE DEF h1, h2
  <2> QED
    BY <1>2, <1>12, Zenon
<1>14. Owned(h2, t2, ty2)
  <2>1. l > 1 /\ l - 1 \in {l - 1, l} /\ l \in {l - 1, l} /\ l - 1 # l
    BY <1>5, <1>7
  <2> HIDE DEF h1, t1, ty1, l, ty
  <2>2. Owned(Put(h1, n + 1, Cell(t1[l - 1], t1[l])), SubSeq(t1, 1, Len(t1) - 2) \o <<n + 1>>,
              Append(SubSeq(ty1, 1, Len(t1) - 2), "list"))
    BY <1>2, <1>9, <1>10, <1>11, <1>13, <2>1, MadeCell
  <2> QED
    BY <1>10, <1>11, <2>2
<1>15. Owned(Put(h2, n + 3, ListNode(tag, n + 1)), SubSeq(t, 1, l - 2) \o <<n + 3>>,
             Append(SubSeq(ty, 1, l - 2), "tree"))
  <2>1. tag \in ListTags
    BY <1>7 DEF ListTags
  <2>2. Len(t2) > 0 /\ Len(t2) - 1 = l - 2
    <3> HIDE DEF t2
    <3> QED
      BY <1>5, <1>7, <1>10
  <2> HIDE DEF h2, t2, ty2, l, ty
  <2>3. Owned(Put(h2, n + 3, ListNode(tag, t2[Len(t2)])), SubSeq(t2, 1, Len(t2) - 1) \o <<n + 3>>,
             Append(SubSeq(ty2, 1, Len(t2) - 1), "tree"))
    <3>1. ty2[Len(t2)] = "list"
      BY <1>10, <1>11
    <3> QED
      BY <1>2, <1>13, <1>14, <2>1, <2>2, <3>1, MadeList, Zenon
  <2> QED
    BY <1>10, <1>11, <2>2, <2>3
<1>16. Owned(heap', values', Before')
  <2> HIDE DEF l, h2, ty, tag
  <2> QED
    BY <1>2, <1>4, <1>6, <1>7, <1>8, <1>15
<1>17. Dense'
  <2>1. n + 3 \in Nat
    OBVIOUS
  <2> QED
    BY <1>8, <2>1, Zenon DEF Dense
<1> QED
  BY <1>3, <1>4, <1>6, <1>16, <1>17 DEF Idle

LEMMA NilStep ==
    ASSUME Progress, Dense, Idle, Nil
    PROVE  Progress' /\ Dense' /\ Idle'
<1> DEFINE t == values
           l == Len(values)
           ty == Before
<1>1. Owned(heap, t, ty) /\ loop = <<>>
  BY Zenon DEF Idle
<1>2. /\ code # <<>> /\ Instruction.op = "nil" /\ program' = program /\ code' = Tail(code)
      /\ values' = SubSeq(values, 1, l - 0) \o <<NULL>> /\ heap' = heap /\ loop' = loop
  BY Zenon DEF Nil, Executes, Done, Replace
<1>3. t \in Seq(Int) /\ l \in Nat /\ Len(ty) = l /\ l - 0 = l /\ l \in 0 .. l
      /\ \A i : i \notin l + 1 .. l
  BY <1>1, Top
<1>4. /\ Typed(Instruction, ty, After) /\ ty \in Seq({"tree", "list"}) /\ After \in Seq({"tree", "list"})
      /\ Progress' /\ Before' = After
  BY <1>2, NextCall
<1>5. After = Append(SubSeq(ty, 1, l), "list")
  BY <1>2, <1>3, <1>4, TypedCalls
<1>6. /\ NULL \in Int /\ "list" \in {"tree", "list"} /\ "list" # "tree" /\ ListPtr(heap, NULL)
      /\ Keeps(heap, heap)
  BY DEF NULL, ListPtr, Keeps
<1>7. Fits(heap, t, ty) /\ Apart(t) /\ Shape(heap) /\ Forest(heap, RootsOf(t))
  BY <1>1, Zenon DEF Owned
<1> DEFINE t2 == SubSeq(t, 1, l) \o <<NULL>>
<1>8. /\ t2 \in Seq(Int) /\ Fits(heap, t2, Append(SubSeq(ty, 1, l), "list")) /\ Apart(t2)
      /\ RootsOf(t2) = (RootsOf(t) \ {t[i] : i \in l + 1 .. l}) \cup ({NULL} \ {NULL})
  <2> HIDE DEF ty
  <2> QED
    BY <1>3, <1>4, <1>6, <1>7, PushedHolds, Zenon
<1>9. RootsOf(t2) = RootsOf(t)
  <2> HIDE DEF t2
  <2> QED
    BY <1>3, <1>8, Zenon
<1>10. Owned(heap, t2, After)
  <2> HIDE DEF t2
  <2> QED
    BY <1>4, <1>5, <1>7, <1>8, <1>9 DEF Owned
<1>11. values' = t2
  <2> HIDE DEF l
  <2> QED
    BY <1>2, <1>3
<1>12. Dense'
  BY <1>2 DEF Dense
<1> QED
  BY <1>1, <1>2, <1>4, <1>10, <1>11, <1>12 DEF Idle

LEMMA CatNothingStep ==
    ASSUME Progress, Dense, Idle, CatNothing
    PROVE  Progress' /\ Dense' /\ Idle'
<1> DEFINE t == values
           l == Len(values)
           ty == Before
<1>1. Owned(heap, t, ty) /\ loop = <<>>
  BY Zenon DEF Idle
<1>2. t \in Seq(Int) /\ l \in Nat /\ Len(ty) = l /\ Held(1) = t[l] /\ Held(2) = t[l - 1]
  BY <1>1, Top
<1>3. /\ code # <<>> /\ Instruction.op = "cat" /\ program' = program /\ code' = Tail(code)
      /\ t[l - 1] = NULL
      /\ values' = SubSeq(values, 1, l - 2) \o <<t[l]>> /\ heap' = heap /\ loop' = loop
  BY <1>2, Zenon DEF CatNothing, Executes, Done, Replace
<1>4. /\ Typed(Instruction, ty, After) /\ ty \in Seq({"tree", "list"}) /\ After \in Seq({"tree", "list"})
      /\ Progress' /\ Before' = After
  BY <1>3, NextCall
<1>5. /\ l > 1 /\ ty[l] = "list" /\ ty[l - 1] = "list" /\ After = Append(SubSeq(ty, 1, l - 2), "list")
  BY <1>2, <1>3, <1>4, TypedCalls
<1>6. Fits(heap, t, ty) /\ Apart(t) /\ Shape(heap) /\ Forest(heap, RootsOf(t))
  BY <1>1, Zenon DEF Owned
<1>7. /\ l - 2 \in 0 .. l /\ (l - 2) + 1 .. l = {l - 1, l} /\ l \in 1 .. l /\ t[l] \in Int
      /\ \A i \in 1 .. l - 2 : i \in 1 .. l /\ i # l
  BY <1>2, <1>5
<1>8. /\ "list" \in {"tree", "list"} /\ "list" # "tree" /\ ListPtr(heap, t[l]) /\ Keeps(heap, heap)
  BY <1>5, <1>6, <1>7 DEF Fits, Keeps
<1>9. t[l] = NULL \/ \A i \in 1 .. l - 2 : t[l] # t[i]
  BY <1>6, <1>7, Zenon DEF Apart
<1> DEFINE t2 == SubSeq(t, 1, l - 2) \o <<t[l]>>
<1>10. /\ t2 \in Seq(Int) /\ Fits(heap, t2, Append(SubSeq(ty, 1, l - 2), "list")) /\ Apart(t2)
       /\ RootsOf(t2) = (RootsOf(t) \ {t[i] : i \in (l - 2) + 1 .. l}) \cup ({t[l]} \ {NULL})
  <2> HIDE DEF ty
  <2> QED
    BY <1>2, <1>4, <1>6, <1>7, <1>8, <1>9, PushedHolds, Zenon
<1>11. RootsOf(t2) = RootsOf(t)
  <2>1. {t[i] : i \in (l - 2) + 1 .. l} = {NULL, t[l]}
    BY <1>3, <1>7, Zenon
  <2>2. t[l] # NULL => t[l] \in RootsOf(t)
    BY <1>7, Zenon DEF RootsOf
  <2>3. NULL \notin RootsOf(t)
    BY Zenon DEF RootsOf
  <2> HIDE DEF t2
  <2> QED
    BY <1>10, <2>1, <2>2, <2>3, Zenon
<1>12. Owned(heap, t2, After)
  <2> HIDE DEF t2
  <2> QED
    BY <1>4, <1>5, <1>6, <1>10, <1>11 DEF Owned
<1>13. Dense'
  BY <1>3 DEF Dense
<1> QED
  BY <1>1, <1>3, <1>4, <1>12, <1>13 DEF Idle
-----------------------------------------------------------------------------
\* A cell is linked to another list.
Linked(h, a, v) == [h EXCEPT ![a].nxt = v]

LEMMA LinkEdges ==
    ASSUME NEW h, Shape(h), NEW a \in DOMAIN h, IsCell(h[a]), NEW v, ListPtr(h, v)
    PROVE  /\ DOMAIN Linked(h, a, v) = DOMAIN h /\ Shape(Linked(h, a, v)) /\ Keeps(h, Linked(h, a, v))
           /\ \A b, f, x : Edge(Linked(h, a, v), b, f, x) <=>
                 \/ Edge(h, b, f, x) /\ ~(b = a /\ f = "nxt")
                 \/ b = a /\ f = "nxt" /\ x = v /\ v \in DOMAIN h
<1> DEFINE h2 == Linked(h, a, v)
<1>1. "nxt" \in DOMAIN h[a] /\ "val" \in DOMAIN h[a] /\ "nxt" # "val"
      /\ \A f \in DOMAIN h[a] : f = "val" \/ f = "nxt"
  BY DEF IsCell
<1>2. /\ DOMAIN h2 = DOMAIN h
      /\ \A b \in DOMAIN h : b # a => h2[b] = h[b]
      /\ h2[a] = [h[a] EXCEPT !.nxt = v]
  BY DEF Linked
<1> HIDE DEF h2
<1>3. /\ DOMAIN h2[a] = DOMAIN h[a] /\ h2[a]["nxt"] = v /\ h2[a]["val"] = h[a]["val"]
      /\ \A f \in DOMAIN h[a] : f # "nxt" => h2[a][f] = h[a][f]
  BY <1>1, <1>2
<1>4. IsCell(h2[a])
  BY <1>3, Zenon DEF IsCell
<1>5. \A b \in DOMAIN h : (IsCell(h2[b]) <=> IsCell(h[b])) /\ (b # a => h2[b] = h[b])
  BY <1>2, <1>4, Zenon
<1>6. ~IsLeaf(h[a]) /\ ~IsList(h[a])
  BY Kinds, Zenon
<1>7. Keeps(h, h2)
  <2>1. \A x : TreePtr(h, x) => TreePtr(h2, x)
    BY <1>2, <1>6, Zenon DEF TreePtr
  <2>2. \A x : ListPtr(h, x) => ListPtr(h2, x)
    BY <1>2, <1>5, Zenon DEF ListPtr
  <2> QED
    BY <2>1, <2>2, Zenon DEF Keeps
<1>8. Shape(h2)
  <2>1. ASSUME NEW b \in DOMAIN h
        PROVE  ObjectOK(h2, h2[b])
    <3>1. ObjectOK(h, h[b])
      BY Zenon DEF Shape
    <3>2. CASE b # a
      <4>1. h2[b] = h[b]
        BY <1>2, <3>2, Zenon
      <4>2. ObjectOK(h2, h[b])
        BY <1>7, <3>1, Zenon DEF ObjectOK, Keeps
      <4> QED
        BY <4>1, <4>2
    <3>3. CASE b = a
      <4>1. TreePtr(h, h[a].val)
        BY <1>6, <3>1, <3>3, Zenon DEF ObjectOK
      <4>2. TreePtr(h2, h2[a].val) /\ ListPtr(h2, h2[a].nxt)
        BY <1>3, <1>7, <4>1, Zenon DEF Keeps
      <4> QED
        BY <1>4, <3>3, <4>2, Zenon DEF ObjectOK
    <3> QED
      BY <3>2, <3>3, Zenon
  <2> QED
    BY <1>2, <2>1, Zenon DEF Shape
<1>9. ASSUME NEW b, NEW f, NEW x
      PROVE  Edge(h2, b, f, x) <=>
                 \/ Edge(h, b, f, x) /\ ~(b = a /\ f = "nxt")
                 \/ b = a /\ f = "nxt" /\ x = v /\ v \in DOMAIN h
  <2>1. CASE b # a
    BY <1>2, <2>1, Zenon DEF Edge
  <2>2. CASE b = a /\ f = "nxt"
    <3>1. Edge(h2, a, "nxt", x) <=> x \in DOMAIN h /\ v = x
      <4>1. "nxt" \in Fields
        BY DEF Fields
      <4> QED
        BY <1>1, <1>2, <1>3, <4>1, Zenon DEF Edge
    <3> QED
      BY <2>2, <3>1, Zenon
  <2>3. CASE b = a /\ f # "nxt"
    <3>1. Edge(h2, a, f, x) <=> Edge(h, a, f, x)
      BY <1>2, <1>3, <2>3, Zenon DEF Edge
    <3> QED
      BY <2>3, <3>1, Zenon
  <2> QED
    BY <2>1, <2>2, <2>3, Zenon
<1> QED
  BY <1>2, <1>7, <1>8, <1>9, Zenon DEF h2

LEMMA Link ==
    ASSUME NEW h, NEW X, Shape(h), Forest(h, X), NEW a \in DOMAIN h, IsCell(h[a]),
           NEW v, ListPtr(h, v), v # NULL => v \in X /\ \E r \in X : r # v /\ Above(h, r, a)
    PROVE  /\ DOMAIN Linked(h, a, v) = DOMAIN h /\ Shape(Linked(h, a, v))
           /\ Keeps(h, Linked(h, a, v))
           /\ Forest(Linked(h, a, v), (X \ {v}) \cup ({h[a].nxt} \ {NULL}))
<1> DEFINE h2 == Linked(h, a, v)
<1>1. /\ DOMAIN h2 = DOMAIN h /\ Shape(h2) /\ Keeps(h, h2)
      /\ \A b, f, x : Edge(h2, b, f, x) <=>
                 \/ Edge(h, b, f, x) /\ ~(b = a /\ f = "nxt")
                 \/ b = a /\ f = "nxt" /\ x = v /\ v \in DOMAIN h
  BY LinkEdges, Zenon
<1> HIDE DEF h2
<1>2. NULL \notin DOMAIN h /\ \A x \in X : x \in DOMAIN h
  BY Zenon DEF Shape, Forest
<1>3. v \in DOMAIN h <=> v \in X
  BY <1>2, Zenon
<1>4. Changed(h, X, a, "nxt", v, h2)
  BY <1>1, <1>3 DEF Changed
<1>5. v \in X => \E r \in X : r # v /\ Above(h, r, a)
  BY <1>2, Zenon
<1>6. Forest(h2, (X \ {v}) \cup {x \in DOMAIN h : Edge(h, a, "nxt", x)})
  BY <1>4, <1>5, Relink, Zenon
<1>7. {x \in DOMAIN h : Edge(h, a, "nxt", x)} = {h[a].nxt} \ {NULL}
  <2>1. h[a].nxt # NULL => Edge(h, a, "nxt", h[a].nxt)
    BY Edges, Zenon
  <2>2. \A x : Edge(h, a, "nxt", x) => x = h[a].nxt /\ x # NULL /\ x \in DOMAIN h
    BY <1>2, Zenon DEF Edge
  <2>3. \A x : x \in {y \in DOMAIN h : Edge(h, a, "nxt", y)} <=> x = h[a].nxt /\ x # NULL
    BY <2>1, <2>2
  <2> QED
    BY <2>3
<1> QED
  BY <1>1, <1>6, <1>7 DEF h2

\* While pgc_ast_rev and pgc_ast_cat run, the program is where it was.
LEMMA Stays ==
    ASSUME Progress, program' = program, code' = code
    PROVE  Progress' /\ Before' = Before /\ Instruction' = Instruction
BY DEF Progress, Before, Executed, Instruction

\* pgc_ast_rev: the cells are always in two lists, lst and res.
LEMMA StartRevStep ==
    ASSUME Progress, Dense, Idle, StartRev
    PROVE  Progress' /\ Dense' /\ Reversing'
<1> DEFINE t == values
           l == Len(values)
           ty == Before
<1>1. Owned(heap, t, ty) /\ loop = <<>>
  BY Zenon DEF Idle
<1>2. t \in Seq(Int) /\ l \in Nat /\ Len(ty) = l /\ Held(1) = t[l]
  BY <1>1, Top
<1>3. /\ code # <<>> /\ Instruction.op = "rev" /\ program' = program /\ code' = code
      /\ loop' = <<[lst |-> t[l], res |-> NULL]>>
      /\ values' = SubSeq(t, 1, l - 1) \o <<>> /\ heap' = heap
  BY <1>2, Zenon DEF StartRev, Executes, Replace
<1>4. Typed(Instruction, ty, After) /\ ty \in Seq({"tree", "list"})
  BY <1>3, NextCall
<1>5. l > 0 /\ ty[l] = "list"
  BY <1>2, <1>3, <1>4, TypedCalls
<1>6. Fits(heap, t, ty) /\ Apart(t) /\ Shape(heap) /\ Forest(heap, RootsOf(t))
  BY <1>1, Zenon DEF Owned
<1>7. /\ NULL \in Int /\ "list" \in {"tree", "list"} /\ "list" # "tree" /\ ListPtr(heap, NULL)
      /\ Keeps(heap, heap)
  BY DEF NULL, ListPtr, Keeps
<1> DEFINE t2 == SubSeq(t, 1, l) \o <<NULL>>
           ty2 == Append(SubSeq(ty, 1, l), "list")
<1>8. /\ t2 \in Seq(Int) /\ Fits(heap, t2, ty2) /\ Apart(t2)
      /\ RootsOf(t2) = (RootsOf(t) \ {t[i] : i \in l + 1 .. l}) \cup ({NULL} \ {NULL})
  <2>1. l \in 0 .. l
    BY <1>2
  <2> HIDE DEF ty
  <2> QED
    BY <1>2, <1>4, <1>6, <1>7, <2>1, PushedHolds, Zenon
<1>9. RootsOf(t2) = RootsOf(t)
  <2>1. \A i : i \notin l + 1 .. l
    BY <1>2
  <2> HIDE DEF t2
  <2> QED
    BY <1>8, <2>1, Zenon
<1>10. values' \in Seq(Int) /\ t2 = values' \o <<t[l], NULL>> /\ t[l] \in Int
  <2> DEFINE u == values' \o <<t[l], NULL>>
  <2>1. /\ values' \in Seq(Int) /\ Len(values') = l - 1 /\ t[l] \in Int
        /\ \A i \in 1 .. l - 1 : values'[i] = t[i]
    BY <1>2, <1>3, <1>5
  <2>2. u \in Seq(Int) /\ Len(u) = l + 1 /\ u[l] = t[l] /\ u[l + 1] = NULL
        /\ \A i \in 1 .. l - 1 : u[i] = t[i]
    BY <1>7, <1>2, <1>5, <2>1
  <2>3. t2 \in Seq(Int) /\ Len(t2) = l + 1 /\ t2[l + 1] = NULL /\ \A i \in 1 .. l : t2[i] = t[i]
    <3>1. l \in 0 .. Len(t)
      BY <1>2
    <3> HIDE DEF l
    <3> QED
      BY <1>2, <1>7, <3>1, Pushed
  <2> HIDE DEF u, t2, l
  <2>4. \A i \in 1 .. l + 1 : u[i] = t2[i]
    BY <1>2, <1>5, <2>2, <2>3
  <2>5. u = t2
    BY <2>2, <2>3, <2>4, SeqEqual, Zenon
  <2> QED
    BY <2>1, <2>5 DEF u
<1>11. ty2 = Append(ty, "list") /\ ty2 \in Seq({"tree", "list"})
  <2>1. SubSeq(ty, 1, l) = ty
    <3> HIDE DEF ty
    <3> QED
      BY <1>2, <1>4
  <2>2. Append(ty, "list") \in Seq({"tree", "list"})
    <3> HIDE DEF ty
    <3> QED
      BY <1>4, <1>7
  <2> QED
    BY <2>1, <2>2
<1>12. Owned(heap, t2, Append(ty, "list"))
  <2> HIDE DEF t2, ty2, ty
  <2> QED
    BY <1>6, <1>8, <1>9, <1>11 DEF Owned
<1>13. Progress' /\ Before' = ty /\ Instruction' = Instruction
  BY <1>3, Stays
<1>14. Reversing'
  <2>1. code' # <<>> /\ Instruction'.op = "rev" /\ values' \in Seq(Int)
    BY <1>3, <1>10, <1>13
  <2>2. Owned(heap', values' \o <<t[l], NULL>>, Append(Before', "list"))
    <3> HIDE DEF t2, ty, l
    <3> QED
      BY <1>3, <1>10, <1>12, <1>13
  <2>3. loop' = <<[lst |-> t[l], res |-> NULL]>> /\ t[l] \in Int /\ NULL \in Int
    BY <1>3, <1>7, <1>10
  <2> HIDE DEF l
  <2> QED
    BY <2>1, <2>2, <2>3, Zenon DEF Reversing
<1>15. Dense'
  BY <1>3 DEF Dense
<1> QED
  BY <1>13, <1>14, <1>15

LEMMA RevTurnStep ==
    ASSUME Progress, Dense, Reversing, RevTurn
    PROVE  Progress' /\ Dense' /\ Reversing'
<1>1. PICK l \in Int, r \in Int :
          /\ loop = <<[lst |-> l, res |-> r]>>
          /\ Owned(heap, values \o <<l, r>>, Append(Before, "list"))
  BY Zenon DEF Reversing
<1>2. code # <<>> /\ Instruction.op = "rev" /\ values \in Seq(Int)
  BY Zenon DEF Reversing
<1> DEFINE b == Len(values)
           t == values \o <<l, r>>
           ty == Append(Before, "list")
           nx == heap[l].nxt
           X == RootsOf(t)
           h2 == Linked(heap, l, r)
<1>3. loop[1].lst = l /\ loop[1].res = r
  BY <1>1
<1>4. /\ l # NULL /\ program' = program /\ code' = code /\ values' = values
      /\ heap' = h2 /\ loop' = <<[lst |-> nx, res |-> l]>>
  BY <1>3, Zenon DEF RevTurn, Linked
<1>5. Typed(Instruction, Before, After) /\ Before \in Seq({"tree", "list"})
  BY <1>2, NextCall
<1>6. /\ t \in Seq(Int) /\ ty \in Seq({"tree", "list"}) /\ Fits(heap, t, ty) /\ Apart(t)
      /\ Shape(heap) /\ Forest(heap, X)
  BY <1>1, Zenon DEF Owned
<1>7. /\ b \in Nat /\ Len(t) = b + 2 /\ t[b + 1] = l /\ t[b + 2] = r
      /\ \A i \in 1 .. b : t[i] = values[i]
  BY <1>2, <1>1
<1>8. /\ Len(Before) = b + 1 /\ Before[b + 1] = "list" /\ ty[b + 1] = "list" /\ ty[b + 2] = "list"
      /\ \A i \in 1 .. b : ty[i] = Before[i]
  <2>1. Len(ty) = b + 2
    <3> HIDE DEF t, ty
    <3> QED
      BY <1>6, <1>7 DEF Fits
  <2>2. Len(Before) = b + 1
    BY <1>5, <1>7, <2>1
  <2>3. Before[b + 1] = "list"
    BY <1>2, <1>5, <2>2, TypedCalls
  <2> QED
    BY <1>5, <1>7, <2>2, <2>3
<1> HIDE DEF t, ty, b
<1>9. /\ b + 1 \in 1 .. Len(t) /\ b + 2 \in 1 .. Len(t) /\ b + 1 # b + 2 /\ b \in 0 .. Len(t)
      /\ \A i \in 1 .. b : i \in 1 .. Len(t) /\ i # b + 1
      /\ b + 1 .. Len(t) = {b + 1, b + 2}
  BY <1>7
<1>10. ListPtr(heap, l) /\ ListPtr(heap, r)
  BY <1>6, <1>7, <1>8, <1>9, Zenon DEF Fits
<1>11. l \in DOMAIN heap /\ IsCell(heap[l])
  BY <1>4, <1>10, Zenon DEF ListPtr
<1>12. l \in X /\ (r # NULL => r \in X) /\ l # r
  <2>1. l \in X /\ (r # NULL => r \in X)
    BY <1>4, <1>7, <1>9, Zenon DEF RootsOf
  <2>2. l # r
    BY <1>4, <1>6, <1>7, <1>9 DEF Apart
  <2> QED
    BY <2>1, <2>2
<1>13. /\ DOMAIN h2 = DOMAIN heap /\ Shape(h2) /\ Keeps(heap, h2)
       /\ Forest(h2, (X \ {r}) \cup ({nx} \ {NULL}))
  <2>1. Above(heap, l, l)
    BY Zenon DEF Above
  <2>2. r # NULL => r \in X /\ \E s \in X : s # r /\ Above(heap, s, l)
    BY <1>12, <2>1, Zenon
  <2>3. Shape(heap) /\ Forest(heap, X) /\ ListPtr(heap, r)
    BY <1>6, <1>10
  <2> HIDE DEF X
  <2> QED
    BY <1>11, <2>2, <2>3, Link
\* What is after the cell has an owner, so it is none of what is held.
<1>14. nx = NULL \/ (nx \in DOMAIN heap /\ IsCell(heap[nx]) /\ nx \notin X)
  <2>1. ASSUME nx # NULL
        PROVE  nx \in DOMAIN heap /\ IsCell(heap[nx]) /\ nx \notin X
    <3>1. Edge(heap, l, "nxt", nx)
      BY <1>6, <1>11, <2>1, Edges, Zenon
    <3>2. nx \notin X
      BY <1>6, <3>1, Zenon DEF Forest, Owner
    <3>3. IsCell(heap[nx])
      BY <1>6, <3>1, EdgeKinds, Zenon
    <3> QED
      BY <3>1, <3>2, <3>3, Zenon DEF Edge
  <2> QED
    BY <2>1, Zenon
<1>15. nx \in Int
  BY <1>14 DEF Dense, NULL
<1>16. ListPtr(h2, nx) /\ ListPtr(h2, l)
  BY <1>10, <1>13, <1>14, Zenon DEF Keeps, ListPtr
<1>17. "list" \in {"tree", "list"} /\ "list" # "tree" /\ Keeps(h2, h2)
  BY DEF Keeps
<1> HIDE DEF h2, nx, X
<1> DEFINE t1 == SubSeq(t, 1, b) \o <<nx>>
           ty1 == Append(SubSeq(ty, 1, b), "list")
           t2 == SubSeq(t1, 1, b + 1) \o <<l>>
           ty2 == Append(SubSeq(ty1, 1, b + 1), "list")
<1>18. /\ t1 \in Seq(Int) /\ Fits(h2, t1, ty1) /\ Apart(t1)
       /\ RootsOf(t1) = (X \ {t[i] : i \in b + 1 .. Len(t)}) \cup ({nx} \ {NULL})
  <2>1. nx = NULL \/ \A i \in 1 .. b : nx # t[i]
    <3>1. \A i \in 1 .. b : t[i] = NULL \/ t[i] \in X
      BY <1>9, Zenon DEF X, RootsOf
    <3> QED
      BY <1>14, <3>1
  <2> QED
    BY <1>6, <1>9, <1>13, <1>15, <1>16, <1>17, <2>1, PushedHolds, Zenon DEF X
<1>19. /\ Len(t1) = b + 1 /\ t1[b + 1] = nx /\ (\A i \in 1 .. b : t1[i] = t[i])
       /\ ty1 \in Seq({"tree", "list"}) /\ Len(ty1) = b + 1 /\ ty1[b + 1] = "list"
       /\ \A i \in 1 .. b : ty1[i] = ty[i]
  <2>1. /\ Len(t1) = b + 1 /\ t1[b + 1] = nx /\ (\A i \in 1 .. b : t1[i] = t[i])
    BY <1>6, <1>9, <1>15, Pushed
  <2>2. Len(ty) = Len(t)
    BY <1>6, Zenon DEF Fits
  <2>3. /\ ty1 \in Seq({"tree", "list"}) /\ Len(ty1) = b + 1 /\ ty1[b + 1] = "list"
        /\ \A i \in 1 .. b : ty1[i] = ty[i]
    BY <1>6, <1>9, <1>17, <2>2, PushedTypes
  <2> QED
    BY <2>1, <2>3
<1>20. b + 1 \in 0 .. Len(t1) /\ \A i : i \notin (b + 1) + 1 .. Len(t1)
  <2> HIDE DEF t1
  <2> QED
    BY <1>7, <1>19
<1>21. /\ t2 \in Seq(Int) /\ Fits(h2, t2, ty2) /\ Apart(t2)
       /\ RootsOf(t2) = (RootsOf(t1) \ {t1[i] : i \in (b + 1) + 1 .. Len(t1)}) \cup ({l} \ {NULL})
  <2>1. \A i \in 1 .. b + 1 : l # t1[i]
    <3>1. ASSUME NEW i \in 1 .. b
          PROVE  l # t1[i]
      <4>1. t1[i] = t[i] /\ i \in 1 .. Len(t) /\ i # b + 1
        BY <1>9, <1>19, Zenon
      <4> HIDE DEF t1
      <4> QED
        BY <1>4, <1>6, <1>7, <1>9, <4>1 DEF Apart
    <3>2. l # t1[b + 1]
      BY <1>4, <1>12, <1>14, <1>19
    <3>3. \A i \in 1 .. b + 1 : i \in 1 .. b \/ i = b + 1
      BY <1>7
    <3> QED
      BY <3>1, <3>2, <3>3, Zenon
  <2> DEFINE c == b + 1
  <2>2. t1 \in Seq(Int) /\ c \in 0 .. Len(t1) /\ \A i \in 1 .. c : l # t1[i]
    BY <1>18, <1>20, <2>1
  <2>3. ty1 \in Seq({"tree", "list"}) /\ Fits(h2, t1, ty1) /\ Apart(t1)
    BY <1>18, <1>19
  <2> HIDE DEF t1, ty1, c
  <2>4. /\ SubSeq(t1, 1, c) \o <<l>> \in Seq(Int) /\ Apart(SubSeq(t1, 1, c) \o <<l>>)
        /\ Fits(h2, SubSeq(t1, 1, c) \o <<l>>, Append(SubSeq(ty1, 1, c), "list"))
        /\ RootsOf(SubSeq(t1, 1, c) \o <<l>>) =
               (RootsOf(t1) \ {t1[i] : i \in c + 1 .. Len(t1)}) \cup ({l} \ {NULL})
    BY <1>1, <1>16, <1>17, <2>2, <2>3, PushedHolds, Zenon
  <2> QED
    BY <2>4, Zenon DEF c
<1>22. RootsOf(t2) = (X \ {r}) \cup ({nx} \ {NULL})
  <2>1. {t[i] : i \in b + 1 .. Len(t)} = {l, r}
    BY <1>7, <1>9, Zenon
  <2>2. RootsOf(t2) = RootsOf(t1) \cup {l}
    <3> HIDE DEF t1, t2
    <3> QED
      BY <1>4, <1>20, <1>21, Zenon
  <2> HIDE DEF t1, t2
  <2> QED
    BY <1>12, <1>14, <1>18, <2>1, <2>2
<1>23. t2 = values \o <<nx, l>> /\ ty2 = ty
  <2>1. t2 \in Seq(Int) /\ Len(t2) = b + 2 /\ t2[b + 2] = l /\ \A i \in 1 .. b + 1 : t2[i] = t1[i]
    <3> DEFINE d == b + 1
    <3>1. t1 \in Seq(Int) /\ d \in 0 .. Len(t1) /\ d + 1 = b + 2
      BY <1>7, <1>18, <1>20
    <3> HIDE DEF t1, t2, d
    <3>2. t2 = SubSeq(t1, 1, d) \o <<l>>
      BY DEF t2, d
    <3>3. t2 \in Seq(Int) /\ Len(t2) = d + 1 /\ t2[d + 1] = l /\ \A i \in 1 .. d : t2[i] = t1[i]
      BY <1>1, <3>1, <3>2, Pushed
    <3> QED
      BY <3>1, <3>3, Zenon DEF d
  <2>2. \A i \in 1 .. b + 1 : i \in 1 .. b \/ i = b + 1
    BY <1>7
  <2> DEFINE u == values \o <<nx, l>>
  <2>3. u \in Seq(Int) /\ Len(u) = b + 2 /\ u[b + 1] = nx /\ u[b + 2] = l
        /\ \A i \in 1 .. b : u[i] = values[i]
    BY <1>1, <1>2, <1>15 DEF b
  <2>4. t2 = u
    <3> HIDE DEF t1, t2, u
    <3>1. \A i \in 1 .. b + 2 : t2[i] = u[i]
      BY <1>7, <1>19, <2>1, <2>3
    <3> QED
      BY <2>1, <2>3, <3>1, SeqEqual, Zenon
  <2>5. /\ ty2 \in Seq({"tree", "list"}) /\ Len(ty2) = b + 2 /\ ty2[b + 2] = "list"
        /\ \A i \in 1 .. b + 1 : ty2[i] = ty1[i]
    <3> HIDE DEF ty1
    <3> QED
      BY <1>7, <1>17, <1>19
  <2>6. ty2 = ty
    <3> HIDE DEF ty1, ty2
    <3>1. Len(ty) = b + 2
      BY <1>6, <1>7, Zenon DEF Fits
    <3>2. \A i \in 1 .. b + 2 : ty2[i] = ty[i]
      BY <1>7, <1>8, <1>19, <2>5
    <3> QED
      BY <1>6, <2>5, <3>1, <3>2, SeqEqual, Zenon
  <2> QED
    BY <2>4, <2>6
<1>24. Owned(h2, values \o <<nx, l>>, ty)
  <2> HIDE DEF t2, ty2
  <2> QED
    BY <1>6, <1>13, <1>21, <1>22, <1>23 DEF Owned
<1>25. Progress' /\ Before' = Before /\ Instruction' = Instruction
  BY <1>4, Stays
<1>26. Reversing'
  <2>1. code' # <<>> /\ Instruction'.op = "rev" /\ values' \in Seq(Int)
    BY <1>2, <1>4, <1>25
  <2>2. Owned(heap', values' \o <<nx, l>>, Append(Before', "list"))
    BY <1>4, <1>24, <1>25 DEF ty
  <2> QED
    BY <1>1, <1>4, <1>15, <2>1, <2>2, Zenon DEF Reversing
<1>27. Dense'
  BY <1>4, <1>13, Zenon DEF Dense
<1> QED
  BY <1>25, <1>26, <1>27

\* What a program held before it called pgc_ast_rev or pgc_ast_cat.
LEMMA Below ==
    ASSUME NEW v \in Seq(Int), NEW x \in Int, NEW y \in Int, NEW t, t = v \o <<x, y>>
    PROVE  /\ t \in Seq(Int) /\ Len(v) \in Nat /\ Len(t) = Len(v) + 2
           /\ t[Len(v) + 1] = x /\ t[Len(v) + 2] = y
           /\ \A i \in 1 .. Len(v) : t[i] = v[i]
           /\ SubSeq(t, 1, Len(v)) = v /\ SubSeq(v, 1, Len(v) - 0) = v
<1>1. /\ t \in Seq(Int) /\ Len(v) \in Nat /\ Len(t) = Len(v) + 2
      /\ t[Len(v) + 1] = x /\ t[Len(v) + 2] = y
      /\ \A i \in 1 .. Len(v) : t[i] = v[i]
  OBVIOUS
<1>2. SubSeq(t, 1, Len(v)) = v
  <2>1. SubSeq(t, 1, Len(v)) \in Seq(Int) /\ Len(SubSeq(t, 1, Len(v))) = Len(v)
        /\ \A i \in 1 .. Len(v) : SubSeq(t, 1, Len(v))[i] = v[i]
    BY <1>1
  <2> QED
    BY <2>1, SeqEqual
<1>3. SubSeq(v, 1, Len(v) - 0) = v
  OBVIOUS
<1> QED
  BY <1>1, <1>2, <1>3

LEMMA EndRevStep ==
    ASSUME Progress, Dense, Reversing, EndRev
    PROVE  Progress' /\ Dense' /\ Idle'
<1>1. PICK l \in Int, r \in Int :
          /\ loop = <<[lst |-> l, res |-> r]>>
          /\ Owned(heap, values \o <<l, r>>, Append(Before, "list"))
  BY Zenon DEF Reversing
<1>2. code # <<>> /\ Instruction.op = "rev" /\ values \in Seq(Int)
  BY Zenon DEF Reversing
<1> DEFINE b == Len(values)
           t == values \o <<l, r>>
           ty == Append(Before, "list")
<1>3. loop[1].lst = l /\ loop[1].res = r
  BY <1>1
<1>4. /\ l = NULL /\ program' = program /\ code' = Tail(code) /\ loop' = <<>> /\ heap' = heap
      /\ values' = SubSeq(values, 1, b - 0) \o <<r>>
  BY <1>3, Zenon DEF EndRev, Done, Replace
<1>5. /\ Typed(Instruction, Before, After) /\ Before \in Seq({"tree", "list"})
      /\ After \in Seq({"tree", "list"}) /\ Progress' /\ Before' = After
  BY <1>2, <1>4, NextCall
<1>6. /\ t \in Seq(Int) /\ ty \in Seq({"tree", "list"}) /\ Fits(heap, t, ty) /\ Apart(t)
      /\ Shape(heap) /\ Forest(heap, RootsOf(t))
  BY <1>1, Zenon DEF Owned
<1>7. /\ b \in Nat /\ Len(t) = b + 2 /\ t[b + 1] = l /\ t[b + 2] = r
      /\ SubSeq(t, 1, b) = values /\ values' = SubSeq(t, 1, b) \o <<r>>
  <2>1. /\ b \in Nat /\ Len(t) = b + 2 /\ t[b + 1] = l /\ t[b + 2] = r
        /\ SubSeq(t, 1, b) = values /\ SubSeq(values, 1, b - 0) = values
    BY <1>1, <1>2, Below
  <2> QED
    BY <1>4, <2>1
<1>8. /\ Len(Before) = b + 1 /\ After = Append(SubSeq(Before, 1, b), "list")
      /\ SubSeq(ty, 1, b) = SubSeq(Before, 1, b) /\ ty[b + 2] = "list"
  <2>1. Len(ty) = b + 2
    <3> HIDE DEF t, ty, b
    <3> QED
      BY <1>6, <1>7 DEF Fits
  <2>2. Len(Before) = b + 1
    BY <1>5, <1>7, <2>1
  <2>3. After = Append(SubSeq(Before, 1, (b + 1) - 1), "list")
    BY <1>2, <1>5, <2>2, TypedCalls
  <2>4. (b + 1) - 1 = b
    BY <1>7
  <2>5. SubSeq(ty, 1, b) = SubSeq(Before, 1, b) /\ ty[b + 2] = "list"
    <3> HIDE DEF b
    <3> QED
      BY <1>5, <1>7, <2>2
  <2> QED
    BY <2>2, <2>3, <2>4, <2>5
<1> HIDE DEF t, ty, b
<1>9. /\ b + 2 \in 1 .. Len(t) /\ b \in 0 .. Len(t)
      /\ \A i \in 1 .. b : i \in 1 .. Len(t) /\ i # b + 2
      /\ b + 1 .. Len(t) = {b + 1, b + 2}
  BY <1>7
<1>10. /\ ListPtr(heap, r) /\ Keeps(heap, heap) /\ "list" \in {"tree", "list"} /\ "list" # "tree"
  BY <1>6, <1>7, <1>8, <1>9 DEF Fits, Keeps
<1>11. r = NULL \/ \A i \in 1 .. b : r # t[i]
  BY <1>6, <1>7, <1>9 DEF Apart
<1> DEFINE t2 == SubSeq(t, 1, b) \o <<r>>
<1>12. /\ t2 \in Seq(Int) /\ Fits(heap, t2, Append(SubSeq(ty, 1, b), "list")) /\ Apart(t2)
       /\ RootsOf(t2) = (RootsOf(t) \ {t[i] : i \in b + 1 .. Len(t)}) \cup ({r} \ {NULL})
  BY <1>1, <1>6, <1>9, <1>10, <1>11, PushedHolds, Zenon
<1>13. RootsOf(t2) = RootsOf(t)
  <2>1. {t[i] : i \in b + 1 .. Len(t)} = {NULL, r}
    BY <1>4, <1>7, <1>9, Zenon
  <2>2. r # NULL => r \in RootsOf(t)
    BY <1>7, <1>9, Zenon DEF RootsOf
  <2>3. NULL \notin RootsOf(t)
    BY Zenon DEF RootsOf
  <2> HIDE DEF t2
  <2> QED
    BY <1>12, <2>1, <2>2, <2>3
<1>14. Owned(heap', values', Before')
  <2>1. values' = t2
    BY <1>7
  <2>2. Before' = Append(SubSeq(ty, 1, b), "list")
    BY <1>5, <1>8
  <2> HIDE DEF t2
  <2> QED
    BY <1>4, <1>5, <1>6, <1>12, <1>13, <2>1, <2>2 DEF Owned
<1>15. Dense'
  BY <1>4 DEF Dense
<1> QED
  BY <1>4, <1>5, <1>14, <1>15 DEF Idle

\* pgc_ast_cat: at is a cell of fst, so the other list is not linked to itself.
LEMMA StartCatStep ==
    ASSUME Progress, Dense, Idle, StartCat
    PROVE  Progress' /\ Dense' /\ Joining'
<1> DEFINE t == values
           l == Len(values)
           ty == Before
<1>1. Owned(heap, t, ty) /\ loop = <<>>
  BY Zenon DEF Idle
<1>2. t \in Seq(Int) /\ l \in Nat /\ Len(ty) = l /\ Held(1) = t[l] /\ Held(2) = t[l - 1]
  BY <1>1, Top
<1>3. /\ code # <<>> /\ Instruction.op = "cat" /\ program' = program /\ code' = code
      /\ t[l - 1] # NULL
      /\ loop' = <<[fst |-> t[l - 1], at |-> t[l - 1], snd |-> t[l]]>>
      /\ values' = SubSeq(t, 1, l - 2) \o <<>> /\ heap' = heap
  BY <1>2, Zenon DEF StartCat, Executes, Replace
<1>4. Typed(Instruction, ty, After) /\ ty \in Seq({"tree", "list"})
  BY <1>3, NextCall
<1>5. l > 1 /\ ty[l] = "list" /\ ty[l - 1] = "list"
  BY <1>2, <1>3, <1>4, TypedCalls
<1>6. t[l - 1] \in DOMAIN heap /\ IsCell(heap[t[l - 1]])
  <2>1. l - 1 \in 1 .. l
    BY <1>2, <1>5
  <2>2. ListPtr(heap, t[l - 1])
    BY <1>1, <1>5, <2>1 DEF Owned, Fits
  <2> QED
    BY <1>3, <2>2, Zenon DEF ListPtr
<1>7. values' \in Seq(Int) /\ t = values' \o <<t[l - 1], t[l]>> /\ t[l - 1] \in Int /\ t[l] \in Int
  <2> DEFINE u == values' \o <<t[l - 1], t[l]>>
  <2>1. /\ values' \in Seq(Int) /\ Len(values') = l - 2 /\ t[l] \in Int /\ t[l - 1] \in Int
        /\ \A i \in 1 .. l - 2 : values'[i] = t[i]
    BY <1>2, <1>3, <1>5
  <2>2. u \in Seq(Int) /\ Len(u) = l /\ u[l - 1] = t[l - 1] /\ u[l] = t[l]
        /\ \A i \in 1 .. l - 2 : u[i] = t[i]
    BY <1>2, <1>5, <2>1
  <2>3. t = u
    <3> HIDE DEF u, l
    <3>1. \A i \in 1 .. l : i \in 1 .. l - 2 \/ i = l - 1 \/ i = l
      BY <1>2, <1>5
    <3>2. \A i \in 1 .. l : u[i] = t[i]
      BY <2>2, <3>1, Zenon
    <3> QED
      BY <1>2, <2>2, <3>2, SeqEqual, Zenon DEF l
  <2> QED
    BY <2>1, <2>3 DEF u
<1>8. Progress' /\ Before' = ty /\ Instruction' = Instruction
  BY <1>3, Stays
<1>9. Joining'
  <2> DEFINE f == t[l - 1]
             s == t[l]
  <2>1. code' # <<>> /\ Instruction'.op = "cat" /\ values' \in Seq(Int)
    BY <1>3, <1>7, <1>8
  <2>2. Owned(heap', values' \o <<f, s>>, Before')
    <3>1. values' \o <<f, s>> = t
      BY <1>7, Zenon
    <3> HIDE DEF f, s
    <3> QED
      BY <1>1, <1>3, <1>8, <3>1
  <2>3. f # NULL /\ f \in DOMAIN heap' /\ IsCell(heap'[f]) /\ Above(heap', f, f)
    BY <1>3, <1>6 DEF Above
  <2>4. loop' = <<[fst |-> f, at |-> f, snd |-> s]>> /\ f \in Int /\ s \in Int
    BY <1>3, <1>7
  <2> HIDE DEF f, s
  <2> QED
    BY <2>1, <2>2, <2>3, <2>4, Zenon DEF Joining
<1>10. Dense'
  BY <1>3 DEF Dense
<1> QED
  BY <1>8, <1>9, <1>10

LEMMA CatTurnStep ==
    ASSUME Progress, Dense, Joining, CatTurn
    PROVE  Progress' /\ Dense' /\ Joining'
<1>1. PICK f \in Int, a \in Int, s \in Int :
          /\ loop = <<[fst |-> f, at |-> a, snd |-> s]>>
          /\ f # NULL /\ a \in DOMAIN heap /\ IsCell(heap[a]) /\ Above(heap, f, a)
          /\ Owned(heap, values \o <<f, s>>, Before)
  BY Zenon DEF Joining
<1>2. code # <<>> /\ Instruction.op = "cat" /\ values \in Seq(Int)
  BY Zenon DEF Joining
<1> DEFINE nx == heap[a].nxt
<1>3. loop[1].at = a /\ [loop[1] EXCEPT !.at = nx] = [fst |-> f, at |-> nx, snd |-> s]
  BY <1>1
<1>4. /\ nx # NULL /\ program' = program /\ code' = code /\ values' = values
      /\ heap' = heap /\ loop' = <<[fst |-> f, at |-> nx, snd |-> s]>>
  BY <1>3 DEF CatTurn
<1>5. Shape(heap)
  BY <1>1, Zenon DEF Owned
<1>6. Edge(heap, a, "nxt", nx)
  BY <1>1, <1>4, <1>5, Edges, Zenon
<1>7. nx \in DOMAIN heap /\ IsCell(heap[nx])
  BY <1>5, <1>6, EdgeKinds, Zenon DEF Edge
<1>8. Above(heap, f, nx)
  BY <1>1, <1>6, Zenon DEF Above
<1>9. nx \in Int
  BY <1>7 DEF Dense
<1>10. Progress' /\ Before' = Before /\ Instruction' = Instruction
  BY <1>4, Stays
<1>11. Joining'
  <2>1. code' # <<>> /\ Instruction'.op = "cat" /\ values' \in Seq(Int)
    BY <1>2, <1>4, <1>10
  <2>2. Owned(heap', values' \o <<f, s>>, Before')
    BY <1>1, <1>4, <1>10
  <2>3. nx \in DOMAIN heap' /\ IsCell(heap'[nx]) /\ Above(heap', f, nx)
    BY <1>4, <1>7, <1>8
  <2> HIDE DEF nx
  <2> QED
    BY <1>1, <1>4, <1>9, <2>1, <2>2, <2>3, Zenon DEF Joining
<1>12. Dense'
  BY <1>4 DEF Dense
<1> QED
  BY <1>10, <1>11, <1>12

LEMMA EndCatStep ==
    ASSUME Progress, Dense, Joining, TakenIsWhole, EndCat
    PROVE  Progress' /\ Dense' /\ Idle'
<1>1. PICK f \in Int, a \in Int, s \in Int :
          /\ loop = <<[fst |-> f, at |-> a, snd |-> s]>>
          /\ f # NULL /\ a \in DOMAIN heap /\ IsCell(heap[a]) /\ Above(heap, f, a)
          /\ Owned(heap, values \o <<f, s>>, Before)
  BY Zenon DEF Joining
<1>2. code # <<>> /\ Instruction.op = "cat" /\ values \in Seq(Int)
  BY Zenon DEF Joining
<1> DEFINE b == Len(values)
           t == values \o <<f, s>>
           X == RootsOf(t)
           h2 == Linked(heap, a, s)
<1>3. loop[1].at = a /\ loop[1].fst = f /\ loop[1].snd = s
  BY <1>1
<1>4. /\ heap[a].nxt = NULL /\ program' = program /\ code' = Tail(code) /\ loop' = <<>>
      /\ heap' = h2 /\ values' = SubSeq(values, 1, b - 0) \o <<f>>
  <2>1. (IF Instruction.taken THEN loop[1].at ELSE loop[1].fst) = f
    BY <1>3, Zenon DEF EndCat, TakenIsWhole
  <2> QED
    BY <1>3, <2>1, Zenon DEF EndCat, Done, Replace, Linked
<1>5. /\ Typed(Instruction, Before, After) /\ Before \in Seq({"tree", "list"})
      /\ After \in Seq({"tree", "list"}) /\ Progress' /\ Before' = After
  BY <1>2, <1>4, NextCall
<1>6. /\ t \in Seq(Int) /\ Fits(heap, t, Before) /\ Apart(t)
      /\ Shape(heap) /\ Forest(heap, X)
  BY <1>1, Zenon DEF Owned
<1>7. /\ b \in Nat /\ Len(t) = b + 2 /\ t[b + 1] = f /\ t[b + 2] = s
      /\ values' = SubSeq(t, 1, b) \o <<f>>
  <2>1. /\ b \in Nat /\ Len(t) = b + 2 /\ t[b + 1] = f /\ t[b + 2] = s
        /\ SubSeq(t, 1, b) = values /\ SubSeq(values, 1, b - 0) = values
    BY <1>1, <1>2, Below
  <2> QED
    BY <1>4, <2>1
<1> HIDE DEF t, b
<1>8. Before[b + 1] = "list" /\ Before[b + 2] = "list" /\ After = Append(SubSeq(Before, 1, b), "list")
  <2>1. Len(Before) = b + 2
    BY <1>6, <1>7 DEF Fits
  <2>2. /\ Before[b + 2] = "list" /\ Before[(b + 2) - 1] = "list"
        /\ After = Append(SubSeq(Before, 1, (b + 2) - 2), "list")
    BY <1>2, <1>5, <2>1, TypedCalls
  <2>3. (b + 2) - 1 = b + 1 /\ (b + 2) - 2 = b
    BY <1>7
  <2> QED
    BY <2>2, <2>3
<1>9. /\ b + 1 \in 1 .. Len(t) /\ b + 2 \in 1 .. Len(t) /\ b + 1 # b + 2 /\ b \in 0 .. Len(t)
      /\ \A i \in 1 .. b : i \in 1 .. Len(t) /\ i # b + 1
      /\ b + 1 .. Len(t) = {b + 1, b + 2}
  BY <1>7
<1>10. ListPtr(heap, f) /\ ListPtr(heap, s) /\ "list" \in {"tree", "list"} /\ "list" # "tree"
  BY <1>6, <1>7, <1>8, <1>9 DEF Fits
<1>11. f \in X /\ (s # NULL => s \in X) /\ f # s
  <2>1. f \in X /\ (s # NULL => s \in X)
    BY <1>1, <1>7, <1>9, Zenon DEF RootsOf
  <2>2. f # s
    BY <1>1, <1>6, <1>7, <1>9 DEF Apart
  <2> QED
    BY <2>1, <2>2
<1>12. /\ DOMAIN h2 = DOMAIN heap /\ Shape(h2) /\ Keeps(heap, h2)
       /\ Forest(h2, (X \ {s}) \cup ({heap[a].nxt} \ {NULL}))
  <2>1. s # NULL => s \in X /\ \E r \in X : r # s /\ Above(heap, r, a)
    BY <1>1, <1>11, Zenon
  <2>2. Shape(heap) /\ Forest(heap, X) /\ ListPtr(heap, s)
    BY <1>6, <1>10
  <2> HIDE DEF X
  <2> QED
    BY <1>1, <2>1, <2>2, Link
<1>13. \A i \in 1 .. b : f # t[i]
  BY <1>1, <1>6, <1>7, <1>9 DEF Apart
<1> DEFINE t2 == SubSeq(t, 1, b) \o <<f>>
<1> HIDE DEF h2, X
<1>14. /\ t2 \in Seq(Int) /\ Fits(h2, t2, Append(SubSeq(Before, 1, b), "list")) /\ Apart(t2)
       /\ RootsOf(t2) = (RootsOf(t) \ {t[i] : i \in b + 1 .. Len(t)}) \cup ({f} \ {NULL})
  <2>1. ListPtr(h2, f)
    BY <1>10, <1>12, Zenon DEF Keeps
  <2> QED
    BY <1>1, <1>5, <1>6, <1>9, <1>10, <1>12, <1>13, <2>1, PushedHolds, Zenon
<1>15. RootsOf(t2) = (X \ {s}) \cup ({heap[a].nxt} \ {NULL})
  <2>1. {t[i] : i \in b + 1 .. Len(t)} = {f, s}
    BY <1>7, <1>9, Zenon
  <2>2. RootsOf(t) = X
    BY DEF X
  <2> HIDE DEF t2
  <2> QED
    BY <1>1, <1>4, <1>11, <1>14, <2>1, <2>2
<1>16. Owned(heap', values', Before')
  <2>1. values' = t2 /\ Before' = Append(SubSeq(Before, 1, b), "list")
    BY <1>5, <1>7, <1>8
  <2> HIDE DEF t2
  <2> QED
    BY <1>4, <1>5, <1>12, <1>14, <1>15, <2>1 DEF Owned
<1>17. Dense'
  BY <1>4, <1>12, Zenon DEF Dense
<1> QED
  BY <1>4, <1>5, <1>16, <1>17 DEF Idle
-----------------------------------------------------------------------------
\* While pgc_syn_free runs, the memory is looked at as if each node it is busy with
\* had lost its list: what is left of that list is held by the call, in at.
ListOf(o) == IF IsLeaf(o) THEN NULL ELSE o.lst
Emptied(g, m, h2) ==
    /\ DOMAIN h2 = DOMAIN g
    /\ \A a \in DOMAIN g : a # m => h2[a] = g[a]
    /\ IsLeaf(g[m]) => h2[m] = g[m]
    /\ IsList(g[m]) => IsList(h2[m]) /\ h2[m].lst = NULL

LEMMA Enter ==
    ASSUME NEW g, NEW X, Shape(g), Forest(g, X), NEW m, TreePtr(g, m), NEW h2, Emptied(g, m, h2)
    PROVE  /\ Shape(h2) /\ Forest(h2, X \cup ({ListOf(g[m])} \ {NULL}))
           /\ ListPtr(g, ListOf(g[m])) /\ ListOf(g[m]) \notin X
<1> DEFINE v == ListOf(g[m])
<1>1. /\ DOMAIN h2 = DOMAIN g /\ \A a \in DOMAIN g : a # m => h2[a] = g[a]
      /\ IsLeaf(g[m]) => h2[m] = g[m]
      /\ IsList(g[m]) => IsList(h2[m]) /\ h2[m].lst = NULL
  BY Zenon DEF Emptied
<1>2. m \in DOMAIN g /\ (IsLeaf(g[m]) \/ IsList(g[m])) /\ ~(IsLeaf(g[m]) /\ IsList(g[m]))
      /\ ~IsCell(g[m])
  BY Kinds, Zenon DEF TreePtr
<1>3. NULL \notin DOMAIN g /\ NULL \notin X /\ \A x \in X : x \in DOMAIN g
  BY Zenon DEF Shape, Forest
<1>4. IsLeaf(g[m]) => v = NULL
  BY Zenon DEF ListOf
<1>5. IsList(g[m]) => v = g[m].lst
  BY <1>2, Zenon DEF ListOf
<1>6. ListPtr(g, v)
  <2>1. ObjectOK(g, g[m])
    BY <1>2, Zenon DEF Shape
  <2>2. CASE IsLeaf(g[m])
    BY <1>4, <2>2, Zenon DEF ListPtr
  <2>3. CASE IsList(g[m])
    BY <1>2, <1>5, <2>1, <2>3, Zenon DEF ObjectOK
  <2> QED
    BY <1>2, <2>2, <2>3, Zenon
<1> HIDE DEF v
<1>7. \A x : Edge(g, m, "lst", x) <=> x = v /\ x # NULL
  <2>1. CASE IsLeaf(g[m])
    <3>1. \A x : ~Edge(g, m, "lst", x)
      BY <2>1, Kinds, Zenon DEF Edge
    <3> QED
      BY <1>4, <2>1, <3>1, Zenon
  <2>2. CASE IsList(g[m])
    <3>1. v # NULL => Edge(g, m, "lst", v)
      BY <1>2, <1>5, <2>2, Edges, Zenon
    <3>2. \A x : Edge(g, m, "lst", x) => x = v /\ x # NULL
      BY <1>3, <1>5, <2>2, Zenon DEF Edge
    <3> QED
      BY <3>1, <3>2
  <2> QED
    BY <1>2, <2>1, <2>2, Zenon
<1>8. ASSUME NEW a, NEW f, NEW x
      PROVE  Edge(h2, a, f, x) <=> Edge(g, a, f, x) /\ ~(a = m /\ f = "lst")
  <2>1. CASE a # m
    BY <1>1, <2>1, Zenon DEF Edge
  <2>2. CASE a = m /\ IsLeaf(g[m])
    <3>1. ~Edge(g, m, f, x)
      BY <2>2, Kinds, Zenon DEF Edge
    <3>2. ~Edge(h2, m, f, x)
      BY <1>1, <2>2, Kinds, Zenon DEF Edge
    <3> QED
      BY <2>2, <3>1, <3>2, Zenon
  <2>3. CASE a = m /\ IsList(g[m])
    <3>1. Edge(g, m, f, x) => f = "lst"
      BY <2>3, Kinds, Zenon DEF Edge
    <3>2. ASSUME Edge(h2, m, f, x)
          PROVE  FALSE
      <4>1. f = "lst"
        BY <1>1, <2>3, <3>2, Kinds, Zenon DEF Edge
      <4>2. h2[m].lst = x /\ x \in DOMAIN g
        BY <1>1, <3>2, <4>1, Zenon DEF Edge
      <4> QED
        BY <1>1, <1>3, <2>3, <4>2, Zenon
    <3> QED
      BY <2>3, <3>1, <3>2, Zenon
  <2> QED
    BY <1>2, <2>1, <2>2, <2>3, Zenon
<1>9. Changed(g, X, m, "lst", NULL, h2)
  <2>1. \A a, f, x : Edge(h2, a, f, x) <=>
            \/ Edge(g, a, f, x) /\ ~(a = m /\ f = "lst")
            \/ a = m /\ f = "lst" /\ x = NULL /\ NULL \in X
    BY <1>3, <1>8, Zenon
  <2>2. DOMAIN h2 = DOMAIN g
    BY <1>1, Zenon
  <2> QED
    BY <2>1, <2>2, Zenon DEF Changed
<1>10. Forest(h2, (X \ {NULL}) \cup {x \in DOMAIN g : Edge(g, m, "lst", x)})
  <2>1. NULL \in X => \E r \in X : r # NULL /\ Above(g, r, m)
    BY <1>3, Zenon
  <2> QED
    BY <1>9, <2>1, Relink
<1>11. (X \ {NULL}) \cup {x \in DOMAIN g : Edge(g, m, "lst", x)} = X \cup ({v} \ {NULL})
  BY <1>3, <1>6, <1>7 DEF ListPtr
<1>12. v \notin X
  <2>1. CASE v = NULL
    BY <1>3, <2>1
  <2>2. CASE v # NULL
    <3>1. Edge(g, m, "lst", v)
      BY <1>7, <2>2, Zenon
    <3> QED
      BY <3>1, Zenon DEF Forest, Owner
  <2> QED
    BY <2>1, <2>2, Zenon
<1>13. Shape(h2)
  <2>1. IsLeaf(h2[m]) \/ IsList(h2[m])
    BY <1>1, <1>2
  <2>2. \A x : TreePtr(g, x) => TreePtr(h2, x)
    <3>1. ASSUME NEW x, TreePtr(g, x)
          PROVE  TreePtr(h2, x)
      <4>1. CASE x = m
        BY <1>1, <1>2, <2>1, <4>1, Zenon DEF TreePtr
      <4>2. CASE x # m
        BY <1>1, <3>1, <4>2, Zenon DEF TreePtr
      <4> QED
        BY <4>1, <4>2, Zenon
    <3> QED
      BY <3>1, Zenon
  <2>3. \A x : ListPtr(g, x) => ListPtr(h2, x)
    <3>1. ASSUME NEW x, ListPtr(g, x)
          PROVE  ListPtr(h2, x)
      <4>1. x = m => FALSE
        BY <1>2, <1>3, <3>1, Zenon DEF ListPtr
      <4> QED
        BY <1>1, <3>1, <4>1, Zenon DEF ListPtr
    <3> QED
      BY <3>1, Zenon
  <2>4. \A o : ObjectOK(g, o) => ObjectOK(h2, o)
    BY <2>2, <2>3, Zenon DEF ObjectOK
  <2>5. ObjectOK(h2, h2[m])
    <3>1. CASE IsLeaf(g[m])
      BY <1>1, <3>1, Zenon DEF ObjectOK
    <3>2. CASE IsList(g[m])
      BY <1>1, <3>2, Zenon DEF ObjectOK, ListPtr
    <3> QED
      BY <1>2, <3>1, <3>2, Zenon
  <2>6. ASSUME NEW a \in DOMAIN g, a # m
        PROVE  ObjectOK(h2, h2[a])
    <3>1. h2[a] = g[a] /\ ObjectOK(g, g[a])
      BY <1>1, <2>6, Zenon DEF Shape
    <3> QED
      BY <2>4, <3>1
  <2> QED
    BY <1>1, <1>3, <2>5, <2>6, Zenon DEF Shape
<1> QED
  BY <1>6, <1>10, <1>11, <1>12, <1>13 DEF v

Bare(h, N) ==
    [a \in DOMAIN h |-> IF a \in N /\ IsList(h[a]) THEN ListNode(h[a].tag, NULL) ELSE h[a]]
Nodes(calls) == {calls[i].node : i \in 1 .. Len(calls)}
Ats(calls) == {calls[i].at : i \in 1 .. Len(calls)} \ {NULL}

Left == Bare(heap, Nodes(frames))

\* Each call of pgc_syn_free but the innermost is at the cell whose value the next
\* one frees; the memory is the root, and what the calls are at.
Releasing ==
    /\ frames \in Seq([node : Int, at : Int]) /\ Len(frames) > 0
    /\ frames[1].node = Root /\ DOMAIN heap \subseteq Int
    /\ Shape(Left) /\ Forest(Left, {Root} \cup Ats(frames))
    /\ \A i \in 1 .. Len(frames) :
          TreePtr(heap, frames[i].node) /\ ListPtr(heap, frames[i].at) /\ frames[i].at # Root
    /\ \A i \in 1 .. Len(frames) - 1 :
          frames[i].at # NULL /\ heap[frames[i].at].val = frames[i + 1].node
    /\ \A i, j \in 1 .. Len(frames) : frames[i].at = frames[j].at /\ frames[i].at # NULL => i = j

LEMMA BareObjects ==
    ASSUME NEW h, NEW N
    PROVE  /\ DOMAIN Bare(h, N) = DOMAIN h
           /\ \A a \in DOMAIN h :
                 /\ IsCell(Bare(h, N)[a]) <=> IsCell(h[a])
                 /\ IsLeaf(Bare(h, N)[a]) <=> IsLeaf(h[a])
                 /\ IsList(Bare(h, N)[a]) <=> IsList(h[a])
                 /\ a \notin N \/ ~IsList(h[a]) => Bare(h, N)[a] = h[a]
                 /\ a \in N /\ IsList(h[a]) => Bare(h, N)[a].lst = NULL
<1> DEFINE g == Bare(h, N)
<1>1. DOMAIN g = DOMAIN h
  BY DEF Bare
<1>2. ASSUME NEW a \in DOMAIN h
      PROVE  /\ IsCell(g[a]) <=> IsCell(h[a])
             /\ IsLeaf(g[a]) <=> IsLeaf(h[a])
             /\ IsList(g[a]) <=> IsList(h[a])
             /\ a \notin N \/ ~IsList(h[a]) => g[a] = h[a]
             /\ a \in N /\ IsList(h[a]) => g[a].lst = NULL
  <2>1. CASE a \in N /\ IsList(h[a])
    <3>1. g[a] = ListNode(h[a].tag, NULL)
      BY <2>1 DEF Bare
    <3>2. DOMAIN g[a] = {"tag", "lst"} /\ g[a].tag = h[a].tag /\ g[a].lst = NULL
      BY <3>1 DEF ListNode
    <3>3. IsList(g[a])
      BY <2>1, <3>2, Zenon DEF IsList
    <3> HIDE DEF g
    <3> QED
      BY <2>1, <3>2, <3>3, Kinds, Zenon
  <2>2. CASE ~(a \in N /\ IsList(h[a]))
    <3>1. g[a] = h[a]
      BY <2>2 DEF Bare
    <3> HIDE DEF g
    <3> QED
      BY <2>2, <3>1, Zenon
  <2> QED
    BY <2>1, <2>2, Zenon
<1> QED
  BY <1>1, <1>2, Zenon

\* The cell that a call is at, and its value, which the next call frees.
LEMMA Active ==
    ASSUME Releasing, NEW i \in 1 .. Len(frames), frames[i].at # NULL
    PROVE  /\ frames[i].at \in DOMAIN heap /\ IsCell(heap[frames[i].at])
           /\ Left[frames[i].at] = heap[frames[i].at] /\ frames[i].at \in Ats(frames)
           /\ Edge(Left, frames[i].at, "val", heap[frames[i].at].val)
           /\ TreePtr(heap, heap[frames[i].at].val)
<1> DEFINE c == frames[i].at
<1>1. c \in DOMAIN heap /\ IsCell(heap[c])
  BY Zenon DEF Releasing, ListPtr
<1>2. /\ DOMAIN Left = DOMAIN heap /\ IsCell(Left[c]) /\ Left[c] = heap[c]
      /\ \A a \in DOMAIN heap : /\ IsLeaf(Left[a]) <=> IsLeaf(heap[a])
                                /\ IsList(Left[a]) <=> IsList(heap[a])
  <2>1. ~IsList(heap[c])
    BY <1>1, Kinds, Zenon
  <2>2. DOMAIN Left = DOMAIN heap
    BY BareObjects, Zenon DEF Left
  <2>3. \A a \in DOMAIN heap : IsLeaf(Left[a]) <=> IsLeaf(heap[a])
    BY BareObjects, Zenon DEF Left
  <2>4. \A a \in DOMAIN heap : IsList(Left[a]) <=> IsList(heap[a])
    BY BareObjects, Zenon DEF Left
  <2>5. \A a \in DOMAIN heap : ~IsList(heap[a]) => Left[a] = heap[a]
    BY BareObjects, Zenon DEF Left
  <2>6. Left[c] = heap[c]
    BY <1>1, <2>1, <2>5, Zenon
  <2>7. IsCell(Left[c])
    BY <1>1, <2>6
  <2> HIDE DEF c
  <2> QED
    BY <2>2, <2>3, <2>4, <2>6, <2>7, Zenon
<1>3. Shape(Left)
  BY Zenon DEF Releasing
<1>4. Edge(Left, c, "val", heap[c].val)
  BY <1>1, <1>2, <1>3, Edges, Zenon
<1>5. TreePtr(heap, heap[c].val)
  <2>1. ObjectOK(Left, Left[c])
    BY <1>1, <1>2, <1>3, Zenon DEF Shape
  <2>2. TreePtr(Left, heap[c].val)
    BY <1>2, <2>1, Kinds, Zenon DEF ObjectOK
  <2>3. \A x \in DOMAIN heap : TreePtr(Left, x) => TreePtr(heap, x)
    BY <1>2 DEF TreePtr
  <2>4. \A x : TreePtr(Left, x) => x \in DOMAIN heap
    BY <1>2, Zenon DEF TreePtr
  <2> QED
    BY <2>2, <2>3, <2>4, Zenon
<1>6. c \in Ats(frames)
  BY Zenon DEF Ats
<1> QED
  BY <1>1, <1>2, <1>4, <1>5, <1>6

\* What the innermost call but one is at is not the node of another.
LEMMA NextNode ==
    ASSUME Releasing, NEW k \in 1 .. Len(frames), frames[k].at # NULL,
           NEW i \in 1 .. Len(frames), frames[i].node = heap[frames[k].at].val
    PROVE  i = k + 1
<1> DEFINE c == frames[k].at
           m == heap[c].val
<1>1. Edge(Left, c, "val", m)
  BY Active
<1>2. /\ frames \in Seq([node : Int, at : Int]) /\ frames[1].node = Root
      /\ Forest(Left, {Root} \cup Ats(frames))
  BY Zenon DEF Releasing
<1>3. i # 1
  <2>1. m # Root
    BY <1>1, <1>2, Zenon DEF Forest, Owner
  <2> QED
    BY <1>2, <2>1
<1>4. i - 1 \in 1 .. Len(frames) - 1 /\ i - 1 \in 1 .. Len(frames) /\ (i - 1) + 1 = i
  BY <1>2, <1>3
<1>5. frames[i - 1].at # NULL /\ heap[frames[i - 1].at].val = frames[i].node
  <2>1. \A j \in 1 .. Len(frames) - 1 :
          frames[j].at # NULL /\ heap[frames[j].at].val = frames[j + 1].node
    BY Zenon DEF Releasing
  <2> QED
    BY <1>4, <2>1
<1>6. Edge(Left, frames[i - 1].at, "val", m)
  <2>1. Edge(Left, frames[i - 1].at, "val", heap[frames[i - 1].at].val)
    BY <1>4, <1>5, Active
  <2> QED
    BY <1>5, <2>1
<1>7. frames[i - 1].at = c
  BY <1>1, <1>2, <1>6, Zenon DEF Forest
<1>8. i - 1 = k
  BY <1>4, <1>7, Zenon DEF Releasing
<1> QED
  BY <1>2, <1>8

\* pgc_syn_free begins on a node.
LEMMA Begun ==
    ASSUME NEW a, TreePtr(heap, a), DOMAIN heap \subseteq Int, ListPtr(heap, ListOf(heap[a]))
    PROVE  /\ Freeing(a) \in [node : Int, at : Int]
           /\ Freeing(a).node = a /\ Freeing(a).at = ListOf(heap[a])
<1>1. a \in Int
  BY DEF TreePtr
<1>2. ListOf(heap[a]) \in Int
  BY DEF ListPtr, NULL
<1>3. heap[a].tag \in LeafTags <=> IsLeaf(heap[a])
  <2>1. CASE IsLeaf(heap[a])
    BY <2>1, Zenon DEF IsLeaf
  <2>2. CASE IsList(heap[a])
    <3>1. heap[a].tag \notin LeafTags
      BY <2>2 DEF IsList, ListTags, PairTags, LeafTags
    <3> QED
      BY <2>2, <3>1, Kinds, Zenon
  <2> QED
    BY <2>1, <2>2, Zenon DEF TreePtr
<1>4. Freeing(a) = [node |-> a, at |-> ListOf(heap[a])]
  BY <1>3, Zenon DEF Freeing, ListOf
<1> QED
  BY <1>1, <1>2, <1>4

LEMMA FreeStep ==
    ASSUME DOMAIN heap \subseteq Int, Owned(heap, values, <<"tree">>), Free
    PROVE  Releasing'
<1> DEFINE r == Freeing(Root)
           g == Bare(heap, {Root})
           v == ListOf(heap[Root])
<1>1. /\ values \in Seq(Int) /\ Fits(heap, values, <<"tree">>)
      /\ Shape(heap) /\ Forest(heap, RootsOf(values))
  BY Zenon DEF Owned
<1>2. Len(values) = 1 /\ 1 \in 1 .. 1 /\ values[1] = Root
  <2>1. Len(values) = Len(<<"tree">>)
    BY <1>1, Zenon DEF Fits
  <2> QED
    BY <2>1 DEF Root
<1>3. TreePtr(heap, Root)
  BY <1>1, <1>2 DEF Fits
<1>4. Root \in DOMAIN heap /\ Root # NULL
  BY <1>1, <1>3, Zenon DEF TreePtr, Shape
<1>5. RootsOf(values) = {Root}
  <2>1. {values[i] : i \in 1 .. Len(values)} = {Root}
    BY <1>2
  <2> QED
    BY <1>4, <2>1 DEF RootsOf
<1>6. Emptied(heap, Root, g)
  BY <1>4, BareObjects, Kinds, Zenon DEF Emptied
<1>7. Shape(g) /\ Forest(g, {Root} \cup ({v} \ {NULL})) /\ ListPtr(heap, v) /\ v # Root
  <2>1. /\ Shape(g) /\ Forest(g, {Root} \cup ({v} \ {NULL}))
        /\ ListPtr(heap, v) /\ v \notin {Root}
    <3> HIDE DEF g
    <3> QED
      BY <1>1, <1>3, <1>5, <1>6, Enter, Zenon
  <2> QED
    BY <2>1, Zenon
<1>8. r \in [node : Int, at : Int] /\ r.node = Root /\ r.at = v
  BY <1>3, <1>7, Begun
<1>9. heap' = heap /\ values' = values /\ frames' = <<r>> /\ Root' = Root
  BY DEF Free, memory, Root
<1> HIDE DEF r, v, g
<1>10. /\ frames' \in Seq([node : Int, at : Int]) /\ Len(frames') = 1 /\ frames'[1] = r
  BY <1>8, <1>9
<1>11. Nodes(frames') = {Root} /\ Ats(frames') = {v} \ {NULL}
  BY <1>8, <1>10 DEF Nodes, Ats
<1>12. Left' = g
  BY <1>9, <1>11 DEF Left, g
<1>13. \A i \in 1 .. Len(frames') : i = 1
  BY <1>10
<1>14. \A i : i \notin 1 .. Len(frames') - 1
  BY <1>10
<1> QED
  BY <1>3, <1>7, <1>8, <1>9, <1>10, <1>11, <1>12, <1>13, <1>14 DEF Releasing

LEMMA FreeValueStep ==
    ASSUME Releasing, status = "freeing", FreeValue
    PROVE  Releasing'
<1> DEFINE n == Len(frames)
           c == frames[n].at
           m == heap[c].val
           r == Freeing(m)
           X == {Root} \cup Ats(frames)
           v == ListOf(heap[m])
<1>1. /\ frames \in Seq([node : Int, at : Int]) /\ n > 0 /\ n \in Nat
      /\ frames[1].node = Root /\ DOMAIN heap \subseteq Int
      /\ Shape(Left) /\ Forest(Left, X)
  BY DEF Releasing
<1>2. n \in 1 .. n /\ 1 \in 1 .. n
  BY <1>1
<1>3. Frame = frames[n]
  BY DEF Frame, Last
<1>4. /\ c # NULL /\ heap' = heap /\ values' = values /\ frames' = Append(frames, r) /\ Root' = Root
  BY <1>3 DEF FreeValue, memory, Root
<1>5. /\ c \in DOMAIN heap /\ IsCell(heap[c]) /\ Left[c] = heap[c]
      /\ Edge(Left, c, "val", m) /\ TreePtr(heap, m)
  BY <1>2, <1>4, Active
<1>6. m \notin Nodes(frames)
  <2>1. ASSUME NEW i \in 1 .. n, frames[i].node = m
        PROVE  FALSE
    <3>1. i = n + 1
      BY <1>2, <1>4, <2>1, NextNode
    <3> QED
      BY <1>1, <2>1, <3>1
  <2> QED
    BY <2>1, Zenon DEF Nodes
<1> DEFINE N2 == Nodes(frames) \cup {m}
           g2 == Bare(heap, N2)
<1>7. /\ DOMAIN Left = DOMAIN heap /\ DOMAIN g2 = DOMAIN heap /\ Left[m] = heap[m]
      /\ \A a \in DOMAIN heap : /\ IsLeaf(Left[a]) <=> IsLeaf(heap[a])
                                /\ IsList(Left[a]) <=> IsList(heap[a])
                                /\ IsLeaf(g2[a]) <=> IsLeaf(heap[a])
                                /\ IsList(g2[a]) <=> IsList(heap[a])
                                /\ IsCell(Left[a]) <=> IsCell(heap[a])
  <2>1. m \in DOMAIN heap
    BY <1>5, Zenon DEF TreePtr
  <2> HIDE DEF N2, m
  <2> QED
    BY <1>6, <2>1, BareObjects, Zenon DEF Left
<1>8. Emptied(Left, m, g2)
  <2>1. m \in DOMAIN heap
    BY <1>5, Zenon DEF TreePtr
  <2>2. ASSUME NEW a \in DOMAIN heap, a # m
        PROVE  g2[a] = Left[a]
    BY <2>2 DEF Left, Bare
  <2>3. IsLeaf(heap[m]) => g2[m] = heap[m]
    <3>1. IsLeaf(heap[m]) => ~IsList(heap[m])
      BY Kinds, Zenon
    <3> HIDE DEF N2, m
    <3> QED
      BY <2>1, <3>1, BareObjects, Zenon
  <2>4. IsList(heap[m]) => g2[m].lst = NULL
    <3>1. m \in N2
      OBVIOUS
    <3> HIDE DEF N2, m
    <3> QED
      BY <2>1, <3>1, BareObjects
  <2> HIDE DEF g2, m
  <2> QED
    BY <1>7, <2>1, <2>2, <2>3, <2>4, Zenon DEF Emptied
<1>9. /\ Shape(g2) /\ Forest(g2, X \cup ({v} \ {NULL})) /\ ListPtr(heap, v) /\ v \notin X
  <2>1. TreePtr(Left, m)
    <3> HIDE DEF m
    <3> QED
      BY <1>5, <1>7, Zenon DEF TreePtr
  <2>2. /\ Shape(g2) /\ Forest(g2, X \cup ({ListOf(Left[m])} \ {NULL}))
        /\ ListPtr(Left, ListOf(Left[m])) /\ ListOf(Left[m]) \notin X
    <3> HIDE DEF g2, X, m
    <3> QED
      BY <1>1, <1>8, <2>1, Enter, Zenon
  <2>3. ListOf(Left[m]) = v
    BY <1>7
  <2>4. ListPtr(Left, v) => ListPtr(heap, v)
    <3> HIDE DEF v
    <3> QED
      BY <1>7, Zenon DEF ListPtr
  <2> HIDE DEF v, g2, X
  <2> QED
    BY <2>2, <2>3, <2>4
<1>10. r \in [node : Int, at : Int] /\ r.node = m /\ r.at = v
  BY <1>1, <1>5, <1>9, Begun
<1> HIDE DEF r, v, g2, m
<1>11. /\ frames' \in Seq([node : Int, at : Int]) /\ Len(frames') = n + 1 /\ frames'[n + 1] = r
       /\ \A i \in 1 .. n : frames'[i] = frames[i]
  BY <1>1, <1>4, <1>10
<1> HIDE DEF n
<1>12. \A i : (i \in 1 .. n + 1 <=> i \in 1 .. n \/ i = n + 1)
  BY <1>1
<1>13. Nodes(frames') = N2
  <2>1. Nodes(frames') = {frames'[i].node : i \in 1 .. n + 1}
    BY <1>11 DEF Nodes
  <2>2. Nodes(frames) = {frames[i].node : i \in 1 .. n}
    BY DEF Nodes, n
  <2> QED
    BY <1>10, <1>11, <1>12, <2>1, <2>2
<1>14. Ats(frames') = Ats(frames) \cup ({v} \ {NULL})
  <2>1. Ats(frames') = {frames'[i].at : i \in 1 .. n + 1} \ {NULL}
    BY <1>11 DEF Ats
  <2>2. Ats(frames) = {frames[i].at : i \in 1 .. n} \ {NULL}
    BY DEF Ats, n
  <2>3. {frames'[i].at : i \in 1 .. n + 1} = {frames[i].at : i \in 1 .. n} \cup {v}
    <3>1. frames'[n + 1].at = v /\ \A i \in 1 .. n : frames'[i].at = frames[i].at
      BY <1>10, <1>11
    <3> QED
      BY <1>12, <3>1, Zenon
  <2> QED
    BY <2>1, <2>2, <2>3
<1>15. Left' = g2
  BY <1>4, <1>13 DEF Left, g2
<1>16. Shape(Left') /\ Forest(Left', {Root'} \cup Ats(frames'))
  <2>1. {Root'} \cup Ats(frames') = X \cup ({v} \ {NULL})
    BY <1>4, <1>14
  <2> HIDE DEF X
  <2> QED
    BY <1>9, <1>15, <2>1
<1>17. ASSUME NEW i \in 1 .. Len(frames')
       PROVE  TreePtr(heap', frames'[i].node) /\ ListPtr(heap', frames'[i].at) /\ frames'[i].at # Root'
  <2>1. CASE i \in 1 .. n
    <3>1. TreePtr(heap, frames[i].node) /\ ListPtr(heap, frames[i].at) /\ frames[i].at # Root
      BY <2>1, Zenon DEF Releasing, n
    <3> QED
      BY <1>4, <1>11, <2>1, <3>1
  <2>2. CASE i = n + 1
    BY <1>4, <1>5, <1>9, <1>10, <1>11, <2>2
  <2> QED
    BY <1>11, <1>12, <2>1, <2>2
<1>18. ASSUME NEW i \in 1 .. Len(frames') - 1
       PROVE  frames'[i].at # NULL /\ heap'[frames'[i].at].val = frames'[i + 1].node
  <2>1. CASE i = n
    <3>1. n \in 1 .. n
      BY <1>1
    <3>2. frames'[n].at = c /\ frames'[n + 1].node = m
      BY <1>10, <1>11, <3>1
    <3> HIDE DEF c
    <3> QED
      BY <1>4, <2>1, <3>2 DEF m
  <2>2. CASE i # n
    <3>1. i \in 1 .. n - 1 /\ i \in 1 .. n /\ i + 1 \in 1 .. n
      BY <1>1, <1>11, <2>2
    <3>2. frames[i].at # NULL /\ heap[frames[i].at].val = frames[i + 1].node
      BY <3>1, Zenon DEF Releasing, n
    <3> QED
      BY <1>4, <1>11, <3>1, <3>2
  <2> QED
    BY <2>1, <2>2
<1>19. ASSUME NEW i \in 1 .. Len(frames'), NEW j \in 1 .. Len(frames'),
              frames'[i].at = frames'[j].at, frames'[i].at # NULL
       PROVE  i = j
  <2>1. \A k \in 1 .. n : frames'[k].at # NULL => frames'[k].at \in Ats(frames) /\ frames'[k].at # v
    <3>1. ASSUME NEW k \in 1 .. n, frames[k].at # NULL
          PROVE  frames[k].at \in Ats(frames)
      BY <3>1, Zenon DEF Ats, n
    <3> QED
      BY <1>9, <1>11, <3>1
  <2>2. CASE i \in 1 .. n /\ j \in 1 .. n
    <3>1. frames[i].at = frames[j].at /\ frames[i].at # NULL
      BY <1>11, <1>19, <2>2
    <3> QED
      BY <2>2, <3>1, Zenon DEF Releasing, n
  <2>3. CASE i = n + 1 /\ j = n + 1
    BY <2>3
  <2>4. CASE ~(i \in 1 .. n /\ j \in 1 .. n) /\ ~(i = n + 1 /\ j = n + 1)
    <3>1. frames'[n + 1].at = v
      BY <1>10, <1>11
    <3> QED
      BY <1>11, <1>12, <1>19, <2>1, <2>4, <3>1
  <2> QED
    BY <2>2, <2>3, <2>4
<1>20. frames'[1].node = Root' /\ Len(frames') > 0 /\ DOMAIN heap' \subseteq Int
  BY <1>1, <1>2, <1>4, <1>11 DEF n
<1> QED
  BY <1>11, <1>16, <1>17, <1>18, <1>19, <1>20, Zenon DEF Releasing

\* The last of the calls ends: nothing is left.
LEMMA FreeRootStep ==
    ASSUME Releasing, FreeNode, Len(frames) = 1
    PROVE  DOMAIN heap' = {} /\ values' = <<>> /\ status' = "freed"
<1> DEFINE X == {Root} \cup Ats(frames)
           h2 == Without(Left, Root)
<1>1. Frame = frames[1] /\ frames[1].node = Root
  BY DEF Frame, Last, Releasing
<1>2. /\ frames[1].at = NULL /\ values' = <<>> /\ status' = "freed"
      /\ heap' = [a \in DOMAIN heap \ Released |-> heap[a]] /\ Released = {Root}
  BY <1>1 DEF FreeNode, Released
<1>3. X = {Root}
  BY <1>2 DEF Ats
<1>4. Shape(Left) /\ Forest(Left, {Root}) /\ TreePtr(heap, Root) /\ Root \in Nodes(frames)
  <2>1. 1 \in 1 .. Len(frames)
    BY DEF Releasing
  <2> HIDE DEF X
  <2> QED
    BY <1>1, <1>3, <2>1 DEF Releasing, X, Nodes
<1>5. \A f, x : ~Edge(Left, Root, f, x)
  <2>1. \/ IsLeaf(Left[Root])
        \/ IsList(Left[Root]) /\ Left[Root].lst = NULL
    <3>1. Root \in DOMAIN heap /\ (IsLeaf(heap[Root]) \/ IsList(heap[Root]))
      BY <1>4, Zenon DEF TreePtr
    <3>2. \A a \in DOMAIN heap : /\ IsLeaf(Left[a]) <=> IsLeaf(heap[a])
                                 /\ IsList(Left[a]) <=> IsList(heap[a])
                                 /\ a \in Nodes(frames) /\ IsList(heap[a]) => Left[a].lst = NULL
      BY BareObjects DEF Left
    <3> QED
      BY <1>4, <3>1, <3>2, Zenon
  <2>2. CASE IsLeaf(Left[Root])
    BY <2>2, Kinds, Zenon DEF Edge
  <2>3. CASE IsList(Left[Root]) /\ Left[Root].lst = NULL
    <3>1. NULL \notin DOMAIN Left
      BY <1>4, Zenon DEF Shape
    <3>2. \A f, x : Edge(Left, Root, f, x) => f = "lst"
      BY <2>3, Kinds, Zenon DEF Edge
    <3>3. \A x : ~Edge(Left, Root, "lst", x)
      BY <2>3, <3>1, Zenon DEF Edge
    <3> QED
      BY <3>2, <3>3, Zenon
  <2> QED
    BY <2>1, <2>2, <2>3, Zenon
<1>6. Forest(h2, {})
  <2>1. Root \in {Root}
    OBVIOUS
  <2>2. Forest(h2, ({Root} \ {Root}) \cup {x \in DOMAIN Left : \E f : Edge(Left, Root, f, x)})
    BY <1>4, <2>1, Uproot, Zenon
  <2>3. ({Root} \ {Root}) \cup {x \in DOMAIN Left : \E f : Edge(Left, Root, f, x)} = {}
    BY <1>5, Zenon
  <2> QED
    BY <2>2, <2>3
<1>7. DOMAIN h2 = {}
  <2>1. \A x \in DOMAIN h2 : Owner(h2, x)
    BY <1>6, Zenon DEF Forest
  <2>2. Rootless(h2, DOMAIN h2)
    <3>1. ASSUME NEW x \in DOMAIN h2
          PROVE  \E a \in DOMAIN h2 : \E f : Edge(h2, a, f, x)
      <4>1. PICK a, f : Edge(h2, a, f, x)
        BY <2>1, Zenon DEF Owner
      <4>2. a \in DOMAIN h2
        BY <4>1, Zenon DEF Edge
      <4> QED
        BY <4>1, <4>2, Zenon
    <3> QED
      BY <3>1, Zenon DEF Rootless
  <2> HIDE DEF h2
  <2> QED
    BY <1>6, <2>2, Zenon DEF Forest
<1>8. DOMAIN h2 = DOMAIN heap \ {Root}
  <2>1. DOMAIN Left = DOMAIN heap
    BY BareObjects, Zenon DEF Left
  <2> QED
    BY <2>1 DEF Without
<1>9. DOMAIN heap' = DOMAIN heap \ {Root}
  BY <1>2
<1> QED
  BY <1>2, <1>7, <1>8, <1>9

\* A call ends, and with it the cell that the one before was at.
LEMMA FreeNodeStep ==
    ASSUME Releasing, status = "freeing", FreeNode, Len(frames) > 1
    PROVE  Releasing'
<1> DEFINE n == Len(frames) - 1
           c == frames[n].at
           m == heap[c].val
           nx == heap[c].nxt
           X == {Root} \cup Ats(frames)
<1>1. /\ frames \in Seq([node : Int, at : Int]) /\ Len(frames) = n + 1 /\ n \in Nat /\ n > 0
      /\ frames[1].node = Root /\ DOMAIN heap \subseteq Int
      /\ Shape(Left) /\ Forest(Left, X)
  <2>1. /\ frames \in Seq([node : Int, at : Int]) /\ Len(frames) > 0
        /\ frames[1].node = Root /\ DOMAIN heap \subseteq Int
        /\ Shape(Left) /\ Forest(Left, X)
    BY Zenon DEF Releasing
  <2>2. frames \in Seq([node : Int, at : Int]) /\ Len(frames) \in Nat /\ Len(frames) > 0
    BY <2>1
  <2>3. Len(frames) = n + 1 /\ n \in Nat /\ n > 0
    BY <2>2
  <2> QED
    BY <2>1, <2>3
<1>2. /\ n \in 1 .. Len(frames) /\ n \in 1 .. Len(frames) - 1 /\ n + 1 \in 1 .. Len(frames)
      /\ 1 \in 1 .. n /\ n \in 1 .. n
  BY <1>1
<1>3. Frame = frames[n + 1] /\ frames[n + 1].node = m /\ c # NULL
  <2>1. Frame = frames[n + 1]
    BY <1>1 DEF Frame, Last
  <2>2. c # NULL /\ m = frames[n + 1].node
    <3> HIDE DEF n
    <3> QED
      BY <1>1, <1>2, Zenon DEF Releasing
  <2> QED
    BY <2>1, <2>2
<1>4. /\ frames[n + 1].at = NULL /\ values' = values /\ status' = status /\ Root' = Root
      /\ frames' = [i \in 1 .. n |-> IF i < n THEN frames[i] ELSE [frames[i] EXCEPT !.at = nx]]
      /\ heap' = [a \in DOMAIN heap \ {m, c} |-> heap[a]]
  <2>1. Len(frames) > 1
    BY <1>1
  <2>2. Released = {m} \cup {c}
    BY <1>3, <2>1 DEF Released
  <2> HIDE DEF m
  <2> QED
    BY <1>3, <2>1, <2>2 DEF FreeNode, Root
<1> HIDE DEF n
<1>5. /\ c \in DOMAIN heap /\ IsCell(heap[c]) /\ Left[c] = heap[c] /\ c \in X
      /\ Edge(Left, c, "val", m) /\ TreePtr(heap, m) /\ c # Root
  <2>1. c # Root
    BY <1>2, Zenon DEF Releasing
  <2> QED
    BY <1>2, <1>3, <2>1, Active
<1>6. \A i \in 1 .. n : frames[i].node # m /\ i \in 1 .. Len(frames)
  <2>1. ASSUME NEW i \in 1 .. n, frames[i].node = m
        PROVE  FALSE
    <3>1. i \in 1 .. Len(frames)
      BY <1>1
    <3>2. i = n + 1
      BY <1>2, <1>3, <2>1, <3>1, NextNode
    <3> QED
      BY <1>1, <3>2
  <2>2. \A i \in 1 .. n : i \in 1 .. Len(frames)
    BY <1>1
  <2> QED
    BY <2>1, <2>2, Zenon
<1>7. /\ DOMAIN Left = DOMAIN heap
      /\ \A a \in DOMAIN heap : IsLeaf(Left[a]) <=> IsLeaf(heap[a])
      /\ \A a \in DOMAIN heap : IsList(Left[a]) <=> IsList(heap[a])
      /\ \A a \in DOMAIN heap : IsCell(Left[a]) <=> IsCell(heap[a])
  BY BareObjects, Zenon DEF Left
<1>8. m \in DOMAIN heap /\ ~IsCell(heap[m]) /\ m # c /\ m \notin X /\ m # NULL
  <2>1. m \in DOMAIN heap /\ ~IsCell(heap[m])
    <3> HIDE DEF m
    <3> QED
      BY <1>5, Kinds, Zenon DEF TreePtr
  <2>2. m \notin X
    <3> HIDE DEF m, c, X
    <3> QED
      BY <1>1, <1>5, Zenon DEF Forest, Owner
  <2>3. m # c
    <3> HIDE DEF m, c
    <3> QED
      BY <1>5, <2>1, Zenon
  <2>4. m # NULL
    <3> HIDE DEF m, c
    <3> QED
      BY <1>1, <1>7, <2>1, Zenon DEF Shape
  <2> QED
    BY <2>1, <2>2, <2>3, <2>4
\* What is after the cell is held by none.
<1>9. ListPtr(heap, nx) /\ nx \notin X /\ nx # m /\ nx # c
      /\ \A f, x : Edge(Left, c, f, x) <=> (f = "val" /\ x = m) \/ (f = "nxt" /\ x = nx /\ nx # NULL)
  <2>1. nx # NULL => Edge(Left, c, "nxt", nx)
    <3>1. Left[c].nxt = nx
      BY <1>5
    <3> HIDE DEF nx, c
    <3> QED
      BY <1>1, <1>5, <1>7, <3>1, Edges, Zenon
  <2>2. Left[c].val = m /\ Left[c].nxt = nx /\ IsCell(Left[c])
    BY <1>5
  <2> HIDE DEF nx, c, m, X
  <2>3. nx = NULL \/ (IsCell(heap[nx]) /\ nx \in DOMAIN heap /\ nx \notin X)
    <3>1. ASSUME nx # NULL
          PROVE  IsCell(heap[nx]) /\ nx \in DOMAIN heap /\ nx \notin X
      <4>1. Edge(Left, c, "nxt", nx)
        BY <2>1, <3>1
      <4>2. IsCell(Left[nx]) /\ nx \in DOMAIN heap
        BY <1>1, <1>7, <4>1, EdgeKinds, Zenon DEF Edge
      <4>3. nx \notin X
        BY <1>1, <4>1, Zenon DEF Forest, Owner
      <4> QED
        BY <1>7, <4>2, <4>3, Zenon
    <3> QED
      BY <3>1, Zenon
  <2>4. NULL \notin X /\ NULL \notin DOMAIN heap
    BY <1>1, <1>7, Zenon DEF Forest, Shape
  <2>5. nx \notin X /\ nx # m /\ nx # c
    BY <1>5, <1>8, <2>3, <2>4
  <2>6. ListPtr(heap, nx)
    BY <2>3, Zenon DEF ListPtr
  <2>7. ASSUME NEW f, NEW x, Edge(Left, c, f, x)
        PROVE  (f = "val" /\ x = m) \/ (f = "nxt" /\ x = nx /\ nx # NULL)
    <3>1. x # NULL
      BY <1>7, <2>4, <2>7, Zenon DEF Edge
    <3>2. \/ f = "val" /\ Left[c].val = x
          \/ f = "nxt" /\ Left[c].nxt = x
          \/ IsList(Left[c])
      BY <1>1, <2>7, EdgeKinds, Zenon
    <3>3. ~IsList(Left[c])
      BY <2>2, Kinds, Zenon
    <3> QED
      BY <2>2, <3>1, <3>2, <3>3
  <2> QED
    BY <1>5, <2>1, <2>5, <2>6, <2>7
<1> DEFINE g1 == Without(Left, c)
           X1 == (X \ {c}) \cup ({m} \cup ({nx} \ {NULL}))
           g2 == Without(g1, m)
           X2 == (X \ {c}) \cup ({nx} \ {NULL})
<1>10. Shape(g1) /\ Forest(g1, X1)
  <2> HIDE DEF c, m, nx, X
  <2>1. Shape(g1) /\ Forest(g1, (X \ {c}) \cup {x \in DOMAIN Left : \E f : Edge(Left, c, f, x)})
    BY <1>1, <1>5, Uproot, Zenon
  <2>2. ASSUME NEW x
        PROVE  x \in DOMAIN Left /\ (\E f : Edge(Left, c, f, x)) <=> x \in {m} \cup ({nx} \ {NULL})
    <3>1. (\E f : Edge(Left, c, f, x)) => x \in DOMAIN Left
      BY Zenon DEF Edge
    <3>2. (\E f : Edge(Left, c, f, x)) <=> x = m \/ (x = nx /\ nx # NULL)
      BY <1>9
    <3> QED
      BY <3>1, <3>2
  <2>3. {x \in DOMAIN Left : \E f : Edge(Left, c, f, x)} = {m} \cup ({nx} \ {NULL})
    BY <2>2
  <2> QED
    BY <2>1, <2>3
<1>11. DOMAIN g1 = DOMAIN heap \ {c} /\ \A a \in DOMAIN heap : a # c => g1[a] = Left[a]
  BY <1>7 DEF Without
<1>12. \A f, x : ~Edge(g1, m, f, x)
  <2>1. m \in Nodes(frames)
    BY <1>2, <1>3, Zenon DEF Nodes
  <2> HIDE DEF m, c, g1
  <2>2. \/ IsLeaf(Left[m])
        \/ IsList(Left[m]) /\ Left[m].lst = NULL
    <3>1. m \in DOMAIN heap /\ (IsLeaf(heap[m]) \/ IsList(heap[m]))
      BY <1>5, Zenon DEF TreePtr
    <3>2. \A a \in DOMAIN heap : /\ IsLeaf(Left[a]) <=> IsLeaf(heap[a])
                                 /\ IsList(Left[a]) <=> IsList(heap[a])
                                 /\ a \in Nodes(frames) /\ IsList(heap[a]) => Left[a].lst = NULL
      BY BareObjects DEF Left
    <3> QED
      BY <2>1, <3>1, <3>2, Zenon
  <2>3. g1[m] = Left[m]
    BY <1>8, <1>11, Zenon
  <2>4. NULL \notin DOMAIN g1
    BY <1>10, Zenon DEF Shape
  <2>5. CASE IsLeaf(g1[m])
    BY <2>5, Kinds, Zenon DEF Edge
  <2>6. CASE IsList(g1[m]) /\ g1[m].lst = NULL
    <3>1. \A f, x : Edge(g1, m, f, x) => f = "lst"
      BY <2>6, Kinds, Zenon DEF Edge
    <3>2. \A x : ~Edge(g1, m, "lst", x)
      BY <2>4, <2>6, Zenon DEF Edge
    <3> QED
      BY <3>1, <3>2, Zenon
  <2> QED
    BY <2>2, <2>3, <2>5, <2>6
<1>13. Shape(g2) /\ Forest(g2, X2)
  <2> HIDE DEF c, m, nx, X, g1
  <2>1. m \in X1
    OBVIOUS
  <2>2. Shape(g2) /\ Forest(g2, (X1 \ {m}) \cup {x \in DOMAIN g1 : \E f : Edge(g1, m, f, x)})
    <3> HIDE DEF X1
    <3> QED
      BY <1>10, <2>1, Uproot, Zenon
  <2>3. (X1 \ {m}) \cup {x \in DOMAIN g1 : \E f : Edge(g1, m, f, x)} = X1 \ {m}
    BY <1>12, Zenon
  <2>4. X1 \ {m} = X2
    BY <1>8, <1>9
  <2> HIDE DEF g2, X1, X2
  <2> QED
    BY <2>2, <2>3, <2>4
<1>14. /\ frames' \in Seq([node : Int, at : Int]) /\ Len(frames') = n
       /\ frames'[n].node = frames[n].node /\ frames'[n].at = nx
       /\ \A i \in 1 .. n : frames'[i].node = frames[i].node
       /\ \A i \in 1 .. n : i # n => frames'[i] = frames[i]
  <2>1. nx \in Int
    <3> HIDE DEF nx
    <3> QED
      BY <1>1, <1>9 DEF ListPtr, NULL
  <2>2. \A i \in 1 .. n : frames[i] \in [node : Int, at : Int] /\ (i < n <=> i # n)
    <3>1. \A i \in 1 .. n : i \in 1 .. Len(frames) /\ (i < n <=> i # n)
      BY <1>1
    <3>2. frames \in Seq([node : Int, at : Int])
      BY <1>1, Zenon
    <3>3. \A i \in 1 .. Len(frames) : frames[i] \in [node : Int, at : Int]
      BY <3>2, ElementOfSeq, Zenon
    <3> QED
      BY <3>1, <3>3, Zenon
  <2> HIDE DEF nx, c, m
  <2>3. [frames[n] EXCEPT !.at = nx] \in [node : Int, at : Int]
        /\ [frames[n] EXCEPT !.at = nx].node = frames[n].node
        /\ [frames[n] EXCEPT !.at = nx].at = nx
    BY <1>2, <2>1, <2>2
  <2>4. \A i \in 1 .. n : frames'[i] = IF i < n THEN frames[i] ELSE [frames[i] EXCEPT !.at = nx]
    BY <1>4
  <2>5. \A i \in 1 .. n : i # n => frames'[i] = frames[i]
    BY <2>2, <2>4, Zenon
  <2>6. frames'[n] = [frames[n] EXCEPT !.at = nx]
    <3>1. n \in 1 .. n /\ ~(n < n)
      BY <1>1, <1>2
    <3> QED
      BY <2>4, <3>1, Zenon
  <2>7. \A i \in 1 .. n : frames'[i] \in [node : Int, at : Int]
    BY <2>2, <2>3, <2>5, <2>6
  <2>8. frames' = [i \in 1 .. n |-> frames'[i]]
    <3> DEFINE F(i) == IF i < n THEN frames[i] ELSE [frames[i] EXCEPT !.at = nx]
    <3>1. frames' = [i \in 1 .. n |-> F(i)]
      BY <1>4, Zenon
    <3> HIDE DEF F
    <3> QED
      BY <3>1
  <2>9. frames' \in [1 .. n -> [node : Int, at : Int]]
    BY <2>7, <2>8, Zenon
  <2>10. frames' \in Seq([node : Int, at : Int]) /\ Len(frames') = n
    BY <1>1, <2>9
  <2> QED
    BY <1>2, <2>3, <2>5, <2>6, <2>10
<1>15. \A i : (i \in 1 .. Len(frames) <=> i \in 1 .. n \/ i = n + 1)
  BY <1>1
<1>16. Nodes(frames') = Nodes(frames) \ {m}
  <2>1. Nodes(frames') = {frames[i].node : i \in 1 .. n}
    BY <1>14, Zenon DEF Nodes
  <2> HIDE DEF m, c, nx
  <2>2. Nodes(frames) = {frames[i].node : i \in 1 .. n} \cup {m}
    BY <1>3, <1>15, Zenon DEF Nodes
  <2>3. m \notin {frames[i].node : i \in 1 .. n}
    BY <1>6, Zenon
  <2> QED
    BY <2>1, <2>2, <2>3
\* Another call is at another cell.
<1>17. \A i \in 1 .. n : i # n => frames[i].at # c /\ frames[i].at # m /\ frames[i].at # nx
  <2> HIDE DEF m, nx, X
  <2>1. ASSUME NEW i \in 1 .. n, i # n
        PROVE  frames[i].at # c /\ frames[i].at # m /\ frames[i].at # nx
    <3>1. i \in 1 .. Len(frames) /\ i \in 1 .. Len(frames) - 1
      BY <1>1, <2>1
    <3>2. frames[i].at # NULL
      BY <3>1, Zenon DEF Releasing
    <3>3. frames[i].at # c
      BY <1>2, <2>1, <3>1, <3>2, Zenon DEF Releasing
    <3>4. frames[i].at \in X
      BY <3>1, <3>2, Zenon DEF X, Ats
    <3> QED
      BY <1>8, <1>9, <3>3, <3>4
  <2> QED
    BY <2>1, Zenon
<1>18. {Root} \cup Ats(frames') = X2
  <2> DEFINE S == {frames[i].at : i \in {j \in 1 .. n : j # n}}
  <2>1. {frames[i].at : i \in 1 .. Len(frames)} = S \cup {c, NULL}
    <3> HIDE DEF m, nx
    <3> QED
      BY <1>2, <1>4, <1>15, Zenon
  <2>2. {frames'[i].at : i \in 1 .. n} = S \cup {nx}
    <3> HIDE DEF m, nx, c
    <3>1. frames'[n].at = nx /\ \A i \in 1 .. n : i # n => frames'[i].at = frames[i].at
      BY <1>14
    <3> QED
      BY <1>2, <3>1, Zenon
  <2>3. c \notin S /\ c # Root
    <3> HIDE DEF c, m, nx
    <3> QED
      BY <1>5, <1>17, Zenon
  <2>4. Ats(frames) = (S \cup {c, NULL}) \ {NULL} /\ Ats(frames') = (S \cup {nx}) \ {NULL}
    <3> HIDE DEF c, m, nx, S
    <3> QED
      BY <1>14, <2>1, <2>2, Zenon DEF Ats
  <2> HIDE DEF c, m, nx, S
  <2> QED
    BY <2>3, <2>4
<1>19. Left' = g2
  <2> HIDE DEF c, m, nx
  <2>1. Left' = Bare(heap', Nodes(frames) \ {m})
    BY <1>16 DEF Left
  <2>2. DOMAIN heap' = DOMAIN heap \ {m, c} /\ \A a \in DOMAIN heap' : heap'[a] = heap[a]
    BY <1>4
  <2>3. g2 = [a \in (DOMAIN heap \ {c}) \ {m} |-> g1[a]]
    BY <1>11 DEF Without
  <2>4. (DOMAIN heap \ {c}) \ {m} = DOMAIN heap'
    BY <2>2
  <2>5. ASSUME NEW a \in DOMAIN heap'
        PROVE  g1[a] = IF a \in Nodes(frames) \ {m} /\ IsList(heap'[a])
                       THEN ListNode(heap'[a].tag, NULL) ELSE heap'[a]
    <3>1. a \in DOMAIN heap /\ a # c /\ a # m /\ heap'[a] = heap[a]
      BY <2>2
    <3>2. g1[a] = IF a \in Nodes(frames) /\ IsList(heap[a])
                  THEN ListNode(heap[a].tag, NULL) ELSE heap[a]
      BY <1>11, <3>1 DEF Left, Bare
    <3>3. a \in Nodes(frames) \ {m} <=> a \in Nodes(frames)
      BY <3>1
    <3> HIDE DEF g1
    <3> QED
      BY <3>1, <3>2, <3>3
  <2> HIDE DEF g1, g2
  <2> QED
    BY <2>1, <2>3, <2>4, <2>5, Zenon DEF Bare
<1>20. Shape(Left') /\ Forest(Left', {Root'} \cup Ats(frames'))
  <2> HIDE DEF g2, X2
  <2> QED
    BY <1>4, <1>13, <1>18, <1>19
<1>21. \A x \in DOMAIN heap : x # m /\ x # c => x \in DOMAIN heap' /\ heap'[x] = heap[x]
  <2> HIDE DEF m, c
  <2> QED
    BY <1>4
<1>22. ASSUME NEW i \in 1 .. n
       PROVE  TreePtr(heap', frames'[i].node) /\ ListPtr(heap', frames'[i].at) /\ frames'[i].at # Root'
  <2>1. TreePtr(heap, frames[i].node) /\ ListPtr(heap, frames[i].at) /\ frames[i].at # Root
        /\ frames[i].node # m
    BY <1>6, <1>22, Zenon DEF Releasing
  <2> HIDE DEF m, nx, c
  <2>2. TreePtr(heap', frames'[i].node)
    <3>1. frames[i].node # c
      BY <1>5, <2>1, Kinds, Zenon DEF TreePtr
    <3> QED
      BY <1>14, <1>21, <2>1, <3>1, Zenon DEF TreePtr
  <2>3. CASE i = n
    <3>1. ListPtr(heap', nx)
      BY <1>9, <1>21, Zenon DEF ListPtr
    <3>2. nx # Root
      BY <1>9
    <3> QED
      BY <1>4, <1>14, <2>2, <2>3, <3>1, <3>2
  <2>4. CASE i # n
    <3>1. frames[i].at # c /\ frames[i].at # m /\ frames'[i].at = frames[i].at
      BY <1>14, <1>17, <2>4
    <3>2. ListPtr(heap', frames[i].at)
      BY <1>21, <2>1, <3>1, Zenon DEF ListPtr
    <3> QED
      BY <1>4, <2>1, <2>2, <3>1, <3>2
  <2> QED
    BY <2>3, <2>4
<1>23. ASSUME NEW i \in 1 .. Len(frames') - 1
       PROVE  frames'[i].at # NULL /\ heap'[frames'[i].at].val = frames'[i + 1].node
  <2> HIDE DEF m, nx, c
  <2>1. i \in 1 .. n /\ i # n /\ i + 1 \in 1 .. n /\ i \in 1 .. Len(frames) - 1 /\ i \in 1 .. Len(frames)
    <3>1. i \in 1 .. n - 1
      BY <1>14
    <3> QED
      BY <1>1, <3>1
  <2>2. frames[i].at # NULL /\ heap[frames[i].at].val = frames[i + 1].node
    BY <2>1, Zenon DEF Releasing
  <2>3. frames[i].at \in DOMAIN heap
    BY <2>1, <2>2, Active
  <2>4. heap'[frames[i].at] = heap[frames[i].at]
    BY <1>17, <1>21, <2>1, <2>3
  <2> QED
    BY <1>14, <2>1, <2>2, <2>4
<1>24. ASSUME NEW i \in 1 .. n, NEW j \in 1 .. n,
              frames'[i].at = frames'[j].at, frames'[i].at # NULL
       PROVE  i = j
  <2> HIDE DEF m, nx, c
  <2>1. CASE i # n /\ j # n
    <3>1. frames[i].at = frames[j].at /\ frames[i].at # NULL
          /\ i \in 1 .. Len(frames) /\ j \in 1 .. Len(frames)
      BY <1>14, <1>15, <1>24, <2>1
    <3> QED
      BY <3>1, Zenon DEF Releasing
  <2>2. CASE i = n /\ j # n
    BY <1>14, <1>17, <1>24, <2>2
  <2>3. CASE i # n /\ j = n
    BY <1>14, <1>17, <1>24, <2>3
  <2>4. CASE i = n /\ j = n
    BY <2>4
  <2> QED
    BY <2>1, <2>2, <2>3, <2>4
<1>25. frames'[1].node = Root' /\ Len(frames') > 0 /\ DOMAIN heap' \subseteq Int
  <2>1. DOMAIN heap' = DOMAIN heap \ {m, c}
    BY <1>4
  <2> HIDE DEF m, nx, c
  <2> QED
    BY <1>1, <1>2, <1>4, <1>14, <2>1
<1> QED
  <2> HIDE DEF m, nx, c
  <2> QED
    BY <1>14, <1>20, <1>22, <1>23, <1>24, <1>25, Zenon DEF Releasing
-----------------------------------------------------------------------------
\* The inductive invariant: what there is of the tree, by what is done with it.
Building == Progress /\ Dense /\ (Idle \/ Reversing \/ Joining)
Rest == code = <<>> /\ loop = <<>>
Whole == Rest /\ DOMAIN heap \subseteq Int /\ Owned(heap, values, <<"tree">>)
Lives ==
    /\ status \in {"building", "using", "printing", "freeing", "freed", "halted"}
    /\ res \in {"none", "OK", "IO"}
    /\ status = "building" => Building
    /\ status \in {"using", "printing", "halted"} => Whole
    /\ status = "freeing" => Rest /\ Releasing
    /\ status = "freed" => Rest /\ DOMAIN heap = {}

LEMMA BeginsEmpty ==
    ASSUME Init
    PROVE  Lives
<1>1. /\ program \in Programs /\ code = program.calls /\ values = <<>> /\ heap = <<>>
      /\ loop = <<>> /\ status = "building" /\ res = "none"
  BY DEF Init
<1>2. /\ program.calls \in Seq(Range(program.calls)) /\ program.types[1] = <<>>
      /\ Len(program.calls) \in Nat
  <2>1. program.calls \in Seq(Range(program.calls)) /\ program.types[1] = <<>>
    BY <1>1, SyntaxAssumption
  <2> QED
    BY <2>1
<1>3. Executed = 0
  BY <1>1, <1>2 DEF Executed
<1>4. Progress /\ Before = <<>>
  <2>1. \A i \in 1 .. Len(code) : Executed + i = i
    BY <1>1, <1>2, <1>3
  <2>2. Executed + 1 = 1 /\ Len(code) <= Len(program.calls)
    BY <1>1, <1>2, <1>3
  <2>3. \A i \in 1 .. Len(code) : code[i] = program.calls[Executed + i]
    BY <1>1, <2>1, Zenon
  <2> QED
    BY <1>1, <1>2, <2>2, <2>3, Zenon DEF Progress, Before
<1>5. DOMAIN heap = {} /\ Len(values) = 0 /\ values \in Seq(Int)
      /\ <<>> \in Seq({"tree", "list"}) /\ 1 .. 0 = {}
  BY <1>1
<1>6. Dense
  <2>1. 0 \in Nat /\ DOMAIN heap = 1 .. 0
    BY <1>5
  <2> QED
    BY <2>1, Zenon DEF Dense
<1>7. Shape(heap) /\ Forest(heap, RootsOf(values))
  <2>1. RootsOf(values) = {}
    BY <1>5, Zenon DEF RootsOf
  <2>2. \A a, f, x : ~Edge(heap, a, f, x)
    BY <1>5, Zenon DEF Edge
  <2> QED
    BY <1>5, <2>1, <2>2, Zenon DEF Shape, Forest
<1>8. Owned(heap, values, <<>>)
  <2>1. Len(values) = Len(<<>>) /\ \A i : i \notin 1 .. Len(values)
    BY <1>1, <1>5
  <2> QED
    BY <1>5, <1>7, <2>1, Zenon DEF Owned, Fits, Apart
<1>9. Building
  BY <1>1, <1>4, <1>6, <1>8 DEF Building, Idle
<1> QED
  BY <1>1, <1>9 DEF Lives

\* The calls of a program.
LEMMA BuildStep ==
    ASSUME status = "building", Building, TakenIsWhole, Build
    PROVE  (status' = "building" /\ Building') \/ (status' = "using" /\ Whole')
<1>1. Progress /\ Dense
  BY DEF Building
\* In the middle of pgc_ast_rev or pgc_ast_cat only its own steps are possible.
<1>2. /\ Idle => loop = <<>>
      /\ Reversing => loop # <<>> /\ Turning("res") /\ ~Turning("at")
      /\ Joining => loop # <<>> /\ Turning("at") /\ ~Turning("res")
  <2>1. ASSUME Reversing
        PROVE  loop # <<>> /\ Turning("res") /\ ~Turning("at")
    <3>1. PICK l \in Int, r \in Int : loop = <<[lst |-> l, res |-> r]>>
      BY <2>1, Zenon DEF Reversing
    <3>2. loop # <<>> /\ loop[1] = [lst |-> l, res |-> r]
      BY <3>1
    <3>3. DOMAIN loop[1] = {"lst", "res"}
      BY <3>2
    <3> QED
      BY <3>2, <3>3 DEF Turning
  <2>2. ASSUME Joining
        PROVE  loop # <<>> /\ Turning("at") /\ ~Turning("res")
    <3>1. PICK f \in Int, a \in Int, s \in Int : loop = <<[fst |-> f, at |-> a, snd |-> s]>>
      BY <2>2, Zenon DEF Joining
    <3>2. loop # <<>> /\ loop[1] = [fst |-> f, at |-> a, snd |-> s]
      BY <3>1
    <3>3. DOMAIN loop[1] = {"fst", "at", "snd"}
      BY <3>2
    <3> QED
      BY <3>2, <3>3 DEF Turning
  <2> QED
    BY <2>1, <2>2 DEF Idle
<1>3. loop = <<>> => Idle
  BY <1>2 DEF Building
<1>4. Turning("res") => Reversing
  BY <1>2, Zenon DEF Building, Turning
<1>5. Turning("at") => Joining
  BY <1>2, Zenon DEF Building, Turning
<1>6. CASE NewLeaf
  BY <1>1, <1>3, <1>6, LeafStep, Zenon DEF NewLeaf, Executes, Done, Building
<1>7. CASE NewPair
  BY <1>1, <1>3, <1>7, PairStep, Zenon DEF NewPair, Executes, Done, Building
<1>8. CASE NewSingleton
  BY <1>1, <1>3, <1>8, SingletonStep, Zenon DEF NewSingleton, Executes, Done, Building
<1>9. CASE NewSrc
  BY <1>1, <1>3, <1>9, SrcStep, Zenon DEF NewSrc, Executes, Done, Building
<1>10. CASE Nil
  BY <1>1, <1>3, <1>10, NilStep, Zenon DEF Nil, Executes, Done, Building
<1>11. CASE ConsCell
  BY <1>1, <1>3, <1>11, ConsStep, Zenon DEF ConsCell, Executes, Done, Building
<1>12. CASE StartRev
  BY <1>1, <1>3, <1>12, StartRevStep, Zenon DEF StartRev, Executes, Building
<1>13. CASE RevTurn
  BY <1>1, <1>4, <1>13, RevTurnStep, Zenon DEF RevTurn, Building
<1>14. CASE EndRev
  BY <1>1, <1>4, <1>14, EndRevStep, Zenon DEF EndRev, Done, Building
<1>15. CASE CatNothing
  BY <1>1, <1>3, <1>15, CatNothingStep, Zenon DEF CatNothing, Executes, Done, Building
<1>16. CASE StartCat
  BY <1>1, <1>3, <1>16, StartCatStep, Zenon DEF StartCat, Executes, Building
<1>17. CASE CatTurn
  BY <1>1, <1>5, <1>17, CatTurnStep, Zenon DEF CatTurn, Building
<1>18. CASE EndCat
  BY <1>1, <1>5, <1>18, EndCatStep, Zenon DEF EndCat, Done, Building
<1>19. CASE Built
  <2>1. /\ loop = <<>> /\ code = <<>> /\ status' = "using"
        /\ heap' = heap /\ values' = values /\ loop' = loop /\ code' = code
    BY <1>19 DEF Built, memory
  <2>2. Owned(heap, values, <<"tree">>)
    <3>1. Before = <<"tree">>
      BY <1>1, <2>1, Calls
    <3> QED
      BY <1>3, <2>1, <3>1, Zenon DEF Idle
  <2>3. DOMAIN heap \subseteq Int
    BY <1>1 DEF Dense
  <2> QED
    BY <2>1, <2>2, <2>3 DEF Whole, Rest
<1> QED
  BY <1>6, <1>7, <1>8, <1>9, <1>10, <1>11, <1>12, <1>13, <1>14, <1>15, <1>16, <1>17, <1>18, <1>19
     DEF Build

\* Every step keeps the invariant.
LEMMA LivesStep ==
    ASSUME Lives, TakenIsWhole, [Next]_vars
    PROVE  Lives'
<1>1. status \in {"building", "using", "printing", "freeing", "freed", "halted"}
      /\ res \in {"none", "OK", "IO"}
  BY DEF Lives
<1>2. CASE Build
  <2>1. status = "building"
    <3>1. status # "building" => loop = <<>>
      BY <1>1 DEF Lives, Whole, Rest
    <3> QED
      BY <1>2, <3>1, Zenon
         DEF Build, NewLeaf, NewPair, NewSingleton, NewSrc, Nil, ConsCell, StartRev, RevTurn,
             EndRev, CatNothing, StartCat, CatTurn, EndCat, Built, Executes, Turning
  <2>2. Building
    BY <2>1 DEF Lives
  <2>3. res' = res
    BY <1>2, Zenon
       DEF Build, NewLeaf, NewPair, NewSingleton, NewSrc, Nil, ConsCell, StartRev, RevTurn,
           EndRev, CatNothing, StartCat, CatTurn, EndCat, Built, Done, uses
  <2>4. (status' = "building" /\ Building') \/ (status' = "using" /\ Whole')
    BY <1>2, <2>1, <2>2, BuildStep
  <2> QED
    BY <1>1, <2>3, <2>4 DEF Lives
\* What the other functions read they do not change.
<1>3. ASSUME status \in {"using", "printing"}, UNCHANGED <<program, code, memory>>,
             status' \in {"using", "printing", "halted"}, res' \in {"none", "OK", "IO"}
      PROVE  Lives'
  <2>1. Whole
    BY <1>3 DEF Lives
  <2>2. Whole'
    BY <1>3, <2>1 DEF Whole, Rest, memory
  <2> QED
    BY <1>3, <2>2 DEF Lives
<1>4. CASE Search
  <2>1. /\ status = "using" /\ UNCHANGED <<program, code, memory>> /\ res' = res
        /\ status' \in {"using", "halted"}
    BY <1>4 DEF Search, FindStmt, At
  <2> QED
    BY <1>1, <1>3, <2>1
<1>5. CASE Output
  <2>1. /\ status \in {"using", "printing"} /\ UNCHANGED <<program, code, memory>>
        /\ res' \in {res, "IO", "OK"} /\ status' \in {"using", "printing", "halted"}
    BY <1>5 DEF Output, Print0, PrintNode, PrintHalts, PrintText, Printed, Printing, uses
  <2> QED
    BY <1>1, <1>3, <2>1
<1>6. CASE Free
  <2>1. status = "using" /\ Whole
    BY <1>6 DEF Free, Lives
  <2>2. Releasing'
    BY <1>6, <2>1, FreeStep, Zenon DEF Whole
  <2>3. status' = "freeing" /\ res' = res /\ code' = code /\ loop' = loop
    BY <1>6 DEF Free, memory
  <2> QED
    BY <1>1, <2>1, <2>2, <2>3 DEF Lives, Whole, Rest
<1>7. CASE FreeValue
  <2>1. status = "freeing" /\ Rest /\ Releasing
    BY <1>7 DEF FreeValue, Lives
  <2>2. Releasing'
    BY <1>7, <2>1, FreeValueStep, Zenon
  <2>3. status' = "freeing" /\ res' = res /\ code' = code /\ loop' = loop
    BY <1>7, <2>1 DEF FreeValue, memory
  <2> QED
    BY <1>1, <2>1, <2>2, <2>3 DEF Lives, Rest
<1>8. CASE FreeNode
  <2>1. status = "freeing" /\ Rest /\ Releasing
    BY <1>8 DEF FreeNode, Lives
  <2>2. res' = res /\ code' = code /\ loop' = loop
    BY <1>8 DEF FreeNode
  <2>3. CASE Len(frames) = 1
    <3>1. DOMAIN heap' = {} /\ status' = "freed"
      BY <1>8, <2>1, <2>3, FreeRootStep, Zenon
    <3> QED
      BY <1>1, <2>1, <2>2, <3>1 DEF Lives, Rest
  <2>4. CASE Len(frames) > 1
    <3>1. Releasing'
      BY <1>8, <2>1, <2>4, FreeNodeStep, Zenon
    <3>2. status' = "freeing"
      BY <1>8, <2>1, <2>4, Zenon DEF FreeNode
    <3> QED
      BY <1>1, <2>1, <2>2, <3>1, <3>2 DEF Lives, Rest
  <2>5. Len(frames) = 1 \/ Len(frames) > 1
    <3>1. frames \in Seq([node : Int, at : Int]) /\ Len(frames) > 0
      BY <2>1, Zenon DEF Releasing
    <3>2. Len(frames) \in Nat /\ Len(frames) > 0
      BY <3>1, LenProperties, Zenon
    <3>3. \A n \in Nat : n > 0 => n = 1 \/ n > 1
      OBVIOUS
    <3> QED
      BY <3>2, <3>3, Zenon
  <2> QED
    BY <2>3, <2>4, <2>5
<1>9. CASE UNCHANGED vars
  BY <1>9 DEF vars, Lives, Building, Progress, Dense, Idle, Reversing, Joining, Before, Executed,
              Instruction, Whole, Rest, Releasing, Left, Root
<1> QED
  BY <1>2, <1>4, <1>5, <1>6, <1>7, <1>8, <1>9 DEF Next, Release

LEMMA Living == Spec /\ []TakenIsWhole => []Lives
<1>1. Init => Lives
  BY BeginsEmpty
<1>2. Lives /\ TakenIsWhole /\ [Next]_vars => Lives'
  BY LivesStep
<1> QED
  BY <1>1, <1>2, PTL DEF Spec
-----------------------------------------------------------------------------
\* The places that have an address of the memory.
Places(x) ==
    {edge \in (DOMAIN heap) \X {"val", "nxt", "lst"} :
        edge[2] \in Pointers(edge[1]) /\ heap[edge[1]][edge[2]] = x}

LEMMA EdgePlaces ==
    ASSUME NEW x \in DOMAIN heap, x # NULL
    PROVE  /\ \A a, f : <<a, f>> \in Places(x) <=> Edge(heap, a, f, x)
           /\ \A e \in Places(x) : e = <<e[1], e[2]>>
<1>1. \A e \in (DOMAIN heap) \X {"val", "nxt", "lst"} :
          e = <<e[1], e[2]>> /\ e[1] \in DOMAIN heap /\ e[2] \in {"val", "nxt", "lst"}
  OBVIOUS
<1>2. ASSUME NEW a, NEW f
      PROVE  <<a, f>> \in Places(x) <=> Edge(heap, a, f, x)
  <2>1. <<a, f>> \in Places(x) <=>
            /\ a \in DOMAIN heap /\ f \in {"val", "nxt", "lst"}
            /\ f \in Pointers(a) /\ heap[a][f] = x
    BY DEF Places
  <2>2. f \in Pointers(a) <=> f \in {"val", "nxt", "lst"} /\ f \in DOMAIN heap[a] /\ heap[a][f] # NULL
    BY DEF Pointers
  <2> QED
    BY <2>1, <2>2, Zenon DEF Edge, Fields
<1> QED
  BY <1>1, <1>2 DEF Places

\* An address is in one object and in nothing that is held, or it is held once.
LEMMA OnePlace ==
    ASSUME NEW t, NEW ty, Owned(heap, t, ty), NEW x \in DOMAIN heap
    PROVE  \/ Cardinality(Places(x)) = 1 /\ \A i \in 1 .. Len(t) : t[i] # x
           \/ /\ Cardinality(Places(x)) = 0
              /\ \E k \in 1 .. Len(t) : \A i \in 1 .. Len(t) : t[i] = x <=> i = k
<1>1. Shape(heap) /\ Forest(heap, RootsOf(t)) /\ Apart(t)
  BY Zenon DEF Owned
<1>2. x # NULL
  BY <1>1, Zenon DEF Shape
<1>3. /\ \A a, f : <<a, f>> \in Places(x) <=> Edge(heap, a, f, x)
      /\ \A e \in Places(x) : e = <<e[1], e[2]>>
  BY <1>2, EdgePlaces
<1>4. CASE Owner(heap, x)
  <2>1. PICK a, f : Edge(heap, a, f, x)
    BY <1>4, Zenon DEF Owner
  <2>2. Places(x) = {<<a, f>>}
    <3>1. ASSUME NEW e \in Places(x)
          PROVE  e = <<a, f>>
      <4>1. Edge(heap, e[1], e[2], x) /\ e = <<e[1], e[2]>>
        BY <1>3, Zenon
      <4>2. e[1] = a /\ e[2] = f
        BY <1>1, <2>1, <4>1, Zenon DEF Forest
      <4> QED
        BY <4>1, <4>2
    <3>2. <<a, f>> \in Places(x)
      BY <1>3, <2>1, Zenon
    <3> QED
      BY <3>1, <3>2
  <2>3. Cardinality(Places(x)) = 1
    BY <2>2, FS_Singleton, Zenon
  <2>4. \A i \in 1 .. Len(t) : t[i] # x
    BY <1>1, <1>2, <1>4, Zenon DEF Forest, RootsOf
  <2> QED
    BY <2>3, <2>4, Zenon
<1>5. CASE ~Owner(heap, x)
  <2>1. Places(x) = {}
    <3>1. \A e \in Places(x) : Edge(heap, e[1], e[2], x)
      BY <1>3, Zenon
    <3> QED
      BY <1>5, <3>1, Zenon DEF Owner
  <2>2. Cardinality(Places(x)) = 0
    BY <2>1, FS_EmptySet, Zenon
  <2>3. PICK k \in 1 .. Len(t) : t[k] = x
    BY <1>1, <1>5, Zenon DEF Forest, RootsOf
  <2>4. \A i \in 1 .. Len(t) : t[i] = x <=> i = k
    BY <1>1, <1>2, <2>3, Zenon DEF Apart
  <2> QED
    BY <2>2, <2>3, <2>4, Zenon
<1> QED
  BY <1>4, <1>5

\* Between two calls the temporaries are all that is held.
LEMMA HeldOnce ==
    ASSUME NEW ty, Owned(heap, values, ty), loop = <<>>, NEW x \in DOMAIN heap
    PROVE  References(x) = 1
<1> DEFINE V == {i \in DOMAIN values : values[i] = x}
           L == {field \in {"lst", "res", "fst", "snd"} : Turning(field) /\ loop[1][field] = x}
<1>1. References(x) = Cardinality(Places(x)) + Cardinality(V) + Cardinality(L)
  BY DEF References, Places
<1>2. L = {}
  BY Zenon DEF Turning
<1>3. Cardinality(L) = 0
  BY <1>2, FS_EmptySet, Zenon
<1>4. DOMAIN values = 1 .. Len(values)
  <2>1. values \in Seq(Int)
    BY Zenon DEF Owned
  <2> QED
    BY <2>1
<1>5. CASE Cardinality(Places(x)) = 1 /\ \A i \in 1 .. Len(values) : values[i] # x
  <2>1. V = {}
    BY <1>4, <1>5, Zenon
  <2>2. Cardinality(V) = 0
    BY <2>1, FS_EmptySet, Zenon
  <2> HIDE DEF V, L
  <2> QED
    BY <1>1, <1>3, <1>5, <2>2
<1>6. ASSUME Cardinality(Places(x)) = 0, NEW k \in 1 .. Len(values),
             \A i \in 1 .. Len(values) : values[i] = x <=> i = k
      PROVE  References(x) = 1
  <2>1. V = {k}
    BY <1>4, <1>6, Zenon
  <2>2. Cardinality(V) = 1
    BY <2>1, FS_Singleton, Zenon
  <2> HIDE DEF V, L
  <2> QED
    BY <1>1, <1>3, <1>6, <2>2
<1>7. \/ Cardinality(Places(x)) = 1 /\ \A i \in 1 .. Len(values) : values[i] # x
      \/ /\ Cardinality(Places(x)) = 0
         /\ \E k \in 1 .. Len(values) : \A i \in 1 .. Len(values) : values[i] = x <=> i = k
  BY OnePlace
<1> QED
  BY <1>5, <1>6, <1>7, Zenon

\* In a loop two of its locals, p and q, are held with them.
Locals(p, q, y, z) ==
    /\ \A field : field \in {"lst", "res", "fst", "snd"} /\ Turning(field) <=> field \in {p, q}
    /\ p # q /\ loop[1][p] = y /\ loop[1][q] = z

LEMMA HeldOnceInLoop ==
    ASSUME NEW ty, values \in Seq(Int), NEW y \in Int, NEW z \in Int,
           Owned(heap, values \o <<y, z>>, ty), NEW x \in DOMAIN heap, NEW p, NEW q,
           Locals(p, q, y, z)
    PROVE  References(x) = 1
<1> DEFINE V == {i \in DOMAIN values : values[i] = x}
           L == {field \in {"lst", "res", "fst", "snd"} : Turning(field) /\ loop[1][field] = x}
           t == values \o <<y, z>>
           n == Len(values)
<1>1. References(x) = Cardinality(Places(x)) + Cardinality(V) + Cardinality(L)
  BY DEF References, Places
<1>2. /\ n \in Nat /\ Len(t) = n + 2 /\ t[n + 1] = y /\ t[n + 2] = z
      /\ (\A i \in 1 .. n : t[i] = values[i]) /\ DOMAIN values = 1 .. n
  <2>1. DOMAIN values = 1 .. n
    OBVIOUS
  <2> QED
    BY Below, <2>1
<1>3. L = {field \in {p, q} : loop[1][field] = x} /\ p # q /\ loop[1][p] = y /\ loop[1][q] = z
  BY Zenon DEF Locals
<1> HIDE DEF n, t, L
<1>4. /\ \A i \in 1 .. n : i \in 1 .. Len(t) /\ i # n + 1 /\ i # n + 2
      /\ n + 1 \in 1 .. Len(t) /\ n + 2 \in 1 .. Len(t) /\ n + 1 # n + 2
      /\ \A i \in 1 .. Len(t) : i \in 1 .. n \/ i = n + 1 \/ i = n + 2
  BY <1>2
<1>5. Cardinality({}) = 0 /\ \A k : Cardinality({k}) = 1
  BY FS_EmptySet, FS_Singleton, Zenon
<1>6. CASE Cardinality(Places(x)) = 1 /\ \A i \in 1 .. Len(t) : t[i] # x
  <2>1. V = {} /\ L = {}
    BY <1>2, <1>3, <1>4, <1>6, Zenon
  <2>2. Cardinality(V) = 0 /\ Cardinality(L) = 0
    BY <1>5, <2>1, Zenon
  <2> HIDE DEF V
  <2> QED
    BY <1>1, <1>6, <2>2
<1>7. ASSUME Cardinality(Places(x)) = 0, NEW k \in 1 .. Len(t),
             \A i \in 1 .. Len(t) : t[i] = x <=> i = k
      PROVE  References(x) = 1
  <2>1. CASE k \in 1 .. n
    <3>1. V = {k} /\ L = {}
      <4>1. y # x /\ z # x
        BY <1>2, <1>4, <1>7, <2>1, Zenon
      <4>2. L = {}
        BY <1>3, <4>1, Zenon
      <4>3. V = {k}
        BY <1>2, <1>4, <1>7, <2>1, Zenon
      <4> QED
        BY <4>2, <4>3
    <3>2. Cardinality(V) = 1 /\ Cardinality(L) = 0
      BY <1>5, <3>1, Zenon
    <3> HIDE DEF V
    <3> QED
      BY <1>1, <1>7, <3>2
  <2>2. CASE k = n + 1
    <3>1. V = {} /\ y = x /\ z # x
      BY <1>2, <1>4, <1>7, <2>2, Zenon
    <3>2. L = {p}
      BY <1>3, <3>1, Zenon
    <3>3. Cardinality(V) = 0 /\ Cardinality(L) = 1
      BY <1>5, <3>1, <3>2, Zenon
    <3> HIDE DEF V
    <3> QED
      BY <1>1, <1>7, <3>3
  <2>3. CASE k = n + 2
    <3>1. V = {} /\ y # x /\ z = x
      BY <1>2, <1>4, <1>7, <2>3, Zenon
    <3>2. L = {q}
      BY <1>3, <3>1, Zenon
    <3>3. Cardinality(V) = 0 /\ Cardinality(L) = 1
      BY <1>5, <3>1, <3>2, Zenon
    <3> HIDE DEF V
    <3> QED
      BY <1>1, <1>7, <3>3
  <2> QED
    BY <1>4, <2>1, <2>2, <2>3
<1>8. \/ Cardinality(Places(x)) = 1 /\ \A i \in 1 .. Len(t) : t[i] # x
      \/ /\ Cardinality(Places(x)) = 0
         /\ \E k \in 1 .. Len(t) : \A i \in 1 .. Len(t) : t[i] = x <=> i = k
  <2>1. Owned(heap, t, ty)
    BY DEF t
  <2> QED
    BY <2>1, OnePlace
<1> QED
  BY <1>6, <1>7, <1>8, Zenon
-----------------------------------------------------------------------------
\* The variables have their types, the nodes and cells whose list is being freed too,
\* as long as the result of pgc_ast_cat is only taken where it is the list.
THEOREM NodesAreTyped == Spec /\ []TakenIsWhole => []TypeOK
<1>1. ASSUME Lives PROVE TypeOK
  <2>1. ASSUME NEW h, Shape(h), NEW a \in DOMAIN h
        PROVE  IsLeaf(h[a]) \/ IsList(h[a]) \/ IsCell(h[a])
    BY <2>1, Zenon DEF Shape, ObjectOK
  <2>2. ASSUME NEW a \in DOMAIN heap
        PROVE  IsLeaf(heap[a]) \/ IsList(heap[a]) \/ IsCell(heap[a])
    <3>1. CASE status = "building"
      <4>1. \E t, ty : Owned(heap, t, ty)
        BY <1>1, <3>1, Zenon DEF Lives, Building, Idle, Reversing, Joining
      <4> QED
        BY <2>1, <4>1, Zenon DEF Owned
    <3>2. CASE status \in {"using", "printing", "halted"}
      BY <1>1, <2>1, <3>2, Zenon DEF Lives, Whole, Owned
    <3>3. CASE status = "freeing"
      <4>1. Shape(Left)
        BY <1>1, <3>3, Zenon DEF Lives, Releasing
      <4>2. /\ DOMAIN Left = DOMAIN heap
            /\ \A b \in DOMAIN heap : IsLeaf(Left[b]) <=> IsLeaf(heap[b])
            /\ \A b \in DOMAIN heap : IsList(Left[b]) <=> IsList(heap[b])
            /\ \A b \in DOMAIN heap : IsCell(Left[b]) <=> IsCell(heap[b])
        BY BareObjects, Zenon DEF Left
      <4>3. IsLeaf(Left[a]) \/ IsList(Left[a]) \/ IsCell(Left[a])
        BY <2>1, <4>1, <4>2
      <4> QED
        BY <4>2, <4>3, Zenon
    <3>4. CASE status = "freed"
      BY <1>1, <3>4 DEF Lives
    <3> QED
      BY <1>1, <3>1, <3>2, <3>3, <3>4 DEF Lives
  <2>3. status # "building" => code = <<>> /\ loop = <<>>
    BY <1>1 DEF Lives, Whole, Rest
  <2> QED
    BY <1>1, <2>2, <2>3, Zenon DEF Lives, TypeOK, IsLeaf, IsList, IsCell, ListTags
<1> QED
  BY <1>1, Living, PTL

\* Every node and cell is referred to exactly once until pgc_syn_free runs, in the
\* middle of pgc_ast_rev and pgc_ast_cat too, whatever a program builds that takes the
\* last cell pgc_ast_cat returns for the list only where it is its one cell.
THEOREM NodesAreOwnedOnce == Spec /\ []TakenIsWhole => []OwnedOnce
<1>1. ASSUME Lives, status # "freeing", NEW x \in DOMAIN heap
      PROVE  References(x) = 1
  <2>1. CASE status = "building" /\ Idle
    BY <2>1, HeldOnce, Zenon DEF Idle
  <2>2. CASE status = "building" /\ Reversing
    <3>1. PICK l \in Int, r \in Int :
              /\ loop = <<[lst |-> l, res |-> r]>>
              /\ Owned(heap, values \o <<l, r>>, Append(Before, "list"))
      BY <2>2, Zenon DEF Reversing
    <3>2. values \in Seq(Int)
      BY <2>2, Zenon DEF Reversing
    <3>3. loop # <<>> /\ loop[1] = [lst |-> l, res |-> r]
      BY <3>1
    <3>4. /\ loop[1]["lst"] = l /\ loop[1]["res"] = r /\ "lst" # "res"
          /\ DOMAIN loop[1] = {"lst", "res"}
      BY <3>3
    <3>5. \A f : f \in {"lst", "res", "fst", "snd"} /\ Turning(f) <=> f \in {"lst", "res"}
      <4> TAKE f
      <4>1. Turning(f) <=> f \in {"lst", "res"}
        BY <3>3, <3>4, Zenon DEF Turning
      <4>2. CASE Turning(f)
        BY <4>1, <4>2
      <4>3. CASE ~Turning(f)
        BY <4>1, <4>3
      <4> QED
        BY <4>2, <4>3
    <3>6. Locals("lst", "res", l, r)
      BY <3>4, <3>5, Zenon DEF Locals
    <3> QED
      BY <1>1, <3>1, <3>2, <3>6, HeldOnceInLoop
  <2>3. CASE status = "building" /\ Joining
    <3>1. PICK f \in Int, a \in Int, s \in Int :
              /\ loop = <<[fst |-> f, at |-> a, snd |-> s]>>
              /\ Owned(heap, values \o <<f, s>>, Before)
      BY <2>3, Zenon DEF Joining
    <3>2. values \in Seq(Int)
      BY <2>3, Zenon DEF Joining
    <3>3. loop # <<>> /\ loop[1] = [fst |-> f, at |-> a, snd |-> s]
      BY <3>1
    <3>4. /\ loop[1]["fst"] = f /\ loop[1]["snd"] = s /\ "fst" # "snd"
          /\ DOMAIN loop[1] = {"fst", "at", "snd"}
      BY <3>3
    <3>5. \A g : g \in {"lst", "res", "fst", "snd"} /\ Turning(g) <=> g \in {"fst", "snd"}
      <4> TAKE g
      <4>1. Turning(g) <=> g \in {"fst", "at", "snd"}
        BY <3>3, <3>4, Zenon DEF Turning
      <4>2. CASE Turning(g)
        BY <4>1, <4>2
      <4>3. CASE ~Turning(g)
        BY <4>1, <4>3
      <4> QED
        BY <4>2, <4>3
    <3>6. Locals("fst", "snd", f, s)
      BY <3>4, <3>5, Zenon DEF Locals
    <3> QED
      BY <1>1, <3>1, <3>2, <3>6, HeldOnceInLoop
  <2>4. CASE status \in {"using", "printing", "halted"}
    BY <1>1, <2>4, HeldOnce, Zenon DEF Lives, Whole, Rest
  <2>5. CASE status = "freed"
    BY <1>1, <2>5 DEF Lives
  <2> QED
    BY <1>1, <2>1, <2>2, <2>3, <2>4, <2>5 DEF Lives, Building
<1>2. Lives => OwnedOnce
  BY <1>1, Zenon DEF OwnedOnce
<1> QED
  BY <1>2, Living, PTL

\* pgc_syn_free goes on with nothing that it has freed, so it frees nothing twice, and
\* when it returns it has freed everything: also by programs like those.
THEOREM TreeIsReleasedOnce == Spec /\ []TakenIsWhole => []ReleasedOnce
<1>1. ASSUME Lives PROVE ReleasedOnce
  <2>1. ASSUME status = "freeing", NEW i \in DOMAIN frames
        PROVE  frames[i].node \in DOMAIN heap /\ frames[i].at \in DOMAIN heap \cup {NULL}
    <3>1. Releasing
      BY <1>1, <2>1, Zenon DEF Lives
    <3>2. i \in 1 .. Len(frames)
      <4>1. frames \in Seq([node : Int, at : Int])
        BY <3>1, Zenon DEF Releasing
      <4> QED
        BY <4>1, LenProperties, Zenon
    <3>3. TreePtr(heap, frames[i].node) /\ ListPtr(heap, frames[i].at)
      BY <3>1, <3>2, Zenon DEF Releasing
    <3> QED
      BY <3>3, Zenon DEF TreePtr, ListPtr
  <2>2. status = "freed" => DOMAIN heap = {}
    BY <1>1 DEF Lives
  <2> QED
    BY <2>1, <2>2, Zenon DEF ReleasedOnce
<1> QED
  BY <1>1, Living, PTL
=============================================================================
