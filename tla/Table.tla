-------------------------------- MODULE Table --------------------------------
(***************************************************************************)
(* source/pgenc/table.c: a hash table of chained nodes.                    *)
(*                                                                         *)
(* Nodes are records in a heap and chains are linked through them, so that *)
(* the two loops that walk the table while they take it apart, in          *)
(* pgc_tbl_resize and pgc_tbl_destroy, are loops here too: one action is   *)
(* one turn.  Memory does not run out (the code does not look at what      *)
(* malloc returns).  A node is known by its address, so its value is left   *)
(* out, and of a key there is only what it hashes to.                      *)
(***************************************************************************)
EXTENDS Integers, FiniteSets, FiniteSetsExt, Functions

CONSTANTS
    Key,            \* the keys that are used
    Hash,           \* pgc_tbl_hash of each, a size_t
    Address,        \* where nodes can be: bounds the size of the table
    Null,
    Capacities      \* what pgc_tbl_create is called with

ASSUME TableAssumption ==
    /\ Hash \in [Key -> Nat]
    /\ Null \notin Address /\ Null \notin Key
    /\ IsFiniteSet(Address)
    /\ Capacities \subseteq Nat \ {0}

VARIABLES
    table,      \* struct pgc_tbl
    new,        \* new_tbl of pgc_tbl_resize, while it runs
    heap,       \* the nodes that are allocated
    at,         \* imem of the loops in pgc_tbl_resize and pgc_tbl_destroy
    pending,    \* the key of the pgc_tbl_insert that is resizing, or Null
    pc,         \* "idle", "resizing", "destroying", "destroyed"
    iter,       \* an iterator of the caller
    seen,       \* history: the nodes it has been at
    called, returned    \* history: the last call and the node it returned

vars == <<table, new, heap, at, pending, pc, iter, seen, called, returned>>
calls == <<iter, seen, called, returned>>
-----------------------------------------------------------------------------
\* An iterator that is NULL.
End == [node |-> Null, bucket |-> 0]
Iterators == [node : Address \cup {Null}, bucket : Nat]

\* pgc_tbl_init
Empty(capacity) ==
    [nodes |-> [b \in 0 .. capacity - 1 |-> Null], capacity |-> capacity, size |-> 0]

Bucket(t, key) == Hash[key] % t.capacity

\* The chain from address a, by position; Null behind its end.
Walk(a) ==
    LET node[n \in 0 .. Cardinality(Address)] ==
          IF n = 0 THEN a
          ELSE IF node[n - 1] = Null THEN Null ELSE heap[node[n - 1]].next
    IN  node
Chain(a) == Range(Walk(a)) \ {Null}

\* Where in the chain from a the key is found first.
Hits(a, key) == {n \in DOMAIN Walk(a) : Walk(a)[n] # Null /\ heap[Walk(a)[n]].key = key}

\* The first node in bucket b or a later one: the loop of begin and next.
FirstFrom(t, b) ==
    LET used == {n \in b .. t.capacity - 1 : t.nodes[n] # Null}
    IN  IF used = {} THEN End ELSE [node |-> t.nodes[Min(used)], bucket |-> Min(used)]

\* pgc_tbl_next
NextOf(t, i) ==
    IF heap[i.node].next # Null
    THEN [i EXCEPT !.node = heap[i.node].next]
    ELSE FirstFrom(t, i.bucket + 1)

\* pgc_tbl_insert_n: the node at a becomes the head of its chain.
Linked(t, key, a) ==
    [t EXCEPT !.nodes[Bucket(t, key)] = a, !.size = t.size + 1]

\* malloc: addresses are interchangeable.
Malloc == CHOOSE a \in Address : a \notin DOMAIN heap

\* A call that the caller may make; one that changes the table ends its iteration.
Called(call, result) ==
    /\ pc = "idle"
    /\ called' = call /\ returned' = result
Disturbs == iter' = End /\ seen' = {}
-----------------------------------------------------------------------------
\* (double)size / (double)capacity > 0.75
Overloaded == 4 * table.size > 3 * table.capacity

\* A node for the key, allocated and linked into t.
InsertInto(t, key) ==
    LET a == Malloc
    IN  /\ heap' = [x \in DOMAIN heap \cup {a} |->
                      IF x = a
                      THEN [key |-> key, next |-> t.nodes[Bucket(t, key)]]
                      ELSE heap[x]]
        /\ table' = Linked(t, key, a)
        /\ called' = <<"insert", key>> /\ returned' = a

Insert(key) ==
    /\ pc = "idle" /\ ~Overloaded
    /\ Address # DOMAIN heap
    /\ InsertInto(table, key)
    /\ Disturbs
    /\ UNCHANGED <<new, at, pending, pc>>

\* pgc_tbl_insert of one entry too many calls pgc_tbl_resize first.
InsertResizing(key) ==
    /\ pc = "idle" /\ Overloaded
    /\ Address # DOMAIN heap
    /\ pc' = "resizing"
    /\ pending' = key
    /\ new' = Empty(table.capacity * 2)
    /\ at' = FirstFrom(table, 0)
    /\ UNCHANGED <<table, heap, calls>>

\* Mutant: the iterator is advanced when the node has been relinked.
ResizeStepLate ==
    /\ pc = "resizing" /\ at # End
    /\ LET key == heap[at.node].key
           head == new.nodes[Bucket(new, key)]
       IN  /\ new' = Linked(new, key, at.node)
           /\ heap' = [heap EXCEPT ![at.node].next = head]
           /\ at' = IF head # Null THEN [at EXCEPT !.node = head]
                    ELSE FirstFrom(table, at.bucket + 1)
    /\ UNCHANGED <<table, pending, pc, calls>>

\* A turn of its loop moves one node, after the iterator has left it.
ResizeStep ==
    /\ pc = "resizing" /\ at # End
    /\ LET key == heap[at.node].key
       IN  /\ at' = NextOf(table, at)
           /\ new' = Linked(new, key, at.node)
           /\ heap' = [heap EXCEPT ![at.node].next = new.nodes[Bucket(new, key)]]
    /\ UNCHANGED <<table, pending, pc, calls>>

\* The new table replaces the old one, and the insertion goes on.
Resized ==
    /\ pc = "resizing" /\ at = End
    /\ InsertInto(new, pending)
    /\ Disturbs
    /\ pc' = "idle"
    /\ pending' = Null /\ new' = Empty(1)
    /\ UNCHANGED at

\* pgc_tbl_lookup
Lookup(key) ==
    LET head == table.nodes[Bucket(table, key)]
        hits == Hits(head, key)
    IN  /\ Called(<<"lookup", key>>,
                  IF hits = {} THEN Null ELSE Walk(head)[Min(hits)])
        /\ UNCHANGED <<table, new, heap, at, pending, pc, iter, seen>>

\* Mutant: the node before the one that is freed is not relinked.
UnlinkHead(b, head, n) ==
    /\ table' = [table EXCEPT !.nodes[b] = heap[Walk(head)[n]].next, !.size = table.size - 1]
    /\ heap' = Restrict(heap, DOMAIN heap \ {Walk(head)[n]})

\* The n-th node of the chain in bucket b is taken out of it and freed.
Unlink(b, head, n) ==
    LET next == heap[Walk(head)[n]].next
        rest == Restrict(heap, DOMAIN heap \ {Walk(head)[n]})
    IN  \/ /\ n = 0
           /\ table' = [table EXCEPT !.nodes[b] = next, !.size = table.size - 1]
           /\ heap' = rest
        \/ /\ n > 0
           /\ table' = [table EXCEPT !.size = table.size - 1]
           /\ heap' = [rest EXCEPT ![Walk(head)[n - 1]].next = next]

\* Mutant: the table is one smaller even when nothing was found.
RemoveMiscounted(key) ==
    LET b == Bucket(table, key)
        head == table.nodes[b]
        hits == Hits(head, key)
    IN  /\ Called(<<"remove", key>>, Null)
        /\ \/ hits = {} /\ table' = [table EXCEPT !.size = @ - 1] /\ UNCHANGED heap
           \/ hits # {} /\ Unlink(b, head, Min(hits))
        /\ Disturbs
        /\ UNCHANGED <<new, at, pending, pc>>

\* pgc_tbl_remove: the first entry of the key, or nothing.
Remove(key) ==
    LET b == Bucket(table, key)
        head == table.nodes[b]
        hits == Hits(head, key)
    IN  /\ Called(<<"remove", key>>, Null)
        /\ \/ hits = {} /\ UNCHANGED <<table, heap>>
           \/ hits # {} /\ Unlink(b, head, Min(hits))
        /\ Disturbs
        /\ UNCHANGED <<new, at, pending, pc>>

\* pgc_tbl_begin
Begin ==
    LET i == FirstFrom(table, 0)
    IN  /\ Called(<<"begin">>, i.node)
        /\ iter' = i
        /\ seen' = {i.node} \ {Null}
        /\ UNCHANGED <<table, new, heap, at, pending, pc>>

\* pgc_tbl_next, on an iterator that was not NULL.
Advance ==
    LET i == NextOf(table, iter)
    IN  /\ iter # End
        /\ Called(<<"next">>, i.node)
        /\ iter' = i
        /\ seen' = seen \cup ({i.node} \ {Null})
        /\ UNCHANGED <<table, new, heap, at, pending, pc>>

\* pgc_tbl_destroy
Destroy ==
    /\ Called(<<"destroy">>, Null)
    /\ Disturbs
    /\ pc' = "destroying"
    /\ at' = FirstFrom(table, 0)
    /\ UNCHANGED <<table, new, heap, pending>>

\* A turn of its loop frees one node, after the iterator has left it.
DestroyStep ==
    /\ pc = "destroying" /\ at # End
    /\ at' = NextOf(table, at)
    /\ heap' = Restrict(heap, DOMAIN heap \ {at.node})
    /\ UNCHANGED <<table, new, pending, pc, calls>>

Destroyed ==
    /\ pc = "destroying" /\ at = End
    /\ pc' = "destroyed"
    /\ UNCHANGED <<table, new, heap, at, pending, calls>>

Init ==
    /\ \E capacity \in Capacities : table = Empty(capacity)
    /\ new = Empty(1) /\ pending = Null
    /\ heap = <<>>
    /\ at = End /\ iter = End /\ seen = {}
    /\ pc = "idle"
    /\ called = <<"create">> /\ returned = Null

\* The loops inside a call.
Turn == ResizeStep \/ Resized \/ DestroyStep \/ Destroyed

Next ==
    \/ \E key \in Key :
          \/ Insert(key)
          \/ InsertResizing(key)
          \/ Lookup(key)
          \/ Remove(key)
    \/ Begin
    \/ Advance
    \/ Destroy
    \/ Turn

Spec == Init /\ [][Next]_vars
-----------------------------------------------------------------------------
IsTable(t) ==
    t \in [nodes : [0 .. t.capacity - 1 -> Address \cup {Null}],
           capacity : Nat \ {0}, size : Nat]

\* The variables have their types.
TypeOK ==
    /\ IsTable(table) /\ IsTable(new)
    /\ DOMAIN heap \subseteq Address
    /\ \A a \in DOMAIN heap :
          heap[a] \in [key : Key, next : Address \cup {Null}]
    /\ at \in Iterators /\ iter \in Iterators
    /\ pending \in Key \cup {Null}
    /\ pc \in {"idle", "resizing", "destroying", "destroyed"}
    /\ seen \subseteq Address
    /\ returned \in Address \cup {Null}

\* Every node in the chains of t is where its key is looked for, in one chain,
\* and t.size counts them.
Chains(t, nodes) ==
    /\ t.size = Cardinality(nodes)
    /\ nodes = UNION {Chain(t.nodes[b]) : b \in 0 .. t.capacity - 1}
    /\ \A b \in 0 .. t.capacity - 1 :
          /\ Cardinality(Chain(t.nodes[b])) =
               Cardinality({n \in DOMAIN Walk(t.nodes[b]) : Walk(t.nodes[b])[n] # Null})
          /\ \A a \in Chain(t.nodes[b]) : Bucket(t, heap[a].key) = b

\* What the loops have still to visit: the rest of a chain and the later ones.
Remaining ==
    IF at = End THEN {}
    ELSE Chain(at.node) \cup
         UNION {Chain(table.nodes[b]) : b \in at.bucket + 1 .. table.capacity - 1}

\* No node is lost, shared or filed under the wrong bucket: between calls the
\* chains of the table hold every allocated node, and while they are taken apart
\* the nodes are those moved to the new table and those still to come; when the
\* table is destroyed none is left behind.
\* (pgc_tbl_insert_n, pgc_tbl_resize, pgc_tbl_remove, pgc_tbl_destroy)
Intact ==
    /\ pc = "idle" => Chains(table, DOMAIN heap)
    /\ pc = "resizing" =>
          /\ Chains(new, DOMAIN heap \ Remaining)
          /\ Remaining \subseteq DOMAIN heap
    /\ pc = "destroying" => DOMAIN heap = Remaining

Map == INSTANCE Multimap WITH
    Handle <- Address,
    None <- Null,
    alive <- pc \notin {"destroying", "destroyed"},
    entries <- IF pc \in {"destroying", "destroyed"} THEN <<>>
               ELSE [a \in DOMAIN heap |-> heap[a].key]

\* The table is a multimap: no call, and no resizing on the way, makes an entry
\* appear, disappear or unfindable, and an iteration returns each entry once.
ImplementsMultimap == Map!MapSpec

=============================================================================
