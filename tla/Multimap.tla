------------------------------ MODULE Multimap ------------------------------
(***************************************************************************)
(* What include/pgenc/table.h promises: a table keeps every entry that is  *)
(* inserted, also several of one key, until it is removed; a look-up finds *)
(* an entry of the key when there is one; an iteration that is not         *)
(* disturbed returns every entry once.  There are no buckets here.         *)
(***************************************************************************)
EXTENDS FiniteSets

CONSTANTS Key, Handle, None

VARIABLES
    entries,    \* the key of each entry, by handle
    seen,       \* the handles that the current iteration has returned
    alive,      \* the table has not been destroyed
    called,     \* the last call, and its key if it has one
    returned    \* the handle it returned, or None

mapVars == <<entries, seen, alive, called, returned>>

Of(key) == {h \in DOMAIN entries : entries[h] = key}
Calls(call, result) == alive /\ called' = call /\ returned' = result

MapInit ==
    /\ entries = <<>> /\ seen = {} /\ alive = TRUE
    /\ called = <<"create">> /\ returned = None

MapInsert(key) ==
    \E h \in Handle \ DOMAIN entries :
        /\ Calls(<<"insert", key>>, h)
        /\ entries' = [x \in DOMAIN entries \cup {h} |->
                         IF x = h THEN key ELSE entries[x]]
        /\ seen' = {}
        /\ UNCHANGED alive

MapLookup(key) ==
    /\ \/ \E h \in Of(key) : Calls(<<"lookup", key>>, h)
       \/ Of(key) = {} /\ Calls(<<"lookup", key>>, None)
    /\ UNCHANGED <<entries, seen, alive>>

\* One entry of the key goes, if there is one.
MapRemove(key) ==
    /\ Calls(<<"remove", key>>, None)
    /\ \/ /\ Of(key) = {}
          /\ UNCHANGED entries
       \/ \E h \in Of(key) :
             entries' = [x \in DOMAIN entries \ {h} |-> entries[x]]
    /\ seen' = {}
    /\ UNCHANGED alive

\* begin starts over, next goes on: an entry not seen yet, or none is left.
MapVisit(call, before) ==
    /\ \/ \E h \in DOMAIN entries \ before :
             Calls(<<call>>, h) /\ seen' = before \cup {h}
       \/ /\ before = DOMAIN entries
          /\ Calls(<<call>>, None)
          /\ seen' = before
    /\ UNCHANGED <<entries, alive>>

MapDestroy ==
    /\ Calls(<<"destroy">>, None)
    /\ entries' = <<>> /\ seen' = {} /\ alive' = FALSE

MapNext ==
    \/ \E key \in Key :
          \/ MapInsert(key)
          \/ MapLookup(key)
          \/ MapRemove(key)
    \/ MapVisit("begin", {})
    \/ MapVisit("next", seen)
    \/ MapDestroy

MapSpec == MapInit /\ [][MapNext]_mapVars

=============================================================================
