------------------------------- MODULE MCTable -------------------------------
(***************************************************************************)
(* A small instance of Table: "dog" and "cat" share a bucket until the     *)
(* capacity is four, "rat" has one of its own from capacity two on.        *)
(***************************************************************************)
EXTENDS Table

MCHash == [key \in Key |-> CASE key = "dog" -> 4 [] key = "cat" -> 6 [] key = "rat" -> 5]

=============================================================================
