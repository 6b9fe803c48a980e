---------------------------- MODULE MCRelationships ----------------------------
(* Relationships on small instances. *)
EXTENDS Relationships, TLC

MCUsers == {1, 2}
\* Request ids and handlers are interchangeable.
Symmetry == Permutations(RequestIds) \cup Permutations(Handlers)
=============================================================================
