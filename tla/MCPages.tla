------------------------------- MODULE MCPages -------------------------------
(* Pages on small instances. *)
EXTENDS Pages, TLC

CONSTANTS t1, t2
TwoPages == t1 :> "connections" @@ t2 :> "discover"
=============================================================================
