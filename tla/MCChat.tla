-------------------------------- MODULE MCChat --------------------------------
(* Chat on small instances. *)
EXTENDS Chat, TLC

CONSTANTS ann, bob, eve, t1, t2, c1, c2

Three == {ann, bob, eve}
\* Ann and Bob, one tab each.
AnnBob == t1 :> ann @@ t2 :> bob
\* Bob alone.
JustBob == t1 :> bob
\* Bob, and Eve who is no member of c1.
BobEve == t1 :> bob @@ t2 :> eve
OneChat == c1 :> {ann, bob}
\* Bob chats with Ann in c1 and with Eve in c2.
TwoChats == c1 :> {ann, bob} @@ c2 :> {bob, eve}
\* The slots are interchangeable.
Symmetry == Permutations(Slots)
=============================================================================
