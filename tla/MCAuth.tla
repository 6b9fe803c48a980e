-------------------------------- MODULE MCAuth --------------------------------
(* Auth on small instances. *)
EXTENDS Auth, TLC

CONSTANTS ann, g1

\* Ann has a Google account.
AnnsGoogle == g1 :> ann

TabsAndSlots == Permutations(Tabs) \cup Permutations(Slots)
=============================================================================
