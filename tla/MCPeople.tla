------------------------------- MODULE MCPeople -------------------------------
(* ProfilePage on small instances. *)
EXTENDS ProfilePage, TLC

CONSTANTS me, ann, bob, carl, gym, cafe

\* Me has both activities, one of them set aside; she has blocked bob; carl has
\* no location yet.
MCRows ==
  me   :> (gym :> "NOW" @@ cafe :> "NOT_AVAILABLE") @@
  ann  :> (gym :> "TODAY" @@ cafe :> None) @@
  bob  :> (gym :> "NOW" @@ cafe :> None) @@
  carl :> (gym :> "NOW" @@ cafe :> None)
MCStart == me :> 0 @@ ann :> 1 @@ bob :> 0 @@ carl :> None
MCBlocks == {<<me, bob>>}
\* On the opened page she has ticked to be hidden, dropped one activity and set
\* the other.
MCForm == [discoverable |-> TRUE, hidden |-> TRUE]
MCSel == gym :> None @@ cafe :> "TODAY"
MCPlaces == {0, 1}
MCSearches == {<<ann, gym>>, <<bob, gym>>, <<carl, gym>>}
=============================================================================
