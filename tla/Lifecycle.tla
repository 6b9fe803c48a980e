------------------------------- MODULE Lifecycle -------------------------------
(***************************************************************************)
(* What the relationship component promises, one atomic step per user      *)
(* action and no calls, rows or statuses: who has asked whom, who is       *)
(* together for which activity, who has blocked whom.                      *)
(*                                                                         *)
(* Spec is the promise as the documentation words it (API.md:199, the      *)
(* comment at safety.service.ts:26).  RacedSpec is the part of it that     *)
(* remains when calls overlap: whether a block prevents a request, and     *)
(* whether it severs everything, is then left open.                        *)
(***************************************************************************)
EXTENDS Naturals

CONSTANTS Users, Activities

VARIABLES
  asked,     \* <<u, v, x>>: u waits for v's answer about activity x
  together,  \* <<{u, v}, x>>: u and v are connected for x
  blocks     \* <<u, v>>: u has blocked v

lvars == <<asked, together, blocks>>

Blocked(u, v) == <<u, v>> \in blocks \/ <<v, u>> \in blocks
AskedBetween(u, v) == {a \in asked : {a[1], a[2]} = {u, v}}
TogetherAs(p) == {t \in together : t[1] = p}

Init == asked = {} /\ together = {} /\ blocks = {}

NewRequest(u, v, x) ==
  /\ u # v /\ <<u, v, x>> \notin asked
  /\ asked' = asked \cup {<<u, v, x>>}
  /\ UNCHANGED <<together, blocks>>

Ask(u, v, x) == ~Blocked(u, v) /\ <<{u, v}, x>> \notin together /\ NewRequest(u, v, x)

Agree(u, v, x) ==
  /\ <<u, v, x>> \in asked
  /\ asked' = asked \ {<<u, v, x>>}
  /\ together' = together \cup {<<{u, v}, x>>}
  /\ UNCHANGED blocks

\* Declined by v or cancelled by u.
Drop(u, v, x) ==
  /\ <<u, v, x>> \in asked
  /\ asked' = asked \ {<<u, v, x>>}
  /\ UNCHANGED <<together, blocks>>

Part(t) ==
  /\ t \in together /\ together' = together \ {t}
  /\ UNCHANGED <<asked, blocks>>

Block(u, v) ==
  /\ u # v /\ <<u, v>> \notin blocks
  /\ blocks' = blocks \cup {<<u, v>>}
  /\ asked' = asked \ AskedBetween(u, v)
  /\ together' = together \ TogetherAs({u, v})

\* A block that overlaps other calls ends some of what is between the pair,
\* and nothing that is not.
RacedBlock(u, v) ==
  /\ u # v /\ <<u, v>> \notin blocks
  /\ blocks' = blocks \cup {<<u, v>>}
  /\ asked' \subseteq asked /\ asked \ asked' \subseteq AskedBetween(u, v)
  /\ together' \subseteq together /\ together \ together' \subseteq TogetherAs({u, v})

Unblock(u, v) ==
  /\ <<u, v>> \in blocks /\ blocks' = blocks \ {<<u, v>>}
  /\ UNCHANGED <<asked, together>>

Answered ==
  \/ \E u, v \in Users, x \in Activities : Agree(u, v, x) \/ Drop(u, v, x)
  \/ \E t \in together : Part(t)
  \/ \E u, v \in Users : Unblock(u, v)

Next ==
  \/ \E u, v \in Users, x \in Activities : Ask(u, v, x)
  \/ \E u, v \in Users : Block(u, v)
  \/ Answered

RacedNext ==
  \/ \E u, v \in Users, x \in Activities : NewRequest(u, v, x)
  \/ \E u, v \in Users : RacedBlock(u, v)
  \/ Answered

Spec == Init /\ [][Next]_lvars
RacedSpec == Init /\ [][RacedNext]_lvars

\* The consequence the documentation states: nothing is left between a
\* blocked pair.
Severed ==
  \A u, v \in Users :
    Blocked(u, v) => AskedBetween(u, v) = {} /\ TogetherAs({u, v}) = {}
=============================================================================
