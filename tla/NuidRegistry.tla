---------------------------- MODULE NuidRegistry ----------------------------
(***************************************************************************)
(* What the nuids promise, whoever draws them and however they travel: a   *)
(* nuid is drawn for one entity, an entity may only ever carry one that    *)
(* was drawn for it, and keeps it for good.                                *)
(***************************************************************************)
EXTENDS Naturals, Sequences

CONSTANTS Entities, NoNuid

VARIABLES
  drawnFor, \* the entities that the nuids 1, 2, ... were drawn for
  nuid      \* entity -> the nuid it carries, or NoNuid

\* Some may have been drawn, and be carried, before.
Init ==
  /\ drawnFor \in Seq(Entities)
  /\ nuid \in [Entities -> DOMAIN drawnFor \cup {NoNuid}]
  /\ \A e \in Entities : nuid[e] # NoNuid => drawnFor[nuid[e]] = e

Draw(e) == drawnFor' = Append(drawnFor, e) /\ UNCHANGED nuid

DrawAndCarry(e) ==
  /\ nuid[e] = NoNuid
  /\ drawnFor' = Append(drawnFor, e)
  /\ nuid' = [nuid EXCEPT ![e] = Len(drawnFor) + 1]

Carry(e) ==
  /\ nuid[e] = NoNuid
  /\ \E n \in DOMAIN drawnFor :
       drawnFor[n] = e /\ nuid' = [nuid EXCEPT ![e] = n]
  /\ UNCHANGED drawnFor

Next == \E e \in Entities : Draw(e) \/ DrawAndCarry(e) \/ Carry(e)

Spec == Init /\ [][Next]_<<drawnFor, nuid>>
=============================================================================
