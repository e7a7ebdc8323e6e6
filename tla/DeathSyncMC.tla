---------------------------- MODULE DeathSyncMC ----------------------------
(***************************************************************************)
(* Two clients and two nuids, of an entity of the server and of an entity  *)
(* of a client.                                                            *)
(***************************************************************************)
EXTENDS DeathSync

CONSTANTS c1, c2

\* Bounds: the entity of the server with two connections and two copies on all
\* clients; or that of a client, or both, or a collection, with one connection,
\* one copy of each and less under way.  c1 is the first to connect.
Numbered == {n \in Nuids : entity[Server][n][1] # "none"}
Copies(n) == {<<c, k>> \in Clients \X Ids : entity[c][n][k] # "none"}
Dying(n) == {<<p, k>> \in Processes \X Ids : entity[p][n][k] = "killed"}
UnderWay(c) == Len(toServer[c]) + Len(toClient[c])
InOrder ==
  /\ link[c2] # "disconnected" => connects > 1
  /\ link[c2] = "connecting" => link[c1] = "connected"
Explored ==
  /\ InOrder
  /\ \A n \in Nuids : Cardinality(Copies(n)) <= 2 /\ Cardinality(Dying(n)) <= 1
  /\ UnderWay(c1) + UnderWay(c2) <= 2
  /\ ~ Numbered \subseteq Own \/ collected # {} =>
       /\ connects <= 1
       /\ connects = 1 => link[c1] # "disconnected"
       /\ \A n \in Nuids : Cardinality(Copies(n)) <= 1
  /\ collected # {} => Numbered \subseteq Own
=============================================================================
