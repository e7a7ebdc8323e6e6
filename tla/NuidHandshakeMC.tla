--------------------------- MODULE NuidHandshakeMC ---------------------------
(***************************************************************************)
(* Two clients and the server; one client and the server have an entity    *)
(* each, with the same id, so that both clients may be the first.  The     *)
(* copies on the server have other ids (OwnIds).                           *)
(***************************************************************************)
EXTENDS NuidHandshake

CONSTANT c1

MCEntities == {<<p, 1>> : p \in {c1, Server}}
MCMina == <<Server, 1>>
MCCopyId == [n \in Nuids |-> 2]

\* Bounds: what is loaded twice, or in too many ways, is checked, and where that
\* leads is not; nor is what another newGuid leads to, or the first one once a
\* collector freed a checksum; after each of the two, one message waits in each
\* direction and copies are loaded by one client, after a collection one copy, and
\* fewer nuids are drawn.
Loaded(c) == {call \in Calls : loaded[c][call] > 0}
OneAtATime(queue) ==
  /\ Cardinality({c \in Clients : queue[c] # << >>}) <= 1
  /\ \A c \in Clients : Len(queue[c]) <= 1
Explored ==
  /\ \A c \in Clients :
       /\ \A call \in Loaded(c) : loaded[c][call] = 1
       /\ Cardinality(Loaded(c)) <= 2
       /\ cachedGuids[c] > MaxGuids =>
            toServer[c] = << >> \/ Head(toServer[c]).event # "playerInfo"
  /\ collected # {} \/ (\E c \in Clients : cachedGuids[c] > 1) =>
       /\ OneAtATime(toServer) /\ OneAtATime(toClient)
       /\ Cardinality({c \in Clients : Loaded(c) # {}}) <= 1
  /\ collected # {} =>
       /\ \A c \in Clients : cachedGuids[c] <= 1 /\ Cardinality(Loaded(c)) <= 1
       /\ Len(drawnFor) <= 2
=============================================================================
