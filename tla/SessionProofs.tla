--------------------------- MODULE SessionProofs ---------------------------
(***************************************************************************)
(* Proofs about Session, for any number of clients, connections, guids and *)
(* collections: its types, that a server keeps its peers apart, that no    *)
(* client counts itself among the others, and that no two adopt one guid.  *)
(***************************************************************************)
EXTENDS Session, SequenceTheorems, TLAPS

\* A connection is in self.clients once.
Distinct == \A j, k \in DOMAIN clients : clients[j] = clients[k] => j = k
----------------------------------------------------------------------------
\* The messages of the handlers are messages, and carry guids.
LEMMA MessageFacts ==
  /\ Connected \in Messages /\ Disconnected \in Messages /\ Seed \in Messages
  /\ \A g \in Guids : PlayerInfo(g) \in Messages /\ Connect2(g) \in Messages
  /\ \A g, h \in Guids : NewGuid(g, h) \in Messages
  /\ \A m \in Messages : m.event = "playerInfo" => m.oldGuid \in Guids
  /\ \A m \in Messages : m.event = "connect2" => m.oldGuid \in Guids
  /\ \A m \in Messages : m.event = "newGuid" => m.newGuid \in Guids
<1>1. /\ Connected \in Messages /\ Disconnected \in Messages /\ Seed \in Messages
      /\ \A g \in Guids : PlayerInfo(g) \in Messages /\ Connect2(g) \in Messages
      /\ \A g, h \in Guids : NewGuid(g, h) \in Messages
  BY DEF Messages
<1>2. ASSUME NEW m \in Messages
      PROVE  /\ m.event = "playerInfo" => m.oldGuid \in Guids
             /\ m.event = "connect2" => m.oldGuid \in Guids
             /\ m.event = "newGuid" => m.newGuid \in Guids
  BY DEF Messages, Connected, Disconnected, Seed, PlayerInfo, Connect2, NewGuid, Message
<1> QED BY <1>1, <1>2

LEMMA SequencesOfMessages ==
  ASSUME NEW s \in Seq(Messages), NEW i, NEW yes, NEW m \in Messages
  PROVE  s \o Deliver(i, yes, m) \in Seq(Messages)
<1>1. Deliver(i, yes, m) \in Seq(Messages)
  BY DEF Deliver
<1> QED BY <1>1

\* What is left of a queue is a queue, and a queue of one message is one.
LEMMA QueuesLeft ==
  ASSUME Types, NEW i \in Connections
  PROVE  /\ toServer[i] # << >> =>
              /\ Head(toServer[i]) \in Messages
              /\ [toServer EXCEPT ![i] = Tail(@)] \in [Connections -> Seq(Messages)]
         /\ toClient[i] # << >> =>
              /\ Head(toClient[i]) \in Messages
              /\ [toClient EXCEPT ![i] = Tail(@)] \in [Connections -> Seq(Messages)]
         /\ <<Connected>> \in Seq(Messages)
<1>1. toServer[i] \in Seq(Messages) /\ toClient[i] \in Seq(Messages)
  BY DEF Types
<1>2. /\ toServer[i] # << >> =>
           Head(toServer[i]) \in Messages /\ Tail(toServer[i]) \in Seq(Messages)
      /\ toClient[i] # << >> =>
           Head(toClient[i]) \in Messages /\ Tail(toClient[i]) \in Seq(Messages)
  BY <1>1
<1>3. <<Connected>> \in Seq(Messages)
  BY MessageFacts
<1> QED BY <1>2, <1>3 DEF Types

LEMMA DownTypes ==
  ASSUME Types, NEW gone
  PROVE  /\ Down(gone) \in [Connections -> Seq(Messages)]
         /\ DownAtClient(gone) \in [Connections -> Seq(Messages)]
<1>1. <<Disconnected>> \in Seq(Messages) /\ << >> \in Seq(Messages)
  BY MessageFacts
<1> QED BY <1>1 DEF Types, Down, DownAtClient

\* A sequence without the element at one place.
LEMMA Shortened ==
  ASSUME NEW S, NEW s \in Seq(S), NEW place \in 1 .. Len(s), NEW r,
         r = [k \in 1 .. Len(s) - 1 |-> s[IF k < place THEN k ELSE k + 1]]
  PROVE  /\ r \in Seq(S)
         /\ DOMAIN r = 1 .. Len(s) - 1
         /\ \A k \in DOMAIN r :
              /\ k < place => r[k] = s[k]
              /\ k >= place => r[k] = s[k + 1]
<1>1. Len(s) \in Nat /\ DOMAIN s = 1 .. Len(s) /\ Len(s) - 1 \in Nat
  OBVIOUS
<1>2. \A k \in 1 .. Len(s) : s[k] \in S
  OBVIOUS
<1>3. \A k \in 1 .. Len(s) - 1 : s[IF k < place THEN k ELSE k + 1] \in S
  BY <1>1, <1>2
<1>4. r \in [1 .. Len(s) - 1 -> S]
  BY <1>3
<1>5. r \in Seq(S)
  <2> DEFINE n == Len(s) - 1
  <2>1. n \in Nat /\ r \in [1 .. n -> S]
    BY <1>1, <1>4
  <2> HIDE DEF n
  <2> QED BY <2>1, SeqDef
<1>6. \A k \in 1 .. Len(s) - 1 :
        /\ k < place => r[k] = s[k]
        /\ k >= place => r[k] = s[k + 1]
  BY <1>1
<1> QED BY <1>5, <1>6

\* Of distinct peers, But removes the one place of one and nothing else.
LEMMA ButFacts ==
  ASSUME NEW peers \in Seq(Connections), NEW i,
         \A j, k \in DOMAIN peers : peers[j] = peers[k] => j = k
  PROVE  LET r == But(peers, i)
             all == {peers[k] : k \in DOMAIN peers}
         IN  /\ r \in Seq(Connections)
             /\ \A j \in DOMAIN r : r[j] \in all \ {i}
             /\ \A j \in all \ {i} : \E k \in DOMAIN r : r[k] = j
             /\ \A j, k \in DOMAIN r : r[j] = r[k] => j = k
<1> DEFINE place == CHOOSE k \in DOMAIN peers : peers[k] = i
           r == But(peers, i)
           all == {peers[k] : k \in DOMAIN peers}
<1>0. Len(peers) \in Nat /\ DOMAIN peers = 1 .. Len(peers)
  OBVIOUS
<1>a. CASE \A k \in DOMAIN peers : peers[k] # i
  <2>1. r = peers
    BY <1>a DEF But
  <2> QED BY <1>a, <2>1
<1>b. CASE ~ \A k \in DOMAIN peers : peers[k] # i
  <2>1. place \in 1 .. Len(peers) /\ peers[place] = i
    BY <1>0, <1>b
  <2>2. r = [k \in 1 .. Len(peers) - 1 |-> peers[IF k < place THEN k ELSE k + 1]]
    BY <1>b DEF But
  <2> HIDE DEF place, r
  <2>3. /\ r \in Seq(Connections)
        /\ DOMAIN r = 1 .. Len(peers) - 1
        /\ \A k \in DOMAIN r :
             /\ k < place => r[k] = peers[k]
             /\ k >= place => r[k] = peers[k + 1]
    BY <1>0, <2>1, <2>2, Shortened
  <2>4. ASSUME NEW j \in DOMAIN r
        PROVE  \E k \in DOMAIN peers : k # place /\ r[j] = peers[k] /\ k = IF j < place THEN j ELSE j + 1
    BY <1>0, <2>1, <2>3
  <2>5. \A j \in DOMAIN r : r[j] \in all \ {i}
    BY <1>0, <2>1, <2>4
  <2>6. \A j, k \in DOMAIN r : r[j] = r[k] => j = k
    BY <1>0, <2>1, <2>3, <2>4
  <2>7. ASSUME NEW j \in all \ {i} PROVE \E k \in DOMAIN r : r[k] = j
    <3>1. PICK n \in 1 .. Len(peers) : peers[n] = j
      BY <1>0
    <3>2. n # place
      BY <2>1, <3>1
    <3>3. CASE n < place
      BY <1>0, <2>1, <2>3, <3>1, <3>3
    <3>4. CASE n > place
      <4>1. n - 1 \in DOMAIN r /\ n - 1 >= place /\ (n - 1) + 1 = n
        BY <1>0, <2>1, <2>3, <3>1, <3>4
      <4> QED BY <2>3, <3>1, <4>1
    <3> QED BY <2>1, <3>2, <3>3, <3>4
  <2> QED BY <2>3, <2>5, <2>6, <2>7 DEF r
<1> QED BY <1>a, <1>b

LEMMA WithoutFacts ==
  ASSUME Types, NEW i, Distinct
  PROVE  /\ Without(i) \in Seq(Connections)
         /\ \A j \in DOMAIN Without(i) : Without(i)[j] \in Peers \ {i}
         /\ \A j \in Peers \ {i} : \E k \in DOMAIN Without(i) : Without(i)[k] = j
         /\ \A j, k \in DOMAIN Without(i) : Without(i)[j] = Without(i)[k] => j = k
<1>1. clients \in Seq(Connections)
  BY DEF Types
<1> QED BY <1>1, ButFacts DEF Without, Peers, Distinct
----------------------------------------------------------------------------
LEMMA InitTypes == Init => Types
<1>1. << >> \in Seq(Connections) /\ << >> \in Seq(Messages)
  OBVIOUS
<1>2. Init => [c \in Clients |-> {}] \in [Clients -> SUBSET Guids]
  OBVIOUS
<1>3. Init => guid \in [Clients -> Guids]
  BY GuidAssumption DEF Init
<1>4. Init =>
        /\ clients \in Seq(Connections)
        /\ peerGuid \in [Connections -> Guids \cup {NoGuid}]
        /\ named \subseteq Connections /\ cachedGuids \subseteq Guids /\ seedSent \in BOOLEAN
  BY <1>1 DEF Init
<1>5. Init =>
        /\ otherClients \in [Clients -> SUBSET Guids]
        /\ reported \in [Clients -> SUBSET Guids]
        /\ link \in [Clients -> Connections \cup {NoConnection}]
  BY <1>2 DEF Init
<1>6. Init =>
        /\ owner \in [Connections -> Clients \cup {Nobody}]
        /\ open \subseteq Connections /\ collected \subseteq Clients \cup {Server}
        /\ toServer \in [Connections -> Seq(Messages)]
        /\ toClient \in [Connections -> Seq(Messages)]
  BY <1>1 DEF Init
<1> QED BY <1>3, <1>4, <1>5, <1>6 DEF Types

LEMMA ReportTypes ==
  ASSUME Types, NEW c \in Clients, link[c] # NoConnection, Report(c)
  PROVE  /\ toServer' \in [Connections -> Seq(Messages)]
         /\ reported' \in [Clients -> SUBSET Guids]
<1>1. link[c] \in Connections /\ guid[c] \in Guids
  BY DEF Types
<1>2. ASSUME NEW yes
      PROVE  toServer[link[c]] \o Deliver(link[c], yes, PlayerInfo(guid[c])) \in Seq(Messages)
  BY <1>1, SequencesOfMessages, MessageFacts DEF Types
<1>3. toServer' \in [Connections -> Seq(Messages)]
  BY <1>1, <1>2 DEF Report, Types
<1>4. reported' \in [Clients -> SUBSET Guids]
  BY <1>1 DEF Report, Types
<1> QED BY <1>3, <1>4

\* The actions of the server.
LEMMA ServerTypes ==
  ASSUME Types, Distinct, NEW i \in Connections,
         \/ ServerOnConnect(i) \/ ServerOnPlayerInfo(i)
         \/ ServerOnPlayerInfoTaken(i) \/ ServerOnDisconnect(i)
  PROVE  Types'
<1>1. CASE ServerOnConnect(i)
  <2>1. PICK new \in Guids :
          \E R1 \in Recipients(Server, TRUE, <<i>>),
             R2 \in Recipients(Server, ~ seedSent, <<i>>),
             R3 \in Recipients(Server, TRUE, But(clients', i)) :
            /\ getGuid(new, ServerGuid)
            /\ peerGuid' = [peerGuid EXCEPT ![i] = new]
            /\ seedSent' = (seedSent \/ i \in R2)
            /\ toClient' = [j \in Connections |->
                 toClient[j] \o Deliver(j, j = i /\ i \in R1, NewGuid(ServerGuid, new))
                   \o Deliver(j, j = i /\ i \in R2, Seed)
                   \o Deliver(j, j \in R3, Connect2(new))]
    BY <1>1 DEF ServerOnConnect
  <2>0. PICK R1 \in Recipients(Server, TRUE, <<i>>),
             R2 \in Recipients(Server, ~ seedSent, <<i>>),
             R3 \in Recipients(Server, TRUE, But(clients', i)) :
          /\ getGuid(new, ServerGuid)
          /\ peerGuid' = [peerGuid EXCEPT ![i] = new]
          /\ seedSent' = (seedSent \/ i \in R2)
          /\ toClient' = [j \in Connections |->
               toClient[j] \o Deliver(j, j = i /\ i \in R1, NewGuid(ServerGuid, new))
                 \o Deliver(j, j = i /\ i \in R2, Seed)
                 \o Deliver(j, j \in R3, Connect2(new))]
    BY <2>1
  <2>2. toClient' \in [Connections -> Seq(Messages)]
    <3>1. ASSUME NEW j \in Connections
          PROVE  toClient[j] \o Deliver(j, j = i /\ i \in R1, NewGuid(ServerGuid, new))
                   \o Deliver(j, j = i /\ i \in R2, Seed)
                   \o Deliver(j, j \in R3, Connect2(new)) \in Seq(Messages)
      <4> DEFINE a1 == Deliver(j, j = i /\ i \in R1, NewGuid(ServerGuid, new))
                 a2 == Deliver(j, j = i /\ i \in R2, Seed)
                 a3 == Deliver(j, j \in R3, Connect2(new))
      <4>1. /\ NewGuid(ServerGuid, new) \in Messages /\ Seed \in Messages
            /\ Connect2(new) \in Messages /\ toClient[j] \in Seq(Messages)
        BY GuidAssumption, MessageFacts DEF Types
      <4>2. /\ a1 = << >> \/ a1 = <<NewGuid(ServerGuid, new)>>
            /\ a2 = << >> \/ a2 = <<Seed>>
            /\ a3 = << >> \/ a3 = <<Connect2(new)>>
        BY DEF Deliver
      <4> HIDE DEF a1, a2, a3
      <4>3. a1 \in Seq(Messages) /\ a2 \in Seq(Messages) /\ a3 \in Seq(Messages)
        <5>1. << >> \in Seq(Messages) /\ \A m \in Messages : <<m>> \in Seq(Messages)
          OBVIOUS
        <5> QED BY <4>1, <4>2, <5>1, Zenon
      <4>4. toClient[j] \o a1 \o a2 \o a3 \in Seq(Messages)
        BY <4>1, <4>3
      <4> QED BY <4>4 DEF a1, a2, a3
    <3> QED BY <2>0, <3>1
  <2>3. toServer' \in [Connections -> Seq(Messages)]
    <3>1. toServer[i] # << >> /\ toServer' = [toServer EXCEPT ![i] = Tail(@)]
      BY <1>1 DEF ServerOnConnect
    <3>2. [toServer EXCEPT ![i] = Tail(@)] \in [Connections -> Seq(Messages)]
      BY <3>1, QueuesLeft
    <3> QED BY <3>1, <3>2
  <2>4. clients' \in Seq(Connections)
    <3>1. clients \in Seq(Connections)
      BY DEF Types
    <3>2. clients' = Append(clients, i)
      BY <1>1 DEF ServerOnConnect
    <3> QED BY <3>1, <3>2
  <2>5. cachedGuids' \subseteq Guids /\ peerGuid' \in [Connections -> Guids \cup {NoGuid}]
    BY <2>0, GuidAssumption DEF getGuid, Types
  <2>6. seedSent' \in BOOLEAN
    BY <2>0 DEF Types
  <2>7. UNCHANGED <<named, client, owner, open, collected>>
    BY <1>1 DEF ServerOnConnect
  <2> QED BY <2>2, <2>3, <2>4, <2>5, <2>6, <2>7 DEF Types, client
<1>2. CASE ServerOnPlayerInfo(i)
  <2>1. Head(toServer[i]).oldGuid \in Guids
    BY <1>2, QueuesLeft, MessageFacts DEF ServerOnPlayerInfo
  <2>2. toServer' \in [Connections -> Seq(Messages)]
    BY <1>2, QueuesLeft DEF ServerOnPlayerInfo, Named
  <2> QED BY <1>2, <2>1, <2>2 DEF ServerOnPlayerInfo, Named, Types, client
<1>3. CASE ServerOnPlayerInfoTaken(i)
  <2> DEFINE g == Head(toServer[i]).oldGuid
  <2>1. g \in Guids
    BY <1>3, QueuesLeft, MessageFacts DEF ServerOnPlayerInfoTaken
  <2>2. PICK new \in Guids, R \in Recipients(Server, TRUE, clients) :
          /\ getGuid(new, g)
          /\ Named(i, new)
          /\ toClient' = [j \in Connections |-> toClient[j] \o Deliver(j, j \in R, NewGuid(g, new))]
    BY <1>3 DEF ServerOnPlayerInfoTaken
  <2>3. toClient' \in [Connections -> Seq(Messages)]
    <3>1. \A j \in Connections : toClient[j] \o Deliver(j, j \in R, NewGuid(g, new)) \in Seq(Messages)
      BY <2>1, MessageFacts, SequencesOfMessages DEF Types
    <3> QED BY <2>2, <3>1
  <2>4. toServer' \in [Connections -> Seq(Messages)]
    BY <1>3, <2>2, QueuesLeft DEF ServerOnPlayerInfoTaken, Named
  <2>5. /\ cachedGuids' \subseteq Guids
        /\ peerGuid' \in [Connections -> Guids \cup {NoGuid}]
        /\ named' \subseteq Connections
    BY <2>1, <2>2 DEF getGuid, Named, Types
  <2>6. UNCHANGED <<clients, seedSent, client, owner, open, collected>>
    BY <1>3 DEF ServerOnPlayerInfoTaken
  <2> QED BY <2>3, <2>4, <2>5, <2>6 DEF Types, client
<1>4. CASE ServerOnDisconnect(i)
  <2>1. clients' \in Seq(Connections)
    BY <1>4, WithoutFacts DEF ServerOnDisconnect
  <2>2. toServer' \in [Connections -> Seq(Messages)]
    BY <1>4, QueuesLeft DEF ServerOnDisconnect
  <2>3. seedSent' \in BOOLEAN
    BY <1>4 DEF ServerOnDisconnect, Types
  <2>4. /\ peerGuid' \in [Connections -> Guids \cup {NoGuid}]
        /\ named' \subseteq Connections
        /\ UNCHANGED <<cachedGuids, client, owner, open, toClient, collected>>
    BY <1>4 DEF ServerOnDisconnect, Types
  <2> QED BY <2>1, <2>2, <2>3, <2>4 DEF Types, client
<1> QED BY <1>1, <1>2, <1>3, <1>4

\* The handlers of a client.
LEMMA ClientTypes ==
  ASSUME Types, NEW c \in Clients, NEW i \in Connections,
         \/ ClientOnConnect(c, i) \/ ClientOnSeed(c, i) \/ ClientOnConnect2(c, i)
         \/ ClientOnNewGuid(c, i) \/ ClientOnDisconnect(c, i)
  PROVE  Types'
<1>0. /\ toClient' \in [Connections -> Seq(Messages)]
      /\ Head(toClient[i]) \in Messages
      /\ link[c] # NoConnection
  BY QueuesLeft DEF ClientOnConnect, ClientOnSeed, ClientOnConnect2, ClientOnNewGuid,
                    ClientOnDisconnect, Takes
<1>1. CASE ClientOnConnect(c, i) \/ ClientOnSeed(c, i)
  <2>1. Report(c) /\ UNCHANGED <<server, guid, otherClients, link, owner, open, collected>>
    BY <1>1 DEF ClientOnConnect, ClientOnSeed
  <2>2. toServer' \in [Connections -> Seq(Messages)] /\ reported' \in [Clients -> SUBSET Guids]
    BY <1>0, <2>1, ReportTypes
  <2> QED BY <1>0, <2>1, <2>2 DEF Types, server
<1>2. CASE ClientOnConnect2(c, i)
  <2>1. Head(toClient[i]).oldGuid \in Guids
    BY <1>0, <1>2, MessageFacts DEF ClientOnConnect2, Takes
  <2>2. otherClients' \in [Clients -> SUBSET Guids]
    BY <1>2, <2>1 DEF ClientOnConnect2, Types
  <2>3. UNCHANGED <<server, guid, reported, link, owner, open, toServer, collected>>
    BY <1>2 DEF ClientOnConnect2
  <2> QED BY <1>0, <2>2, <2>3 DEF Types, server
<1>3. CASE ClientOnNewGuid(c, i)
  <2>1. Head(toClient[i]).newGuid \in Guids
    BY <1>0, <1>3, MessageFacts DEF ClientOnNewGuid, Takes
  <2>2. otherClients' \in [Clients -> SUBSET Guids]
    <3> DEFINE m == Head(toClient[i])
               others == {IF g = m.oldGuid THEN m.newGuid ELSE g : g \in otherClients[c]}
    <3>1. others \subseteq Guids
      BY <2>1 DEF Types
    <3>2. \/ UNCHANGED otherClients
          \/ otherClients' = [otherClients EXCEPT ![c] = others]
      BY <1>3 DEF ClientOnNewGuid
    <3> HIDE DEF others
    <3> QED BY <3>1, <3>2 DEF Types
  <2>3. guid' \in [Clients -> Guids]
    BY <1>3, <2>1 DEF ClientOnNewGuid, Types
  <2>4. UNCHANGED <<server, reported, link, owner, open, toServer, collected>>
    BY <1>3 DEF ClientOnNewGuid
  <2> QED BY <1>0, <2>2, <2>3, <2>4 DEF Types, server
<1>4. CASE ClientOnDisconnect(c, i)
  <2>1. otherClients' \in [Clients -> SUBSET Guids]
    BY <1>4 DEF ClientOnDisconnect, Types
  <2>2. link' \in [Clients -> Connections \cup {NoConnection}]
    BY <1>4 DEF ClientOnDisconnect, Types
  <2> QED BY <1>0, <1>4, <2>1, <2>2 DEF ClientOnDisconnect, Types, server
<1> QED BY <1>1, <1>2, <1>3, <1>4

\* What a player, the network, the machines and the collectors do.
LEMMA OtherTypes ==
  ASSUME Types,
         \/ \E i \in Connections : TimeOut(i)
         \/ \E c \in Clients : Connect(c) \/ Disconnect(c) \/ Restart(c) \/ CollectAtClient(c)
         \/ CollectAtServer
  PROVE  Types'
<1>1. ASSUME NEW i \in Connections, TimeOut(i) PROVE Types'
  BY <1>1, DownTypes DEF TimeOut, Types, server, client
<1>2. ASSUME NEW c \in Clients, Connect(c) PROVE Types'
  <2>1. PICK i \in Connections :
          /\ owner' = [owner EXCEPT ![i] = c]
          /\ open' = (open \ {link[c]}) \cup {i}
          /\ toServer' = [Down(open \cap {link[c]}) EXCEPT ![i] = <<Connected>>]
          /\ toClient' = [DownAtClient(open \cap {link[c]}) EXCEPT ![i] = <<Connected>>]
          /\ link' = [link EXCEPT ![c] = i]
          /\ UNCHANGED <<server, guid, otherClients, reported, collected>>
    BY <1>2 DEF Connect
  <2>2. /\ toServer' \in [Connections -> Seq(Messages)]
        /\ toClient' \in [Connections -> Seq(Messages)]
    BY <2>1, DownTypes, QueuesLeft
  <2>3. /\ owner' \in [Connections -> Clients \cup {Nobody}]
        /\ open' \subseteq Connections
        /\ link' \in [Clients -> Connections \cup {NoConnection}]
    BY <2>1 DEF Types
  <2> QED BY <2>1, <2>2, <2>3 DEF Types, server
<1>3. ASSUME NEW c \in Clients, Disconnect(c) PROVE Types'
  BY <1>3, DownTypes DEF Disconnect, Types, server
<1>4. ASSUME NEW c \in Clients, Restart(c) PROVE Types'
  <2>1. toClient' \in [Connections -> Seq(Messages)]
    <3>1. << >> \in Seq(Messages)
      OBVIOUS
    <3> QED BY <1>4, <3>1 DEF Restart, Types
  <2>2. toServer' \in [Connections -> Seq(Messages)]
    BY <1>4, DownTypes DEF Restart
  <2>3. /\ otherClients' \in [Clients -> SUBSET Guids]
        /\ reported' \in [Clients -> SUBSET Guids]
        /\ link' \in [Clients -> Connections \cup {NoConnection}]
        /\ open' \subseteq Connections
    BY <1>4 DEF Restart, Types
  <2> QED BY <1>4, <2>1, <2>2, <2>3 DEF Restart, Types, server
<1>5. ASSUME NEW c \in Clients, CollectAtClient(c) PROVE Types'
  <2>1. reported' \in [Clients -> SUBSET Guids]
    BY <1>5 DEF CollectAtClient, Types
  <2> QED BY <1>5, <2>1 DEF CollectAtClient, Types, server, network
<1>6. CASE CollectAtServer
  BY <1>6 DEF CollectAtServer, Types, client, network
<1> QED BY <1>1, <1>2, <1>3, <1>4, <1>5, <1>6

LEMMA StepTypes == Types /\ Distinct /\ [Next]_vars => Types'
<1> SUFFICES ASSUME Types, Distinct, [Next]_vars PROVE Types'
  OBVIOUS
<1>1. CASE UNCHANGED vars
  BY <1>1 DEF vars, server, client, network, Types
<1>2. CASE Next
  BY <1>2, ServerTypes, ClientTypes, OtherTypes DEF Next
<1> QED BY <1>1, <1>2
----------------------------------------------------------------------------
\* What enet has to report to the server of a connection, by whether the
\* connection is open, its peer in self.clients, and the connection not yet used:
\* that it is there once and before anything else, that it is gone last, once
\* it is.
Told(q, isOpen, isPeer, isUnused) ==
  /\ \A k \in DOMAIN q : q[k] = Connected => k = 1 /\ ~ isPeer
  /\ \A k \in DOMAIN q : q[k] = Disconnected => Len(q) = 1 /\ ~ isOpen /\ isPeer
  /\ isOpen \/ q # << >> => isPeer \/ (q # << >> /\ Head(q) = Connected)
  /\ isUnused => q = << >> /\ ~ isOpen /\ ~ isPeer

QueueInv ==
  \A i \in Connections : Told(toServer[i], i \in open, i \in Peers, owner[i] = Nobody)

\* Why guids are unique: the server and all peers have guids that count as
\* used, and a peer gets a guid that does not, or one drawn apart from them.
GuidInv ==
  /\ \A i \in Peers : /\ peerGuid[i] \in cachedGuids \ {ServerGuid}
                       /\ ServerGuid \in cachedGuids
  /\ \A i, j \in Peers : peerGuid[i] = peerGuid[j] => i = j

IInv == Types /\ Distinct /\ QueueInv /\ GuidInv

LEMMA InitIInv == Init => IInv
<1> SUFFICES ASSUME Init PROVE IInv
  OBVIOUS
<1>1. DOMAIN clients = {} /\ Peers = {}
  BY DEF Init, Peers
<1>2. \A i \in Connections : toServer[i] = << >> /\ DOMAIN toServer[i] = {} /\ i \notin open
  BY DEF Init
<1>3. Distinct /\ GuidInv
  BY <1>1 DEF Distinct, GuidInv
<1>4. QueueInv
  BY <1>1, <1>2 DEF QueueInv, Told
<1> QED BY InitTypes, <1>3, <1>4 DEF IInv

\* What becomes of a queue: its first event is handled, a report joins it, it
\* breaks down, or it is the one of a new connection.
LEMMA ToldSteps ==
  ASSUME NEW q \in Seq(Messages), NEW o \in BOOLEAN, NEW p \in BOOLEAN, NEW n \in BOOLEAN,
         Told(q, o, p, n)
  PROVE  /\ q # << >> /\ Head(q) = Connected => ~ p /\ Told(Tail(q), o, TRUE, n)
         /\ q # << >> /\ Head(q).event = "playerInfo" => p /\ Told(Tail(q), o, p, n)
         /\ q # << >> /\ Head(q) = Disconnected => p /\ Told(Tail(q), o, FALSE, n)
         /\ o => \A g \in Guids : Told(q \o <<PlayerInfo(g)>>, o, p, n)
         /\ o => Told(IF Connected \in {q[k] : k \in DOMAIN q} THEN << >>
                      ELSE <<Disconnected>>, FALSE, p, n)
         /\ n => ~ p /\ Told(<<Connected>>, TRUE, FALSE, FALSE)
<1>0. /\ Connected # Disconnected
      /\ Connected.event # "playerInfo" /\ Disconnected.event # "playerInfo"
      /\ \A g : PlayerInfo(g) # Connected /\ PlayerInfo(g) # Disconnected
  BY DEF Connected, Disconnected, PlayerInfo, Message
<1>1. ASSUME q # << >>
      PROVE  /\ Len(q) \in Nat \ {0} /\ 1 \in DOMAIN q /\ Head(q) = q[1]
             /\ Tail(q) \in Seq(Messages)
             /\ \A k \in DOMAIN Tail(q) : /\ Tail(q)[k] # Connected
                                          /\ Tail(q)[k] # Disconnected
             /\ Head(q) = Disconnected => Tail(q) = << >>
  <2>1. /\ Len(q) \in Nat \ {0} /\ DOMAIN q = 1 .. Len(q) /\ Head(q) = q[1]
        /\ Tail(q) \in Seq(Messages) /\ Len(Tail(q)) = Len(q) - 1
    BY <1>1
  <2>2. ASSUME NEW k \in DOMAIN Tail(q)
        PROVE  /\ k + 1 \in DOMAIN q /\ Tail(q)[k] = q[k + 1]
               /\ k + 1 # 1 /\ Len(q) # 1
    BY <1>1, <2>1
  <2>3. \A k \in DOMAIN Tail(q) : Tail(q)[k] # Connected /\ Tail(q)[k] # Disconnected
    BY <2>2 DEF Told
  <2>4. Head(q) = Disconnected => Len(Tail(q)) = 0
    BY <2>1 DEF Told
  <2> QED BY <2>1, <2>3, <2>4
<1>2. q # << >> /\ Head(q) = Connected => ~ p /\ Told(Tail(q), o, TRUE, n)
  BY <1>1 DEF Told
<1>3. q # << >> /\ Head(q).event = "playerInfo" => p /\ Told(Tail(q), o, p, n)
  BY <1>0, <1>1 DEF Told
<1>4. q # << >> /\ Head(q) = Disconnected => p /\ Told(Tail(q), o, FALSE, n)
  <2> SUFFICES ASSUME q # << >>, Head(q) = Disconnected
               PROVE  p /\ Told(Tail(q), o, FALSE, n)
    OBVIOUS
  <2>1. p /\ ~ o /\ Tail(q) = << >> /\ ~ n
    BY <1>1 DEF Told
  <2> QED BY <2>1 DEF Told
<1>5. ASSUME o, NEW g \in Guids PROVE Told(q \o <<PlayerInfo(g)>>, o, p, n)
  <2> DEFINE r == q \o <<PlayerInfo(g)>>
  <2>0. PlayerInfo(g) \in Messages
    BY MessageFacts
  <2>1. /\ Len(q) \in Nat /\ DOMAIN q = 1 .. Len(q) /\ DOMAIN r = 1 .. Len(q) + 1
        /\ \A k \in 1 .. Len(q) : r[k] = q[k]
        /\ r[Len(q) + 1] = PlayerInfo(g)
        /\ r # << >> /\ Head(r) = r[1]
    BY <2>0
  <2>2. \A k \in DOMAIN q : q[k] # Disconnected
    BY <1>5 DEF Told
  <2>3. q # << >> => 1 \in DOMAIN q /\ Head(q) = q[1]
    BY <1>1
  <2>4. \A k \in DOMAIN r : r[k] = Connected \/ r[k] = Disconnected => k \in DOMAIN q /\ r[k] = q[k]
    BY <1>0, <2>1
  <2> HIDE DEF r
  <2>5. Told(r, o, p, n)
    BY <1>5, <2>1, <2>2, <2>3, <2>4 DEF Told
  <2> QED BY <2>5 DEF r
<1>6. ASSUME o
      PROVE  Told(IF Connected \in {q[k] : k \in DOMAIN q} THEN << >>
                  ELSE <<Disconnected>>, FALSE, p, n)
  <2>0. ~ n
    BY <1>6 DEF Told
  <2>1. CASE Connected \in {q[k] : k \in DOMAIN q}
    BY <2>0, <2>1 DEF Told
  <2>2. CASE Connected \notin {q[k] : k \in DOMAIN q}
    <3>1. p
      BY <1>1, <1>6, <2>2 DEF Told
    <3> QED BY <1>0, <2>0, <2>2, <3>1 DEF Told
  <2> QED BY <2>1, <2>2
<1>7. n => ~ p /\ Told(<<Connected>>, TRUE, FALSE, FALSE)
  BY <1>0 DEF Told
<1> QED BY <1>2, <1>3, <1>4, <1>5, <1>6, <1>7

\* The same for one connection of a state.
LEMMA QueueSteps ==
  ASSUME Types, QueueInv, NEW i \in Connections
  PROVE  LET q == toServer[i]
             isOpen == i \in open
             isUnused == owner[i] = Nobody
         IN  /\ q # << >> /\ Head(q) = Connected =>
                  i \notin Peers /\ Told(Tail(q), isOpen, TRUE, isUnused)
             /\ q # << >> /\ Head(q).event = "playerInfo" =>
                  i \in Peers /\ Told(Tail(q), isOpen, i \in Peers, isUnused)
             /\ q # << >> /\ Head(q) = Disconnected =>
                  i \in Peers /\ Told(Tail(q), isOpen, FALSE, isUnused)
             /\ isOpen => \A g \in Guids :
                  Told(q \o <<PlayerInfo(g)>>, isOpen, i \in Peers, isUnused)
             /\ isOpen => \A gone : i \in gone =>
                  Told(Down(gone)[i], FALSE, i \in Peers, isUnused)
             /\ isUnused => i \notin Peers /\ Told(<<Connected>>, TRUE, FALSE, FALSE)
<1>1. /\ toServer[i] \in Seq(Messages)
      /\ Told(toServer[i], i \in open, i \in Peers, owner[i] = Nobody)
  BY DEF Types, QueueInv
<1>2. \A gone : i \in gone =>
        Down(gone)[i] = IF Connected \in {toServer[i][k] : k \in DOMAIN toServer[i]}
                        THEN << >> ELSE <<Disconnected>>
  BY DEF Down
<1>3. (i \in open) \in BOOLEAN /\ (i \in Peers) \in BOOLEAN /\ (owner[i] = Nobody) \in BOOLEAN
  OBVIOUS
<1> QED BY <1>1, <1>2, <1>3, ToldSteps, ZenonT(40)

\* A new peer is one that was not there; a peer that goes leaves the others.
LEMMA PeersAppend ==
  ASSUME Types, Distinct, NEW i \in Connections, i \notin Peers, clients' = Append(clients, i)
  PROVE  Peers' = Peers \cup {i} /\ Distinct'
<1>1. /\ Len(clients) \in Nat /\ DOMAIN clients = 1 .. Len(clients)
      /\ DOMAIN clients' = 1 .. Len(clients) + 1
      /\ \A k \in 1 .. Len(clients) : clients'[k] = clients[k]
      /\ clients'[Len(clients) + 1] = i
  BY DEF Types
<1>2. \A k \in DOMAIN clients : clients[k] # i
  BY DEF Peers
<1>3. Distinct'
  BY <1>1, <1>2 DEF Distinct
<1>4. Peers' = Peers \cup {i}
  <2>1. \A k \in DOMAIN clients' : k \in DOMAIN clients \/ k = Len(clients) + 1
    BY <1>1
  <2>2. Peers' \subseteq Peers \cup {i}
    BY <1>1, <2>1 DEF Peers
  <2>3. i \in Peers'
    BY <1>1 DEF Peers
  <2>4. Peers \subseteq Peers'
    BY <1>1 DEF Peers
  <2> QED BY <2>2, <2>3, <2>4
<1> QED BY <1>3, <1>4

LEMMA PeersWithout ==
  ASSUME Types, Distinct, NEW i \in Peers, clients' = Without(i)
  PROVE  Peers' = Peers \ {i} /\ Distinct'
BY WithoutFacts DEF Peers, Distinct

\* What neither changes the peers nor their guids leaves these parts.
LEMMA GuidInvKept ==
  IInv /\ UNCHANGED <<clients, peerGuid, cachedGuids>> => Distinct' /\ GuidInv' /\ Peers' = Peers
BY DEF IInv, Distinct, GuidInv, Peers

\* The queue of one connection changes and the others stay as they are.
LEMMA OneQueue ==
  ASSUME Types, QueueInv, NEW i \in Connections, UNCHANGED <<owner, open>>,
         toServer' = [toServer EXCEPT ![i] = toServer'[i]],
         \A j \in Connections \ {i} : j \in Peers' <=> j \in Peers,
         Told(toServer'[i], i \in open, i \in Peers', owner[i] = Nobody)
  PROVE  QueueInv'
<1>1. ASSUME NEW j \in Connections
      PROVE  Told(toServer'[j], j \in open', j \in Peers', owner'[j] = Nobody)
  <2>1. CASE j = i
    BY <2>1
  <2>2. CASE j # i
    <3>1. toServer'[j] = toServer[j] /\ (j \in Peers' <=> j \in Peers)
      BY <2>2 DEF Types
    <3>2. Told(toServer[j], j \in open, j \in Peers, owner[j] = Nobody)
      BY DEF QueueInv
    <3> QED BY <3>1, <3>2 DEF Told
  <2> QED BY <2>1, <2>2
<1> QED BY <1>1 DEF QueueInv
----------------------------------------------------------------------------
LEMMA ServerOnConnectIInv ==
  ASSUME IInv, NEW i \in Connections, ServerOnConnect(i)
  PROVE  Distinct' /\ QueueInv' /\ GuidInv'
<1>0. Types /\ Distinct /\ QueueInv /\ GuidInv
  BY DEF IInv
<1>1. /\ toServer[i] # << >> /\ Head(toServer[i]) = Connected
      /\ clients' = Append(clients, i)
      /\ toServer' = [toServer EXCEPT ![i] = Tail(@)]
      /\ UNCHANGED <<owner, open>>
  BY DEF ServerOnConnect
<1>2. i \notin Peers /\ Told(Tail(toServer[i]), i \in open, TRUE, owner[i] = Nobody)
  BY <1>0, <1>1, QueueSteps
<1>3. Peers' = Peers \cup {i} /\ Distinct'
  BY <1>0, <1>1, <1>2, PeersAppend
<1>4. QueueInv'
  <2>1. toServer'[i] = Tail(toServer[i]) /\ toServer' = [toServer EXCEPT ![i] = toServer'[i]]
    BY <1>0, <1>1 DEF Types
  <2>2. Told(toServer'[i], i \in open, i \in Peers', owner[i] = Nobody)
    BY <1>2, <1>3, <2>1 DEF Told
  <2> QED BY <1>0, <1>1, <1>3, <2>1, <2>2, OneQueue
<1>5. GuidInv'
  <2>1. PICK new \in Guids :
          getGuid(new, ServerGuid) /\ peerGuid' = [peerGuid EXCEPT ![i] = new]
    BY DEF ServerOnConnect
  <2>2. /\ new \notin cachedGuids /\ new # ServerGuid
        /\ cachedGuids' = cachedGuids \cup {ServerGuid, new}
    BY <2>1 DEF getGuid
  <2>3. peerGuid'[i] = new /\ \A j \in Peers : peerGuid'[j] = peerGuid[j]
    BY <1>0, <1>2, <2>1 DEF Types
  <2> QED BY <1>0, <1>2, <1>3, <2>2, <2>3 DEF GuidInv
<1> QED BY <1>3, <1>4, <1>5

\* The two branches of onPlayerInfo: a peer gets a guid not used before.
LEMMA ServerOnPlayerInfoIInv ==
  ASSUME IInv, NEW i \in Connections, ServerOnPlayerInfo(i) \/ ServerOnPlayerInfoTaken(i)
  PROVE  Distinct' /\ QueueInv' /\ GuidInv'
<1>0. Types /\ Distinct /\ QueueInv /\ GuidInv
  BY DEF IInv
<1>1. /\ toServer[i] # << >> /\ Head(toServer[i]).event = "playerInfo"
      /\ toServer' = [toServer EXCEPT ![i] = Tail(@)]
      /\ UNCHANGED <<clients, owner, open>>
  BY DEF ServerOnPlayerInfo, ServerOnPlayerInfoTaken, Named
<1>2. i \in Peers /\ Told(Tail(toServer[i]), i \in open, i \in Peers, owner[i] = Nobody)
  BY <1>0, <1>1, QueueSteps
<1>3. Peers' = Peers /\ Distinct'
  BY <1>0, <1>1 DEF Peers, Distinct
<1>4. QueueInv'
  <2>1. toServer'[i] = Tail(toServer[i]) /\ toServer' = [toServer EXCEPT ![i] = toServer'[i]]
    BY <1>0, <1>1 DEF Types
  <2>2. Told(toServer'[i], i \in open, i \in Peers', owner[i] = Nobody)
    BY <1>2, <1>3, <2>1
  <2> QED BY <1>0, <1>1, <1>3, <2>1, <2>2, OneQueue
<1>5. PICK g : /\ g \notin cachedGuids /\ g # ServerGuid
               /\ g \in cachedGuids' /\ cachedGuids \subseteq cachedGuids'
               /\ peerGuid' = [peerGuid EXCEPT ![i] = g]
  <2>1. CASE ServerOnPlayerInfo(i)
    BY <2>1 DEF ServerOnPlayerInfo, Named, IsTaken
  <2>2. CASE ServerOnPlayerInfoTaken(i)
    <3>1. PICK new \in Guids : getGuid(new, Head(toServer[i]).oldGuid) /\ Named(i, new)
      BY <2>2 DEF ServerOnPlayerInfoTaken
    <3>2. ServerGuid \in cachedGuids
      BY <1>0, <1>2 DEF GuidInv
    <3> QED BY <3>1, <3>2 DEF getGuid, Named
  <2> QED BY <2>1, <2>2
<1>6. peerGuid'[i] = g /\ \A j \in Peers \ {i} : peerGuid'[j] = peerGuid[j]
  BY <1>0, <1>5 DEF Types
<1>7. GuidInv'
  BY <1>0, <1>2, <1>3, <1>5, <1>6 DEF GuidInv
<1> QED BY <1>3, <1>4, <1>7

LEMMA ServerOnDisconnectIInv ==
  ASSUME IInv, NEW i \in Connections, ServerOnDisconnect(i)
  PROVE  Distinct' /\ QueueInv' /\ GuidInv'
<1>0. Types /\ Distinct /\ QueueInv /\ GuidInv
  BY DEF IInv
<1>1. /\ toServer[i] # << >> /\ Head(toServer[i]) = Disconnected
      /\ clients' = Without(i)
      /\ peerGuid' = [peerGuid EXCEPT ![i] = NoGuid]
      /\ toServer' = [toServer EXCEPT ![i] = Tail(@)]
      /\ UNCHANGED <<owner, open, cachedGuids>>
  BY DEF ServerOnDisconnect
<1>2. i \in Peers /\ Told(Tail(toServer[i]), i \in open, FALSE, owner[i] = Nobody)
  BY <1>0, <1>1, QueueSteps
<1>3. Peers' = Peers \ {i} /\ Distinct'
  BY <1>0, <1>1, <1>2, PeersWithout
<1>4. QueueInv'
  <2>1. toServer'[i] = Tail(toServer[i]) /\ toServer' = [toServer EXCEPT ![i] = toServer'[i]]
    BY <1>0, <1>1 DEF Types
  <2>2. Told(toServer'[i], i \in open, i \in Peers', owner[i] = Nobody)
    BY <1>2, <1>3, <2>1 DEF Told
  <2> QED BY <1>0, <1>1, <1>3, <2>1, <2>2, OneQueue
<1>5. GuidInv'
  <2>1. \A j \in Peers \ {i} : peerGuid'[j] = peerGuid[j]
    BY <1>0, <1>1 DEF Types
  <2> QED BY <1>0, <1>1, <1>3, <2>1 DEF GuidInv
<1> QED BY <1>3, <1>4, <1>5

\* A report joins the queue of a connection that is open, or none.
LEMMA ReportQueues ==
  ASSUME Types, QueueInv, NEW c \in Clients, link[c] # NoConnection, Report(c),
         UNCHANGED <<clients, owner, open>>
  PROVE  QueueInv'
<1> DEFINE i == link[c]
           q == toServer[i]
<1>1. i \in Connections /\ guid[c] \in Guids /\ q \in Seq(Messages) /\ Peers' = Peers
  BY DEF Types, Peers
<1>2. PICK R : toServer' = [toServer EXCEPT ![i] = @ \o Deliver(i, i \in R, PlayerInfo(guid[c]))]
  BY DEF Report
<1>3. \/ toServer'[i] = q
      \/ i \in open /\ toServer'[i] = q \o <<PlayerInfo(guid[c])>>
  <2>1. toServer'[i] = q \o Deliver(i, i \in R, PlayerInfo(guid[c]))
    BY <1>1, <1>2 DEF Types
  <2>2. q \o << >> = q
    BY <1>1
  <2> QED BY <2>1, <2>2 DEF Deliver
<1>4. Told(toServer'[i], i \in open, i \in Peers, owner[i] = Nobody)
  <2>1. Told(q, i \in open, i \in Peers, owner[i] = Nobody)
    BY <1>1 DEF QueueInv
  <2>2. i \in open =>
          Told(q \o <<PlayerInfo(guid[c])>>, i \in open, i \in Peers, owner[i] = Nobody)
    BY <1>1, QueueSteps
  <2> QED BY <1>3, <2>1, <2>2
<1>5. toServer' = [toServer EXCEPT ![i] = toServer'[i]]
  BY <1>1, <1>2 DEF Types
<1> HIDE DEF i
<1> QED BY <1>1, <1>4, <1>5, OneQueue

\* Open connections break down.
LEMMA DownQueues ==
  ASSUME Types, QueueInv, NEW gone \in SUBSET open, open' = open \ gone,
         toServer' = Down(gone), UNCHANGED <<clients, owner>>
  PROVE  QueueInv'
<1>1. Peers' = Peers
  BY DEF Peers
<1>2. ASSUME NEW j \in Connections
      PROVE  Told(toServer'[j], j \in open', j \in Peers', owner'[j] = Nobody)
  <2>1. CASE j \in gone
    <3>1. Told(Down(gone)[j], FALSE, j \in Peers, owner[j] = Nobody)
      BY <2>1, QueueSteps
    <3>2. (j \in open') = FALSE
      BY <2>1
    <3> QED BY <1>1, <3>1, <3>2
  <2>2. CASE j \notin gone
    <3>1. toServer'[j] = toServer[j] /\ (j \in open') = (j \in open)
      BY <2>2 DEF Down
    <3> QED BY <1>1, <3>1 DEF QueueInv
  <2> QED BY <2>1, <2>2
<1> QED BY <1>2 DEF QueueInv

LEMMA ConnectQueues ==
  ASSUME Types, QueueInv, NEW c \in Clients, Connect(c)
  PROVE  QueueInv'
<1>1. PICK i \in Connections :
        /\ owner[i] = Nobody
        /\ owner' = [owner EXCEPT ![i] = c]
        /\ open' = (open \ {link[c]}) \cup {i}
        /\ toServer' = [Down(open \cap {link[c]}) EXCEPT ![i] = <<Connected>>]
        /\ UNCHANGED clients
  BY DEF Connect, server
<1> DEFINE gone == open \cap {link[c]}
<1>2. i \notin Peers /\ Told(<<Connected>>, TRUE, FALSE, FALSE)
  BY <1>1, QueueSteps
<1>3. Peers' = Peers
  BY <1>1 DEF Peers
<1>4. ASSUME NEW j \in Connections
      PROVE  Told(toServer'[j], j \in open', j \in Peers', owner'[j] = Nobody)
  <2>1. CASE j = i
    <3>1. /\ toServer'[j] = <<Connected>> /\ (j \in open') = TRUE
          /\ (j \in Peers') = FALSE /\ (owner'[j] = Nobody) = FALSE
      BY <1>1, <1>2, <1>3, <2>1, ProcessAssumption DEF Types, Down
    <3> QED BY <1>2, <3>1
  <2>2. CASE j # i /\ j \in gone
    <3>1. Told(Down(gone)[j], FALSE, j \in Peers, owner[j] = Nobody)
      BY <2>2, QueueSteps
    <3>2. toServer'[j] = Down(gone)[j]
      BY <1>1, <2>2 DEF Down
    <3>3. (j \in open') = FALSE /\ owner'[j] = owner[j]
      BY <1>1, <2>2 DEF Types
    <3> QED BY <1>3, <3>1, <3>2, <3>3
  <2>3. CASE j # i /\ j \notin gone
    <3>1. /\ toServer'[j] = toServer[j] /\ (j \in open') = (j \in open)
          /\ owner'[j] = owner[j]
      BY <1>1, <2>3 DEF Types, Down
    <3> QED BY <1>3, <3>1 DEF QueueInv
  <2> QED BY <2>1, <2>2, <2>3
<1> QED BY <1>4 DEF QueueInv

\* Every other action: the server and its peers stay as they are.
LEMMA ElsewhereIInv ==
  ASSUME IInv, Next,
         \A i \in Connections : /\ ~ ServerOnConnect(i) /\ ~ ServerOnPlayerInfo(i)
                                /\ ~ ServerOnPlayerInfoTaken(i) /\ ~ ServerOnDisconnect(i)
  PROVE  Distinct' /\ QueueInv' /\ GuidInv'
<1>0. Types /\ QueueInv
  BY DEF IInv
<1>1. ASSUME NEW i \in Connections, TimeOut(i) PROVE QueueInv'
  <2>1. {i} \in SUBSET open
    BY <1>1 DEF TimeOut
  <2> QED BY <1>0, <1>1, <2>1, DownQueues DEF TimeOut, server
<1>2. ASSUME NEW c \in Clients, Disconnect(c) \/ Restart(c) PROVE QueueInv'
  <2>1. /\ open' = open \ (open \cap {link[c]}) /\ toServer' = Down(open \cap {link[c]})
        /\ UNCHANGED <<clients, owner>>
    BY <1>2 DEF Disconnect, Restart, server
  <2> QED BY <1>0, <2>1, DownQueues
<1>3. ASSUME NEW c \in Clients, NEW i \in Connections,
             ClientOnConnect(c, i) \/ ClientOnSeed(c, i)
      PROVE  QueueInv'
  <2>1. link[c] # NoConnection /\ Report(c) /\ UNCHANGED <<clients, owner, open>>
    BY <1>3 DEF ClientOnConnect, ClientOnSeed, Takes, server
  <2> QED BY <1>0, <2>1, ReportQueues
<1>4. ASSUME UNCHANGED <<clients, owner, open, toServer>> PROVE QueueInv'
  BY <1>0, <1>4 DEF QueueInv, Told, Peers
<1>5. ASSUME NEW c \in Clients, NEW i \in Connections,
             ClientOnConnect2(c, i) \/ ClientOnNewGuid(c, i) \/ ClientOnDisconnect(c, i)
      PROVE  QueueInv'
  <2>1. UNCHANGED <<clients, owner, open, toServer>>
    BY <1>5 DEF ClientOnConnect2, ClientOnNewGuid, ClientOnDisconnect, server
  <2> QED BY <1>4, <2>1
<1>6. ASSUME NEW c \in Clients, CollectAtClient(c) PROVE QueueInv'
  BY <1>4, <1>6 DEF CollectAtClient, server, network
<1>7. ASSUME CollectAtServer PROVE QueueInv'
  BY <1>4, <1>7 DEF CollectAtServer, network
<1>8. QueueInv'
  BY <1>0, <1>1, <1>2, <1>3, <1>5, <1>6, <1>7, ConnectQueues DEF Next
<1>9. UNCHANGED <<clients, peerGuid, cachedGuids>>
  BY DEF Next, TimeOut, Connect, Disconnect, Restart, CollectAtClient, CollectAtServer,
         ClientOnConnect, ClientOnSeed, ClientOnConnect2, ClientOnNewGuid,
         ClientOnDisconnect, server
<1> QED BY <1>8, <1>9, GuidInvKept

LEMMA StepIInv == IInv /\ [Next]_vars => IInv'
<1> SUFFICES ASSUME IInv, [Next]_vars PROVE IInv'
  OBVIOUS
<1>1. Types'
  BY StepTypes DEF IInv
<1>2. CASE UNCHANGED vars
  BY <1>1, <1>2 DEF vars, server, client, network, IInv, Distinct, QueueInv, Told, GuidInv, Peers
<1>3. CASE Next
  BY <1>1, <1>3, ServerOnConnectIInv, ServerOnPlayerInfoIInv, ServerOnDisconnectIInv,
     ElsewhereIInv DEF IInv
<1> QED BY <1>2, <1>3

THEOREM Invariance == Spec => []IInv
<1> QED BY InitIInv, StepIInv, PTL DEF Spec
----------------------------------------------------------------------------
(***************************************************************************)
(* The variables keep their types, and every peer in self.clients has a    *)
(* guid.                                                                   *)
(***************************************************************************)
THEOREM TypeCorrect == Spec => []TypeOK
<1>1. IInv => TypeOK
  <2> SUFFICES ASSUME IInv PROVE TypeOK
    OBVIOUS
  <2>1. \A i \in Peers : peerGuid[i] \in Guids
    BY DEF IInv, GuidInv, Types
  <2> QED BY <2>1, GuidAssumption DEF IInv, TypeOK
<1> QED BY Invariance, <1>1, PTL

(***************************************************************************)
(* "Make sure guids are unique" (Server.lua:321): the peers of a server    *)
(* differ from each other and from the server in their guids, however many *)
(* clients connect, break down, reconnect and report whichever guids.      *)
(***************************************************************************)
THEOREM GuidsAreUnique == Spec => []ServerGuidsUnique
<1>1. IInv => ServerGuidsUnique
  BY DEF IInv, GuidInv, Distinct, ServerGuidsUnique, Peers
<1> QED BY Invariance, <1>1, PTL
----------------------------------------------------------------------------
\* The messages that tell a client of a guid, and the guid.
Tells(m) == m.event \in {"connect2", "newGuid"}
GuidOf(m) == IF m.event = "connect2" THEN m.oldGuid ELSE m.newGuid

\* A process has one open connection, the one it uses; it is not told of its end.
OpenIsLink ==
  \A i \in open : /\ owner[i] \in Clients /\ link[owner[i]] = i
                   /\ \A k \in DOMAIN toClient[i] : toClient[i][k] # Disconnected

\* A guid that does not count as used is that of a machine that never connected.
AllUsed ==
  \A c \in Clients : /\ guid[c] \in InitialGuids \cup cachedGuids
                      /\ otherClients[c] \subseteq cachedGuids
ToldUsed ==
  \A i \in Connections : \A k \in DOMAIN toClient[i] :
    Tells(toClient[i][k]) => GuidOf(toClient[i][k]) \in cachedGuids

\* Why a client never lists itself: of each guid it is told once, as its own or as
\* that of another, and until then the guid is neither.
ToldOnce ==
  \A i, j \in Connections : \A k \in DOMAIN toClient[i], l \in DOMAIN toClient[j] :
    /\ owner[i] = owner[j]
    /\ Tells(toClient[i][k]) /\ Tells(toClient[j][l])
    /\ GuidOf(toClient[i][k]) = GuidOf(toClient[j][l])
    => i = j /\ k = l
ToldBefore ==
  \A i \in Connections : \A c \in Clients, k \in DOMAIN toClient[i] :
    owner[i] = c /\ Tells(toClient[i][k]) =>
      GuidOf(toClient[i][k]) \notin otherClients[c] \cup {guid[c]}

\* Why no two clients adopt one guid: as long as no checksum was freed, it is on its
\* way once, and until then nobody's.
GivenOnce ==
  Server \notin collected =>
    \A i, j \in Connections : \A k \in DOMAIN toClient[i], l \in DOMAIN toClient[j] :
      /\ toClient[i][k].event = "newGuid" /\ toClient[j][l].event = "newGuid"
      /\ toClient[i][k].newGuid = toClient[j][l].newGuid
      => i = j /\ k = l
GivenBefore ==
  Server \notin collected =>
    \A i \in Connections : \A c \in Clients, k \in DOMAIN toClient[i] :
      toClient[i][k].event = "newGuid" => guid[c] # toClient[i][k].newGuid

TellInv ==
  /\ OpenIsLink /\ AllUsed /\ ToldUsed
  /\ ToldOnce /\ ToldBefore /\ GivenOnce /\ GivenBefore
  /\ OthersExcludeSelf

LEMMA InitTellInv == Init => TellInv
<1> SUFFICES ASSUME Init PROVE TellInv
  OBVIOUS
<1>1. \A i \in Connections : toClient[i] = << >> /\ DOMAIN toClient[i] = {}
  BY DEF Init
<1>2. open = {} /\ \A c \in Clients : guid[c] \in InitialGuids /\ otherClients[c] = {}
  BY DEF Init
<1> QED BY <1>1, <1>2 DEF TellInv, OpenIsLink, AllUsed, ToldUsed, ToldOnce,
  ToldBefore, GivenOnce, GivenBefore, OthersExcludeSelf
----------------------------------------------------------------------------
\* What a client is still told of, given what it was to be told of: perhaps its first
\* message is gone, and nothing new.
Left(r, q) ==
  \E n \in {0, 1} : \A k \in DOMAIN r :
    Tells(r[k]) => k + n \in DOMAIN q /\ r[k] = q[k + n]

LEMMA TellingFacts ==
  /\ ~ Tells(Connected) /\ ~ Tells(Disconnected) /\ ~ Tells(Seed) /\ Seed # Disconnected
  /\ Connected # Disconnected /\ Seed.event # "newGuid"
  /\ \A m : Tells(m) => m # Disconnected
  /\ \A g : Tells(Connect2(g)) /\ GuidOf(Connect2(g)) = g /\ Connect2(g).event # "newGuid"
  /\ \A g, h : Tells(NewGuid(g, h)) /\ GuidOf(NewGuid(g, h)) = h
  /\ \A m : m.event = "newGuid" => Tells(m) /\ GuidOf(m) = m.newGuid
BY DEF Tells, GuidOf, Connected, Disconnected, Seed, Connect2, NewGuid, Message

LEMMA LeftFacts ==
  ASSUME NEW q \in Seq(Messages)
  PROVE  /\ Left(q, q)
         /\ q # << >> => Left(Tail(q), q)
         /\ Left(<<Connected>>, q) /\ Left(<<Disconnected>>, q) /\ Left(<< >>, q)
<1>1. Left(q, q)
  <2>1. Len(q) \in Nat /\ DOMAIN q = 1 .. Len(q)
    OBVIOUS
  <2>2. \A k \in DOMAIN q : k + 0 = k
    BY <2>1
  <2> QED BY <2>2 DEF Left
<1>2. ASSUME q # << >> PROVE Left(Tail(q), q)
  <2>1. /\ Len(q) \in Nat \ {0} /\ DOMAIN q = 1 .. Len(q)
        /\ Tail(q) \in Seq(Messages) /\ Len(Tail(q)) = Len(q) - 1
    BY <1>2
  <2>2. \A k \in DOMAIN Tail(q) : k + 1 \in DOMAIN q /\ Tail(q)[k] = q[k + 1]
    BY <1>2, <2>1
  <2> QED BY <2>2 DEF Left
<1>3. ASSUME NEW m, ~ Tells(m) PROVE Left(<<m>>, q)
  <2>1. \A k \in DOMAIN <<m>> : ~ Tells(<<m>>[k])
    BY <1>3
  <2> QED BY <2>1 DEF Left
<1>4. Left(<< >>, q)
  BY DEF Left
<1> QED BY <1>1, <1>2, <1>3, <1>4, TellingFacts

\* Queues that only shrink.
OnlyLeft ==
  \A i \in Connections :
    /\ Left(toClient'[i], toClient[i])
    /\ \A k \in DOMAIN toClient'[i] : Tells(toClient'[i][k]) => owner'[i] = owner[i]

LEMMA WhatIsLeft ==
  ASSUME Types, Types', OnlyLeft
  PROVE  \A i \in Connections : \E n \in {0, 1} : \A k \in DOMAIN toClient'[i] :
           /\ k \in Nat /\ toClient'[i][k] \in Messages
           /\ Tells(toClient'[i][k]) =>
                /\ k + n \in DOMAIN toClient[i] /\ toClient'[i][k] = toClient[i][k + n]
                /\ owner'[i] = owner[i]
<1> SUFFICES ASSUME NEW i \in Connections
             PROVE  \E n \in {0, 1} : \A k \in DOMAIN toClient'[i] :
                      /\ k \in Nat /\ toClient'[i][k] \in Messages
                      /\ Tells(toClient'[i][k]) =>
                           /\ k + n \in DOMAIN toClient[i] /\ toClient'[i][k] = toClient[i][k + n]
                           /\ owner'[i] = owner[i]
  OBVIOUS
<1>1. toClient[i] \in Seq(Messages) /\ toClient'[i] \in Seq(Messages)
  BY DEF Types
<1>2. \A k \in DOMAIN toClient'[i] : k \in Nat /\ toClient'[i][k] \in Messages
  BY <1>1
<1>3. PICK n \in {0, 1} : \A k \in DOMAIN toClient'[i] :
        Tells(toClient'[i][k]) => k + n \in DOMAIN toClient[i] /\ toClient'[i][k] = toClient[i][k + n]
  BY DEF OnlyLeft, Left
<1> QED BY <1>2, <1>3 DEF OnlyLeft

LEMMA LeftTold ==
  ASSUME Types, Types', TellInv, OnlyLeft,
         cachedGuids \subseteq cachedGuids', collected \subseteq collected'
  PROVE  ToldUsed' /\ ToldOnce' /\ GivenOnce'
<1>1. ToldUsed'
  BY WhatIsLeft DEF TellInv, ToldUsed
<1>2. ASSUME NEW i \in Connections, NEW j \in Connections,
             NEW k \in DOMAIN toClient'[i], NEW l \in DOMAIN toClient'[j],
             Tells(toClient'[i][k]), Tells(toClient'[j][l])
      PROVE  \E m \in DOMAIN toClient[i], n \in DOMAIN toClient[j] :
               /\ toClient'[i][k] = toClient[i][m] /\ toClient'[j][l] = toClient[j][n]
               /\ owner'[i] = owner[i] /\ owner'[j] = owner[j]
               /\ i = j /\ m = n => k = l
  <2>1. PICK o \in {0, 1} : \A h \in DOMAIN toClient'[i] :
          /\ h \in Nat
          /\ Tells(toClient'[i][h]) =>
               /\ h + o \in DOMAIN toClient[i] /\ toClient'[i][h] = toClient[i][h + o]
               /\ owner'[i] = owner[i]
    BY WhatIsLeft
  <2>2. CASE i = j
    <3>1. k + o \in DOMAIN toClient[i] /\ l + o \in DOMAIN toClient[j] /\ (k + o = l + o => k = l)
      BY <1>2, <2>1, <2>2
    <3> QED BY <1>2, <2>1, <2>2, <3>1
  <2>3. CASE i # j
    <3>1. PICK p \in {0, 1} : \A h \in DOMAIN toClient'[j] :
            Tells(toClient'[j][h]) =>
              /\ h + p \in DOMAIN toClient[j] /\ toClient'[j][h] = toClient[j][h + p]
              /\ owner'[j] = owner[j]
      BY WhatIsLeft
    <3> QED BY <1>2, <2>1, <2>3, <3>1
  <2> QED BY <2>2, <2>3
<1>3. ToldOnce'
  BY <1>2 DEF TellInv, ToldOnce
<1>4. GivenOnce'
  <2> SUFFICES ASSUME Server \notin collected', NEW i \in Connections, NEW j \in Connections,
                      NEW k \in DOMAIN toClient'[i], NEW l \in DOMAIN toClient'[j],
                      toClient'[i][k].event = "newGuid", toClient'[j][l].event = "newGuid",
                      toClient'[i][k].newGuid = toClient'[j][l].newGuid
               PROVE  i = j /\ k = l
    BY DEF GivenOnce
  <2>1. PICK m \in DOMAIN toClient[i], n \in DOMAIN toClient[j] :
          /\ toClient'[i][k] = toClient[i][m] /\ toClient'[j][l] = toClient[j][n]
          /\ i = j /\ m = n => k = l
    BY <1>2, TellingFacts
  <2> QED BY <2>1 DEF TellInv, GivenOnce
<1> QED BY <1>1, <1>3, <1>4

\* Nothing is added, and the guids of the clients stay.
LEMMA LeftKnown ==
  ASSUME Types, Types', TellInv, OnlyLeft,
         UNCHANGED guid, cachedGuids \subseteq cachedGuids', collected \subseteq collected',
         \A c \in Clients : otherClients'[c] \subseteq otherClients[c]
  PROVE  /\ AllUsed' /\ ToldUsed' /\ ToldOnce' /\ ToldBefore'
         /\ GivenOnce' /\ GivenBefore' /\ OthersExcludeSelf'
<1>1. AllUsed' /\ OthersExcludeSelf'
  BY DEF TellInv, AllUsed, OthersExcludeSelf
<1>2. ToldBefore'
  BY WhatIsLeft DEF TellInv, ToldBefore
<1>3. GivenBefore'
  BY WhatIsLeft, TellingFacts DEF TellInv, GivenBefore
<1> QED BY <1>1, <1>2, <1>3, LeftTold
----------------------------------------------------------------------------
\* A connection with this queue is told of a new guid, once and only if it is open.
ToldNew(r, q, isOpen, new) ==
  /\ \A k \in DOMAIN r :
       \/ k \in DOMAIN q /\ r[k] = q[k]
       \/ /\ k \notin DOMAIN q /\ isOpen /\ r[k] # Disconnected
          /\ Tells(r[k]) => GuidOf(r[k]) = new
  /\ \A k, l \in DOMAIN r \ DOMAIN q : Tells(r[k]) /\ Tells(r[l]) => k = l

\* A message joins a queue, or none.
LEMMA JoinFacts ==
  ASSUME NEW q \in Seq(Messages), NEW m \in Messages, NEW a, a = << >> \/ a = <<m>>
  PROVE  /\ q \o a \in Seq(Messages) /\ DOMAIN q \subseteq DOMAIN (q \o a)
         /\ \A k \in DOMAIN (q \o a) :
              \/ k \in DOMAIN q /\ (q \o a)[k] = q[k]
              \/ k \notin DOMAIN q /\ k = Len(q) + 1 /\ (q \o a)[k] = m /\ a = <<m>>
<1>1. CASE a = <<m>>
  <2> DEFINE r == q \o <<m>>
  <2>1. /\ r \in Seq(Messages) /\ Len(q) \in Nat
        /\ DOMAIN q = 1 .. Len(q) /\ DOMAIN r = 1 .. Len(q) + 1
        /\ \A k \in 1 .. Len(q) : r[k] = q[k]
        /\ r[Len(q) + 1] = m
    OBVIOUS
  <2> HIDE DEF r
  <2>2. DOMAIN q \subseteq DOMAIN r
    BY <2>1
  <2>3. ASSUME NEW k \in DOMAIN r
        PROVE  \/ k \in DOMAIN q /\ r[k] = q[k]
               \/ k \notin DOMAIN q /\ k = Len(q) + 1 /\ r[k] = m
    BY <2>1
  <2> QED BY <1>1, <2>1, <2>2, <2>3 DEF r
<1>2. CASE a = << >>
  <2>1. q \o a = q
    BY <1>2
  <2> QED BY <2>1
<1> QED BY <1>1, <1>2

LEMMA NewIsTold ==
  ASSUME Types, TellInv, NEW new \in Drawn \ cachedGuids,
         cachedGuids \subseteq cachedGuids', new \in cachedGuids',
         UNCHANGED <<guid, otherClients, owner, open, link, collected>>,
         \A j \in Connections : ToldNew(toClient'[j], toClient[j], j \in open, new),
         Server \notin collected =>
           \A i, j \in Connections :
             \A k \in DOMAIN toClient'[i] \ DOMAIN toClient[i],
                l \in DOMAIN toClient'[j] \ DOMAIN toClient[j] :
               toClient'[i][k].event = "newGuid" /\ toClient'[j][l].event = "newGuid" => i = j
  PROVE  TellInv'
<1>1. /\ \A c \in Clients : guid[c] # new /\ new \notin otherClients[c]
      /\ \A i \in Connections : \A k \in DOMAIN toClient[i] :
           Tells(toClient[i][k]) => GuidOf(toClient[i][k]) # new
  BY NewGuidAssumption DEF TellInv, AllUsed, ToldUsed
<1>2. AllUsed' /\ OthersExcludeSelf'
  BY DEF TellInv, AllUsed, OthersExcludeSelf
<1>9. OpenIsLink'
  BY DEF Types, TellInv, OpenIsLink, ToldNew
<1>3. \A i, j \in open : owner[i] = owner[j] => i = j
  BY DEF TellInv, OpenIsLink
<1>4. ToldUsed'
  BY DEF TellInv, ToldUsed, ToldNew
<1>5. ToldOnce'
  <2> SUFFICES ASSUME NEW i \in Connections, NEW j \in Connections,
                      NEW k \in DOMAIN toClient'[i], NEW l \in DOMAIN toClient'[j],
                      owner[i] = owner[j],
                      Tells(toClient'[i][k]), Tells(toClient'[j][l]),
                      GuidOf(toClient'[i][k]) = GuidOf(toClient'[j][l])
               PROVE  i = j /\ k = l
    BY DEF ToldOnce
  <2>1. CASE k \in DOMAIN toClient[i] /\ l \in DOMAIN toClient[j]
    BY <2>1 DEF ToldNew, TellInv, ToldOnce
  <2>2. CASE k \notin DOMAIN toClient[i] /\ l \notin DOMAIN toClient[j]
    <3>1. i \in open /\ j \in open
      BY <2>2 DEF ToldNew
    <3> QED BY <1>3, <2>2, <3>1 DEF ToldNew
  <2>3. ~ (k \in DOMAIN toClient[i] /\ l \notin DOMAIN toClient[j])
    BY <1>1 DEF ToldNew
  <2>4. ~ (k \notin DOMAIN toClient[i] /\ l \in DOMAIN toClient[j])
    BY <1>1 DEF ToldNew
  <2> QED BY <2>1, <2>2, <2>3, <2>4
<1>6. ToldBefore'
  BY <1>1 DEF TellInv, ToldBefore, ToldNew
<1>7. GivenOnce'
  <2> SUFFICES ASSUME Server \notin collected, NEW i \in Connections, NEW j \in Connections,
                      NEW k \in DOMAIN toClient'[i], NEW l \in DOMAIN toClient'[j],
                      toClient'[i][k].event = "newGuid", toClient'[j][l].event = "newGuid",
                      toClient'[i][k].newGuid = toClient'[j][l].newGuid
               PROVE  i = j /\ k = l
    BY DEF GivenOnce
  <2>0. /\ Tells(toClient'[i][k]) /\ Tells(toClient'[j][l])
        /\ GuidOf(toClient'[i][k]) = GuidOf(toClient'[j][l])
    BY TellingFacts
  <2>1. CASE k \in DOMAIN toClient[i] /\ l \in DOMAIN toClient[j]
    BY <2>0, <2>1 DEF ToldNew, TellInv, GivenOnce
  <2>2. CASE k \notin DOMAIN toClient[i] /\ l \notin DOMAIN toClient[j]
    BY <2>0, <2>2 DEF ToldNew
  <2>3. ~ (k \in DOMAIN toClient[i] /\ l \notin DOMAIN toClient[j])
    BY <1>1, <2>0 DEF ToldNew
  <2>4. ~ (k \notin DOMAIN toClient[i] /\ l \in DOMAIN toClient[j])
    BY <1>1, <2>0 DEF ToldNew
  <2> QED BY <2>1, <2>2, <2>3, <2>4
<1>8. GivenBefore'
  BY <1>1, TellingFacts DEF TellInv, GivenBefore, ToldNew
<1> QED BY <1>2, <1>4, <1>5, <1>6, <1>7, <1>8, <1>9 DEF TellInv
----------------------------------------------------------------------------
\* A loop reaches its targets only, and one at most if no checksum was freed.
LEMMA RecipientsFacts ==
  ASSUME NEW targets, NEW R \in Recipients(Server, TRUE, targets)
  PROVE  /\ \A j \in R : \E k \in DOMAIN targets : targets[k] = j
         /\ Server \notin collected => \A i, j \in R : i = j
<1>1. CASE Server \in collected
  BY <1>1 DEF Recipients
<1>2. CASE Server \notin collected
  <2>1. R = {targets[i] : i \in DOMAIN targets \cap {1}}
    BY <1>2 DEF Recipients
  <2> QED BY <1>2, <2>1
<1> QED BY <1>1, <1>2

LEMMA ServerOnConnectTells ==
  ASSUME IInv, TellInv, Types', Distinct', NEW i \in Connections, ServerOnConnect(i)
  PROVE  TellInv'
<1>0. PICK new \in Guids :
        \E R1 \in Recipients(Server, TRUE, <<i>>),
           R2 \in Recipients(Server, ~ seedSent, <<i>>),
           R3 \in Recipients(Server, TRUE, But(clients', i)) :
          /\ getGuid(new, ServerGuid)
          /\ peerGuid' = [peerGuid EXCEPT ![i] = new]
          /\ seedSent' = (seedSent \/ i \in R2)
          /\ toClient' = [j \in Connections |->
               toClient[j] \o Deliver(j, j = i /\ i \in R1, NewGuid(ServerGuid, new))
                 \o Deliver(j, j = i /\ i \in R2, Seed)
                 \o Deliver(j, j \in R3, Connect2(new))]
  BY DEF ServerOnConnect
<1>1. PICK R1 \in Recipients(Server, TRUE, <<i>>),
           R2 \in Recipients(Server, ~ seedSent, <<i>>),
           R3 \in Recipients(Server, TRUE, But(clients', i)) :
        /\ getGuid(new, ServerGuid)
        /\ peerGuid' = [peerGuid EXCEPT ![i] = new]
        /\ seedSent' = (seedSent \/ i \in R2)
        /\ toClient' = [j \in Connections |->
             toClient[j] \o Deliver(j, j = i /\ i \in R1, NewGuid(ServerGuid, new))
               \o Deliver(j, j = i /\ i \in R2, Seed)
               \o Deliver(j, j \in R3, Connect2(new))]
  BY <1>0
<1>2. i \notin R3
  <2>1. clients' \in Seq(Connections) /\ \A j, k \in DOMAIN clients' : clients'[j] = clients'[k] => j = k
    BY DEF Types, Distinct
  <2>2. \A k \in DOMAIN But(clients', i) : But(clients', i)[k] # i
    BY <2>1, ButFacts
  <2>3. \A j \in R3 : \E k \in DOMAIN But(clients', i) : But(clients', i)[k] = j
    BY RecipientsFacts
  <2> QED BY <2>2, <2>3
<1>3. ASSUME NEW j \in Connections
      PROVE  /\ ToldNew(toClient'[j], toClient[j], j \in open, new)
             /\ \A k \in DOMAIN toClient'[j] \ DOMAIN toClient[j] :
                  toClient'[j][k].event = "newGuid" => j = i
  <2> DEFINE q == toClient[j]
             a1 == Deliver(j, j = i /\ i \in R1, NewGuid(ServerGuid, new))
             a2 == Deliver(j, j = i /\ i \in R2, Seed)
             a3 == Deliver(j, j \in R3, Connect2(new))
             q1 == q \o a1
             q2 == q1 \o a2
             r == q2 \o a3
  <2>1. /\ q \in Seq(Messages) /\ toClient'[j] = r /\ Connect2(new) \in Messages
        /\ NewGuid(ServerGuid, new) \in Messages /\ Seed \in Messages
    BY <1>1, MessageFacts, GuidAssumption DEF IInv, Types
  <2>a. /\ a1 = << >> \/ (a1 = <<NewGuid(ServerGuid, new)>> /\ j \in open /\ j = i)
        /\ a2 = << >> \/ (a2 = <<Seed>> /\ j \in open)
        /\ a3 = << >> \/ (a3 = <<Connect2(new)>> /\ j \in open /\ j \in R3)
    BY DEF Deliver
  <2>b. /\ a1 = <<NewGuid(ServerGuid, new)>> => j \in open /\ j = i
        /\ a3 = <<Connect2(new)>> => j \in open /\ j # i
    BY <1>2, <2>a
  <2> HIDE DEF a1, a2, a3
  <2>2. /\ q1 \in Seq(Messages) /\ DOMAIN q \subseteq DOMAIN q1
        /\ \A k \in DOMAIN q1 :
             \/ k \in DOMAIN q /\ q1[k] = q[k]
             \/ /\ k \notin DOMAIN q /\ k = Len(q) + 1 /\ j \in open /\ j = i
                /\ q1[k] = NewGuid(ServerGuid, new)
    BY <2>1, <2>a, <2>b, JoinFacts
  <2> HIDE DEF q1
  <2>3. /\ q2 \in Seq(Messages) /\ DOMAIN q1 \subseteq DOMAIN q2
        /\ \A k \in DOMAIN q2 :
             \/ k \in DOMAIN q1 /\ q2[k] = q1[k]
             \/ k \notin DOMAIN q1 /\ q2[k] = Seed /\ j \in open
    BY <2>1, <2>2, <2>a, JoinFacts
  <2> HIDE DEF q2
  <2>4. /\ r \in Seq(Messages) /\ DOMAIN q2 \subseteq DOMAIN r
        /\ \A k \in DOMAIN r :
             \/ k \in DOMAIN q2 /\ r[k] = q2[k]
             \/ k \notin DOMAIN q2 /\ k = Len(q2) + 1 /\ j \in open /\ j # i /\ r[k] = Connect2(new)
    BY <2>1, <2>3, <2>a, <2>b, JoinFacts
  <2> HIDE DEF r, q
  <2>5. ASSUME NEW k \in DOMAIN r
        PROVE  \/ k \in DOMAIN q /\ r[k] = q[k]
               \/ /\ k \notin DOMAIN q /\ k = Len(q) + 1 /\ j \in open /\ j = i
                  /\ r[k] = NewGuid(ServerGuid, new)
               \/ /\ k \notin DOMAIN q /\ k = Len(q2) + 1 /\ j \in open /\ j # i
                  /\ r[k] = Connect2(new)
               \/ k \notin DOMAIN q /\ j \in open /\ r[k] = Seed
    <3>1. CASE k \in DOMAIN q1
      BY <2>2, <2>3, <2>4, <3>1
    <3>2. CASE k \notin DOMAIN q1 /\ k \in DOMAIN q2
      BY <2>2, <2>3, <2>4, <3>2
    <3>3. CASE k \notin DOMAIN q2
      BY <2>2, <2>3, <2>4, <3>3
    <3> QED BY <3>1, <3>2, <3>3
  <2>6. ToldNew(r, q, j \in open, new)
    BY <2>5, TellingFacts DEF ToldNew
  <2>7. ASSUME NEW k \in DOMAIN r \ DOMAIN q, r[k].event = "newGuid" PROVE j = i
    BY <2>5, <2>7, TellingFacts
  <2> QED BY <2>1, <2>6, <2>7 DEF q
<1>4. /\ new \in Drawn \ cachedGuids /\ cachedGuids \subseteq cachedGuids' /\ new \in cachedGuids'
      /\ UNCHANGED <<guid, otherClients, owner, open, link, collected>>
  BY <1>1 DEF getGuid, ServerOnConnect, client
<1> QED BY <1>3, <1>4, NewIsTold DEF IInv

LEMMA ServerOnPlayerInfoTakenTells ==
  ASSUME IInv, TellInv, NEW i \in Connections, ServerOnPlayerInfoTaken(i)
  PROVE  TellInv'
<1> DEFINE g == Head(toServer[i]).oldGuid
<1>0. g \in Guids
  BY QueuesLeft, MessageFacts DEF ServerOnPlayerInfoTaken, IInv
<1>1. PICK new \in Guids, R \in Recipients(Server, TRUE, clients) :
        /\ getGuid(new, g)
        /\ toClient' = [j \in Connections |-> toClient[j] \o Deliver(j, j \in R, NewGuid(g, new))]
  BY DEF ServerOnPlayerInfoTaken
<1>2. UNCHANGED <<guid, otherClients, owner, open, link, collected>>
  BY DEF ServerOnPlayerInfoTaken, client
<1> HIDE DEF g
<1>3. ASSUME NEW j \in Connections
      PROVE  /\ ToldNew(toClient'[j], toClient[j], j \in open, new)
             /\ \A k \in DOMAIN toClient'[j] \ DOMAIN toClient[j] : j \in R
  <2> DEFINE q == toClient[j]
             a == Deliver(j, j \in R, NewGuid(g, new))
             r == q \o a
  <2>1. q \in Seq(Messages) /\ toClient'[j] = r /\ NewGuid(g, new) \in Messages
    BY <1>0, <1>1, MessageFacts DEF IInv, Types
  <2>a. a = << >> \/ (a = <<NewGuid(g, new)>> /\ j \in open /\ j \in R)
    BY DEF Deliver
  <2> HIDE DEF a
  <2>2. \A k \in DOMAIN r :
          \/ k \in DOMAIN q /\ r[k] = q[k]
          \/ k \notin DOMAIN q /\ k = Len(q) + 1 /\ r[k] = NewGuid(g, new) /\ j \in open /\ j \in R
    BY <2>1, <2>a, JoinFacts
  <2> HIDE DEF r, q
  <2>3. ToldNew(r, q, j \in open, new)
    BY <2>2, TellingFacts DEF ToldNew
  <2> QED BY <2>1, <2>2, <2>3 DEF q
<1>4. Server \notin collected => \A j, k \in R : j = k
  BY <1>1, RecipientsFacts
<1>5. new \in Drawn \ cachedGuids /\ cachedGuids \subseteq cachedGuids' /\ new \in cachedGuids'
  BY <1>1 DEF getGuid
<1> QED BY <1>2, <1>3, <1>4, <1>5, NewIsTold DEF IInv
----------------------------------------------------------------------------
\* A client takes its next message.
LEMMA TailLeft ==
  ASSUME Types, NEW i \in Connections, toClient[i] # << >>,
         toClient' = [toClient EXCEPT ![i] = Tail(@)], UNCHANGED owner
  PROVE  /\ OnlyLeft
         /\ 1 \in DOMAIN toClient[i] /\ toClient[i][1] = Head(toClient[i])
         /\ \A k \in DOMAIN toClient'[i] :
              k + 1 # 1 /\ k + 1 \in DOMAIN toClient[i] /\ toClient'[i][k] = toClient[i][k + 1]
         /\ \A j \in Connections \ {i} : toClient'[j] = toClient[j]
<1> DEFINE q == toClient[i]
<1>1. q \in Seq(Messages) /\ toClient'[i] = Tail(q)
  BY DEF Types
<1>2. \A j \in Connections \ {i} : toClient'[j] = toClient[j]
  BY DEF Types
<1>3. /\ 1 \in DOMAIN q /\ q[1] = Head(q)
      /\ \A k \in DOMAIN Tail(q) : k + 1 # 1 /\ k + 1 \in DOMAIN q /\ Tail(q)[k] = q[k + 1]
  <2>1. /\ Len(q) \in Nat \ {0} /\ DOMAIN q = 1 .. Len(q) /\ Head(q) = q[1]
        /\ Tail(q) \in Seq(Messages) /\ Len(Tail(q)) = Len(q) - 1
    BY <1>1
  <2>2. \A k \in DOMAIN Tail(q) : k + 1 # 1 /\ k + 1 \in DOMAIN q /\ Tail(q)[k] = q[k + 1]
    BY <1>1, <2>1
  <2> QED BY <2>1, <2>2
<1>4. ASSUME NEW j \in Connections PROVE Left(toClient'[j], toClient[j])
  <2>1. toClient[j] \in Seq(Messages)
    BY DEF Types
  <2> QED BY <1>1, <1>2, <2>1, LeftFacts
<1>5. OnlyLeft
  BY <1>4 DEF OnlyLeft
<1> QED BY <1>1, <1>2, <1>3, <1>5

\* It is told of a guid: it adopts it, or counts it among the others.
LEMMA HeadTaken ==
  ASSUME Types, Types', TellInv, NEW c \in Clients, NEW i \in Connections, owner[i] = c,
         toClient[i] # << >>, toClient' = [toClient EXCEPT ![i] = Tail(@)],
         NEW m, m = Head(toClient[i]), Tells(m),
         UNCHANGED <<owner, open, link, cachedGuids, collected>>,
         \A d \in Clients \ {c} : guid'[d] = guid[d] /\ otherClients'[d] = otherClients[d],
         \/ guid'[c] = guid[c] /\ otherClients'[c] \subseteq otherClients[c] \cup {GuidOf(m)}
         \/ /\ m.event = "newGuid"
            /\ guid'[c] = GuidOf(m) /\ otherClients'[c] = otherClients[c]
  PROVE  TellInv'
<1> DEFINE x == GuidOf(m)
<1>1. /\ 1 \in DOMAIN toClient[i] /\ toClient[i][1] = m
      /\ \A k \in DOMAIN toClient'[i] :
           k + 1 # 1 /\ k + 1 \in DOMAIN toClient[i] /\ toClient'[i][k] = toClient[i][k + 1]
      /\ \A j \in Connections \ {i} : toClient'[j] = toClient[j]
  BY TailLeft
<1>2. x \in cachedGuids /\ x \notin otherClients[c] \cup {guid[c]}
  BY <1>1 DEF TellInv, ToldUsed, ToldBefore
<1>3. ASSUME NEW j \in Connections, NEW k \in DOMAIN toClient'[j], Tells(toClient'[j][k])
      PROVE  /\ \E l \in DOMAIN toClient[j] : toClient'[j][k] = toClient[j][l] /\ (j = i => l # 1)
             /\ owner[j] = c => GuidOf(toClient'[j][k]) # x
             /\ /\ Server \notin collected
                /\ toClient'[j][k].event = "newGuid" /\ m.event = "newGuid"
                => GuidOf(toClient'[j][k]) # x
  <2>1. PICK l \in DOMAIN toClient[j] : toClient'[j][k] = toClient[j][l] /\ (j = i => l # 1)
    BY <1>1
  <2>2. owner[j] = c => GuidOf(toClient'[j][k]) # x
    BY <1>1, <1>3, <2>1 DEF TellInv, ToldOnce
  <2>3. /\ Server \notin collected
        /\ toClient'[j][k].event = "newGuid" /\ m.event = "newGuid"
        => GuidOf(toClient'[j][k]) # x
    BY <1>1, <2>1, TellingFacts DEF TellInv, GivenOnce
  <2> QED BY <2>1, <2>2, <2>3
<1>4. /\ \A d \in Clients : guid'[d] = guid[d] \/ (d = c /\ m.event = "newGuid" /\ guid'[d] = x)
      /\ \A d \in Clients : \A g \in otherClients'[d] :
           g \in otherClients[d] \/ (d = c /\ g = x)
  OBVIOUS
<1>5. OthersExcludeSelf'
  <2>1. \A d \in Clients : guid'[d] \notin otherClients'[d]
    BY <1>2 DEF TellInv, OthersExcludeSelf
  <2> QED BY <2>1 DEF OthersExcludeSelf
<1> HIDE DEF x
<1>6. AllUsed'
  BY <1>2, <1>4 DEF TellInv, AllUsed
<1>7. ToldBefore'
  BY <1>3, <1>4 DEF TellInv, ToldBefore
<1>8. GivenBefore'
  BY <1>3, <1>4, TellingFacts DEF TellInv, GivenBefore
<1>9. OpenIsLink'
  BY <1>1 DEF TellInv, OpenIsLink, Types
<1>10. ToldUsed' /\ ToldOnce' /\ GivenOnce'
  BY TailLeft, LeftTold
<1> QED BY <1>5, <1>6, <1>7, <1>8, <1>9, <1>10 DEF TellInv

LEMMA ClientTells ==
  ASSUME Types, Types', TellInv, NEW c \in Clients, NEW i \in Connections,
         \/ ClientOnConnect(c, i) \/ ClientOnSeed(c, i) \/ ClientOnConnect2(c, i)
         \/ ClientOnNewGuid(c, i) \/ ClientOnDisconnect(c, i)
  PROVE  TellInv'
<1> DEFINE m == Head(toClient[i])
<1>1. /\ owner[i] = c /\ toClient[i] # << >>
      /\ toClient' = [toClient EXCEPT ![i] = Tail(@)]
      /\ UNCHANGED <<owner, open, cachedGuids, collected>>
  BY DEF ClientOnConnect, ClientOnSeed, ClientOnConnect2, ClientOnNewGuid,
         ClientOnDisconnect, Takes, server
<1>2. CASE ClientOnConnect(c, i) \/ ClientOnSeed(c, i)
  <2>1. UNCHANGED <<guid, otherClients, link>>
    BY <1>2 DEF ClientOnConnect, ClientOnSeed
  <2>2. OpenIsLink'
    BY <1>1, <2>1, TailLeft DEF TellInv, OpenIsLink, Types
  <2> QED BY <1>1, <2>1, <2>2, TailLeft, LeftKnown DEF TellInv
<1>3. CASE ClientOnConnect2(c, i)
  <2>1. /\ m.event = "connect2" /\ UNCHANGED <<guid, link>>
        /\ otherClients' = [otherClients EXCEPT ![c] = @ \cup {m.oldGuid}]
    BY <1>3 DEF ClientOnConnect2, Takes
  <2>2. Tells(m) /\ GuidOf(m) = m.oldGuid
    BY <2>1 DEF Tells, GuidOf
  <2>3. /\ otherClients'[c] \subseteq otherClients[c] \cup {GuidOf(m)}
        /\ \A d \in Clients \ {c} : otherClients'[d] = otherClients[d]
    BY <2>1, <2>2 DEF Types
  <2> QED BY <1>1, <2>1, <2>2, <2>3, HeadTaken
<1>4. CASE ClientOnNewGuid(c, i)
  <2>1. m.event = "newGuid" /\ UNCHANGED link
    BY <1>4 DEF ClientOnNewGuid, Takes
  <2>2. Tells(m) /\ GuidOf(m) = m.newGuid
    BY <2>1 DEF Tells, GuidOf
  <2>3. \/ UNCHANGED otherClients /\ guid' = [guid EXCEPT ![c] = m.newGuid]
        \/ /\ UNCHANGED guid
           /\ otherClients' = [otherClients EXCEPT ![c] =
                {IF g = m.oldGuid THEN m.newGuid ELSE g : g \in @}]
    BY <1>4 DEF ClientOnNewGuid
  <2>4. /\ \A d \in Clients \ {c} : guid'[d] = guid[d] /\ otherClients'[d] = otherClients[d]
        /\ \/ guid'[c] = guid[c] /\ otherClients'[c] \subseteq otherClients[c] \cup {GuidOf(m)}
           \/ guid'[c] = GuidOf(m) /\ otherClients'[c] = otherClients[c]
    <3> HIDE DEF m
    <3>1. CASE UNCHANGED otherClients /\ guid' = [guid EXCEPT ![c] = m.newGuid]
      BY <2>2, <3>1 DEF Types
    <3>2. CASE /\ UNCHANGED guid
               /\ otherClients' = [otherClients EXCEPT ![c] =
                    {IF g = m.oldGuid THEN m.newGuid ELSE g : g \in @}]
      <4>1. otherClients'[c] = {IF g = m.oldGuid THEN m.newGuid ELSE g : g \in otherClients[c]}
        BY <3>2 DEF Types
      <4>2. otherClients'[c] \subseteq otherClients[c] \cup {m.newGuid}
        BY <4>1
      <4> QED BY <2>2, <3>2, <4>2 DEF Types
    <3> QED BY <2>3, <3>1, <3>2
  <2> QED BY <1>1, <2>1, <2>2, <2>4, HeadTaken
<1>5. CASE ClientOnDisconnect(c, i)
  <2>1. /\ UNCHANGED guid
        /\ otherClients' = [otherClients EXCEPT ![c] = {}] \/ UNCHANGED otherClients
        /\ link' = [link EXCEPT ![c] = IF @ = i THEN NoConnection ELSE @]
        /\ m.event = "disconnect"
    BY <1>5 DEF ClientOnDisconnect, Takes
  <2>2. \A d \in Clients : otherClients'[d] \subseteq otherClients[d]
    BY <2>1 DEF Types
  <2>3. m = Disconnected
    <3>1. m \in Messages
      BY <1>1, QueuesLeft
    <3> QED BY <2>1, <3>1 DEF Messages, Connected, Disconnected, Seed, PlayerInfo, Connect2, NewGuid, Message
  <2>4. i \notin open
    <3>1. 1 \in DOMAIN toClient[i] /\ toClient[i][1] = m
      BY <1>1, TailLeft
    <3> QED BY <2>3, <3>1 DEF TellInv, OpenIsLink
  <2>5. OpenIsLink'
    <3> SUFFICES ASSUME NEW j \in open
                 PROVE  /\ owner[j] \in Clients /\ link'[owner[j]] = j
                        /\ \A k \in DOMAIN toClient'[j] : toClient'[j][k] # Disconnected
      BY <1>1 DEF OpenIsLink
    <3>1. /\ j \in Connections /\ j # i /\ owner[j] \in Clients /\ link[owner[j]] = j
          /\ \A k \in DOMAIN toClient[j] : toClient[j][k] # Disconnected
      BY <2>4 DEF TellInv, OpenIsLink, Types
    <3>2. link'[owner[j]] = j
      BY <2>1, <3>1 DEF Types
    <3>3. toClient'[j] = toClient[j]
      BY <1>1, <3>1 DEF Types
    <3> QED BY <3>1, <3>2, <3>3
  <2> QED BY <1>1, <2>1, <2>2, <2>5, TailLeft, LeftKnown DEF TellInv
<1> QED BY <1>2, <1>3, <1>4, <1>5

\* The end of connections is all that is told of them.
LEMMA DownLeft ==
  ASSUME Types, NEW gone, UNCHANGED owner,
         \A j \in Connections :
           toClient'[j] \in {toClient[j], << >>, <<Disconnected>>, <<Connected>>}
  PROVE  OnlyLeft
<1>1. ASSUME NEW j \in Connections PROVE Left(toClient'[j], toClient[j])
  <2>1. toClient[j] \in Seq(Messages)
    BY DEF Types
  <2> QED BY <2>1, LeftFacts
<1> QED BY <1>1 DEF OnlyLeft

LEMMA ElsewhereTells ==
  ASSUME Types, Types', TellInv,
         \/ \E i \in Connections :
              ServerOnPlayerInfo(i) \/ ServerOnDisconnect(i) \/ TimeOut(i)
         \/ \E c \in Clients : Connect(c) \/ Disconnect(c) \/ Restart(c) \/ CollectAtClient(c)
         \/ CollectAtServer
  PROVE  TellInv'
<1>1. ASSUME NEW i \in Connections, ServerOnPlayerInfo(i) \/ ServerOnDisconnect(i) PROVE TellInv'
  <2>1. /\ UNCHANGED <<guid, otherClients, link, owner, open, toClient, collected>>
        /\ cachedGuids \subseteq cachedGuids'
    BY <1>1 DEF ServerOnPlayerInfo, ServerOnDisconnect, client
  <2>2. OnlyLeft
    BY <2>1, DownLeft
  <2>3. OpenIsLink'
    BY <2>1 DEF TellInv, OpenIsLink
  <2> QED BY <2>1, <2>2, <2>3, LeftKnown DEF TellInv
<1>2. ASSUME NEW i \in Connections, TimeOut(i) PROVE TellInv'
  <2>1. /\ UNCHANGED <<guid, otherClients, link, owner, cachedGuids, collected>>
        /\ open' = open \ {i} /\ toClient' = DownAtClient({i})
    BY <1>2 DEF TimeOut, server, client
  <2>2. \A j \in Connections : toClient'[j] = IF j = i THEN <<Disconnected>> ELSE toClient[j]
    BY <2>1 DEF DownAtClient
  <2>3. OnlyLeft
    BY <2>1, <2>2, DownLeft
  <2>4. OpenIsLink'
    <3>1. \A j \in open \ {i} : toClient'[j] = toClient[j]
      BY <2>2 DEF Types
    <3> QED BY <2>1, <3>1 DEF TellInv, OpenIsLink
  <2> QED BY <2>1, <2>3, <2>4, LeftKnown DEF TellInv
<1>3. ASSUME NEW c \in Clients, Disconnect(c) \/ Restart(c) PROVE TellInv'
  <2>1. /\ UNCHANGED <<guid, owner, cachedGuids, collected>>
        /\ open' = open \ {link[c]} /\ link' = [link EXCEPT ![c] = NoConnection]
        /\ otherClients' = [otherClients EXCEPT ![c] = {}] \/ UNCHANGED otherClients
    BY <1>3 DEF Disconnect, Restart, server
  <2>2. \A j \in Connections :
          /\ toClient'[j] \in {toClient[j], << >>, <<Disconnected>>}
          /\ j \in open \ {link[c]} => toClient'[j] \in {toClient[j], << >>}
    <3>1. CASE Disconnect(c)
      <4>1. \A j \in Connections :
              toClient'[j] = IF j \in open \cap {link[c]} THEN <<Disconnected>> ELSE toClient[j]
        BY <3>1 DEF Disconnect, DownAtClient
      <4> QED BY <4>1
    <3>2. CASE Restart(c)
      <4>1. \A j \in Connections : toClient'[j] = IF owner[j] = c THEN << >> ELSE toClient[j]
        BY <3>2 DEF Restart
      <4> QED BY <4>1
    <3> QED BY <1>3, <3>1, <3>2
  <2>3. OnlyLeft
    BY <2>1, <2>2, DownLeft
  <2>4. ASSUME NEW j \in open \ {link[c]}
        PROVE  /\ owner[j] \in Clients /\ link'[owner[j]] = j
               /\ \A k \in DOMAIN toClient'[j] : toClient'[j][k] # Disconnected
    <3>1. /\ j \in Connections /\ owner[j] \in Clients /\ link[owner[j]] = j
          /\ \A k \in DOMAIN toClient[j] : toClient[j][k] # Disconnected
      BY DEF TellInv, OpenIsLink, Types
    <3>2. link'[owner[j]] = j
      BY <2>1, <3>1 DEF Types
    <3>3. \A k \in DOMAIN << >> : << >>[k] # Disconnected
      OBVIOUS
    <3> QED BY <2>2, <3>1, <3>2, <3>3
  <2>5. OpenIsLink'
    BY <2>1, <2>4 DEF OpenIsLink
  <2>6. \A d \in Clients : otherClients'[d] \subseteq otherClients[d]
    BY <2>1 DEF Types
  <2> QED BY <2>1, <2>3, <2>5, <2>6, LeftKnown DEF TellInv
<1>4. ASSUME NEW c \in Clients, Connect(c) PROVE TellInv'
  <2>1. PICK i \in Connections :
          /\ owner[i] = Nobody
          /\ owner' = [owner EXCEPT ![i] = c]
          /\ open' = (open \ {link[c]}) \cup {i}
          /\ toClient' = [DownAtClient(open \cap {link[c]}) EXCEPT ![i] = <<Connected>>]
          /\ link' = [link EXCEPT ![c] = i]
          /\ UNCHANGED <<cachedGuids, guid, otherClients, collected>>
    BY <1>4 DEF Connect, server
  <2>2. \A j \in Connections :
          /\ toClient'[j] \in {toClient[j], <<Disconnected>>, <<Connected>>}
          /\ j = i => toClient'[j] = <<Connected>>
          /\ j \in open \ {link[c], i} => toClient'[j] = toClient[j]
          /\ j # i => owner'[j] = owner[j]
    BY <2>1 DEF DownAtClient, Types
  <2>3. OnlyLeft
    <3>1. ASSUME NEW j \in Connections PROVE Left(toClient'[j], toClient[j])
      <4>1. toClient[j] \in Seq(Messages)
        BY DEF Types
      <4> QED BY <2>2, <4>1, LeftFacts
    <3>2. \A k \in DOMAIN toClient'[i] : ~ Tells(toClient'[i][k])
      <4>1. \A k \in DOMAIN <<Connected>> : <<Connected>>[k] = Connected
        OBVIOUS
      <4> QED BY <2>2, <4>1, TellingFacts
    <3> QED BY <2>2, <3>1, <3>2 DEF OnlyLeft
  <2>4. ASSUME NEW j \in (open \ {link[c]}) \cup {i}
        PROVE  /\ owner'[j] \in Clients /\ link'[owner'[j]] = j
               /\ \A k \in DOMAIN toClient'[j] : toClient'[j][k] # Disconnected
    <3>1. CASE j = i
      <4>1. \A k \in DOMAIN <<Connected>> : <<Connected>>[k] # Disconnected
        BY TellingFacts
      <4> QED BY <2>1, <2>2, <3>1, <4>1 DEF Types
    <3>2. CASE j # i
      <4>1. /\ j \in Connections /\ owner[j] \in Clients /\ link[owner[j]] = j
            /\ \A k \in DOMAIN toClient[j] : toClient[j][k] # Disconnected
            /\ j # link[c]
        BY <3>2 DEF TellInv, OpenIsLink, Types
      <4>2. link'[owner[j]] = j
        BY <2>1, <4>1 DEF Types
      <4> QED BY <2>2, <3>2, <4>1, <4>2
    <3> QED BY <3>1, <3>2
  <2>5. OpenIsLink'
    BY <2>1, <2>4 DEF OpenIsLink
  <2> QED BY <2>1, <2>3, <2>5, LeftKnown DEF TellInv
<1>5. ASSUME CollectAtServer \/ \E c \in Clients : CollectAtClient(c) PROVE TellInv'
  <2>1. /\ UNCHANGED <<guid, otherClients, link, owner, open, toClient, cachedGuids>>
        /\ collected \subseteq collected'
    BY <1>5 DEF CollectAtServer, CollectAtClient, server, client, network
  <2>2. OnlyLeft
    BY <2>1, DownLeft
  <2>3. OpenIsLink'
    BY <2>1 DEF TellInv, OpenIsLink
  <2> QED BY <2>1, <2>2, <2>3, LeftKnown DEF TellInv
<1> QED BY <1>1, <1>2, <1>3, <1>4, <1>5

LEMMA StepTellInv == IInv /\ IInv' /\ TellInv /\ [Next]_vars => TellInv'
<1> SUFFICES ASSUME IInv, IInv', TellInv, [Next]_vars PROVE TellInv'
  OBVIOUS
<1>0. Types /\ Types' /\ Distinct'
  BY DEF IInv
<1>1. CASE UNCHANGED vars
  BY <1>1 DEF vars, server, client, network, TellInv, OpenIsLink, AllUsed, ToldUsed, ToldOnce,
     ToldBefore, GivenOnce, GivenBefore, OthersExcludeSelf
<1>2. CASE Next
  BY <1>0, <1>2, ServerOnConnectTells, ServerOnPlayerInfoTakenTells, ClientTells, ElsewhereTells
     DEF Next
<1> QED BY <1>1, <1>2

THEOREM TellInvariance == Spec => []TellInv
<1> QED BY InitTellInv, StepTellInv, Invariance, PTL DEF Spec

(***************************************************************************)
(* No client lists itself among the others, whoever connects, breaks down, *)
(* restarts, reconnects or reports which guid, and whichever checksums are *)
(* freed (Server.sendToAllBut, Client.onConnect2, Client.onNewGuid).       *)
(***************************************************************************)
THEOREM OthersAreOthers == Spec => []OthersExcludeSelf
<1>1. TellInv => OthersExcludeSelf
  BY DEF TellInv
<1> QED BY TellInvariance, <1>1, PTL

(***************************************************************************)
(* As long as no checksum was freed at the server no client adopts a guid  *)
(* another client has: onPlayerInfo sends newGuid to all of them, and the  *)
(* duplicate detection lets it reach one (Client.onNewGuid).               *)
(***************************************************************************)
THEOREM AdoptedByOne == Spec => NoSharedByAdoption
<1> DEFINE A == Server \notin collected' =>
                  \A c, d \in Clients :
                    c # d /\ guid'[c] # guid[c] => guid'[d] # guid'[c]
<1>1. TellInv /\ Types /\ [Next]_vars => [A]_vars
  <2> SUFFICES ASSUME TellInv, Types, Next PROVE A
    OBVIOUS
  <2>1. ASSUME NEW c \in Clients, NEW i \in Connections, ClientOnNewGuid(c, i) PROVE A
    <3> DEFINE m == Head(toClient[i])
    <3>1. /\ m.event = "newGuid" /\ toClient[i] # << >>
          /\ guid' = [guid EXCEPT ![c] = m.newGuid] \/ UNCHANGED guid
          /\ UNCHANGED collected
      BY <2>1 DEF ClientOnNewGuid, Takes
    <3>2. 1 \in DOMAIN toClient[i] /\ toClient[i][1] = m
      <4>1. toClient[i] \in Seq(Messages)
        BY DEF Types
      <4> QED BY <3>1, <4>1
    <3>3. Server \notin collected => \A d \in Clients : guid[d] # m.newGuid
      BY <3>1, <3>2 DEF TellInv, GivenBefore
    <3> HIDE DEF m
    <3>4. CASE guid' = [guid EXCEPT ![c] = m.newGuid]
      BY <3>1, <3>3, <3>4 DEF Types
    <3>5. CASE UNCHANGED guid
      BY <3>5
    <3> QED BY <3>1, <3>4, <3>5
  <2>2. CASE UNCHANGED guid
    BY <2>2
  <2>3. (\E c \in Clients, i \in Connections : ClientOnNewGuid(c, i)) \/ UNCHANGED guid
    BY DEF Next, ServerOnConnect, ServerOnPlayerInfo, ServerOnPlayerInfoTaken, ServerOnDisconnect,
       TimeOut, ClientOnConnect, ClientOnSeed, ClientOnConnect2, ClientOnDisconnect,
       Connect, Disconnect, Restart, CollectAtClient, CollectAtServer, client
  <2> QED BY <2>1, <2>2, <2>3
<1>2. IInv => Types
  BY DEF IInv
<1> QED BY <1>1, <1>2, Invariance, TellInvariance, PTL DEF Spec, NoSharedByAdoption
=============================================================================
