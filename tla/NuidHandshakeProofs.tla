------------------------ MODULE NuidHandshakeProofs ------------------------
(***************************************************************************)
(* Proofs about NuidHandshake, for any number of clients, entities,        *)
(* connections, new guids and collections: its types, that it implements   *)
(* NuidRegistry and so gives no two entities one nuid, that each question  *)
(* and each answer counts once, and that a lost question is not asked      *)
(* again under the same guid.                                              *)
(***************************************************************************)
EXTENDS NuidHandshake, SequenceTheorems, TLAPS

IsNewNuid(m) == m.event = "newNuid"
----------------------------------------------------------------------------
LEMMA SequenceFacts ==
  ASSUME NEW S, NEW q \in Seq(S)
  PROVE  /\ \A x \in S : /\ Append(q, x) \in Seq(S)
                         /\ Len(Append(q, x)) = Len(q) + 1
                         /\ Append(q, x)[Len(q) + 1] = x
                         /\ \A i \in DOMAIN q : Append(q, x)[i] = q[i]
         /\ q # << >> =>
              /\ Head(q) \in S /\ Head(q) = q[1] /\ 1 \in DOMAIN q
              /\ Tail(q) \in Seq(S)
              /\ Len(Tail(q)) = Len(q) - 1
              /\ \A i \in DOMAIN Tail(q) : i + 1 \in DOMAIN q /\ Tail(q)[i] = q[i + 1]
         /\ \A i \in DOMAIN q : q[i] \in S /\ i \in 1 .. Len(q)
         /\ Len(q) \in Nat /\ DOMAIN q = 1 .. Len(q)
OBVIOUS

\* The messages of a queue that grew or shrank.
LEMMA MessagesFacts ==
  ASSUME NEW S, NEW q \in Seq(S)
  PROVE  /\ \A x \in S : Messages(Append(q, x)) = Messages(q) \cup {x}
         /\ q # << >> => Head(q) \in Messages(q) /\ Messages(Tail(q)) \subseteq Messages(q)
         /\ Messages(q) \subseteq S
         /\ Messages(<< >>) = {}
         /\ \A x : Messages(<<x>>) = {x}
<1>1. ASSUME NEW x \in S
      PROVE  Messages(Append(q, x)) = Messages(q) \cup {x}
  <2>1. DOMAIN Append(q, x) = DOMAIN q \cup {Len(q) + 1}
    BY SequenceFacts
  <2> QED BY <2>1, SequenceFacts DEF Messages
<1>2. q # << >> => Head(q) \in Messages(q) /\ Messages(Tail(q)) \subseteq Messages(q)
  BY SequenceFacts DEF Messages
<1>3. Messages(q) \subseteq S
  BY DEF Messages
<1>4. Messages(<< >>) = {} /\ \A x : Messages(<<x>>) = {x}
  BY DEF Messages
<1> QED BY <1>1, <1>2, <1>3, <1>4

\* What the messages carry.
LEMMA EventFacts ==
  /\ \A m \in ServerEvents :
       /\ m.event = "playerInfo" => m.guid \in Guids
       /\ m.event = "needNuid" =>
            /\ m.owner \in Guids /\ m.id \in Ids
            /\ m = [event |-> "needNuid", owner |-> m.owner, id |-> m.id]
       /\ m.event = "lostNuid" => m.nuid \in Nuids
  /\ \A m \in ClientEvents :
       /\ m.event \in {"newGuid", "newNuid", "entityData"}
       /\ m.event = "newGuid" => m.old \in Guids /\ m.new \in Guids
       /\ m.event # "newGuid" => m.nuid \in Nuids
       /\ IsNewNuid(m) => m.owner \in Guids /\ m.id \in Ids \cup {Unknown}
  /\ Connected \in ServerEvents /\ Disconnected \in ServerEvents
  /\ \A g \in Guids : PlayerInfo(g) \in ServerEvents
  /\ \A e \in Entities, g \in Guids : NeedNuid(e, g) \in ServerEvents
  /\ \A g, h \in Guids : NewGuid(g, h) \in ClientEvents
  /\ \A n \in Nuids : LostNuid(n) \in ServerEvents /\ EntityData(n) \in ClientEvents
  /\ \A g \in Guids, i \in Ids \cup {Unknown}, n \in Nuids : NewNuid(g, i, n) \in Answers
  /\ Answers \subseteq ClientEvents
<1>1. ASSUME NEW m \in ServerEvents
      PROVE  /\ m.event = "playerInfo" => m.guid \in Guids
             /\ m.event = "needNuid" =>
                  /\ m.owner \in Guids /\ m.id \in Ids
                  /\ m = [event |-> "needNuid", owner |-> m.owner, id |-> m.id]
             /\ m.event = "lostNuid" => m.nuid \in Nuids
  BY DEF ServerEvents, Infos, Asks, Connected, Disconnected, LostNuid
<1>2. ASSUME NEW m \in ClientEvents
      PROVE  /\ m.event \in {"newGuid", "newNuid", "entityData"}
             /\ m.event = "newGuid" => m.old \in Guids /\ m.new \in Guids
             /\ m.event # "newGuid" => m.nuid \in Nuids
             /\ IsNewNuid(m) => m.owner \in Guids /\ m.id \in Ids \cup {Unknown}
  BY DEF ClientEvents, Renames, Answers, EntityData, IsNewNuid
<1>3. Connected \in ServerEvents /\ Disconnected \in ServerEvents
  BY DEF ServerEvents
<1>4. /\ \A g \in Guids : PlayerInfo(g) \in ServerEvents
      /\ \A e \in Entities, g \in Guids : NeedNuid(e, g) \in ServerEvents
  BY HandshakeAssumption DEF ServerEvents, Infos, Asks, PlayerInfo, NeedNuid
<1>5. /\ \A g, h \in Guids : NewGuid(g, h) \in ClientEvents
      /\ \A n \in Nuids : LostNuid(n) \in ServerEvents /\ EntityData(n) \in ClientEvents
  BY DEF ServerEvents, ClientEvents, Renames, NewGuid
<1>6. /\ \A g \in Guids, i \in Ids \cup {Unknown}, n \in Nuids : NewNuid(g, i, n) \in Answers
      /\ Answers \subseteq ClientEvents
  BY DEF NewNuid, Answers, ClientEvents
<1> QED BY <1>1, <1>2, <1>3, <1>4, <1>5, <1>6

\* The guids of the server and of the clients.
LEMMA GuidFacts ==
  /\ ServerGuid \in Guids /\ ServerGuid[1] = Server
  /\ \A g \in Guids : g = <<g[1], g[2]>> /\ g[2] \in Nat
  /\ \A c \in Clients : <<c, 0>> \in Guids
  /\ \A c \in Clients, k \in 0 .. MaxGuids : <<c, k>> \in Guids
BY HandshakeBoundAssumption DEF Guids, ServerGuid
----------------------------------------------------------------------------
\* A payload is sent to all, and as long as no collector freed a checksum to one.
LEMMA RecipientsFacts ==
  ASSUME NEW peers \in Seq(Clients), NEW cached \in BOOLEAN,
         NEW to \in Recipients(peers, cached)
  PROVE  to \in SUBSET Clients /\ (Server \notin collected => \A c, d \in to : c = d)
<1>1. {peers[i] : i \in DOMAIN peers} \subseteq Clients
  OBVIOUS
<1> QED BY <1>1 DEF Recipients

LEMMA SendFacts ==
  ASSUME TypeOK, NEW peers \in Seq(Clients), NEW m \in Answers, sendNewNuid(peers, m)
  PROVE  /\ told' \subseteq Answers
         /\ \E to \in SUBSET Clients :
              /\ SentTo(to, m)
              /\ Server \notin collected => \A c, d \in to : c = d
<1>1. PICK to \in Recipients(peers, m \in told) :
        told' = (IF to = {} THEN told ELSE told \cup {m}) /\ SentTo(to, m)
  BY DEF sendNewNuid
<1>2. (m \in told) \in BOOLEAN
  OBVIOUS
<1>3. to \in SUBSET Clients /\ (Server \notin collected => \A c, d \in to : c = d)
  BY <1>1, <1>2, RecipientsFacts
<1> QED BY <1>1, <1>3 DEF TypeOK

LEMMA SentFacts ==
  ASSUME TypeOK, NEW to, NEW m \in ClientEvents, SentTo(to, m)
  PROVE  /\ toClient' \in [Clients -> Seq(ClientEvents)]
         /\ \A c \in Clients :
              toClient'[c] = IF c \in to THEN Append(toClient[c], m) ELSE toClient[c]
         /\ \A c \in Clients :
              Messages(toClient'[c]) \subseteq Messages(toClient[c]) \cup {m}
<1>1. \A c \in Clients : toClient[c] \in Seq(ClientEvents)
  BY DEF TypeOK
<1>2. \A c \in Clients :
        toClient'[c] = IF c \in to THEN Append(toClient[c], m) ELSE toClient[c]
  BY DEF SentTo
<1>3. toClient' \in [Clients -> Seq(ClientEvents)]
  BY <1>1, SequenceFacts DEF SentTo
<1>4. \A c \in Clients : Messages(Append(toClient[c], m)) = Messages(toClient[c]) \cup {m}
  BY <1>1, MessagesFacts
<1> QED BY <1>2, <1>3, <1>4

LEMMA AnySentFacts ==
  ASSUME TypeOK, NEW to, NEW m, SentTo(to, m)
  PROVE  \A c \in Clients :
           Messages(toClient'[c]) \subseteq Messages(toClient[c]) \cup {m}
<1>1. ASSUME NEW c \in Clients, NEW k \in Messages(toClient'[c])
      PROVE  k \in Messages(toClient[c]) \cup {m}
  <2>1. toClient'[c] = IF c \in to THEN Append(toClient[c], m) ELSE toClient[c]
    BY DEF SentTo
  <2>2. PICK q \in Seq(ClientEvents) : q = toClient[c]
    BY DEF TypeOK
  <2>3. Messages(Append(q, m)) = Messages(q) \cup {m}
    <3>1. q \in Seq(ClientEvents \cup {m}) /\ m \in ClientEvents \cup {m}
      OBVIOUS
    <3> QED BY <3>1, MessagesFacts
  <2> QED BY <2>1, <2>2, <2>3
<1> QED BY <1>1

\* A client reported its guid behind these messages, or took it for sent.
LEMMA ReportFacts ==
  ASSUME TypeOK, NEW c \in Clients, NEW queue \in Seq(ServerEvents), Report(c, queue)
  PROVE  /\ toServer' \in [Clients -> Seq(ServerEvents)]
         /\ reported' \in [Clients -> SUBSET Guids]
         /\ \A d \in Clients \ {c} : toServer'[d] = toServer[d]
         /\ toServer'[c] = queue \/ toServer'[c] = Append(queue, PlayerInfo(guid[c]))
         /\ Messages(toServer'[c]) \subseteq Messages(queue) \cup {PlayerInfo(guid[c])}
<1>1. guid[c] \in Guids /\ PlayerInfo(guid[c]) \in ServerEvents
  BY EventFacts DEF TypeOK
<1>2. PICK cached :
        /\ reported' = [reported EXCEPT ![c] = @ \cup {g \in {guid[c]} : ~ cached}]
        /\ toServer' = [toServer EXCEPT ![c] =
             IF cached THEN queue ELSE Append(queue, PlayerInfo(guid[c]))]
  BY DEF Report
<1>3. /\ Append(queue, PlayerInfo(guid[c])) \in Seq(ServerEvents)
      /\ Messages(Append(queue, PlayerInfo(guid[c]))) =
           Messages(queue) \cup {PlayerInfo(guid[c])}
  BY <1>1, SequenceFacts, MessagesFacts
<1>4. toServer'[c] = IF cached THEN queue ELSE Append(queue, PlayerInfo(guid[c]))
  BY <1>2 DEF TypeOK
<1>5. reported' \in [Clients -> SUBSET Guids]
  BY <1>1, <1>2 DEF TypeOK
<1>6. toServer' \in [Clients -> Seq(ServerEvents)]
      /\ \A d \in Clients \ {c} : toServer'[d] = toServer[d]
  BY <1>2, <1>3 DEF TypeOK
<1> QED BY <1>3, <1>4, <1>5, <1>6

\* The first message of a queue was taken.
LEMMA PopFacts ==
  ASSUME TypeOK, NEW c \in Clients, NEW event, Reports(c, event), Pop(c)
  PROVE  /\ Head(toServer[c]) \in Messages(toServer[c])
         /\ Head(toServer[c]) \in ServerEvents
         /\ Head(toServer[c]).event = event
         /\ toServer' \in [Clients -> Seq(ServerEvents)]
         /\ \A d \in Clients : Messages(toServer'[d]) \subseteq Messages(toServer[d])
<1>1. \A d \in Clients : toServer[d] \in Seq(ServerEvents)
  BY DEF TypeOK
<1>2. toServer[c] # << >> /\ Head(toServer[c]).event = event
  BY DEF Reports
<1>3. /\ Tail(toServer[c]) \in Seq(ServerEvents)
      /\ Head(toServer[c]) \in ServerEvents
      /\ Head(toServer[c]) \in Messages(toServer[c])
      /\ Messages(Tail(toServer[c])) \subseteq Messages(toServer[c])
  BY <1>1, <1>2, SequenceFacts, MessagesFacts
<1> QED BY <1>1, <1>2, <1>3 DEF Pop, TypeOK

LEMMA TakesFacts ==
  ASSUME TypeOK, NEW c \in Clients, NEW event, Takes(c, event)
  PROVE  /\ Head(toClient[c]) \in Messages(toClient[c])
         /\ Head(toClient[c]) \in ClientEvents
         /\ Head(toClient[c]).event = event
         /\ toClient[c] # << >>
         /\ toClient' \in [Clients -> Seq(ClientEvents)]
         /\ toClient' = [toClient EXCEPT ![c] = Tail(@)]
         /\ \A d \in Clients : Messages(toClient'[d]) \subseteq Messages(toClient[d])
<1>1. \A d \in Clients : toClient[d] \in Seq(ClientEvents)
  BY DEF TypeOK
<1>2. toClient[c] # << >> /\ Head(toClient[c]).event = event
      /\ toClient' = [toClient EXCEPT ![c] = Tail(@)]
  BY DEF Takes
<1>3. /\ Tail(toClient[c]) \in Seq(ClientEvents)
      /\ Head(toClient[c]) \in ClientEvents
      /\ Head(toClient[c]) \in Messages(toClient[c])
      /\ Messages(Tail(toClient[c])) \subseteq Messages(toClient[c])
  BY <1>1, <1>2, SequenceFacts, MessagesFacts
<1> QED BY <1>1, <1>2, <1>3 DEF TypeOK

\* A client sent a message, or it was lost.
LEMMA TransmitFacts ==
  ASSUME TypeOK, NEW c \in Clients, NEW m \in ServerEvents, NEW isSent, Transmit(c, m, isSent)
  PROVE  /\ toServer' \in [Clients -> Seq(ServerEvents)]
         /\ toServer' = [toServer EXCEPT ![c] = Append(@, m)] \/ toServer' = toServer
         /\ \A d \in Clients :
              Messages(toServer'[d]) \subseteq
                Messages(toServer[d]) \cup {x \in {m} : d = c /\ isSent}
<1>1. \A d \in Clients : toServer[d] \in Seq(ServerEvents)
  BY DEF TypeOK
<1>2. /\ Append(toServer[c], m) \in Seq(ServerEvents)
      /\ Messages(Append(toServer[c], m)) = Messages(toServer[c]) \cup {m}
  BY <1>1, SequenceFacts, MessagesFacts
<1> QED BY <1>1, <1>2 DEF Transmit, TypeOK

\* self.clients without one of them.
LEMMA WithoutFacts ==
  ASSUME TypeOK, NEW c
  PROVE  Without(c) \in Seq(Clients)
<1> DEFINE place == CHOOSE i \in DOMAIN clients : clients[i] = c
<1>1. CASE c \in Peers
  <2>1. place \in DOMAIN clients
    BY <1>1 DEF Peers
  <2>2. clients \in Seq(Clients) /\ place \in 1 .. Len(clients) /\ Len(clients) \in Nat
    BY <2>1 DEF TypeOK
  <2> HIDE DEF place
  <2>3. /\ SubSeq(clients, 1, place - 1) \in Seq(Clients)
        /\ SubSeq(clients, place + 1, Len(clients)) \in Seq(Clients)
    <3>1. \A i \in 1 .. Len(clients) : clients[i] \in Clients
      BY <2>2
    <3>2. SubSeq(clients, 1, place - 1) \in Seq(Clients)
      <4>1. 1 \in Int /\ place - 1 \in Int /\ 1 .. (place - 1) \subseteq 1 .. Len(clients)
        BY <2>2
      <4> QED BY <4>1, <3>1, SubSeqProperties
    <3>3. SubSeq(clients, place + 1, Len(clients)) \in Seq(Clients)
      <4>1. /\ place + 1 \in Int /\ Len(clients) \in Int
            /\ (place + 1) .. Len(clients) \subseteq 1 .. Len(clients)
        BY <2>2
      <4> QED BY <4>1, <3>1, SubSeqProperties
    <3> QED BY <3>2, <3>3
  <2>4. SubSeq(clients, 1, place - 1) \o SubSeq(clients, place + 1, Len(clients)) \in Seq(Clients)
    BY <2>3
  <2>5. Without(c) = SubSeq(clients, 1, place - 1) \o SubSeq(clients, place + 1, Len(clients))
    BY <1>1, Zenon DEF Without, place
  <2> QED BY <2>4, <2>5
<1>2. CASE c \notin Peers
  BY <1>2 DEF Without, TypeOK
<1> QED BY <1>1, <1>2
----------------------------------------------------------------------------
(***************************************************************************)
(* The guids of a client are its own, and each one it gets is later than   *)
(* those it asked under: an old one never comes back.                      *)
(***************************************************************************)
IsOfClient(c, m) == m.event = "playerInfo" => m.guid[1] = c
IsLater(m) == m.event = "newGuid" => m.old[1] = m.new[1] /\ m.old[2] < m.new[2]
AskedBefore(e, g) == g[1] = Owner(e) /\ g[2] <= guid[Owner(e)][2]
GuidsAdvance ==
  /\ \A c \in Clients : guid[c][1] = c
  /\ \A e \in ClientEntities, g \in Guids : <<e, g>> \in asked => AskedBefore(e, g)
  /\ \A c \in Clients : \A m \in Messages(toServer[c]) : IsOfClient(c, m)
  /\ \A c \in Clients : \A m \in Messages(toClient[c]) : IsLater(m)

LEMMA GuidsInit == Init => GuidsAdvance
<1> SUFFICES ASSUME Init PROVE GuidsAdvance
  OBVIOUS
<1>1. \A c \in Clients : Messages(toClient[c]) = {} /\ Messages(toServer[c]) = {}
  BY DEF Init, Messages
<1> QED BY <1>1 DEF Init, GuidsAdvance

\* A step that changes no guid and asks for nothing.
LEMMA StillAdvance ==
  ASSUME GuidsAdvance, guid' = guid, asked' = asked, NEW x, NEW y,
         \A c \in Clients : IsOfClient(c, x), IsLater(y),
         \A c \in Clients : Messages(toServer'[c]) \subseteq Messages(toServer[c]) \cup {x},
         \A c \in Clients : Messages(toClient'[c]) \subseteq Messages(toClient[c]) \cup {y}
  PROVE  GuidsAdvance'
BY DEF GuidsAdvance, AskedBefore, IsOfClient, IsLater

\* Each step keeps it.
LEMMA GuidsStep == TypeOK /\ GuidsAdvance /\ [Next]_vars => GuidsAdvance'
<1> SUFFICES ASSUME TypeOK, GuidsAdvance, [Next]_vars PROVE GuidsAdvance'
  OBVIOUS
<1> USE DEF drawn, server, world, client
<1>a. PICK x : x = Connected
  OBVIOUS
<1>b. PICK y : y = EntityData(1)
  OBVIOUS
<1>c. (\A c : IsOfClient(c, x)) /\ IsLater(y) /\ \A c : IsOfClient(c, y)
  BY <1>a, <1>b DEF IsOfClient, IsLater, Connected, EntityData
<1>d. ASSUME guid' = guid, asked' = asked,
             \A c \in Clients : Messages(toServer'[c]) \subseteq Messages(toServer[c]) \cup {x},
             \A c \in Clients : Messages(toClient'[c]) \subseteq Messages(toClient[c]) \cup {y}
      PROVE  GuidsAdvance'
  BY <1>c, <1>d, StillAdvance
<1>e. ASSUME NEW m \in Answers, NEW peers \in Seq(Clients), sendNewNuid(peers, m),
             guid' = guid, asked' = asked,
             \A c \in Clients : Messages(toServer'[c]) \subseteq Messages(toServer[c])
      PROVE  GuidsAdvance'
  <2>1. PICK to \in SUBSET Clients : SentTo(to, m)
    BY <1>e, SendFacts
  <2>2. m \in ClientEvents /\ IsLater(m)
    BY DEF ClientEvents, Answers, IsLater
  <2>3. \A c \in Clients : Messages(toClient'[c]) \subseteq Messages(toClient[c]) \cup {m}
    BY <2>1, <2>2, SentFacts
  <2> QED BY <1>c, <1>e, <2>2, <2>3, StillAdvance
<1>f. ASSUME NEW e \in Entities \ ClientEntities, NEW peers \in Seq(Clients), Announce(e, peers),
             guid' = guid, asked' = asked,
             \A c \in Clients : Messages(toServer'[c]) \subseteq Messages(toServer[c])
      PROVE  GuidsAdvance'
  <2>1. PICK n \in Nuids : sendNewNuid(peers, NewNuid(ServerGuid, e[2], n))
    BY <1>f DEF Announce
  <2>2. NewNuid(ServerGuid, e[2], n) \in Answers
    BY HandshakeAssumption, EventFacts, GuidFacts
  <2> QED BY <1>e, <1>f, <2>1, <2>2
<1>1. ASSUME NEW e \in ClientEntities, sendNeedNuid(e) PROVE GuidsAdvance'
  <2>1. PICK c \in Clients : c = Owner(e)
    BY HandshakeAssumption DEF ClientEntities, Owner
  <2>2. PICK g \in Guids : g = guid[c] /\ g[2] \in Nat
    BY GuidFacts DEF TypeOK
  <2>3. /\ Transmit(c, NeedNuid(e, g), TRUE) /\ asked' = asked \cup {<<e, g>>}
        /\ UNCHANGED <<guid, toClient>>
    BY <1>1, <2>1, <2>2 DEF sendNeedNuid
  <2>4. PICK m \in ServerEvents : m = NeedNuid(e, g) /\ m.event = "needNuid"
    BY EventFacts DEF ClientEntities, NeedNuid
  <2>5. \A d \in Clients : Messages(toServer'[d]) \subseteq
          Messages(toServer[d]) \cup {k \in {m} : d = c /\ TRUE}
    <3>1. Transmit(c, m, TRUE)
      BY <2>3, <2>4
    <3> QED BY <3>1, TransmitFacts
  <2>6. \A d \in Clients : \A k \in Messages(toServer'[d]) : IsOfClient(d, k)
    BY <2>4, <2>5 DEF GuidsAdvance, IsOfClient
  <2>7. AskedBefore(e, g)'
    BY <2>1, <2>2, <2>3 DEF AskedBefore, GuidsAdvance
  <2>8. \A f \in ClientEntities, h \in Guids : <<f, h>> \in asked' => AskedBefore(f, h)'
    BY <2>3, <2>7 DEF GuidsAdvance, AskedBefore
  <2> QED BY <2>3, <2>6, <2>8 DEF GuidsAdvance
<1>2. ASSUME NEW e \in Entities \ ClientEntities, ServerScan(e) PROVE GuidsAdvance'
  <2>1. Announce(e, clients) /\ clients \in Seq(Clients) /\ UNCHANGED <<guid, asked, toServer>>
    BY <1>2 DEF ServerScan, TypeOK
  <2> QED BY <1>f, <2>1
<1>3. ASSUME NEW e \in Entities, ServerSendEntityData(e) PROVE GuidsAdvance'
  <2>1. /\ nuid[e] \in Nuids /\ SentTo(Peers, EntityData(nuid[e]))
        /\ UNCHANGED <<guid, asked, toServer>>
    BY <1>3 DEF ServerSendEntityData, SentTo, TypeOK
  <2>2. PICK m \in ClientEvents : m = EntityData(nuid[e])
    BY <2>1, EventFacts
  <2>3. \A c \in Clients : Messages(toClient'[c]) \subseteq Messages(toClient[c]) \cup {m}
    BY <2>1, <2>2, SentFacts
  <2>4. IsLater(m)
    BY <2>2 DEF IsLater, EntityData
  <2> QED BY <1>c, <2>1, <2>3, <2>4, StillAdvance
<1>4. ASSUME NEW c \in Clients, ServerOnConnect(c) PROVE GuidsAdvance'
  <2>1. /\ Reports(c, "connect") /\ Pop(c) /\ UNCHANGED <<guid, asked>>
        /\ Announce(Mina, clients') /\ clients' \in Seq(Clients)
        /\ Mina \in Entities \ ClientEntities
    BY <1>4, HandshakeAssumption DEF ServerOnConnect, ClientEntities, Owner, TypeOK
  <2> QED BY <1>f, <2>1, PopFacts
<1>5. ASSUME NEW c \in Clients, ServerOnDisconnect(c) PROVE GuidsAdvance'
  BY <1>d, <1>5, PopFacts DEF ServerOnDisconnect
<1>6. ASSUME NEW c \in Clients, ServerOnPlayerInfo(c) PROVE GuidsAdvance'
  <2>1. PICK old : old = Head(toServer[c]).guid
    OBVIOUS
  <2>2. /\ Reports(c, "playerInfo") /\ Pop(c) /\ cachedGuids[c] <= MaxGuids
        /\ UNCHANGED <<guid, asked>>
        /\ \/ UNCHANGED toClient
           \/ /\ old[2] < cachedGuids[c]
              /\ \E to : SentTo(to, NewGuid(old, <<c, cachedGuids[c]>>))
    BY <1>6, <2>1 DEF ServerOnPlayerInfo
  <2>3. Head(toServer[c]) \in Messages(toServer[c]) /\ Head(toServer[c]) \in ServerEvents
        /\ Head(toServer[c]).event = "playerInfo"
    BY <2>2, PopFacts
  <2>4. old \in Guids /\ old[1] = c
    BY <2>1, <2>3, EventFacts DEF GuidsAdvance, IsOfClient
  <2>5. CASE UNCHANGED toClient
    BY <1>d, <2>2, <2>5, PopFacts
  <2>6. CASE old[2] < cachedGuids[c] /\ \E to : SentTo(to, NewGuid(old, <<c, cachedGuids[c]>>))
    <3>1. PICK to : SentTo(to, NewGuid(old, <<c, cachedGuids[c]>>))
      BY <2>6
    <3>2. PICK new \in Guids : new = <<c, cachedGuids[c]>>
      BY <2>2, GuidFacts, HandshakeBoundAssumption DEF TypeOK
    <3>3. PICK m \in ClientEvents : m = NewGuid(old, new)
      BY <2>4, EventFacts
    <3>4. IsLater(m)
      BY <2>4, <2>6, <3>2, <3>3 DEF IsLater, NewGuid
    <3>5. \A d \in Clients : Messages(toClient'[d]) \subseteq Messages(toClient[d]) \cup {m}
      BY <3>1, <3>2, <3>3, SentFacts
    <3>6. \A d \in Clients : Messages(toServer'[d]) \subseteq Messages(toServer[d]) \cup {x}
      BY <2>2, PopFacts
    <3> QED BY <1>c, <2>2, <3>4, <3>5, <3>6, StillAdvance
  <2> QED BY <2>2, <2>5, <2>6
<1>7. ASSUME NEW c \in Clients, ServerOnNeedNuid(c) PROVE GuidsAdvance'
  <2>1. PICK m : m = Head(toServer[c])
    OBVIOUS
  <2>2. /\ Reports(c, "needNuid") /\ Pop(c) /\ UNCHANGED <<guid, asked>>
        /\ \E n \in Nuids : sendNewNuid(clients, NewNuid(m.owner, m.id, n))
    BY <1>7, <2>1 DEF ServerOnNeedNuid
  <2>3. m.owner \in Guids /\ m.id \in Ids
    BY <2>1, <2>2, PopFacts, EventFacts
  <2>4. PICK n \in Nuids : sendNewNuid(clients, NewNuid(m.owner, m.id, n))
    BY <2>2
  <2>5. NewNuid(m.owner, m.id, n) \in Answers /\ clients \in Seq(Clients)
    BY <2>3, EventFacts DEF TypeOK
  <2> QED BY <1>e, <2>2, <2>4, <2>5, PopFacts
<1>8. ASSUME NEW c \in Clients, ServerOnLostNuid(c) PROVE GuidsAdvance'
  <2>1. PICK n : n = Head(toServer[c]).nuid
    OBVIOUS
  <2>2. /\ Reports(c, "lostNuid") /\ Pop(c) /\ UNCHANGED <<guid, asked>>
        /\ \/ \E to : SentTo(to, NewNuid(ownerGuid[n], Unknown, n))
           \/ UNCHANGED toClient
    BY <1>8, <2>1 DEF ServerOnLostNuid, sendNewNuid
  <2>3. CASE UNCHANGED toClient
    BY <1>d, <2>2, <2>3, PopFacts
  <2>4. CASE \E to : SentTo(to, NewNuid(ownerGuid[n], Unknown, n))
    <3>1. PICK to, m : SentTo(to, m) /\ m = NewNuid(ownerGuid[n], Unknown, n)
      BY <2>4
    <3>2. IsLater(m)
      BY <3>1 DEF IsLater, NewNuid
    <3>3. \A d \in Clients : Messages(toClient'[d]) \subseteq Messages(toClient[d]) \cup {m}
      BY <3>1, AnySentFacts
    <3>4. \A d \in Clients : Messages(toServer'[d]) \subseteq Messages(toServer[d]) \cup {x}
      BY <2>2, PopFacts
    <3> QED BY <1>c, <2>2, <3>2, <3>3, <3>4, StillAdvance
  <2> QED BY <2>2, <2>3, <2>4
<1>9. ASSUME NEW n \in Nuids, ServerScanCopy(n) PROVE GuidsAdvance'
  <2>1. /\ UNCHANGED <<guid, asked, toServer>>
        /\ \E to : SentTo(to, NewNuid(ownerGuid[n], CopyId[n], n))
    BY <1>9 DEF ServerScanCopy, sendNewNuid
  <2>2. PICK to, m : SentTo(to, m) /\ m = NewNuid(ownerGuid[n], CopyId[n], n)
    BY <2>1
  <2>3. IsLater(m)
    BY <2>2 DEF IsLater, NewNuid
  <2>4. \A d \in Clients : Messages(toClient'[d]) \subseteq Messages(toClient[d]) \cup {m}
    BY <2>2, AnySentFacts
  <2> QED BY <1>c, <2>1, <2>3, <2>4, StillAdvance
<1>10. ASSUME NEW c \in Clients, ClientOnNewGuid(c) PROVE GuidsAdvance'
  <2>1. PICK m : m = Head(toClient[c])
    OBVIOUS
  <2>2. /\ Takes(c, "newGuid") /\ UNCHANGED <<asked, toServer>>
        /\ guid' = [guid EXCEPT ![c] = IF @ = m.old THEN m.new ELSE @]
    BY <1>10, <2>1 DEF ClientOnNewGuid
  <2>3. m \in ClientEvents /\ m.event = "newGuid" /\ m \in Messages(toClient[c])
        /\ \A d \in Clients : Messages(toClient'[d]) \subseteq Messages(toClient[d])
    BY <2>1, <2>2, TakesFacts
  <2>4. m.old[1] = m.new[1] /\ m.old[2] < m.new[2] /\ m.old[2] \in Nat /\ m.new[2] \in Nat
    BY <2>3, EventFacts, GuidFacts DEF GuidsAdvance, IsLater
  <2>5. \A d \in Clients : guid[d] \in Guids /\ guid[d][1] = d /\ guid[d][2] \in Nat
    BY GuidFacts DEF TypeOK, GuidsAdvance
  <2>6. \A d \in Clients : guid'[d][1] = d /\ guid[d][2] <= guid'[d][2] /\ guid'[d][2] \in Nat
    <3>1. \A d \in Clients : guid'[d] = IF d = c /\ guid[d] = m.old THEN m.new ELSE guid[d]
      BY <2>2 DEF TypeOK
    <3> QED BY <2>4, <2>5, <3>1
  <2>7. \A f \in ClientEntities, g \in Guids : <<f, g>> \in asked' => AskedBefore(f, g)'
    <3>1. ASSUME NEW f \in ClientEntities, NEW g \in Guids, <<f, g>> \in asked'
          PROVE  AskedBefore(f, g)'
      <4>1. Owner(f) \in Clients
        BY HandshakeAssumption DEF ClientEntities, Owner
      <4>2. g[1] = Owner(f) /\ g[2] <= guid[Owner(f)][2] /\ g[2] \in Nat
        BY <2>2, <3>1, GuidFacts DEF GuidsAdvance, AskedBefore
      <4>3. g[2] <= guid'[Owner(f)][2]
        BY <2>5, <2>6, <4>1, <4>2
      <4> QED BY <4>2, <4>3 DEF AskedBefore, Owner
    <3> QED BY <3>1
  <2> QED BY <2>2, <2>3, <2>6, <2>7 DEF GuidsAdvance, IsLater, IsOfClient
<1>11. ASSUME NEW c \in Clients, ClientOnNewNuid(c) PROVE GuidsAdvance'
  BY <1>d, <1>11, TakesFacts DEF ClientOnNewNuid
<1>12. ASSUME NEW c \in Clients, ClientOnEntityData(c) PROVE GuidsAdvance'
  <2>1. PICK n : n = Head(toClient[c]).nuid
    OBVIOUS
  <2>2. /\ Takes(c, "entityData") /\ UNCHANGED <<guid, asked>>
        /\ \E isSent : Transmit(c, LostNuid(n), isSent /\ n \notin globals[c])
    BY <1>12, <2>1 DEF ClientOnEntityData
  <2>3. n \in Nuids
    BY <2>1, <2>2, TakesFacts, EventFacts
  <2>4. PICK m \in ServerEvents : m = LostNuid(n) /\ m.event = "lostNuid"
    BY <2>3, EventFacts DEF LostNuid
  <2>5. \A d \in Clients : Messages(toServer'[d]) \subseteq Messages(toServer[d]) \cup {m}
    BY <2>2, <2>4, TransmitFacts
  <2>6. \A d : IsOfClient(d, m)
    BY <2>4 DEF IsOfClient
  <2>7. \A d \in Clients : Messages(toClient'[d]) \subseteq Messages(toClient[d]) \cup {y}
    BY <2>2, TakesFacts
  <2> QED BY <1>c, <2>2, <2>5, <2>6, <2>7, StillAdvance
<1>13. ASSUME NEW c \in Clients, ClientOnConnect(c) \/ ClientOnSeed(c) PROVE GuidsAdvance'
  <2>1. PICK queue \in Seq(ServerEvents) :
          Report(c, queue) /\ Messages(queue) \subseteq Messages(toServer[c]) \cup {x}
    <3>1. <<Connected>> \in Seq(ServerEvents) /\ Messages(<<Connected>>) = {x}
      BY <1>a, EventFacts DEF Messages
    <3>2. toServer[c] \in Seq(ServerEvents)
      BY DEF TypeOK
    <3> QED BY <1>13, <3>1, <3>2 DEF ClientOnConnect, ClientOnSeed
  <2>2. UNCHANGED <<guid, asked, toClient>>
    BY <1>13 DEF ClientOnConnect, ClientOnSeed
  <2>3. PICK m : m = PlayerInfo(guid[c])
    OBVIOUS
  <2>4. /\ Messages(toServer'[c]) \subseteq Messages(toServer[c]) \cup {x, m}
        /\ \A d \in Clients \ {c} : toServer'[d] = toServer[d]
    BY <2>1, <2>3, ReportFacts
  <2>5. IsOfClient(c, m)
    BY <2>3 DEF GuidsAdvance, IsOfClient, PlayerInfo
  <2>6. \A d \in Clients : \A k \in Messages(toServer'[d]) : IsOfClient(d, k)
    BY <1>c, <2>4, <2>5 DEF GuidsAdvance
  <2> QED BY <2>2, <2>6 DEF GuidsAdvance, AskedBefore, IsLater
<1>14. ASSUME NEW c \in Clients, Disconnect(c) PROVE GuidsAdvance'
  <2>1. PICK m : m = Disconnected
    OBVIOUS
  <2>2. /\ \A d \in Clients : Messages(toServer'[d]) \subseteq Messages(toServer[d]) \cup {m}
        /\ \A d \in Clients : Messages(toClient'[d]) \subseteq Messages(toClient[d]) \cup {y}
        /\ UNCHANGED <<guid, asked>>
    BY <1>14, <2>1 DEF Disconnect, Messages, TypeOK
  <2>3. \A d : IsOfClient(d, m)
    BY <2>1 DEF IsOfClient, Disconnected
  <2> QED BY <1>c, <2>2, <2>3, StillAdvance
<1>15. ASSUME NEW e \in Entities, Die(e) PROVE GuidsAdvance'
  BY <1>d, <1>15 DEF Die
<1>16. ASSUME NEW c \in Clients, Connect(c) \/ \E n \in Nuids : UpdaterAdded(c, n)
       PROVE  GuidsAdvance'
  BY <1>d, <1>16 DEF Connect, UpdaterAdded
<1>17. ASSUME NEW process \in Clients \cup {Server}, Collect(process) PROVE GuidsAdvance'
  BY <1>d, <1>17 DEF Collect
<1>18. CASE UNCHANGED vars
  BY <1>d, <1>18 DEF vars
<1> QED
  BY <1>1, <1>2, <1>3, <1>4, <1>5, <1>6, <1>7, <1>8, <1>9, <1>10, <1>11, <1>12, <1>13, <1>14,
     <1>15, <1>16, <1>17, <1>18 DEF Next, ServerUpdate, ClientUpdate, ClientEntities
----------------------------------------------------------------------------
(***************************************************************************)
(* The inductive invariant: whatever is under way speaks of nuids that     *)
(* were drawn, for the entity it names, and under the guid that this was   *)
(* asked for with.                                                         *)
(***************************************************************************)
NamesItsEntity(m) ==
  m.event # "newGuid" =>
    /\ m.nuid \in DOMAIN drawnFor
    /\ IsNewNuid(m) /\ m.id # Unknown =>
         /\ m.owner = ownerGuid[m.nuid]
         /\ \/ m.id = drawnFor[m.nuid][2]
            \/ Owner(drawnFor[m.nuid]) # Server /\ m.id = CopyId[m.nuid]
    /\ ~ (IsNewNuid(m) /\ m.id # Unknown) => Owner(drawnFor[m.nuid]) = Server
ToldIsDrawn == \A c \in Clients : \A m \in Messages(toClient[c]) : NamesItsEntity(m)
IsKnown(c, m) ==
  /\ m.event = "needNuid" => <<<<c, m.id>>, m.owner>> \in asked
  /\ m.event = "lostNuid" =>
       m.nuid \in DOMAIN drawnFor /\ Owner(drawnFor[m.nuid]) = Server
QuestionsAreKnown == \A c \in Clients : \A m \in Messages(toServer[c]) : IsKnown(c, m)
CarriedIsDrawn ==
  \A e \in Entities :
    nuid[e] # NoNuid /\ (OwnIds \/ e \notin ClientEntities) =>
      nuid[e] \in DOMAIN drawnFor /\ drawnFor[nuid[e]] = e
DrawnForOwner ==
  /\ Len(ownerGuid) = Len(drawnFor)
  /\ \A n \in DOMAIN drawnFor : ownerGuid[n][1] = Owner(drawnFor[n])
DrawnIsCarried ==
  \A n \in DOMAIN drawnFor :
    /\ drawnFor[n] \in ClientEntities => <<drawnFor[n], ownerGuid[n]>> \in asked
    /\ drawnFor[n] \notin ClientEntities =>
         nuid[drawnFor[n]] = n /\ ownerGuid[n] = ServerGuid
LoadedIsDrawn ==
  \A c \in Clients : \A call \in Calls : loaded[c][call] > 0 => call[1] \in DOMAIN drawnFor
AllDrawn ==
  /\ ToldIsDrawn /\ QuestionsAreKnown /\ CarriedIsDrawn
  /\ DrawnForOwner /\ DrawnIsCarried /\ LoadedIsDrawn

\* The nuids that were drawn stay what they are.
Grows ==
  \A n \in DOMAIN drawnFor :
    n \in DOMAIN drawnFor' /\ drawnFor'[n] = drawnFor[n] /\ ownerGuid'[n] = ownerGuid[n]

LEMMA OwnerGuidFacts ==
  ASSUME TypeOK, AllDrawn, NEW n \in DOMAIN drawnFor
  PROVE  ownerGuid[n] \in Guids
<1>1. /\ drawnFor \in Seq(Entities) /\ ownerGuid \in Seq(Guids)
      /\ Len(ownerGuid) = Len(drawnFor)
  BY DEF TypeOK, AllDrawn, DrawnForOwner
<1>2. n \in DOMAIN ownerGuid
  BY <1>1
<1> QED BY <1>1, <1>2

\* The entity of the new nuid, and its owner.
LEMMA DrawFacts ==
  ASSUME TypeOK, AllDrawn, NEW n, NEW e \in Entities, NEW g \in Guids, getNextNuid(n, e, g)
  PROVE  /\ drawnFor' \in Seq(Entities) /\ Len(drawnFor') <= MaxNuid
         /\ ownerGuid' \in Seq(Guids) /\ Len(ownerGuid') = Len(drawnFor')
         /\ n = Len(drawnFor) + 1 /\ n \in Nuids /\ n \notin DOMAIN drawnFor
         /\ DOMAIN drawnFor' = DOMAIN drawnFor \cup {n}
         /\ drawnFor'[n] = e /\ ownerGuid'[n] = g
         /\ \A k \in DOMAIN drawnFor :
              drawnFor'[k] = drawnFor[k] /\ ownerGuid'[k] = ownerGuid[k]
<1>1. drawnFor \in Seq(Entities) /\ drawnFor' = Append(drawnFor, e)
      /\ n = Len(drawnFor) + 1 /\ n \in Nuids
  BY DEF TypeOK, getNextNuid
<1>2. ownerGuid \in Seq(Guids) /\ ownerGuid' = Append(ownerGuid, g)
      /\ Len(ownerGuid) = Len(drawnFor)
  BY DEF TypeOK, getNextNuid, AllDrawn, DrawnForOwner
<1>3. n <= MaxNuid
  BY <1>1, HandshakeBoundAssumption DEF Nuids
<1>4. /\ drawnFor' \in Seq(Entities) /\ Len(drawnFor') = n /\ drawnFor'[n] = e
      /\ \A k \in DOMAIN drawnFor : drawnFor'[k] = drawnFor[k]
      /\ DOMAIN drawnFor = 1 .. Len(drawnFor) /\ DOMAIN drawnFor' = 1 .. n
  BY <1>1, SequenceFacts
<1>5. /\ ownerGuid' \in Seq(Guids) /\ Len(ownerGuid') = n /\ ownerGuid'[n] = g
      /\ \A k \in DOMAIN ownerGuid : ownerGuid'[k] = ownerGuid[k]
      /\ DOMAIN ownerGuid = 1 .. Len(drawnFor)
  BY <1>1, <1>2, SequenceFacts
<1>6. n \notin DOMAIN drawnFor /\ DOMAIN drawnFor' = DOMAIN drawnFor \cup {n}
  BY <1>1, <1>4
<1> QED BY <1>1, <1>3, <1>4, <1>5, <1>6

\* What an announcement draws, sets and sends.
LEMMA AnnounceFacts ==
  ASSUME TypeOK, AllDrawn, NEW e \in Entities \ ClientEntities, NEW peers \in Seq(Clients),
         Announce(e, peers)
  PROVE  /\ UNCHANGED <<cachedGuids, dead, loaded, globals>>
         /\ told' \subseteq Answers
         /\ \E n \in Nuids, to \in SUBSET Clients :
              /\ SentTo(to, NewNuid(ServerGuid, e[2], n))
              /\ NewNuid(ServerGuid, e[2], n) \in Answers
              /\ e = <<Server, e[2]>> /\ e[2] # Unknown
              /\ \/ /\ UNCHANGED <<drawn, nuid>>
                    /\ n \in DOMAIN drawnFor /\ drawnFor[n] = e
                 \/ /\ getNextNuid(n, e, ServerGuid)
                    /\ nuid[e] = NoNuid
                    /\ nuid' = [nuid EXCEPT ![e] = n]
<1>1. PICK n \in Nuids :
        /\ \/ nuid[e] = n /\ UNCHANGED <<drawn, nuid>>
           \/ /\ nuid[e] = NoNuid
              /\ getNextNuid(n, e, ServerGuid)
              /\ nuid' = [nuid EXCEPT ![e] = n]
        /\ sendNewNuid(peers, NewNuid(ServerGuid, e[2], n))
  BY DEF Announce
<1>2. e = <<Server, e[2]>> /\ e[2] \in Ids /\ e[2] # Unknown
  BY HandshakeAssumption DEF ClientEntities, Owner
<1>3. NewNuid(ServerGuid, e[2], n) \in Answers
  BY <1>2, EventFacts, GuidFacts
<1>4. PICK to \in SUBSET Clients : SentTo(to, NewNuid(ServerGuid, e[2], n))
  BY <1>1, <1>3, SendFacts
<1>5. told' \subseteq Answers
  BY <1>1, <1>3, SendFacts
<1>6. nuid[e] = n => n \in DOMAIN drawnFor /\ drawnFor[n] = e
  BY DEF AllDrawn, CarriedIsDrawn, Nuids, NoNuid
<1> QED BY <1>1, <1>2, <1>3, <1>4, <1>5, <1>6 DEF Announce

\* The question that the server takes is one for a nuid of an entity that was
\* asked for.
LEMMA NeedFacts ==
  ASSUME TypeOK, AllDrawn, GuidsAdvance, NEW c \in Clients, ServerOnNeedNuid(c)
  PROVE  \E e \in ClientEntities, g \in Guids, n \in Nuids, to \in SUBSET Clients :
           /\ Owner(e) = c /\ e = <<c, e[2]>> /\ <<e, g>> \in asked /\ e[2] # Unknown
           /\ g[1] = c
           /\ Head(toServer[c]) = NeedNuid(e, g)
           /\ getNextNuid(n, e, g)
           /\ SentTo(to, NewNuid(g, e[2], n))
           /\ NewNuid(g, e[2], n) \in Answers
           /\ Server \notin collected => \A a, b \in to : a = b
           /\ told' \subseteq Answers
<1> DEFINE e == <<c, Head(toServer[c]).id>>
           g == Head(toServer[c]).owner
<1>1. /\ Reports(c, "needNuid") /\ Pop(c)
      /\ \E n \in Nuids : getNextNuid(n, e, g) /\ sendNewNuid(clients, NewNuid(g, e[2], n))
  BY DEF ServerOnNeedNuid
<1>2. Head(toServer[c]) \in ServerEvents /\ Head(toServer[c]) \in Messages(toServer[c])
      /\ Head(toServer[c]).event = "needNuid"
  BY <1>1, PopFacts
<1>3. <<e, g>> \in asked
  BY <1>2 DEF AllDrawn, QuestionsAreKnown, IsKnown
<1>4. e[1] = c /\ e[2] = Head(toServer[c]).id /\ e[2] \in Ids /\ g \in Guids
  BY <1>2, EventFacts
<1>5. Head(toServer[c]) = NeedNuid(e, g)
  BY <1>2, EventFacts DEF NeedNuid
<1>6. e \in ClientEntities
  BY <1>3, HandshakeAssumption DEF TypeOK, ClientEntities, Owner
<1>7. e = <<c, e[2]>>
  BY <1>4
<1> HIDE DEF e, g
<1>8. PICK n \in Nuids : getNextNuid(n, e, g) /\ sendNewNuid(clients, NewNuid(g, e[2], n))
  BY <1>1
<1>9. NewNuid(g, e[2], n) \in Answers
  BY <1>4, EventFacts
<1>10. /\ told' \subseteq Answers
       /\ \E to \in SUBSET Clients :
            /\ SentTo(to, NewNuid(g, e[2], n))
            /\ Server \notin collected => \A a, b \in to : a = b
  BY <1>8, <1>9, SendFacts DEF TypeOK
<1>11. e[2] # Unknown /\ Owner(e) = c
  BY <1>4, HandshakeAssumption DEF Owner
<1>12. g[1] = c
  BY <1>3, <1>4, <1>6, <1>11 DEF GuidsAdvance, AskedBefore
<1> QED BY <1>3, <1>4, <1>5, <1>6, <1>7, <1>8, <1>9, <1>10, <1>11, <1>12

\* The answer to lostNuid, if there is one, names no entity.
LEMMA LostFacts ==
  ASSUME TypeOK, AllDrawn, NEW c \in Clients, ServerOnLostNuid(c)
  PROVE  /\ Reports(c, "lostNuid") /\ Pop(c)
         /\ told' \subseteq Answers
         /\ \/ toClient' = toClient
            \/ \E n \in DOMAIN drawnFor, to \in SUBSET Clients :
                 /\ Owner(drawnFor[n]) = Server
                 /\ NewNuid(ServerGuid, Unknown, n) \in Answers
                 /\ SentTo(to, NewNuid(ServerGuid, Unknown, n))
<1> DEFINE n == Head(toServer[c]).nuid
<1>1. Reports(c, "lostNuid") /\ Pop(c)
  BY DEF ServerOnLostNuid
<1>2. Head(toServer[c]) \in ServerEvents /\ Head(toServer[c]) \in Messages(toServer[c])
      /\ Head(toServer[c]).event = "lostNuid"
  BY <1>1, PopFacts
<1>3. n \in DOMAIN drawnFor /\ Owner(drawnFor[n]) = Server /\ n \in Nuids
  BY <1>2, EventFacts DEF AllDrawn, QuestionsAreKnown, IsKnown
<1>4. ownerGuid[n] = ServerGuid
  BY <1>3 DEF AllDrawn, DrawnIsCarried, ClientEntities
<1>5. \/ sendNewNuid(clients, NewNuid(ServerGuid, Unknown, n))
      \/ UNCHANGED <<told, toClient>>
  BY <1>4 DEF ServerOnLostNuid
<1> HIDE DEF n
<1>6. NewNuid(ServerGuid, Unknown, n) \in Answers
  BY <1>3, EventFacts, GuidFacts
<1>7. CASE sendNewNuid(clients, NewNuid(ServerGuid, Unknown, n))
  BY <1>1, <1>3, <1>6, <1>7, SendFacts DEF TypeOK
<1>8. CASE UNCHANGED <<told, toClient>>
  BY <1>1, <1>8 DEF TypeOK
<1> QED BY <1>5, <1>7, <1>8

\* Data of a nuid without entity is answered with lostNuid, or with nothing.
WasSentData(c, n, isSent) ==
  /\ n = Head(toClient[c]).nuid
  /\ Transmit(c, LostNuid(n), isSent)
  /\ \E k \in SUBSET {n} : lost' = [lost EXCEPT ![c] = @ \cup k]

LEMMA DataFacts ==
  ASSUME NEW c, ClientOnEntityData(c)
  PROVE  \E n, isSent : isSent \in BOOLEAN /\ WasSentData(c, n, isSent)
<1>1. PICK n : n = Head(toClient[c]).nuid
  OBVIOUS
<1>2. PICK isSent \in {~ x : x \in alreadySent(c, n \in lost[c])} :
        /\ Transmit(c, LostNuid(n), isSent /\ n \notin globals[c])
        /\ lost' = [lost EXCEPT ![c] = @ \cup {k \in {n} : isSent /\ n \notin globals[c]}]
  BY <1>1, ZenonT(30) DEF ClientOnEntityData
<1>3. PICK sends \in BOOLEAN : sends = (isSent /\ n \notin globals[c])
  OBVIOUS
<1>4. Transmit(c, LostNuid(n), sends)
  BY <1>2, <1>3
<1>5. PICK k : k = {x \in {n} : isSent /\ n \notin globals[c]}
  OBVIOUS
<1>6. k \in SUBSET {n} /\ lost' = [lost EXCEPT ![c] = @ \cup k]
  BY <1>2, <1>5
<1>7. WasSentData(c, n, sends)
  BY <1>1, <1>4, <1>6 DEF WasSentData
<1> QED BY <1>7

\* The announcement of a copy names the owner of the entity, and the copy.
LEMMA CopyFacts ==
  ASSUME TypeOK, AllDrawn, NEW n \in Nuids, ServerScanCopy(n)
  PROVE  \E m \in ClientEvents, to \in SUBSET Clients :
           /\ SentTo(to, m)
           /\ NamesItsEntity(m) /\ IsNewNuid(m)
           /\ m.nuid = n /\ m.id = CopyId[n]
           /\ drawnFor[n] \in ClientEntities
           /\ told' \subseteq Answers
<1>1. /\ n \in DOMAIN drawnFor /\ drawnFor[n] \in ClientEntities
      /\ sendNewNuid(clients, NewNuid(ownerGuid[n], CopyId[n], n))
  BY DEF ServerScanCopy
<1>2. Owner(drawnFor[n]) # Server /\ CopyId[n] \in Ids
  BY <1>1, HandshakeAssumption DEF ClientEntities, Nuids
<1>3. ownerGuid[n] \in Guids
  BY <1>1, OwnerGuidFacts
<1>4. PICK m \in Answers : m = NewNuid(ownerGuid[n], CopyId[n], n)
  BY <1>2, <1>3, EventFacts
<1>5. /\ m.event = "newNuid" /\ m.owner = ownerGuid[n] /\ m.id = CopyId[n]
      /\ m.nuid = n /\ m.id # Unknown
  BY <1>2, <1>4, HandshakeAssumption DEF NewNuid
<1>6. NamesItsEntity(m) /\ IsNewNuid(m)
  BY <1>1, <1>2, <1>5 DEF NamesItsEntity, IsNewNuid
<1>7. told' \subseteq Answers /\ \E to \in SUBSET Clients : SentTo(to, m)
  BY <1>1, <1>4, SendFacts DEF TypeOK
<1> QED BY <1>1, <1>4, <1>5, <1>6, <1>7 DEF ClientEvents
----------------------------------------------------------------------------
\* The nuids that were drawn before.
LEMMA InitFacts ==
  ASSUME Init
  PROVE  /\ ownerGuid \in Seq(Guids) /\ drawnFor \in Seq(Entities)
         /\ Len(ownerGuid) = Len(drawnFor) /\ Len(drawnFor) <= MaxNuid
         /\ \A n \in DOMAIN drawnFor :
              /\ n = 1 /\ drawnFor[n] = Mina /\ nuid[Mina] = 1
              /\ ownerGuid[n] = ServerGuid
         /\ nuid \in [Entities -> Nuids \cup {NoNuid}]
         /\ \A e \in Entities : nuid[e] # NoNuid =>
              e = Mina /\ nuid[e] = 1 /\ 1 \in DOMAIN drawnFor
         /\ cachedGuids \in [Clients -> 0 .. MaxGuids + 1]
         /\ Mina \in Entities \ ClientEntities /\ Owner(Mina) = Server
<1>1. PICK known \in SUBSET Returning : Met(known)
  BY DEF Init
<1>2. /\ Mina \in Entities \ ClientEntities /\ Owner(Mina) = Server
      /\ ServerGuid \in Guids /\ ServerGuid[1] = Server
  BY HandshakeAssumption, GuidFacts DEF ClientEntities, Owner
<1>3. MaxNuid \in Nat /\ 1 <= MaxNuid /\ MaxGuids \in Nat /\ 1 \in Nuids /\ 1 # NoNuid
  BY HandshakeBoundAssumption DEF Nuids, NoNuid
<1>4. cachedGuids \in [Clients -> 0 .. MaxGuids + 1]
  BY <1>1, <1>3 DEF Met
<1>5. nuid \in [Entities -> Nuids \cup {NoNuid}]
  BY <1>1, <1>3 DEF Met
<1>6. CASE known = {}
  <2>1. drawnFor = << >> /\ ownerGuid = << >> /\ \A e \in Entities : nuid[e] = NoNuid
    BY <1>1, <1>6 DEF Met
  <2>2. /\ << >> \in Seq(Entities) /\ << >> \in Seq(Guids) /\ Len(<< >>) = 0
        /\ DOMAIN << >> = {}
    OBVIOUS
  <2> QED BY <1>2, <1>3, <1>4, <1>5, <2>1, <2>2
<1>7. CASE known # {}
  <2>1. /\ drawnFor = <<Mina>> /\ ownerGuid = <<ServerGuid>>
        /\ \A e \in Entities : nuid[e] = IF e = Mina THEN 1 ELSE NoNuid
    BY <1>1, <1>7 DEF Met
  <2>2. /\ drawnFor \in Seq(Entities) /\ ownerGuid \in Seq(Guids)
        /\ Len(drawnFor) = 1 /\ Len(ownerGuid) = 1 /\ DOMAIN drawnFor = {1}
        /\ drawnFor[1] = Mina /\ ownerGuid[1] = ServerGuid
    BY <1>2, <2>1
  <2> QED BY <1>2, <1>3, <1>4, <1>5, <2>1, <2>2
<1> QED BY <1>6, <1>7

LEMMA TypeInit == Init => TypeOK
<1> SUFFICES ASSUME Init PROVE TypeOK
  OBVIOUS
<1>1. \A S : << >> \in Seq(S)
  OBVIOUS
<1>2. guid \in [Clients -> Guids]
  BY GuidFacts DEF Init
<1> QED BY <1>1, <1>2, InitFacts, HandshakeBoundAssumption DEF Init, TypeOK

\* Each step keeps the types.
LEMMA TypeStep == TypeOK /\ AllDrawn /\ GuidsAdvance /\ [Next]_vars => TypeOK'
<1> SUFFICES ASSUME TypeOK, AllDrawn, GuidsAdvance, [Next]_vars PROVE TypeOK'
  OBVIOUS
<1> USE DEF TypeOK, drawn, server, world, client
<1>1. ASSUME NEW e \in ClientEntities, sendNeedNuid(e) PROVE TypeOK'
  <2>1. Owner(e) \in Clients /\ e \in Entities
    BY HandshakeAssumption DEF ClientEntities, Owner
  <2>2. PICK g \in Guids : g = guid[Owner(e)]
    BY <2>1
  <2>3. Transmit(Owner(e), NeedNuid(e, g), TRUE) /\ asked' = asked \cup {<<e, g>>}
        /\ UNCHANGED <<server, world, link, guid, reported, lost, toClient, connects,
                       collected>>
    BY <1>1, <2>2 DEF sendNeedNuid
  <2>4. toServer' \in [Clients -> Seq(ServerEvents)]
    BY <2>1, <2>3, EventFacts, TransmitFacts
  <2>5. asked' \subseteq Entities \X Guids
    BY <2>1, <2>3
  <2> QED BY <2>3, <2>4, <2>5
<1>2. ASSUME NEW e \in ClientEntities, Die(e) PROVE TypeOK'
  BY <1>2 DEF Die, ClientEntities
<1>3. ASSUME NEW e \in Entities \ ClientEntities, NEW peers \in Seq(Clients), Announce(e, peers)
      PROVE  /\ drawnFor' \in Seq(Entities) /\ Len(drawnFor') <= MaxNuid
             /\ ownerGuid' \in Seq(Guids)
             /\ nuid' \in [Entities -> Nuids \cup {NoNuid}]
             /\ toClient' \in [Clients -> Seq(ClientEvents)]
  <2>1. PICK n \in Nuids, to \in SUBSET Clients :
          /\ SentTo(to, NewNuid(ServerGuid, e[2], n))
          /\ NewNuid(ServerGuid, e[2], n) \in Answers
          /\ \/ UNCHANGED <<drawn, nuid>>
             \/ /\ getNextNuid(n, e, ServerGuid)
                /\ nuid' = [nuid EXCEPT ![e] = n]
    BY <1>3, AnnounceFacts
  <2>2. toClient' \in [Clients -> Seq(ClientEvents)]
    BY <2>1, EventFacts, SentFacts
  <2> QED BY <2>1, <2>2, DrawFacts, GuidFacts
<1>4. ASSUME NEW e \in Entities \ ClientEntities, ServerScan(e) PROVE TypeOK'
  <2>1. Announce(e, clients) /\ UNCHANGED <<clients, client, toServer, connects, collected>>
    BY <1>4 DEF ServerScan
  <2>2. UNCHANGED <<cachedGuids, dead, loaded, globals>> /\ told' \subseteq Answers
    BY <2>1, AnnounceFacts
  <2> QED BY <1>3, <2>1, <2>2
<1>5. ASSUME NEW e \in Entities \ ClientEntities, ServerSendEntityData(e) PROVE TypeOK'
  <2>1. nuid[e] \in Nuids
    BY <1>5 DEF ServerSendEntityData
  <2>2. toClient' = [c \in Clients |->
          IF c \in Peers THEN Append(toClient[c], EntityData(nuid[e])) ELSE toClient[c]]
        /\ UNCHANGED <<server, world, client, toServer, connects, collected>>
    BY <1>5 DEF ServerSendEntityData
  <2>3. toClient' \in [Clients -> Seq(ClientEvents)]
    BY <2>1, <2>2, EventFacts, SentFacts DEF SentTo
  <2> QED BY <2>2, <2>3
<1>6. ASSUME NEW c \in Clients, ServerOnConnect(c) PROVE TypeOK'
  <2>1. /\ Reports(c, "connect") /\ Pop(c) /\ clients' = Append(clients, c)
        /\ Announce(Mina, clients') /\ UNCHANGED <<client, connects, collected>>
    BY <1>6 DEF ServerOnConnect
  <2>2. Mina \in Entities \ ClientEntities
    BY HandshakeAssumption DEF ClientEntities, Owner
  <2>3. clients' \in Seq(Clients)
    BY <2>1
  <2>4. UNCHANGED <<cachedGuids, dead, loaded, globals>> /\ told' \subseteq Answers
    BY <2>1, <2>2, <2>3, AnnounceFacts
  <2>5. toServer' \in [Clients -> Seq(ServerEvents)]
    BY <2>1, PopFacts
  <2> QED BY <1>3, <2>1, <2>2, <2>3, <2>4, <2>5
<1>7. ASSUME NEW c \in Clients, ServerOnDisconnect(c) PROVE TypeOK'
  <2>1. /\ Reports(c, "disconnect") /\ Pop(c) /\ clients' = Without(c)
        /\ told' \in {{}, told}
        /\ UNCHANGED <<drawn, cachedGuids, world, client, toClient, connects, collected>>
    BY <1>7 DEF ServerOnDisconnect
  <2>2. clients' \in Seq(Clients)
    BY <2>1, WithoutFacts
  <2>3. toServer' \in [Clients -> Seq(ServerEvents)]
    BY <2>1, PopFacts
  <2> QED BY <2>1, <2>2, <2>3
<1>8. ASSUME NEW c \in Clients, ServerOnNeedNuid(c) PROVE TypeOK'
  <2>1. PICK e \in ClientEntities, g \in Guids, n \in Nuids, to \in SUBSET Clients :
          /\ getNextNuid(n, e, g)
          /\ SentTo(to, NewNuid(g, e[2], n))
          /\ NewNuid(g, e[2], n) \in Answers
          /\ told' \subseteq Answers
    BY <1>8, NeedFacts
  <2>2. /\ Reports(c, "needNuid") /\ Pop(c)
        /\ UNCHANGED <<clients, cachedGuids, world, client, connects, collected>>
    BY <1>8 DEF ServerOnNeedNuid
  <2>3. toClient' \in [Clients -> Seq(ClientEvents)]
    BY <2>1, EventFacts, SentFacts
  <2>4. drawnFor' \in Seq(Entities) /\ Len(drawnFor') <= MaxNuid /\ ownerGuid' \in Seq(Guids)
    BY <2>1, DrawFacts DEF ClientEntities
  <2>5. toServer' \in [Clients -> Seq(ServerEvents)]
    BY <2>2, PopFacts
  <2> QED BY <2>1, <2>2, <2>3, <2>4, <2>5
<1>9. ASSUME NEW c \in Clients, ServerOnLostNuid(c) PROVE TypeOK'
  <2>1. /\ Reports(c, "lostNuid") /\ Pop(c)
        /\ told' \subseteq Answers
        /\ \/ toClient' = toClient
           \/ \E m \in Answers, to \in SUBSET Clients : SentTo(to, m)
    BY <1>9, LostFacts
  <2>2. UNCHANGED <<clients, drawn, cachedGuids, world, client, connects, collected>>
    BY <1>9 DEF ServerOnLostNuid
  <2>3. toClient' \in [Clients -> Seq(ClientEvents)]
    BY <2>1, EventFacts, SentFacts
  <2>4. toServer' \in [Clients -> Seq(ServerEvents)]
    BY <2>1, PopFacts
  <2> QED BY <2>1, <2>2, <2>3, <2>4
<1>10. ASSUME NEW c \in Clients, ClientOnNewNuid(c) PROVE TypeOK'
  <2>1. /\ Takes(c, "newNuid")
        /\ UNCHANGED <<server, dead, globals, client, toServer, connects, collected>>
        /\ \/ /\ nuid' = [nuid EXCEPT ![<<c, Head(toClient[c]).id>>] = Head(toClient[c]).nuid]
              /\ UNCHANGED loaded
           \/ /\ loaded' = [loaded EXCEPT
                    ![c][<<Head(toClient[c]).nuid, Head(toClient[c]).id>>] = @ + 1]
              /\ UNCHANGED nuid
    BY <1>10 DEF ClientOnNewNuid
  <2> DEFINE n == Head(toClient[c]).nuid
             e == <<c, Head(toClient[c]).id>>
             call == <<n, Head(toClient[c]).id>>
  <2>2. n \in Nuids /\ call \in Calls /\ toClient' \in [Clients -> Seq(ClientEvents)]
    <3>1. /\ Head(toClient[c]) \in ClientEvents /\ IsNewNuid(Head(toClient[c]))
          /\ toClient' \in [Clients -> Seq(ClientEvents)]
      BY <2>1, TakesFacts DEF IsNewNuid
    <3>2. n \in Nuids /\ Head(toClient[c]).id \in Ids \cup {Unknown}
      BY <3>1, EventFacts DEF IsNewNuid
    <3> QED BY <3>1, <3>2 DEF Calls
  <2> HIDE DEF n, e, call
  <2>3. nuid' = [nuid EXCEPT ![e] = n] \/ UNCHANGED nuid
    BY <2>1 DEF n, e
  <2>4. loaded' = [loaded EXCEPT ![c][call] = @ + 1] \/ UNCHANGED loaded
    BY <2>1 DEF n, call
  <2>5. nuid' \in [Entities -> Nuids \cup {NoNuid}]
    BY <2>2, <2>3
  <2>6. loaded' \in [Clients -> [Calls -> Nat]]
    <3>1. loaded[c] \in [Calls -> Nat] /\ loaded[c][call] + 1 \in Nat
      BY <2>2
    <3>2. [loaded[c] EXCEPT ![call] = @ + 1] \in [Calls -> Nat]
      BY <2>2, <3>1
    <3> QED BY <2>4, <3>2
  <2> QED BY <2>1, <2>2, <2>5, <2>6
<1>11. ASSUME NEW c \in Clients, ClientOnEntityData(c) PROVE TypeOK'
  <2>1. /\ Takes(c, "entityData")
        /\ UNCHANGED <<server, world, link, guid, reported, asked, connects, collected>>
    BY <1>11 DEF ClientOnEntityData
  <2>2. PICK n, isSent : isSent \in BOOLEAN /\ WasSentData(c, n, isSent)
    BY <1>11, DataFacts
  <2>3. n = Head(toClient[c]).nuid /\ Transmit(c, LostNuid(n), isSent)
        /\ \E k \in SUBSET {n} : lost' = [lost EXCEPT ![c] = @ \cup k]
    BY <2>2 DEF WasSentData
  <2>4. /\ Head(toClient[c]) \in ClientEvents /\ Head(toClient[c]).event = "entityData"
        /\ toClient' \in [Clients -> Seq(ClientEvents)]
    BY <2>1, TakesFacts
  <2>5. n \in Nuids
    BY <2>3, <2>4, EventFacts
  <2>6. toServer' \in [Clients -> Seq(ServerEvents)]
    BY <2>3, <2>5, EventFacts, TransmitFacts
  <2>7. lost' \in [Clients -> SUBSET Nuids]
    BY <2>3, <2>5
  <2> QED BY <2>1, <2>4, <2>6, <2>7
<1>12. ASSUME NEW c \in Clients, NEW n \in Nuids, UpdaterAdded(c, n) PROVE TypeOK'
  BY <1>12 DEF UpdaterAdded
<1>13. ASSUME NEW c \in Clients, Connect(c) PROVE TypeOK'
  <2>1. connects' \in 0 .. MaxConnects
    BY <1>13, HandshakeBoundAssumption DEF Connect
  <2> QED BY <1>13, <2>1 DEF Connect
<1>14. ASSUME NEW c \in Clients, ClientOnConnect(c) \/ ClientOnSeed(c) PROVE TypeOK'
  <2>1. /\ Report(c, <<Connected>>) \/ Report(c, toServer[c])
        /\ link' \in [Clients -> {"disconnected", "connecting", "connected"}]
        /\ UNCHANGED <<server, world, guid, asked, lost, toClient, connects, collected>>
    BY <1>14 DEF ClientOnConnect, ClientOnSeed
  <2>2. <<Connected>> \in Seq(ServerEvents) /\ toServer[c] \in Seq(ServerEvents)
    BY EventFacts
  <2>3. toServer' \in [Clients -> Seq(ServerEvents)] /\ reported' \in [Clients -> SUBSET Guids]
    BY <2>1, <2>2, ReportFacts
  <2> QED BY <2>1, <2>3
<1>15. ASSUME NEW c \in Clients, Disconnect(c) PROVE TypeOK'
  BY <1>15, EventFacts DEF Disconnect
<1>16. ASSUME NEW process \in Clients \cup {Server}, Collect(process) PROVE TypeOK'
  BY <1>16 DEF Collect
<1>17. ASSUME NEW n \in Nuids, ServerScanCopy(n) PROVE TypeOK'
  <2>1. UNCHANGED <<clients, drawn, cachedGuids, world, client, toServer, connects,
                   collected>>
    BY <1>17 DEF ServerScanCopy
  <2>2. told' \subseteq Answers /\ toClient' \in [Clients -> Seq(ClientEvents)]
    BY <1>17, CopyFacts, SentFacts
  <2> QED BY <2>1, <2>2
<1>18. ASSUME NEW c \in Clients, ServerOnPlayerInfo(c) PROVE TypeOK'
  <2>1. PICK old : old = Head(toServer[c]).guid
    OBVIOUS
  <2>2. /\ Reports(c, "playerInfo") /\ Pop(c) /\ cachedGuids[c] <= MaxGuids
        /\ cachedGuids' = [cachedGuids EXCEPT ![c] = @ + 1]
        /\ UNCHANGED <<clients, drawn, told, world, client, connects, collected>>
        /\ \/ UNCHANGED toClient
           \/ \E to : SentTo(to, NewGuid(old, <<c, cachedGuids[c]>>))
    BY <1>18, <2>1 DEF ServerOnPlayerInfo
  <2>3. old \in Guids /\ toServer' \in [Clients -> Seq(ServerEvents)]
    BY <2>1, <2>2, PopFacts, EventFacts
  <2>4. /\ cachedGuids[c] \in 0 .. MaxGuids /\ MaxGuids \in Nat
        /\ cachedGuids[c] + 1 \in 0 .. MaxGuids + 1
    BY <2>2, HandshakeBoundAssumption
  <2>5. <<c, cachedGuids[c]>> \in Guids /\ cachedGuids' \in [Clients -> 0 .. MaxGuids + 1]
    BY <2>2, <2>4, GuidFacts
  <2>6. NewGuid(old, <<c, cachedGuids[c]>>) \in ClientEvents
    BY <2>3, <2>5, EventFacts
  <2>7. toClient' \in [Clients -> Seq(ClientEvents)]
    BY <2>2, <2>6, SentFacts
  <2> QED BY <2>2, <2>3, <2>5, <2>7
<1>19. ASSUME NEW c \in Clients, ClientOnNewGuid(c) PROVE TypeOK'
  <2>1. PICK m : m = Head(toClient[c])
    OBVIOUS
  <2>2. /\ Takes(c, "newGuid")
        /\ guid' = [guid EXCEPT ![c] = IF @ = m.old THEN m.new ELSE @]
        /\ UNCHANGED <<server, world, link, reported, asked, lost, toServer, connects,
                       collected>>
    BY <1>19, <2>1 DEF ClientOnNewGuid
  <2>3. m.new \in Guids /\ toClient' \in [Clients -> Seq(ClientEvents)]
    BY <2>1, <2>2, TakesFacts, EventFacts
  <2> QED BY <2>2, <2>3
<1>20. CASE UNCHANGED vars
  BY <1>20 DEF vars
<1> QED
  BY <1>1, <1>2, <1>4, <1>5, <1>6, <1>7, <1>8, <1>9, <1>10, <1>11, <1>12, <1>13, <1>14,
     <1>15, <1>16, <1>17, <1>18, <1>19, <1>20 DEF Next, ServerUpdate, ClientUpdate
----------------------------------------------------------------------------
LEMMA ToldStep ==
  ASSUME AllDrawn, Grows, NEW m, NamesItsEntity(m)',
         \A c \in Clients : Messages(toClient'[c]) \subseteq Messages(toClient[c]) \cup {m}
  PROVE  ToldIsDrawn'
<1>1. \A x : NamesItsEntity(x) => NamesItsEntity(x)'
  BY DEF NamesItsEntity, Grows
<1> QED BY <1>1 DEF AllDrawn, ToldIsDrawn, Messages

LEMMA StillTold ==
  ASSUME AllDrawn, Grows,
         \A c \in Clients : Messages(toClient'[c]) \subseteq Messages(toClient[c])
  PROVE  ToldIsDrawn'
<1>1. \A x : NamesItsEntity(x) => NamesItsEntity(x)'
  BY DEF NamesItsEntity, Grows
<1> QED BY <1>1 DEF AllDrawn, ToldIsDrawn, Messages

LEMMA QuestionsStep ==
  ASSUME AllDrawn, Grows, asked \subseteq asked', NEW m,
         \A c \in Clients : \A x \in Messages(toServer'[c]) :
           x \in Messages(toServer[c]) \/ (x = m /\ IsKnown(c, m)')
  PROVE  QuestionsAreKnown'
<1>1. \A x, c : IsKnown(c, x) => IsKnown(c, x)'
  BY DEF IsKnown, Grows
<1> QED BY <1>1 DEF AllDrawn, QuestionsAreKnown, Messages

LEMMA StillKnown ==
  ASSUME AllDrawn, Grows, asked \subseteq asked',
         \A c \in Clients : Messages(toServer'[c]) \subseteq Messages(toServer[c])
  PROVE  QuestionsAreKnown'
<1>1. \A x, c : IsKnown(c, x) => IsKnown(c, x)'
  BY DEF IsKnown, Grows
<1> QED BY <1>1 DEF AllDrawn, QuestionsAreKnown, Messages

LEMMA AllDrawnInit == Init => AllDrawn
<1> SUFFICES ASSUME Init PROVE AllDrawn
  OBVIOUS
<1>1. \A c \in Clients : Messages(toClient[c]) = {} /\ Messages(toServer[c]) = {}
  BY DEF Init, Messages
<1>2. \A c \in Clients, call \in Calls : loaded[c][call] = 0
  BY DEF Init
<1>3. ToldIsDrawn /\ QuestionsAreKnown /\ LoadedIsDrawn
  BY <1>1, <1>2 DEF ToldIsDrawn, QuestionsAreKnown, LoadedIsDrawn
<1>4. CarriedIsDrawn /\ DrawnForOwner /\ DrawnIsCarried
  BY InitFacts, GuidFacts DEF CarriedIsDrawn, DrawnForOwner, DrawnIsCarried
<1> QED BY <1>3, <1>4 DEF AllDrawn

\* An announcement keeps what was drawn and carried together.
LEMMA AnnounceStep ==
  ASSUME TypeOK, AllDrawn, NEW e \in Entities \ ClientEntities, NEW peers \in Seq(Clients),
         Announce(e, peers), asked' = asked
  PROVE  /\ Grows /\ ToldIsDrawn' /\ CarriedIsDrawn'
         /\ DrawnForOwner' /\ DrawnIsCarried' /\ LoadedIsDrawn'
<1>1. PICK n \in Nuids, to \in SUBSET Clients :
        /\ SentTo(to, NewNuid(ServerGuid, e[2], n))
        /\ NewNuid(ServerGuid, e[2], n) \in Answers
        /\ e = <<Server, e[2]>> /\ e[2] # Unknown
        /\ \/ /\ UNCHANGED <<drawn, nuid>>
              /\ n \in DOMAIN drawnFor /\ drawnFor[n] = e
           \/ /\ getNextNuid(n, e, ServerGuid)
              /\ nuid[e] = NoNuid
              /\ nuid' = [nuid EXCEPT ![e] = n]
  BY AnnounceFacts
<1>2. /\ Grows /\ n \in DOMAIN drawnFor'
      /\ drawnFor'[n] = e /\ ownerGuid'[n] = ServerGuid
  <2>1. CASE UNCHANGED <<drawn, nuid>> /\ n \in DOMAIN drawnFor /\ drawnFor[n] = e
    BY <2>1 DEF Grows, drawn, AllDrawn, DrawnIsCarried
  <2>2. CASE getNextNuid(n, e, ServerGuid)
    BY <2>2, DrawFacts, GuidFacts DEF Grows
  <2> QED BY <1>1, <2>1, <2>2
<1>3. NamesItsEntity(NewNuid(ServerGuid, e[2], n))'
  <2> DEFINE m == NewNuid(ServerGuid, e[2], n)
  <2>1. m.event = "newNuid" /\ m.owner = ServerGuid /\ m.id = e[2] /\ m.nuid = n
    BY DEF NewNuid
  <2>2. /\ m.nuid \in DOMAIN drawnFor' /\ m.owner = ownerGuid'[m.nuid]
        /\ m.id = drawnFor'[m.nuid][2] /\ m.id # Unknown
    BY <1>1, <1>2, <2>1
  <2> QED BY <2>1, <2>2 DEF NamesItsEntity, IsNewNuid
<1>4. ToldIsDrawn'
  <2>1. PICK m : m = NewNuid(ServerGuid, e[2], n)
    OBVIOUS
  <2>2. m \in ClientEvents /\ SentTo(to, m)
    BY <1>1, <2>1 DEF ClientEvents
  <2>3. \A c \in Clients : Messages(toClient'[c]) \subseteq Messages(toClient[c]) \cup {m}
    BY <2>2, SentFacts
  <2>4. NamesItsEntity(m)'
    BY <1>3, <2>1
  <2> QED BY <1>2, <2>3, <2>4, ToldStep
<1>5. UNCHANGED loaded
  BY DEF Announce
<1>6. LoadedIsDrawn'
  BY <1>2, <1>5 DEF LoadedIsDrawn, AllDrawn, Grows
<1>7. CASE UNCHANGED <<drawn, nuid>>
  BY <1>2, <1>4, <1>6, <1>7 DEF drawn, AllDrawn, CarriedIsDrawn, DrawnForOwner, DrawnIsCarried
<1>8. CASE getNextNuid(n, e, ServerGuid) /\ nuid[e] = NoNuid /\ nuid' = [nuid EXCEPT ![e] = n]
  <2>1. /\ n \notin DOMAIN drawnFor
        /\ DOMAIN drawnFor' = DOMAIN drawnFor \cup {n}
        /\ drawnFor'[n] = e /\ ownerGuid'[n] = ServerGuid
        /\ \A k \in DOMAIN drawnFor :
             drawnFor'[k] = drawnFor[k] /\ ownerGuid'[k] = ownerGuid[k]
        /\ Len(ownerGuid') = Len(drawnFor')
    BY <1>8, DrawFacts, GuidFacts
  <2>2. nuid'[e] = n /\ \A f \in Entities \ {e} : nuid'[f] = nuid[f]
    BY <1>8 DEF TypeOK
  <2>3. CarriedIsDrawn'
    BY <2>1, <2>2 DEF AllDrawn, CarriedIsDrawn
  <2>4. \A k \in DOMAIN drawnFor : drawnFor[k] # e
    <3>1. \A k \in DOMAIN drawnFor : k # NoNuid
      BY DEF TypeOK, NoNuid
    <3> QED BY <1>8, <3>1 DEF AllDrawn, DrawnIsCarried
  <2>5. \A k \in DOMAIN drawnFor : drawnFor[k] \in Entities
    BY DEF TypeOK
  <2>6. DrawnIsCarried'
    BY <2>1, <2>2, <2>4, <2>5 DEF AllDrawn, DrawnIsCarried
  <2>7. DrawnForOwner'
    BY <1>1, <2>1, GuidFacts DEF AllDrawn, DrawnForOwner, Owner
  <2> QED BY <1>2, <1>4, <1>6, <2>3, <2>6, <2>7
<1> QED BY <1>1, <1>7, <1>8

\* An answer that gives an entity its nuid was drawn for it, under the guid that
\* its owner still has.
IsAnsweredBy(m, e) ==
  /\ m.nuid \in DOMAIN drawnFor /\ m.nuid \in Nuids
  /\ ownerGuid[m.nuid] = guid[Owner(e)]
  /\ OwnIds => drawnFor[m.nuid] = e

LEMMA MineFacts ==
  ASSUME TypeOK, AllDrawn, GuidsAdvance, NEW c \in Clients, NEW m \in ClientEvents,
         m \in Messages(toClient[c]), IsNewNuid(m), IsMine(c, m)
  PROVE  \E e \in ClientEntities : e = <<c, m.id>> /\ IsAnsweredBy(m, e)
<1>1. PICK e \in Entities : e = <<c, m.id>> /\ m.owner = guid[c]
  BY DEF IsMine
<1>2. e[2] = m.id /\ e[2] \in Ids /\ Owner(e) = c /\ c # Server
  BY <1>1, HandshakeAssumption DEF Owner
<1>3. e \in ClientEntities
  BY <1>2 DEF ClientEntities
<1>4. NamesItsEntity(m) /\ m.event = "newNuid" /\ m.id # Unknown
  BY <1>2, HandshakeAssumption DEF AllDrawn, ToldIsDrawn, IsNewNuid
<1>5. /\ m.nuid \in DOMAIN drawnFor /\ ownerGuid[m.nuid] = guid[c]
      /\ m.id = drawnFor[m.nuid][2] \/ m.id = CopyId[m.nuid]
  BY <1>1, <1>4 DEF NamesItsEntity, IsNewNuid
<1>6. m.nuid \in Nuids
  BY EventFacts, <1>4
<1>7. Owner(drawnFor[m.nuid]) = c
  BY <1>5 DEF AllDrawn, DrawnForOwner, GuidsAdvance
<1>8. drawnFor[m.nuid] = <<c, drawnFor[m.nuid][2]>>
  <2>1. drawnFor[m.nuid] \in Entities
    BY <1>5 DEF TypeOK
  <2> QED BY <1>7, <2>1, HandshakeAssumption DEF Owner
<1>9. OwnIds => drawnFor[m.nuid] = e
  BY <1>1, <1>2, <1>3, <1>5, <1>6, <1>8 DEF OwnIds
<1> QED BY <1>1, <1>2, <1>3, <1>5, <1>6, <1>9 DEF IsAnsweredBy

\* Each step keeps it.
LEMMA AllDrawnStep == TypeOK /\ AllDrawn /\ GuidsAdvance /\ [Next]_vars => AllDrawn'
<1> SUFFICES ASSUME TypeOK, AllDrawn, GuidsAdvance, [Next]_vars PROVE AllDrawn'
  OBVIOUS
<1> USE DEF drawn, server, world, client
<1>a. ASSUME UNCHANGED drawn, asked \subseteq asked'
      PROVE  /\ Grows /\ DrawnForOwner'
             /\ nuid' = nuid => CarriedIsDrawn' /\ DrawnIsCarried'
             /\ loaded' = loaded => LoadedIsDrawn'
  BY <1>a DEF AllDrawn, CarriedIsDrawn, DrawnForOwner, DrawnIsCarried, LoadedIsDrawn, Grows
<1>b. ASSUME UNCHANGED drawn, asked' = asked, nuid' = nuid, loaded' = loaded,
             \A c \in Clients : Messages(toServer'[c]) \subseteq Messages(toServer[c]),
             \A c \in Clients : Messages(toClient'[c]) \subseteq Messages(toClient[c])
      PROVE  AllDrawn'
  <2>1. Grows
    BY <1>a, <1>b
  <2>2. ToldIsDrawn'
    BY <1>b, <2>1, StillTold
  <2>3. QuestionsAreKnown'
    BY <1>b, <2>1, StillKnown
  <2> QED BY <1>a, <1>b, <2>2, <2>3 DEF AllDrawn
<1>1. ASSUME NEW e \in ClientEntities, sendNeedNuid(e) PROVE AllDrawn'
  <2>1. Owner(e) \in Clients /\ e \in Entities /\ e = <<Owner(e), e[2]>>
    BY HandshakeAssumption DEF ClientEntities, Owner
  <2>2. PICK g \in Guids : g = guid[Owner(e)]
    BY <2>1 DEF TypeOK
  <2>3. /\ Transmit(Owner(e), NeedNuid(e, g), TRUE) /\ asked' = asked \cup {<<e, g>>}
        /\ UNCHANGED <<server, world, toClient>>
    BY <1>1, <2>2 DEF sendNeedNuid
  <2>4. PICK m : m = NeedNuid(e, g)
    OBVIOUS
  <2>5. m \in ServerEvents
    BY <2>1, <2>4, EventFacts
  <2>6. \A d \in Clients : Messages(toServer'[d]) \subseteq
          Messages(toServer[d]) \cup {x \in {m} : d = Owner(e) /\ TRUE}
    BY <2>1, <2>3, <2>4, <2>5, TransmitFacts
  <2>7. IsKnown(Owner(e), m)'
    BY <2>1, <2>3, <2>4 DEF IsKnown, NeedNuid
  <2>8. UNCHANGED drawn /\ asked \subseteq asked' /\ Grows
    BY <2>3 DEF Grows
  <2>9. QuestionsAreKnown'
    BY <2>6, <2>7, <2>8, QuestionsStep
  <2>10. ToldIsDrawn'
    BY <2>3, <2>8, StillTold
  <2> QED BY <1>a, <2>3, <2>8, <2>9, <2>10 DEF AllDrawn
<1>2. ASSUME NEW e \in ClientEntities, Die(e) PROVE AllDrawn'
  BY <1>b, <1>2 DEF Die
<1>3. ASSUME NEW e \in Entities \ ClientEntities, ServerScan(e) PROVE AllDrawn'
  <2>1. Announce(e, clients) /\ UNCHANGED <<client, toServer>>
    BY <1>3 DEF ServerScan
  <2>2. /\ Grows /\ ToldIsDrawn' /\ CarriedIsDrawn'
        /\ DrawnForOwner' /\ DrawnIsCarried' /\ LoadedIsDrawn'
    BY <2>1, AnnounceStep DEF TypeOK
  <2>3. QuestionsAreKnown'
    BY <2>1, <2>2, StillKnown
  <2> QED BY <2>2, <2>3 DEF AllDrawn
<1>4. ASSUME NEW e \in Entities \ ClientEntities, ServerSendEntityData(e) PROVE AllDrawn'
  <2>1. /\ nuid[e] # NoNuid
        /\ toClient' = [c \in Clients |->
             IF c \in Peers THEN Append(toClient[c], EntityData(nuid[e])) ELSE toClient[c]]
        /\ UNCHANGED <<server, world, client, toServer>>
    BY <1>4 DEF ServerSendEntityData
  <2>2. PICK m : m = EntityData(nuid[e])
    OBVIOUS
  <2>3. nuid[e] \in Nuids
    BY <2>1 DEF TypeOK
  <2>4. m \in ClientEvents /\ SentTo(Peers, m)
    BY <2>1, <2>2, <2>3, EventFacts DEF SentTo
  <2>5. \A c \in Clients : Messages(toClient'[c]) \subseteq Messages(toClient[c]) \cup {m}
    BY <2>4, SentFacts
  <2>6. m.event = "entityData" /\ m.nuid = nuid[e] /\ Owner(e) = Server
    BY <2>2, HandshakeAssumption DEF EntityData, ClientEntities, Owner
  <2>7. nuid[e] \in DOMAIN drawnFor /\ drawnFor[nuid[e]] = e
    BY <2>1 DEF AllDrawn, CarriedIsDrawn
  <2>8. NamesItsEntity(m)'
    BY <2>1, <2>6, <2>7 DEF NamesItsEntity, IsNewNuid
  <2>9. ToldIsDrawn'
    BY <1>a, <2>1, <2>5, <2>8, ToldStep
  <2>10. QuestionsAreKnown'
    BY <1>a, <2>1, StillKnown
  <2> QED BY <1>a, <2>1, <2>9, <2>10 DEF AllDrawn
<1>5. ASSUME NEW c \in Clients, ServerOnConnect(c) PROVE AllDrawn'
  <2>1. /\ Reports(c, "connect") /\ Pop(c) /\ clients' = Append(clients, c)
        /\ Announce(Mina, clients') /\ UNCHANGED client
    BY <1>5 DEF ServerOnConnect
  <2>2. Mina \in Entities \ ClientEntities /\ clients' \in Seq(Clients)
    BY <2>1, HandshakeAssumption DEF ClientEntities, Owner, TypeOK
  <2>3. /\ Grows /\ ToldIsDrawn' /\ CarriedIsDrawn'
        /\ DrawnForOwner' /\ DrawnIsCarried' /\ LoadedIsDrawn'
    BY <2>1, <2>2, AnnounceStep
  <2>4. QuestionsAreKnown'
    BY <2>1, <2>3, PopFacts, StillKnown
  <2> QED BY <2>3, <2>4 DEF AllDrawn
<1>6. ASSUME NEW c \in Clients, ServerOnDisconnect(c) PROVE AllDrawn'
  BY <1>b, <1>6, PopFacts DEF ServerOnDisconnect
<1>7. ASSUME NEW c \in Clients, ServerOnNeedNuid(c) PROVE AllDrawn'
  <2>1. /\ Reports(c, "needNuid") /\ Pop(c) /\ UNCHANGED <<world, client>>
    BY <1>7 DEF ServerOnNeedNuid
  <2>2. PICK e \in ClientEntities, g \in Guids, n \in Nuids, to \in SUBSET Clients :
          /\ Owner(e) = c /\ <<e, g>> \in asked /\ e[2] # Unknown /\ g[1] = c
          /\ getNextNuid(n, e, g)
          /\ SentTo(to, NewNuid(g, e[2], n))
          /\ NewNuid(g, e[2], n) \in Answers
    BY <1>7, NeedFacts
  <2>3. /\ n \notin DOMAIN drawnFor
        /\ DOMAIN drawnFor' = DOMAIN drawnFor \cup {n}
        /\ drawnFor'[n] = e /\ ownerGuid'[n] = g
        /\ \A k \in DOMAIN drawnFor :
             drawnFor'[k] = drawnFor[k] /\ ownerGuid'[k] = ownerGuid[k]
        /\ Len(ownerGuid') = Len(drawnFor')
    BY <2>2, DrawFacts DEF ClientEntities
  <2>4. Grows
    BY <2>3 DEF Grows
  <2>5. PICK m : m = NewNuid(g, e[2], n)
    OBVIOUS
  <2>6. m \in ClientEvents /\ SentTo(to, m)
    BY <2>2, <2>5 DEF ClientEvents
  <2>7. \A d \in Clients : Messages(toClient'[d]) \subseteq Messages(toClient[d]) \cup {m}
    BY <2>6, SentFacts
  <2>8. m.event = "newNuid" /\ m.owner = g /\ m.id = e[2] /\ m.nuid = n
    BY <2>5 DEF NewNuid
  <2>9. NamesItsEntity(m)'
    BY <2>2, <2>3, <2>8 DEF NamesItsEntity, IsNewNuid
  <2>10. ToldIsDrawn'
    BY <2>4, <2>7, <2>9, ToldStep
  <2>11. QuestionsAreKnown'
    BY <2>1, <2>4, PopFacts, StillKnown
  <2>12. CarriedIsDrawn'
    BY <2>1, <2>3 DEF AllDrawn, CarriedIsDrawn
  <2>13. DrawnIsCarried'
    BY <2>1, <2>2, <2>3 DEF AllDrawn, DrawnIsCarried
  <2>14. LoadedIsDrawn'
    BY <2>1, <2>3 DEF AllDrawn, LoadedIsDrawn
  <2>15. DrawnForOwner'
    BY <2>2, <2>3 DEF AllDrawn, DrawnForOwner
  <2> QED BY <2>10, <2>11, <2>12, <2>13, <2>14, <2>15 DEF AllDrawn
<1>8. ASSUME NEW c \in Clients, ServerOnLostNuid(c) PROVE AllDrawn'
  <2>1. UNCHANGED <<drawn, world, client>>
    BY <1>8 DEF ServerOnLostNuid
  <2>2. /\ Reports(c, "lostNuid") /\ Pop(c)
        /\ \/ toClient' = toClient
           \/ \E n \in DOMAIN drawnFor, to \in SUBSET Clients :
                /\ Owner(drawnFor[n]) = Server
                /\ NewNuid(ServerGuid, Unknown, n) \in Answers
                /\ SentTo(to, NewNuid(ServerGuid, Unknown, n))
    BY <1>8, LostFacts
  <2>3. QuestionsAreKnown'
    BY <1>a, <2>1, <2>2, PopFacts, StillKnown
  <2>4. CASE toClient' = toClient
    BY <1>a, <2>1, <2>3, <2>4, StillTold DEF AllDrawn
  <2>5. CASE \E n \in DOMAIN drawnFor, to \in SUBSET Clients :
               /\ Owner(drawnFor[n]) = Server
               /\ NewNuid(ServerGuid, Unknown, n) \in Answers
               /\ SentTo(to, NewNuid(ServerGuid, Unknown, n))
    <3>1. PICK n \in DOMAIN drawnFor, to \in SUBSET Clients :
            /\ Owner(drawnFor[n]) = Server
            /\ NewNuid(ServerGuid, Unknown, n) \in Answers
            /\ SentTo(to, NewNuid(ServerGuid, Unknown, n))
      BY <2>5
    <3>2. PICK m : m = NewNuid(ServerGuid, Unknown, n)
      OBVIOUS
    <3>3. m \in ClientEvents /\ SentTo(to, m)
      BY <3>1, <3>2 DEF ClientEvents
    <3>4. \A d \in Clients : Messages(toClient'[d]) \subseteq Messages(toClient[d]) \cup {m}
      BY <3>3, SentFacts
    <3>5. NamesItsEntity(m)'
      BY <2>1, <3>1, <3>2 DEF NamesItsEntity, NewNuid
    <3>6. ToldIsDrawn'
      BY <1>a, <2>1, <3>4, <3>5, ToldStep
    <3> QED BY <1>a, <2>1, <2>3, <3>6 DEF AllDrawn
  <2> QED BY <2>2, <2>4, <2>5
<1>9. ASSUME NEW c \in Clients, ClientOnNewNuid(c) PROVE AllDrawn'
  <2>1. PICK m : m = Head(toClient[c])
    OBVIOUS
  <2>2. /\ Takes(c, "newNuid")
        /\ UNCHANGED <<server, client, toServer>>
        /\ \/ /\ IsMine(c, m)
              /\ nuid' = [nuid EXCEPT ![<<c, m.id>>] = m.nuid]
              /\ UNCHANGED loaded
           \/ /\ loaded' = [loaded EXCEPT ![c][<<m.nuid, m.id>>] = @ + 1]
              /\ UNCHANGED nuid
    BY <1>9, <2>1 DEF ClientOnNewNuid
  <2>3. /\ m \in Messages(toClient[c]) /\ m \in ClientEvents /\ IsNewNuid(m) /\ m.nuid \in Nuids
        /\ \A d \in Clients : Messages(toClient'[d]) \subseteq Messages(toClient[d])
    BY <2>1, <2>2, TakesFacts, EventFacts DEF IsNewNuid
  <2>4. NamesItsEntity(m)
    BY <2>3 DEF AllDrawn, ToldIsDrawn
  <2>a. m.nuid \in DOMAIN drawnFor
    BY <2>3, <2>4 DEF NamesItsEntity, IsNewNuid
  <2>5. ToldIsDrawn' /\ QuestionsAreKnown'
    BY <1>a, <2>2, <2>3, StillTold, StillKnown
  <2>6. CASE IsMine(c, m) /\ nuid' = [nuid EXCEPT ![<<c, m.id>>] = m.nuid] /\ UNCHANGED loaded
    <3>1. PICK e \in ClientEntities :
            /\ e = <<c, m.id>> /\ e \in Entities
            /\ m.nuid \in DOMAIN drawnFor /\ (OwnIds => drawnFor[m.nuid] = e)
      BY <2>3, <2>6, MineFacts DEF IsAnsweredBy, ClientEntities
    <3>2. nuid'[e] = m.nuid /\ \A f \in Entities \ {e} : nuid'[f] = nuid[f]
      BY <2>6, <3>1 DEF TypeOK
    <3>3. CarriedIsDrawn'
      BY <2>2, <3>1, <3>2 DEF AllDrawn, CarriedIsDrawn
    <3>4. \A k \in DOMAIN drawnFor : drawnFor[k] \in Entities
      BY DEF TypeOK
    <3>5. DrawnIsCarried'
      BY <2>2, <3>1, <3>2, <3>4 DEF AllDrawn, DrawnIsCarried
    <3> QED BY <1>a, <2>2, <2>5, <2>6, <3>3, <3>5 DEF AllDrawn
  <2>7. CASE loaded' = [loaded EXCEPT ![c][<<m.nuid, m.id>>] = @ + 1] /\ UNCHANGED nuid
    <3>1. \A d \in Clients, call \in Calls :
            call[1] # m.nuid => loaded'[d][call] = loaded[d][call]
      <4>1. PICK call \in Calls : call = <<m.nuid, m.id>>
        BY <2>3, EventFacts DEF Calls
      <4>2. call[1] = m.nuid
        BY <4>1
      <4>3. loaded' = [loaded EXCEPT ![c][call] = @ + 1]
        BY <2>7, <4>1
      <4> QED BY <4>2, <4>3 DEF TypeOK
    <3>2. LoadedIsDrawn'
      BY <2>2, <2>a, <3>1 DEF AllDrawn, LoadedIsDrawn
    <3> QED BY <1>a, <2>2, <2>5, <2>7, <3>2 DEF AllDrawn
  <2> QED BY <2>2, <2>6, <2>7
<1>10. ASSUME NEW c \in Clients, ClientOnEntityData(c) PROVE AllDrawn'
  <2>1. PICK n : n = Head(toClient[c]).nuid
    OBVIOUS
  <2>2. /\ Takes(c, "entityData")
        /\ \E isSent : Transmit(c, LostNuid(n), isSent /\ n \notin globals[c])
        /\ UNCHANGED <<server, world, asked>>
    BY <1>10, <2>1 DEF ClientOnEntityData
  <2>3. PICK m \in ClientEvents : m = Head(toClient[c]) /\ m \in Messages(toClient[c])
    BY <2>2, TakesFacts
  <2>4. m.event = "entityData" /\ m.nuid = n /\ n \in Nuids
    BY <2>1, <2>2, <2>3, TakesFacts, EventFacts
  <2>5. n \in DOMAIN drawnFor /\ Owner(drawnFor[n]) = Server
    BY <2>3, <2>4 DEF AllDrawn, ToldIsDrawn, NamesItsEntity, IsNewNuid
  <2>6. PICK x : x = LostNuid(n)
    OBVIOUS
  <2>7. x \in ServerEvents /\ x.event = "lostNuid" /\ x.nuid = n
    BY <2>4, <2>6, EventFacts DEF LostNuid
  <2>8. \A d \in Clients : Messages(toServer'[d]) \subseteq Messages(toServer[d]) \cup {x}
    <3>1. PICK isSent : Transmit(c, x, isSent /\ n \notin globals[c])
      BY <2>2, <2>6
    <3>2. \A d \in Clients : Messages(toServer'[d]) \subseteq Messages(toServer[d])
            \cup {y \in {x} : d = c /\ isSent /\ n \notin globals[c]}
      BY <2>7, <3>1, TransmitFacts
    <3> QED BY <3>2
  <2>9. \A d : IsKnown(d, x)'
    BY <2>2, <2>5, <2>7 DEF IsKnown
  <2>10. QuestionsAreKnown'
    BY <1>a, <2>2, <2>8, <2>9, QuestionsStep
  <2>11. ToldIsDrawn'
    BY <1>a, <2>2, TakesFacts, StillTold
  <2> QED BY <1>a, <2>2, <2>10, <2>11 DEF AllDrawn
<1>11. ASSUME NEW c \in Clients, NEW n \in Nuids, UpdaterAdded(c, n) PROVE AllDrawn'
  BY <1>b, <1>11 DEF UpdaterAdded
<1>12. ASSUME NEW c \in Clients, Connect(c) PROVE AllDrawn'
  BY <1>b, <1>12 DEF Connect
<1>13. ASSUME NEW c \in Clients, ClientOnConnect(c) \/ ClientOnSeed(c) PROVE AllDrawn'
  <2>1. PICK x : x = Connected
    OBVIOUS
  <2>2. PICK queue \in Seq(ServerEvents) :
          Report(c, queue) /\ Messages(queue) \subseteq Messages(toServer[c]) \cup {x}
    <3>1. <<Connected>> \in Seq(ServerEvents) /\ Messages(<<Connected>>) = {x}
      BY <2>1, EventFacts DEF Messages
    <3>2. toServer[c] \in Seq(ServerEvents)
      BY DEF TypeOK
    <3> QED BY <1>13, <3>1, <3>2 DEF ClientOnConnect, ClientOnSeed
  <2>3. UNCHANGED <<server, world, asked, toClient>>
    BY <1>13 DEF ClientOnConnect, ClientOnSeed
  <2>4. PICK m : m = PlayerInfo(guid[c])
    OBVIOUS
  <2>5. /\ Messages(toServer'[c]) \subseteq Messages(toServer[c]) \cup {x, m}
        /\ \A d \in Clients \ {c} : toServer'[d] = toServer[d]
    BY <2>2, <2>4, ReportFacts
  <2>6. \A d : IsKnown(d, x)' /\ IsKnown(d, m)'
    BY <2>1, <2>4 DEF IsKnown, Connected, PlayerInfo
  <2>7. \A k, d : IsKnown(d, k) => IsKnown(d, k)'
    BY <2>3 DEF IsKnown
  <2>8. QuestionsAreKnown'
    BY <2>5, <2>6, <2>7 DEF AllDrawn, QuestionsAreKnown
  <2> QED BY <1>a, <2>3, <2>8, StillTold DEF AllDrawn
<1>14. ASSUME NEW c \in Clients, Disconnect(c) PROVE AllDrawn'
  <2>1. /\ toServer' = [toServer EXCEPT ![c] = IF c \in Peers THEN <<Disconnected>> ELSE << >>]
        /\ toClient' = [toClient EXCEPT ![c] = << >>]
        /\ UNCHANGED <<server, world, asked>>
    BY <1>14 DEF Disconnect
  <2>2. PICK m : m = Disconnected
    OBVIOUS
  <2>3. \A d : IsKnown(d, m)'
    BY <2>2 DEF IsKnown, Disconnected
  <2>4. \A d \in Clients : Messages(toServer'[d]) \subseteq Messages(toServer[d]) \cup {m}
    BY <2>1, <2>2 DEF Messages, TypeOK
  <2>5. QuestionsAreKnown'
    BY <1>a, <2>1, <2>3, <2>4, QuestionsStep
  <2>6. \A d \in Clients : Messages(toClient'[d]) \subseteq Messages(toClient[d])
    BY <2>1 DEF Messages, TypeOK
  <2> QED BY <1>a, <2>1, <2>5, <2>6, StillTold DEF AllDrawn
<1>15. ASSUME NEW process \in Clients \cup {Server}, Collect(process) PROVE AllDrawn'
  BY <1>b, <1>15 DEF Collect
<1>16. ASSUME NEW n \in Nuids, ServerScanCopy(n) PROVE AllDrawn'
  <2>1. UNCHANGED <<drawn, world, client, toServer>>
    BY <1>16 DEF ServerScanCopy
  <2>2. PICK m \in ClientEvents, to \in SUBSET Clients : SentTo(to, m) /\ NamesItsEntity(m)
    BY <1>16, CopyFacts
  <2>3. NamesItsEntity(m)'
    BY <2>1, <2>2 DEF NamesItsEntity
  <2>4. ToldIsDrawn'
    BY <1>a, <2>1, <2>2, <2>3, SentFacts, ToldStep
  <2>5. QuestionsAreKnown'
    BY <1>a, <2>1, StillKnown
  <2> QED BY <1>a, <2>1, <2>4, <2>5 DEF AllDrawn
<1>17. ASSUME NEW c \in Clients, ServerOnPlayerInfo(c) PROVE AllDrawn'
  <2>1. /\ Reports(c, "playerInfo") /\ Pop(c) /\ UNCHANGED <<drawn, world, client>>
        /\ UNCHANGED toClient \/ \E to, g, h : SentTo(to, NewGuid(g, h))
    BY <1>17 DEF ServerOnPlayerInfo
  <2>2. QuestionsAreKnown'
    BY <1>a, <2>1, PopFacts, StillKnown
  <2>3. CASE UNCHANGED toClient
    BY <1>a, <2>1, <2>2, <2>3, StillTold DEF AllDrawn
  <2>4. CASE \E to, g, h : SentTo(to, NewGuid(g, h))
    <3>1. PICK to, m : SentTo(to, m) /\ m.event = "newGuid"
      BY <2>4 DEF NewGuid
    <3>2. \A d \in Clients : Messages(toClient'[d]) \subseteq Messages(toClient[d]) \cup {m}
      BY <3>1, AnySentFacts
    <3>3. NamesItsEntity(m)'
      BY <3>1 DEF NamesItsEntity
    <3>4. ToldIsDrawn'
      BY <1>a, <2>1, <3>2, <3>3, ToldStep
    <3> QED BY <1>a, <2>1, <2>2, <3>4 DEF AllDrawn
  <2> QED BY <2>1, <2>3, <2>4
<1>18. ASSUME NEW c \in Clients, ClientOnNewGuid(c) PROVE AllDrawn'
  BY <1>b, <1>18, TakesFacts DEF ClientOnNewGuid
<1>19. CASE UNCHANGED vars
  BY <1>b, <1>19 DEF vars
<1> QED
  BY <1>1, <1>2, <1>3, <1>4, <1>5, <1>6, <1>7, <1>8, <1>9, <1>10, <1>11, <1>12, <1>13,
     <1>14, <1>15, <1>16, <1>17, <1>18, <1>19 DEF Next, ServerUpdate, ClientUpdate
----------------------------------------------------------------------------
LEMMA DrawnInvariant == Spec => [](TypeOK /\ AllDrawn /\ GuidsAdvance)
<1>1. Init => TypeOK /\ AllDrawn /\ GuidsAdvance
  BY TypeInit, AllDrawnInit, GuidsInit
<1>2. TypeOK /\ AllDrawn /\ GuidsAdvance /\ [Next]_vars =>
        (TypeOK /\ AllDrawn /\ GuidsAdvance)'
  BY TypeStep, AllDrawnStep, GuidsStep
<1> QED BY <1>1, <1>2, PTL DEF Spec

(***************************************************************************)
(* The variables of the handshake keep their types, with any number of     *)
(* clients and entities, whatever the collectors free (Server.lua,         *)
(* Client.lua).                                                            *)
(***************************************************************************)
THEOREM TypeCorrect == Spec => []TypeOK
BY DrawnInvariant, PTL

\* Each step draws a nuid, sets one that was drawn for its entity, or is a
\* stutter of the registry.
LEMMA RegistryStep ==
  OwnIds /\ TypeOK /\ AllDrawn /\ GuidsAdvance /\ [Next]_vars =>
    [Registry!Next]_<<drawnFor, nuid>>
<1> SUFFICES ASSUME OwnIds, TypeOK, AllDrawn, GuidsAdvance, [Next]_vars
             PROVE  [Registry!Next]_<<drawnFor, nuid>>
  OBVIOUS
<1> USE DEF drawn, server, world, client
<1>1. ASSUME NEW e \in Entities \ ClientEntities, NEW peers \in Seq(Clients), Announce(e, peers)
      PROVE  [Registry!Next]_<<drawnFor, nuid>>
  <2>1. PICK n \in Nuids :
          \/ UNCHANGED <<drawnFor, nuid>>
          \/ /\ getNextNuid(n, e, ServerGuid)
             /\ nuid[e] = NoNuid
             /\ nuid' = [nuid EXCEPT ![e] = n]
    BY <1>1, AnnounceFacts
  <2>2. CASE getNextNuid(n, e, ServerGuid) /\ nuid[e] = NoNuid /\ nuid' = [nuid EXCEPT ![e] = n]
    <3>1. Registry!DrawAndCarry(e)
      BY <2>2 DEF Registry!DrawAndCarry, getNextNuid
    <3> QED BY <3>1 DEF Registry!Next
  <2> QED BY <2>1, <2>2
<1>2. ASSUME NEW e \in Entities \ ClientEntities, ServerScan(e)
      PROVE  [Registry!Next]_<<drawnFor, nuid>>
  BY <1>1, <1>2 DEF ServerScan, TypeOK
<1>3. ASSUME NEW c \in Clients, ServerOnConnect(c) PROVE [Registry!Next]_<<drawnFor, nuid>>
  <2>1. Mina \in Entities \ ClientEntities /\ clients' \in Seq(Clients)
        /\ Announce(Mina, clients')
    BY <1>3, HandshakeAssumption DEF ServerOnConnect, ClientEntities, Owner, TypeOK
  <2> QED BY <1>1, <2>1
<1>4. ASSUME NEW c \in Clients, ServerOnNeedNuid(c) PROVE [Registry!Next]_<<drawnFor, nuid>>
  <2>1. PICK e \in Entities : drawnFor' = Append(drawnFor, e)
    BY <1>4, NeedFacts DEF getNextNuid, ClientEntities
  <2>2. UNCHANGED nuid
    BY <1>4 DEF ServerOnNeedNuid
  <2>3. Registry!Draw(e)
    BY <2>1, <2>2 DEF Registry!Draw
  <2> QED BY <2>3 DEF Registry!Next
<1>5. ASSUME NEW c \in Clients, ClientOnNewNuid(c) PROVE [Registry!Next]_<<drawnFor, nuid>>
  <2>1. PICK m : m = Head(toClient[c])
    OBVIOUS
  <2>2. /\ Takes(c, "newNuid") /\ UNCHANGED drawnFor
        /\ \/ IsMine(c, m) /\ nuid' = [nuid EXCEPT ![<<c, m.id>>] = m.nuid]
           \/ UNCHANGED nuid
    BY <1>5, <2>1 DEF ClientOnNewNuid
  <2>3. CASE IsMine(c, m) /\ nuid' = [nuid EXCEPT ![<<c, m.id>>] = m.nuid]
    <3>1. /\ m \in Messages(toClient[c]) /\ m \in ClientEvents /\ IsNewNuid(m)
      BY <2>1, <2>2, TakesFacts DEF IsNewNuid
    <3>2. PICK e \in ClientEntities :
            e = <<c, m.id>> /\ m.nuid \in DOMAIN drawnFor /\ drawnFor[m.nuid] = e
      BY <2>3, <3>1, MineFacts DEF IsAnsweredBy
    <3>3. e \in Entities /\ nuid[e] = NoNuid
      BY <2>3, <3>2 DEF IsMine, ClientEntities
    <3>4. Registry!Carry(e)
      BY <2>2, <2>3, <3>2, <3>3 DEF Registry!Carry
    <3> QED BY <3>3, <3>4 DEF Registry!Next
  <2> QED BY <2>2, <2>3
<1>6. ASSUME NEW e \in Entities, sendNeedNuid(e) \/ Die(e) \/ ServerSendEntityData(e)
      PROVE  UNCHANGED <<drawnFor, nuid>>
  BY <1>6 DEF sendNeedNuid, Die, ServerSendEntityData
<1>7. ASSUME NEW c \in Clients,
             \/ ServerOnDisconnect(c) \/ ServerOnLostNuid(c) \/ ClientOnEntityData(c)
             \/ ServerOnPlayerInfo(c) \/ ClientOnNewGuid(c) \/ ClientOnSeed(c)
             \/ ClientOnConnect(c) \/ Connect(c) \/ Disconnect(c)
             \/ \E n \in Nuids : UpdaterAdded(c, n)
      PROVE  UNCHANGED <<drawnFor, nuid>>
  BY <1>7 DEF ServerOnDisconnect, ServerOnLostNuid, ClientOnEntityData, ServerOnPlayerInfo,
              ClientOnNewGuid, ClientOnSeed, ClientOnConnect, Connect, Disconnect,
              UpdaterAdded
<1>8. ASSUME NEW x, Collect(x) \/ ServerScanCopy(x) PROVE UNCHANGED <<drawnFor, nuid>>
  BY <1>8 DEF Collect, ServerScanCopy
<1>9. CASE UNCHANGED vars
  BY <1>9 DEF vars
<1> QED
  BY <1>2, <1>3, <1>4, <1>5, <1>6, <1>7, <1>8, <1>9
     DEF Next, ServerUpdate, ClientUpdate, ClientEntities

(***************************************************************************)
(* The handshake implements the registry: a nuid belongs to one entity,    *)
(* which never carries another, however many clients ask, reconnect, get   *)
(* new guids, lose nuids or share entity ids; as long as the copies on the *)
(* server have ids of their own (Server.onNeedNuid, onLostNuid,            *)
(* EntityUtils.spawnEntity).                                               *)
(***************************************************************************)
THEOREM ImplementsRegistry == OwnIds /\ Spec => IsRegistry
<1>1. Init => Registry!Init
  <2> SUFFICES ASSUME Init PROVE Registry!Init
    OBVIOUS
  <2>1. \A e \in Entities : nuid[e] # NoNuid =>
          nuid[e] \in DOMAIN drawnFor /\ drawnFor[nuid[e]] = e
    BY InitFacts
  <2>2. DOMAIN nuid = Entities /\ drawnFor \in Seq(Entities)
    BY InitFacts
  <2> QED BY <2>1, <2>2, InitFacts DEF Registry!Init
<1>2. CASE OwnIds
  <2>1. TypeOK /\ AllDrawn /\ GuidsAdvance /\ [Next]_vars => [Registry!Next]_<<drawnFor, nuid>>
    BY <1>2, RegistryStep
  <2> QED BY <1>1, <2>1, DrawnInvariant, PTL DEF Spec, IsRegistry, Registry!Spec
<1>3. CASE ~ OwnIds
  BY <1>3
<1> QED BY <1>2, <1>3

\* What that is worth: in the registry two entities never share a nuid, and none
\* gives its nuid up.
NoneShares == \A d, e \in Entities : nuid[d] = nuid[e] /\ nuid[d] # NoNuid => d = e
NuidsStay == [][\A e \in Entities : nuid[e] # NoNuid => nuid'[e] = nuid[e]]_<<drawnFor, nuid>>

RegistryInv ==
  /\ drawnFor \in Seq(Entities) /\ DOMAIN nuid = Entities
  /\ \A e \in Entities :
       nuid[e] # NoNuid => nuid[e] \in DOMAIN drawnFor /\ drawnFor[nuid[e]] = e

LEMMA RegistryPromise == Registry!Spec => []RegistryInv /\ NuidsStay
<1>1. Registry!Init => RegistryInv
  BY DEF Registry!Init, RegistryInv
<1>2. ASSUME RegistryInv, [Registry!Next]_<<drawnFor, nuid>>
      PROVE  /\ RegistryInv'
             /\ \A e \in Entities : nuid[e] # NoNuid => nuid'[e] = nuid[e]
  <2>1. CASE UNCHANGED <<drawnFor, nuid>>
    BY <1>2, <2>1 DEF RegistryInv
  <2>2. ASSUME NEW e \in Entities, drawnFor' = Append(drawnFor, e)
        PROVE  /\ drawnFor' \in Seq(Entities)
               /\ DOMAIN drawnFor' = DOMAIN drawnFor \cup {Len(drawnFor) + 1}
               /\ drawnFor'[Len(drawnFor) + 1] = e
               /\ \A k \in DOMAIN drawnFor : drawnFor'[k] = drawnFor[k]
    <3>1. drawnFor \in Seq(Entities)
      BY <1>2 DEF RegistryInv
    <3>2. DOMAIN Append(drawnFor, e) = DOMAIN drawnFor \cup {Len(drawnFor) + 1}
      BY <3>1
    <3> QED BY <2>2, <3>1, <3>2, SequenceFacts
  <2>3. ASSUME NEW e \in Entities, Registry!Draw(e)
        PROVE  /\ RegistryInv'
               /\ \A d \in Entities : nuid[d] # NoNuid => nuid'[d] = nuid[d]
    BY <1>2, <2>2, <2>3 DEF Registry!Draw, RegistryInv
  <2>4. ASSUME NEW e \in Entities, Registry!DrawAndCarry(e)
        PROVE  /\ RegistryInv'
               /\ \A d \in Entities : nuid[d] # NoNuid => nuid'[d] = nuid[d]
    <3>1. /\ nuid[e] = NoNuid /\ drawnFor' = Append(drawnFor, e)
          /\ nuid'[e] = Len(drawnFor) + 1 /\ DOMAIN nuid' = Entities
          /\ \A d \in Entities : d # e => nuid'[d] = nuid[d]
      BY <1>2, <2>4 DEF Registry!DrawAndCarry, RegistryInv
    <3> QED BY <1>2, <2>2, <3>1 DEF RegistryInv
  <2>5. ASSUME NEW e \in Entities, Registry!Carry(e)
        PROVE  /\ RegistryInv'
               /\ \A d \in Entities : nuid[d] # NoNuid => nuid'[d] = nuid[d]
    <3>1. PICK n \in DOMAIN drawnFor :
            drawnFor[n] = e /\ nuid' = [nuid EXCEPT ![e] = n]
      BY <2>5 DEF Registry!Carry
    <3>2. /\ nuid[e] = NoNuid /\ drawnFor' = drawnFor
          /\ nuid'[e] = n /\ DOMAIN nuid' = Entities
          /\ \A d \in Entities : d # e => nuid'[d] = nuid[d]
      BY <1>2, <2>5, <3>1 DEF Registry!Carry, RegistryInv
    <3> QED BY <1>2, <3>1, <3>2 DEF RegistryInv
  <2> QED BY <1>2, <2>1, <2>3, <2>4, <2>5 DEF Registry!Next
<1>3. RegistryInv /\ [Registry!Next]_<<drawnFor, nuid>> => RegistryInv'
  BY <1>2
<1>4. RegistryInv /\ [Registry!Next]_<<drawnFor, nuid>> =>
        [\A e \in Entities : nuid[e] # NoNuid => nuid'[e] = nuid[e]]_<<drawnFor, nuid>>
  BY <1>2
<1> QED BY <1>1, <1>3, <1>4, PTL DEF Registry!Spec, NuidsStay

(***************************************************************************)
(* So of the entities of all players no two ever have one nuid, and a nuid *)
(* that was set is not set again ("when nuid is not set already",          *)
(* EntityUtils.lua:475), by whatever answers come late, twice or astray;   *)
(* as long as the copies on the server have ids of their own.              *)
(***************************************************************************)
THEOREM NuidsAreNames == OwnIds /\ Spec => []NoneShares /\ NuidsStay
<1>1. RegistryInv => NoneShares
  BY DEF RegistryInv, NoneShares
<1> QED BY <1>1, ImplementsRegistry, RegistryPromise, PTL DEF IsRegistry
----------------------------------------------------------------------------
(***************************************************************************)
(* As long as no collector freed a checksum, a question is under way at    *)
(* most once, and only while no nuid was drawn for its entity under the    *)
(* guid that it asks with.                                                 *)
(***************************************************************************)
NotDrawn(e, g) == \A n \in DOMAIN drawnFor : drawnFor[n] = e => ownerGuid[n] # g
AskedOnce ==
  collected = {} =>
    \A e \in ClientEntities, g \in Guids : \A i \in DOMAIN toServer[Owner(e)] :
      toServer[Owner(e)][i] = NeedNuid(e, g) =>
        /\ NotDrawn(e, g)
        /\ \A j \in DOMAIN toServer[Owner(e)] : toServer[Owner(e)][j] = NeedNuid(e, g) => i = j
Once == AskedOnce /\ OneNuid

LEMMA OnceInit == Init => Once
<1> SUFFICES ASSUME Init PROVE Once
  OBVIOUS
<1>1. \A n \in DOMAIN drawnFor : n = 1
  BY InitFacts
<1>2. \A e \in ClientEntities : DOMAIN toServer[Owner(e)] = {}
  BY HandshakeAssumption DEF Init, ClientEntities, Owner
<1> QED BY <1>1, <1>2 DEF Once, AskedOnce, OneNuid

\* A queue that kept its messages, or some of them from the front, and got no
\* question.
NothingAsked(c) ==
  \/ toServer'[c] = toServer[c]
  \/ toServer[c] # << >> /\ toServer'[c] = Tail(toServer[c])
  \/ \E m \in ServerEvents :
       /\ m.event # "needNuid"
       /\ \/ toServer'[c] = Append(toServer[c], m) \/ toServer'[c] = <<m>>
          \/ \E k \in ServerEvents : k.event # "needNuid" /\ toServer'[c] = Append(<<k>>, m)
  \/ toServer'[c] = << >>

\* A step that asks for nothing and draws nothing for a client.
LEMMA StillOnce ==
  ASSUME TypeOK, AskedOnce, collected = {} \/ collected' # {},
         \A n \in DOMAIN drawnFor' : drawnFor'[n] \in ClientEntities =>
           n \in DOMAIN drawnFor /\ drawnFor[n] = drawnFor'[n] /\ ownerGuid[n] = ownerGuid'[n],
         \A c \in Clients : NothingAsked(c)
  PROVE  AskedOnce'
<1> SUFFICES ASSUME collected' = {}, NEW e \in ClientEntities, NEW g \in Guids,
                    NEW i \in DOMAIN toServer'[Owner(e)],
                    toServer'[Owner(e)][i] = NeedNuid(e, g)
             PROVE  /\ NotDrawn(e, g)'
                    /\ \A j \in DOMAIN toServer'[Owner(e)] :
                         toServer'[Owner(e)][j] = NeedNuid(e, g) => i = j
  BY DEF AskedOnce, NeedNuid, Owner, ClientEntities
<1>1. PICK c \in Clients : c = Owner(e)
  BY HandshakeAssumption DEF ClientEntities, Owner
<1>2. PICK q \in Seq(ServerEvents) : q = toServer[c]
  BY DEF TypeOK
<1>3. \A k \in DOMAIN q : q[k] = NeedNuid(e, g) =>
        /\ NotDrawn(e, g)'
        /\ \A j \in DOMAIN q : q[j] = NeedNuid(e, g) => k = j
  <2>1. NotDrawn(e, g) => NotDrawn(e, g)'
    BY DEF NotDrawn
  <2> QED BY <1>1, <1>2, <2>1 DEF AskedOnce
<1>4. NeedNuid(e, g).event = "needNuid"
  BY DEF NeedNuid
<1>5. CASE toServer'[c] = q
  BY <1>1, <1>3, <1>5
<1>6. CASE q # << >> /\ toServer'[c] = Tail(q)
  <2>1. \A k \in DOMAIN Tail(q) : k + 1 \in DOMAIN q /\ Tail(q)[k] = q[k + 1] /\ k \in Int
    BY <1>2, <1>6, SequenceFacts
  <2> QED BY <1>1, <1>3, <1>6, <2>1
<1>7. ASSUME NEW m \in ServerEvents, m.event # "needNuid", toServer'[c] = Append(q, m)
      PROVE  /\ NotDrawn(e, g)'
             /\ \A j \in DOMAIN toServer'[Owner(e)] :
                  toServer'[Owner(e)][j] = NeedNuid(e, g) => i = j
  <2>1. m # NeedNuid(e, g)
    BY <1>4, <1>7
  <2>2. /\ \A k \in DOMAIN Append(q, m) : k \in DOMAIN q \/ k = Len(q) + 1
        /\ \A k \in DOMAIN q : Append(q, m)[k] = q[k]
        /\ Append(q, m)[Len(q) + 1] = m
    BY <1>2, <1>7, SequenceFacts
  <2> QED BY <1>1, <1>3, <1>7, <2>1, <2>2
<1>8. ASSUME NEW k \in ServerEvents, NEW m \in ServerEvents,
             k.event # "needNuid", m.event # "needNuid",
             toServer'[c] \in {<< >>, <<m>>, Append(<<k>>, m)}
      PROVE  FALSE
  <2>1. m # NeedNuid(e, g) /\ k # NeedNuid(e, g)
    BY <1>4, <1>8
  <2>2. \A x \in DOMAIN toServer'[c] : toServer'[c][x] \in {k, m}
    <3>1. <<k>> \in Seq(ServerEvents) /\ Len(<<k>>) = 1
      OBVIOUS
    <3>2. /\ DOMAIN Append(<<k>>, m) = 1 .. 2
          /\ Append(<<k>>, m)[1] = k /\ Append(<<k>>, m)[2] = m
      BY <3>1
    <3> QED BY <1>8, <3>2
  <2> QED BY <1>1, <2>1, <2>2
<1>9. toServer'[c] # << >>
  BY <1>1
<1> QED BY <1>1, <1>2, <1>5, <1>6, <1>7, <1>8, <1>9 DEF NothingAsked

\* Each step keeps it.
LEMMA OnceStep == TypeOK /\ AllDrawn /\ GuidsAdvance /\ Once /\ [Next]_vars => Once'
<1> SUFFICES ASSUME TypeOK, AllDrawn, GuidsAdvance, Once, [Next]_vars PROVE Once'
  OBVIOUS
<1> USE DEF drawn, server, world, client
<1>a. ASSUME UNCHANGED drawn, collected = {} \/ collected' # {},
             \A c \in Clients : NothingAsked(c)
      PROVE  Once'
  <2>1. OneNuid'
    BY <1>a DEF Once, OneNuid
  <2>2. AskedOnce'
    BY <1>a, StillOnce DEF Once
  <2> QED BY <2>1, <2>2 DEF Once
<1>b. ASSUME NEW c \in Clients, NEW event, Reports(c, event), Pop(c)
      PROVE  \A d \in Clients : NothingAsked(d)
  BY <1>b DEF Reports, Pop, TypeOK, NothingAsked
<1>d. ASSUME toServer' = toServer PROVE \A d \in Clients : NothingAsked(d)
  BY <1>d DEF NothingAsked
<1>c. ASSUME NEW e \in Entities \ ClientEntities, NEW peers \in Seq(Clients), Announce(e, peers),
             collected' = collected, \A d \in Clients : NothingAsked(d)
      PROVE  Once'
  <2>1. PICK n \in Nuids :
          \/ UNCHANGED drawn
          \/ getNextNuid(n, e, ServerGuid) /\ nuid[e] = NoNuid
    BY <1>c, AnnounceFacts
  <2>2. CASE UNCHANGED drawn
    BY <1>a, <1>c, <2>2
  <2>3. CASE getNextNuid(n, e, ServerGuid) /\ nuid[e] = NoNuid
    <3>1. /\ n \notin DOMAIN drawnFor
          /\ DOMAIN drawnFor' = DOMAIN drawnFor \cup {n}
          /\ drawnFor'[n] = e
          /\ \A k \in DOMAIN drawnFor :
               drawnFor'[k] = drawnFor[k] /\ ownerGuid'[k] = ownerGuid[k]
      BY <2>3, DrawFacts, GuidFacts
    <3>2. \A k \in DOMAIN drawnFor : drawnFor[k] # e
      <4>1. \A k \in DOMAIN drawnFor : k # NoNuid
        BY DEF TypeOK, NoNuid
      <4> QED BY <2>3, <4>1 DEF AllDrawn, DrawnIsCarried
    <3>3. OneNuid'
      BY <1>c, <3>1, <3>2 DEF Once, OneNuid
    <3>4. AskedOnce'
      BY <1>c, <3>1, StillOnce DEF Once
    <3> QED BY <3>3, <3>4 DEF Once
  <2> QED BY <2>1, <2>2, <2>3
<1>1. ASSUME NEW e \in ClientEntities, sendNeedNuid(e) PROVE Once'
  <2> SUFFICES ASSUME collected' = {} PROVE Once'
    BY DEF Once, OneNuid, AskedOnce
  <2>1. PICK c \in Clients : c = Owner(e) /\ e \in Entities /\ e = <<c, e[2]>>
    BY HandshakeAssumption DEF ClientEntities, Owner
  <2>2. PICK g \in Guids : g = guid[c]
    BY DEF TypeOK
  <2>a. /\ FALSE \in alreadySent(c, <<e, g>> \in asked)
        /\ Transmit(c, NeedNuid(e, g), TRUE)
        /\ UNCHANGED <<drawn, collected>>
    BY <1>1, <2>1, <2>2 DEF sendNeedNuid
  <2>3. <<e, g>> \notin asked
    BY <2>a DEF alreadySent
  <2>4. NotDrawn(e, g) /\ NotDrawn(e, g)'
    BY <2>3, <2>a DEF AllDrawn, DrawnIsCarried, NotDrawn
  <2>5. NeedNuid(e, g) \in ServerEvents
    BY <2>1, EventFacts
  <2>6. \A i \in DOMAIN toServer[c] : toServer[c][i] # NeedNuid(e, g)
    BY <2>1, <2>3 DEF AllDrawn, QuestionsAreKnown, IsKnown, Messages, NeedNuid
  <2>7. \A f \in ClientEntities, h \in Guids :
          Owner(f) = c /\ <<f, h>> # <<e, g>> => NeedNuid(f, h) # NeedNuid(e, g)
    <3>1. \A f \in ClientEntities : f = <<Owner(f), f[2]>>
      BY HandshakeAssumption DEF ClientEntities, Owner
    <3> QED BY <2>1, <3>1 DEF NeedNuid
  <2>8. CASE toServer' = toServer
    BY <1>a, <1>d, <2>a, <2>8
  <2>9. CASE toServer' = [toServer EXCEPT ![c] = Append(@, NeedNuid(e, g))]
    <3>1. PICK q \in Seq(ServerEvents) : q = toServer[c]
      BY DEF TypeOK
    <3>2. /\ toServer'[c] = Append(q, NeedNuid(e, g))
          /\ \A d \in Clients \ {c} : toServer'[d] = toServer[d]
      BY <2>9, <3>1 DEF TypeOK
    <3>3. /\ \A k \in DOMAIN Append(q, NeedNuid(e, g)) : k \in DOMAIN q \/ k = Len(q) + 1
          /\ \A k \in DOMAIN q : Append(q, NeedNuid(e, g))[k] = q[k]
          /\ Append(q, NeedNuid(e, g))[Len(q) + 1] = NeedNuid(e, g)
      BY <2>5, <3>1, SequenceFacts
    <3>4. ASSUME NEW f \in ClientEntities, NEW h \in Guids,
                 NEW i \in DOMAIN toServer'[Owner(f)],
                 toServer'[Owner(f)][i] = NeedNuid(f, h)
          PROVE  /\ NotDrawn(f, h)'
                 /\ \A j \in DOMAIN toServer'[Owner(f)] :
                      toServer'[Owner(f)][j] = NeedNuid(f, h) => i = j
      <4>1. /\ \A k \in DOMAIN toServer[Owner(f)] : toServer[Owner(f)][k] = NeedNuid(f, h) =>
                 /\ NotDrawn(f, h)'
                 /\ \A j \in DOMAIN toServer[Owner(f)] :
                      toServer[Owner(f)][j] = NeedNuid(f, h) => k = j
        BY <2>a DEF Once, AskedOnce, NotDrawn
      <4>2. CASE Owner(f) # c
        <5>1. Owner(f) \in Clients
          BY HandshakeAssumption DEF ClientEntities, Owner
        <5> QED BY <3>2, <3>4, <4>1, <4>2, <5>1
      <4>3. CASE Owner(f) = c /\ <<f, h>> # <<e, g>>
        <5>1. NeedNuid(f, h) # NeedNuid(e, g)
          BY <2>7, <4>3
        <5>2. \A k \in DOMAIN Append(q, NeedNuid(e, g)) :
                Append(q, NeedNuid(e, g))[k] = NeedNuid(f, h) => k \in DOMAIN q /\ q[k] = NeedNuid(f, h)
          BY <3>3, <5>1
        <5>3. /\ i \in DOMAIN Append(q, NeedNuid(e, g))
              /\ Append(q, NeedNuid(e, g))[i] = NeedNuid(f, h)
          BY <3>2, <3>4, <4>3
        <5>4. i \in DOMAIN q /\ q[i] = NeedNuid(f, h)
          BY <5>2, <5>3
        <5>5. /\ NotDrawn(f, h)'
              /\ \A j \in DOMAIN q : q[j] = NeedNuid(f, h) => i = j
          BY <3>1, <4>1, <4>3, <5>4
        <5> QED BY <3>2, <4>3, <5>2, <5>5
      <4>4. CASE f = e /\ h = g
        <5>1. \A k \in DOMAIN Append(q, NeedNuid(e, g)) :
                Append(q, NeedNuid(e, g))[k] = NeedNuid(e, g) => k = Len(q) + 1
          BY <2>6, <3>1, <3>3
        <5>2. /\ i \in DOMAIN Append(q, NeedNuid(e, g))
              /\ Append(q, NeedNuid(e, g))[i] = NeedNuid(e, g)
          BY <2>1, <3>2, <3>4, <4>4
        <5>3. toServer'[Owner(f)] = Append(q, NeedNuid(e, g))
          BY <2>1, <3>2, <4>4
        <5>4. \A j \in DOMAIN toServer'[Owner(f)] :
                toServer'[Owner(f)][j] = NeedNuid(f, h) => i = j
          BY <4>4, <5>1, <5>2, <5>3
        <5> QED BY <2>4, <4>4, <5>4
      <4> QED BY <4>2, <4>3, <4>4
    <3>5. AskedOnce'
      BY <3>4 DEF AskedOnce, NeedNuid, Owner, ClientEntities
    <3> QED BY <2>a, <3>5 DEF Once, OneNuid
  <2> QED BY <2>1, <2>a, <2>5, <2>8, <2>9, TransmitFacts
<1>2. ASSUME NEW e \in Entities, Die(e) \/ ServerSendEntityData(e) PROVE Once'
  BY <1>a, <1>d, <1>2 DEF Die, ServerSendEntityData
<1>3. ASSUME NEW e \in Entities \ ClientEntities, ServerScan(e) PROVE Once'
  <2>1. /\ Announce(e, clients) /\ UNCHANGED <<toServer, collected>>
        /\ clients \in Seq(Clients)
    BY <1>3 DEF ServerScan, TypeOK
  <2> QED BY <1>c, <1>d, <2>1
<1>4. ASSUME NEW c \in Clients, ServerOnConnect(c) PROVE Once'
  <2>1. /\ Reports(c, "connect") /\ Pop(c) /\ collected' = collected
        /\ Announce(Mina, clients') /\ clients' \in Seq(Clients)
        /\ Mina \in Entities \ ClientEntities
    BY <1>4, HandshakeAssumption DEF ServerOnConnect, ClientEntities, Owner, TypeOK
  <2> QED BY <1>b, <1>c, <2>1
<1>5. ASSUME NEW c \in Clients,
             ServerOnDisconnect(c) \/ ServerOnPlayerInfo(c) \/ ServerOnLostNuid(c)
      PROVE  Once'
  <2>1. /\ Reports(c, "disconnect") \/ Reports(c, "playerInfo") \/ Reports(c, "lostNuid")
        /\ Pop(c) /\ UNCHANGED <<drawn, collected>>
    BY <1>5 DEF ServerOnDisconnect, ServerOnPlayerInfo, ServerOnLostNuid
  <2> QED BY <1>a, <1>b, <2>1
<1>6. ASSUME NEW c \in Clients, ServerOnNeedNuid(c) PROVE Once'
  <2> SUFFICES ASSUME collected' = {} PROVE Once'
    BY DEF Once, OneNuid, AskedOnce
  <2>1. PICK e \in ClientEntities, g \in Guids, n \in Nuids :
          /\ Owner(e) = c /\ e \in Entities
          /\ Head(toServer[c]) = NeedNuid(e, g)
          /\ getNextNuid(n, e, g)
    BY <1>6, NeedFacts DEF ClientEntities
  <2>2. Reports(c, "needNuid") /\ Pop(c) /\ collected = {}
    BY <1>6 DEF ServerOnNeedNuid
  <2>3. PICK q \in Seq(ServerEvents) : q = toServer[c] /\ q # << >>
    BY <2>2 DEF TypeOK, Reports
  <2>4. /\ 1 \in DOMAIN q /\ q[1] = NeedNuid(e, g)
        /\ \A k \in DOMAIN Tail(q) : k + 1 \in DOMAIN q /\ Tail(q)[k] = q[k + 1] /\ k \in Nat \ {0}
    BY <2>1, <2>3, SequenceFacts
  <2>5. toServer'[c] = Tail(q) /\ \A d \in Clients \ {c} : toServer'[d] = toServer[d]
    BY <2>2, <2>3 DEF Pop, TypeOK
  <2>6. /\ n \notin DOMAIN drawnFor
        /\ DOMAIN drawnFor' = DOMAIN drawnFor \cup {n}
        /\ drawnFor'[n] = e /\ ownerGuid'[n] = g
        /\ \A k \in DOMAIN drawnFor :
             drawnFor'[k] = drawnFor[k] /\ ownerGuid'[k] = ownerGuid[k]
    BY <2>1, DrawFacts
  <2>7. /\ NotDrawn(e, g)
        /\ \A j \in DOMAIN q : q[j] = NeedNuid(e, g) => j = 1
    BY <2>1, <2>2, <2>3, <2>4 DEF Once, AskedOnce
  <2>8. OneNuid'
    BY <2>2, <2>6, <2>7 DEF Once, OneNuid, NotDrawn
  <2>9. ASSUME NEW f \in ClientEntities, NEW h \in Guids,
               NEW i \in DOMAIN toServer'[Owner(f)],
               toServer'[Owner(f)][i] = NeedNuid(f, h)
        PROVE  /\ NotDrawn(f, h)'
               /\ \A j \in DOMAIN toServer'[Owner(f)] :
                    toServer'[Owner(f)][j] = NeedNuid(f, h) => i = j
    <3>1. /\ \A k \in DOMAIN toServer[Owner(f)] : toServer[Owner(f)][k] = NeedNuid(f, h) =>
               /\ NotDrawn(f, h)
               /\ \A j \in DOMAIN toServer[Owner(f)] :
                    toServer[Owner(f)][j] = NeedNuid(f, h) => k = j
      BY <2>2 DEF Once, AskedOnce
    <3>a. <<f, h>> # <<e, g>> /\ NotDrawn(f, h) => NotDrawn(f, h)'
      BY <2>6 DEF NotDrawn
    <3>2. CASE Owner(f) # c
      <4>1. Owner(f) \in Clients
        BY HandshakeAssumption DEF ClientEntities, Owner
      <4> QED BY <2>1, <2>5, <2>9, <3>a, <3>1, <3>2, <4>1
    <3>3. CASE Owner(f) = c
      <4>1. i \in DOMAIN Tail(q) /\ Tail(q)[i] = NeedNuid(f, h)
        BY <2>5, <2>9, <3>3
      <4>2. <<f, h>> # <<e, g>>
        BY <2>4, <2>7, <4>1
      <4>3. \A j \in DOMAIN Tail(q) : Tail(q)[j] = NeedNuid(f, h) => i = j
        BY <2>3, <2>4, <3>1, <3>3, <4>1
      <4>4. NotDrawn(f, h)
        BY <2>3, <2>4, <3>1, <3>3, <4>1
      <4> QED BY <2>5, <3>a, <3>3, <4>2, <4>3, <4>4
    <3> QED BY <3>2, <3>3
  <2>10. AskedOnce'
    BY <2>9 DEF AskedOnce, NeedNuid, Owner, ClientEntities
  <2> QED BY <2>8, <2>10 DEF Once
<1>7. ASSUME NEW c \in Clients, ClientOnNewNuid(c) \/ ClientOnNewGuid(c) PROVE Once'
  BY <1>a, <1>d, <1>7 DEF ClientOnNewNuid, ClientOnNewGuid
<1>8. ASSUME NEW c \in Clients, ClientOnEntityData(c) PROVE Once'
  <2>1. Takes(c, "entityData") /\ UNCHANGED <<drawn, collected>>
    BY <1>8 DEF ClientOnEntityData
  <2>2. PICK n, isSent : WasSentData(c, n, isSent)
    BY <1>8, DataFacts
  <2>3. n \in Nuids /\ Transmit(c, LostNuid(n), isSent)
    BY <2>1, <2>2, TakesFacts, EventFacts DEF WasSentData
  <2>4. PICK x \in ServerEvents : x = LostNuid(n) /\ x.event # "needNuid"
    BY <2>3, EventFacts DEF LostNuid
  <2>5. toServer' = [toServer EXCEPT ![c] = Append(@, x)] \/ toServer' = toServer
    BY <2>3, <2>4, TransmitFacts
  <2>6. \A d \in Clients :
          toServer'[d] = toServer[d] \/ toServer'[d] = Append(toServer[d], x)
    BY <2>5 DEF TypeOK
  <2>7. \A d \in Clients : NothingAsked(d)
    BY <2>4, <2>6 DEF NothingAsked
  <2> QED BY <1>a, <2>1, <2>7
<1>9. ASSUME NEW c \in Clients, ClientOnConnect(c) \/ ClientOnSeed(c) PROVE Once'
  <2>1. /\ Connected \in ServerEvents /\ Connected.event # "needNuid"
        /\ <<Connected>> \in Seq(ServerEvents) /\ toServer[c] \in Seq(ServerEvents)
    BY EventFacts DEF Connected, TypeOK
  <2>2. PICK m \in ServerEvents : m = PlayerInfo(guid[c]) /\ m.event # "needNuid"
    <3>1. guid[c] \in Guids
      BY DEF TypeOK
    <3> QED BY <3>1, EventFacts DEF PlayerInfo
  <2>3. /\ UNCHANGED <<drawn, collected>>
        /\ Report(c, <<Connected>>) \/ Report(c, toServer[c])
    BY <1>9 DEF ClientOnConnect, ClientOnSeed
  <2>4. /\ \A d \in Clients \ {c} : toServer'[d] = toServer[d]
        /\ \/ toServer'[c] \in {<<Connected>>, Append(<<Connected>>, m)}
           \/ toServer'[c] \in {toServer[c], Append(toServer[c], m)}
    BY <2>1, <2>2, <2>3, ReportFacts
  <2>5. \A d \in Clients : NothingAsked(d)
    BY <2>1, <2>2, <2>4 DEF NothingAsked
  <2> QED BY <1>a, <2>3, <2>5
<1>10. ASSUME NEW c \in Clients, Disconnect(c) PROVE Once'
  <2>1. Disconnected \in ServerEvents /\ Disconnected.event # "needNuid"
    BY EventFacts DEF Disconnected
  <2>2. /\ UNCHANGED <<drawn, collected>>
        /\ \A d \in Clients : toServer'[d] = toServer[d] \/ toServer'[d] = <<Disconnected>>
                                \/ toServer'[d] = << >>
    BY <1>10 DEF Disconnect, TypeOK
  <2>3. \A d \in Clients : NothingAsked(d)
    BY <2>1, <2>2 DEF NothingAsked
  <2> QED BY <1>a, <2>2, <2>3
<1>11. ASSUME NEW c \in Clients, NEW n \in Nuids, UpdaterAdded(c, n) PROVE Once'
  BY <1>a, <1>d, <1>11 DEF UpdaterAdded
<1>12. ASSUME NEW c \in Clients, Connect(c) PROVE Once'
  BY <1>a, <1>d, <1>12 DEF Connect
<1>13. ASSUME NEW process \in Clients \cup {Server}, Collect(process) PROVE Once'
  BY <1>a, <1>d, <1>13 DEF Collect
<1>14. ASSUME NEW n \in Nuids, ServerScanCopy(n) PROVE Once'
  BY <1>a, <1>d, <1>14 DEF ServerScanCopy
<1>15. CASE UNCHANGED vars
  BY <1>a, <1>d, <1>15 DEF vars
<1> QED
  BY <1>1, <1>2, <1>3, <1>4, <1>5, <1>6, <1>7, <1>8, <1>9, <1>10, <1>11, <1>12, <1>13, <1>14,
     <1>15 DEF Next, ServerUpdate, ClientUpdate, ClientEntities
----------------------------------------------------------------------------
(***************************************************************************)
(* The nuid that an entity carries was drawn under the last of the guids   *)
(* that it was asked for with.                                             *)
(***************************************************************************)
CarriedLast ==
  OwnIds =>
    \A e \in ClientEntities, g \in Guids :
      nuid[e] # NoNuid /\ <<e, g>> \in asked => g[2] <= ownerGuid[nuid[e]][2]

LEMMA CarriedLastInit == Init => CarriedLast
<1> SUFFICES ASSUME Init PROVE CarriedLast
  OBVIOUS
<1>1. \A e \in ClientEntities : nuid[e] = NoNuid
  BY InitFacts DEF ClientEntities
<1> QED BY <1>1 DEF CarriedLast

\* Each step keeps it.
LEMMA CarriedLastStep ==
  TypeOK /\ AllDrawn /\ GuidsAdvance /\ CarriedLast /\ [Next]_vars => CarriedLast'
<1> SUFFICES ASSUME TypeOK, AllDrawn, GuidsAdvance, CarriedLast, [Next]_vars, OwnIds
             PROVE  CarriedLast'
  BY DEF CarriedLast, OwnIds
<1> USE DEF drawn, server, world, client
<1>a. ASSUME Grows, asked' = asked, \A e \in ClientEntities : nuid'[e] = nuid[e]
      PROVE  CarriedLast'
  <2>1. \A e \in ClientEntities :
          nuid[e] # NoNuid => ownerGuid'[nuid[e]] = ownerGuid[nuid[e]]
    BY <1>a DEF AllDrawn, CarriedIsDrawn, Grows, ClientEntities
  <2> QED BY <1>a, <2>1 DEF CarriedLast
<1>b. UNCHANGED drawn => Grows
  BY DEF Grows
<1>c. ASSUME NEW e \in Entities \ ClientEntities, NEW peers \in Seq(Clients), Announce(e, peers),
             asked' = asked
      PROVE  CarriedLast'
  <2>1. Grows
    BY <1>c, AnnounceStep
  <2>2. \A f \in ClientEntities : nuid'[f] = nuid[f]
    <3>1. PICK n \in Nuids : UNCHANGED nuid \/ nuid' = [nuid EXCEPT ![e] = n]
      BY <1>c, AnnounceFacts
    <3> QED BY <3>1 DEF TypeOK, ClientEntities
  <2> QED BY <1>a, <1>c, <2>1, <2>2
<1>1. ASSUME NEW e \in ClientEntities, sendNeedNuid(e) PROVE CarriedLast'
  <2>1. nuid[e] = NoNuid /\ asked' = asked \cup {<<e, guid[Owner(e)]>>} /\ UNCHANGED <<drawn, nuid>>
    BY <1>1 DEF sendNeedNuid
  <2>2. \A f \in ClientEntities, g \in Guids :
          nuid[f] # NoNuid /\ <<f, g>> \in asked' => <<f, g>> \in asked
    BY <2>1
  <2> QED BY <2>1, <2>2 DEF CarriedLast
<1>2. ASSUME NEW e \in Entities, Die(e) \/ ServerSendEntityData(e) PROVE CarriedLast'
  BY <1>a, <1>b, <1>2 DEF Die, ServerSendEntityData
<1>3. ASSUME NEW e \in Entities \ ClientEntities, ServerScan(e) PROVE CarriedLast'
  <2>1. Announce(e, clients) /\ clients \in Seq(Clients) /\ UNCHANGED asked
    BY <1>3 DEF ServerScan, TypeOK
  <2> QED BY <1>c, <2>1
<1>4. ASSUME NEW c \in Clients, ServerOnConnect(c) PROVE CarriedLast'
  <2>1. /\ Announce(Mina, clients') /\ clients' \in Seq(Clients) /\ UNCHANGED asked
        /\ Mina \in Entities \ ClientEntities
    BY <1>4, HandshakeAssumption DEF ServerOnConnect, ClientEntities, Owner, TypeOK
  <2> QED BY <1>c, <2>1
<1>5. ASSUME NEW c \in Clients, ServerOnNeedNuid(c) PROVE CarriedLast'
  <2>1. PICK e \in ClientEntities, g \in Guids, n \in Nuids : getNextNuid(n, e, g)
    BY <1>5, NeedFacts
  <2>2. Grows
    BY <2>1, DrawFacts DEF Grows, ClientEntities
  <2> QED BY <1>a, <1>5, <2>2 DEF ServerOnNeedNuid
<1>6. ASSUME NEW c \in Clients, ClientOnNewNuid(c) PROVE CarriedLast'
  <2>1. PICK m : m = Head(toClient[c])
    OBVIOUS
  <2>2. /\ Takes(c, "newNuid") /\ UNCHANGED <<drawn, asked>>
        /\ \/ IsMine(c, m) /\ nuid' = [nuid EXCEPT ![<<c, m.id>>] = m.nuid]
           \/ UNCHANGED nuid
    BY <1>6, <2>1 DEF ClientOnNewNuid
  <2>3. CASE UNCHANGED nuid
    BY <1>a, <1>b, <2>2, <2>3
  <2>4. CASE IsMine(c, m) /\ nuid' = [nuid EXCEPT ![<<c, m.id>>] = m.nuid]
    <3>1. m \in Messages(toClient[c]) /\ m \in ClientEvents /\ IsNewNuid(m)
      BY <2>1, <2>2, TakesFacts DEF IsNewNuid
    <3>2. PICK e \in ClientEntities :
            e = <<c, m.id>> /\ ownerGuid[m.nuid] = guid[Owner(e)]
      BY <2>4, <3>1, MineFacts DEF IsAnsweredBy
    <3>3. nuid'[e] = m.nuid /\ \A f \in ClientEntities \ {e} : nuid'[f] = nuid[f]
      BY <2>4, <3>2 DEF TypeOK, ClientEntities
    <3>4. \A g \in Guids : <<e, g>> \in asked => g[2] <= ownerGuid[m.nuid][2]
      BY <3>2 DEF GuidsAdvance, AskedBefore
    <3> QED BY <2>2, <3>3, <3>4 DEF CarriedLast
  <2> QED BY <2>2, <2>3, <2>4
<1>7. ASSUME NEW c \in Clients,
             \/ ServerOnDisconnect(c) \/ ServerOnPlayerInfo(c) \/ ServerOnLostNuid(c)
             \/ ClientOnConnect(c) \/ ClientOnSeed(c) \/ ClientOnNewGuid(c)
             \/ ClientOnEntityData(c) \/ Connect(c) \/ Disconnect(c)
             \/ \E n \in Nuids : UpdaterAdded(c, n)
      PROVE  CarriedLast'
  <2>1. UNCHANGED <<drawn, nuid, asked>>
    BY <1>7 DEF ServerOnDisconnect, ServerOnPlayerInfo, ServerOnLostNuid, ClientOnConnect,
                ClientOnSeed, ClientOnNewGuid, ClientOnEntityData, Connect, Disconnect,
                UpdaterAdded
  <2> QED BY <1>a, <1>b, <2>1
<1>8. ASSUME NEW x, Collect(x) \/ ServerScanCopy(x) PROVE CarriedLast'
  BY <1>a, <1>b, <1>8 DEF Collect, ServerScanCopy
<1>9. CASE UNCHANGED vars
  BY <1>a, <1>b, <1>9 DEF vars
<1> QED
  BY <1>1, <1>2, <1>3, <1>4, <1>5, <1>6, <1>7, <1>8, <1>9
     DEF Next, ServerUpdate, ClientUpdate, ClientEntities
----------------------------------------------------------------------------
(***************************************************************************)
(* As long as no collector freed a checksum, the nuid of an entity of a    *)
(* client is in one answer, and only before it was set or loaded.          *)
(***************************************************************************)
IsForClient(n) == n \in DOMAIN drawnFor /\ drawnFor[n] \in ClientEntities
IsAnswer(m, n, entity) == IsNewNuid(m) /\ m.nuid = n /\ m.id = entity[2]
UnderWayOnce(n) ==
  \A c \in Clients : \A i \in DOMAIN toClient[c] :
    IsAnswer(toClient[c][i], n, drawnFor[n]) =>
      /\ \A d \in Clients : loaded[d][Answer(n)] = 0
      /\ nuid[drawnFor[n]] # n
      /\ \A d \in Clients : \A j \in DOMAIN toClient[d] :
           IsAnswer(toClient[d][j], n, drawnFor[n]) => d = c /\ j = i
Answered ==
  OwnIds /\ collected = {} => \A n : IsForClient(n) => UnderWayOnce(n) /\ EndsOnce(n)

LEMMA AnsweredFacts == Answered => AnsweredOnce
BY DEF Answered, AnsweredOnce, IsForClient

LEMMA AnsweredInit == Init => Answered
<1> SUFFICES ASSUME Init PROVE Answered
  OBVIOUS
<1>1. \A n : ~ IsForClient(n)
  BY InitFacts DEF IsForClient
<1> QED BY <1>1 DEF Answered

\* The queue of a client is what it was, or without its first message, apart
\* from messages about other entities.
OldAnswers(c) ==
  \E s \in {0, 1} : \A i \in DOMAIN toClient'[c] :
    \/ i + s \in DOMAIN toClient[c] /\ toClient[c][i + s] = toClient'[c][i]
    \/ \A n : IsForClient(n)' => ~ IsAnswer(toClient'[c][i], n, drawnFor'[n])

LEMMA QueueFacts ==
  ASSUME TypeOK, NEW c \in Clients
  PROVE  /\ toClient'[c] = toClient[c] => OldAnswers(c)
         /\ toClient'[c] = << >> => OldAnswers(c)
         /\ toClient[c] # << >> /\ toClient'[c] = Tail(toClient[c]) => OldAnswers(c)
         /\ \A m \in ClientEvents :
              toClient'[c] = Append(toClient[c], m)
              /\ (\A n : IsForClient(n)' => ~ IsAnswer(m, n, drawnFor'[n])) => OldAnswers(c)
<1>1. PICK q \in Seq(ClientEvents) : q = toClient[c]
  BY DEF TypeOK
<1>2. CASE toClient'[c] = q
  BY <1>1, <1>2 DEF OldAnswers
<1>3. CASE toClient'[c] = << >>
  BY <1>3 DEF OldAnswers
<1>4. CASE q # << >> /\ toClient'[c] = Tail(q)
  BY <1>1, <1>4, SequenceFacts DEF OldAnswers
<1>5. ASSUME NEW m \in ClientEvents, toClient'[c] = Append(q, m),
             \A n : IsForClient(n)' => ~ IsAnswer(m, n, drawnFor'[n])
      PROVE  OldAnswers(c)
  <2>1. \A i \in DOMAIN Append(q, m) :
          \/ i + 0 \in DOMAIN q /\ q[i + 0] = Append(q, m)[i]
          \/ Append(q, m)[i] = m
    BY <1>1, SequenceFacts
  <2> QED BY <1>1, <1>5, <2>1 DEF OldAnswers
<1> QED BY <1>1, <1>2, <1>3, <1>4, <1>5

\* A guid that a nuid was drawn under, and that its owner has no more, does not
\* come back.
GuidsStayOld ==
  \A n : \A c \in Clients :
    IsForClient(n) /\ Owner(drawnFor[n]) = c /\ ownerGuid[n] # guid[c] => ownerGuid[n] # guid'[c]

\* A step that sends, sets and loads nothing new for entities of clients.
LEMMA StillAnswered ==
  ASSUME TypeOK, TypeOK', Answered, collected = {} \/ collected' # {},
         \A n : IsForClient(n)' =>
           IsForClient(n) /\ drawnFor'[n] = drawnFor[n] /\ ownerGuid'[n] = ownerGuid[n],
         GuidsStayOld,
         \A e \in ClientEntities : nuid'[e] = nuid[e],
         loaded' = loaded, dead \subseteq dead',
         OwnIds => \A c \in Clients : OldAnswers(c)
  PROVE  Answered'
<1> SUFFICES ASSUME OwnIds, collected' = {}, NEW n, IsForClient(n)'
             PROVE  UnderWayOnce(n)' /\ EndsOnce(n)'
  BY DEF Answered, OwnIds
<1> DEFINE Is(m) == IsAnswer(m, n, drawnFor[n])
<1>1. IsForClient(n) /\ drawnFor'[n] = drawnFor[n] /\ drawnFor[n] \in ClientEntities
      /\ ownerGuid'[n] = ownerGuid[n]
      /\ nuid'[drawnFor[n]] = nuid[drawnFor[n]] /\ Answer(n)' = Answer(n)
  BY DEF IsForClient, Answer
<1>2. UnderWayOnce(n) /\ EndsOnce(n)
  BY <1>1 DEF Answered
<1>3. EndsOnce(n)'
  BY <1>1, <1>2 DEF EndsOnce, GuidsStayOld
<1>4. \A c \in Clients : \E s \in {0, 1} : \A i \in DOMAIN toClient'[c] :
        Is(toClient'[c][i]) =>
          i + s \in DOMAIN toClient[c] /\ Is(toClient[c][i + s])
  <2>1. ASSUME NEW c \in Clients
        PROVE  \E s \in {0, 1} : \A i \in DOMAIN toClient'[c] :
                 Is(toClient'[c][i]) => i + s \in DOMAIN toClient[c] /\ Is(toClient[c][i + s])
    <3>1. PICK s \in {0, 1} : \A i \in DOMAIN toClient'[c] :
            \/ i + s \in DOMAIN toClient[c] /\ toClient[c][i + s] = toClient'[c][i]
            \/ \A k : IsForClient(k)' => ~ IsAnswer(toClient'[c][i], k, drawnFor'[k])
      BY <2>1 DEF OldAnswers
    <3> QED BY <1>1, <3>1
  <2> QED BY <2>1
<1>5. \A c \in Clients : DOMAIN toClient'[c] \subseteq Int
  BY DEF TypeOK
<1>6. UnderWayOnce(n) = \A c \in Clients : \A i \in DOMAIN toClient[c] :
        Is(toClient[c][i]) =>
          /\ \A d \in Clients : loaded[d][Answer(n)] = 0
          /\ nuid[drawnFor[n]] # n
          /\ \A d \in Clients : \A j \in DOMAIN toClient[d] :
               Is(toClient[d][j]) => d = c /\ j = i
  BY DEF UnderWayOnce
<1>7. (\A c \in Clients : \A i \in DOMAIN toClient'[c] :
        Is(toClient'[c][i]) =>
          /\ \A d \in Clients : loaded'[d][Answer(n)] = 0
          /\ nuid'[drawnFor[n]] # n
          /\ \A d \in Clients : \A j \in DOMAIN toClient'[d] :
               Is(toClient'[d][j]) => d = c /\ j = i)
      => UnderWayOnce(n)'
  BY <1>1 DEF UnderWayOnce
<1> HIDE DEF Is
<1>8. ASSUME NEW c \in Clients, NEW i \in DOMAIN toClient'[c], Is(toClient'[c][i])
      PROVE  /\ \A d \in Clients : loaded'[d][Answer(n)] = 0
             /\ nuid'[drawnFor[n]] # n
             /\ \A d \in Clients : \A j \in DOMAIN toClient'[d] :
                  Is(toClient'[d][j]) => d = c /\ j = i
  <2>1. PICK s \in {0, 1} : \A j \in DOMAIN toClient'[c] :
          Is(toClient'[c][j]) => j + s \in DOMAIN toClient[c] /\ Is(toClient[c][j + s])
    BY <1>4
  <2>2. i + s \in DOMAIN toClient[c] /\ Is(toClient[c][i + s])
    BY <1>8, <2>1
  <2>3. /\ \A d \in Clients : loaded[d][Answer(n)] = 0
        /\ nuid[drawnFor[n]] # n
        /\ \A d \in Clients : \A j \in DOMAIN toClient[d] :
             Is(toClient[d][j]) => d = c /\ j = i + s
    BY <1>2, <1>6, <2>2
  <2>4. ASSUME NEW d \in Clients, NEW j \in DOMAIN toClient'[d], Is(toClient'[d][j])
        PROVE  d = c /\ j = i
    <3>1. d = c
      BY <1>4, <2>3, <2>4
    <3>2. j + s = i + s
      BY <2>1, <2>3, <2>4, <3>1
    <3>3. i \in Int /\ j \in Int
      BY <1>5
    <3>4. i = j
      BY <3>2, <3>3
    <3> QED BY <3>1, <3>4
  <2> QED BY <1>1, <2>3, <2>4
<1> QED BY <1>3, <1>7, <1>8

\* Each step keeps it.
LEMMA AnsweredStep ==
  TypeOK /\ TypeOK' /\ GuidsAdvance /\ AllDrawn /\ CarriedLast /\ Once /\ Answered /\ [Next]_vars
    => Answered'
<1> SUFFICES ASSUME TypeOK, TypeOK', GuidsAdvance, AllDrawn, CarriedLast, Once, Answered,
                    [Next]_vars
             PROVE  Answered'
  OBVIOUS
<1> USE DEF drawn, server, world, client
<1>a. ASSUME UNCHANGED drawn, nuid' = nuid, loaded' = loaded, dead \subseteq dead', GuidsStayOld,
             collected = {} \/ collected' # {}, OwnIds => \A c \in Clients : OldAnswers(c)
      PROVE  Answered'
  <2>1. \A n : IsForClient(n)' =>
          IsForClient(n) /\ drawnFor'[n] = drawnFor[n] /\ ownerGuid'[n] = ownerGuid[n]
    BY <1>a DEF IsForClient
  <2> QED BY <1>a, <2>1, StillAnswered
<1>b. ASSUME toClient' = toClient PROVE \A c \in Clients : OldAnswers(c)
  BY <1>b, QueueFacts
<1>d. guid' = guid => GuidsStayOld
  BY DEF GuidsStayOld
<1>c. ASSUME NEW e \in Entities \ ClientEntities, NEW peers \in Seq(Clients), Announce(e, peers),
             collected' = collected, guid' = guid
      PROVE  Answered'
  <2>1. PICK n \in Nuids, to \in SUBSET Clients :
          /\ SentTo(to, NewNuid(ServerGuid, e[2], n))
          /\ NewNuid(ServerGuid, e[2], n) \in Answers
          /\ \/ UNCHANGED <<drawn, nuid>> /\ drawnFor[n] = e
             \/ getNextNuid(n, e, ServerGuid) /\ nuid' = [nuid EXCEPT ![e] = n]
    BY <1>c, AnnounceFacts
  <2>2. UNCHANGED <<loaded, dead>>
    BY <1>c DEF Announce
  <2>3. \A f \in ClientEntities : nuid'[f] = nuid[f]
    BY <2>1 DEF TypeOK, ClientEntities
  <2>4. \A k : IsForClient(k)' =>
          k # n /\ IsForClient(k) /\ drawnFor'[k] = drawnFor[k] /\ ownerGuid'[k] = ownerGuid[k]
    BY <2>1, DrawFacts, GuidFacts DEF IsForClient
  <2>5. PICK m \in ClientEvents : m = NewNuid(ServerGuid, e[2], n) /\ m.nuid = n
    BY <2>1 DEF ClientEvents, NewNuid
  <2>6. \A c \in Clients :
          toClient'[c] = toClient[c] \/ toClient'[c] = Append(toClient[c], m)
    <3>1. SentTo(to, m)
      BY <2>1, <2>5
    <3> QED BY <3>1, SentFacts
  <2>7. \A c \in Clients : OldAnswers(c)
    BY <2>4, <2>5, <2>6, QueueFacts DEF IsAnswer
  <2> QED BY <1>c, <1>d, <2>2, <2>3, <2>4, <2>7, StillAnswered
<1>1. ASSUME NEW e \in ClientEntities, sendNeedNuid(e) PROVE Answered'
  BY <1>a, <1>b, <1>d, <1>1 DEF sendNeedNuid
<1>2. ASSUME NEW e \in ClientEntities, Die(e) PROVE Answered'
  BY <1>a, <1>b, <1>d, <1>2 DEF Die
<1>3. ASSUME NEW e \in Entities \ ClientEntities, ServerScan(e) PROVE Answered'
  <2>1. Announce(e, clients) /\ UNCHANGED <<collected, guid>> /\ clients \in Seq(Clients)
    BY <1>3 DEF ServerScan, TypeOK
  <2> QED BY <1>c, <2>1
<1>4. ASSUME NEW e \in Entities \ ClientEntities, ServerSendEntityData(e) PROVE Answered'
  <2>1. /\ nuid[e] # NoNuid
        /\ toClient' = [c \in Clients |->
             IF c \in Peers THEN Append(toClient[c], EntityData(nuid[e])) ELSE toClient[c]]
        /\ UNCHANGED <<server, world, client, collected>>
    BY <1>4 DEF ServerSendEntityData
  <2>2. nuid[e] \in Nuids
    BY <2>1 DEF TypeOK
  <2>3. PICK m \in ClientEvents : m = EntityData(nuid[e]) /\ m.event = "entityData"
    BY <2>2, EventFacts DEF EntityData
  <2>4. \A n : ~ IsAnswer(m, n, drawnFor'[n])
    BY <2>3 DEF IsAnswer, IsNewNuid
  <2>5. \A c \in Clients :
          toClient'[c] = toClient[c] \/ toClient'[c] = Append(toClient[c], m)
    BY <2>1, <2>3
  <2>6. \A c \in Clients : OldAnswers(c)
    BY <2>4, <2>5, QueueFacts
  <2> QED BY <1>a, <1>d, <2>1, <2>6
<1>5. ASSUME NEW c \in Clients, ServerOnConnect(c) PROVE Answered'
  <2>1. /\ Announce(Mina, clients') /\ clients' \in Seq(Clients)
        /\ UNCHANGED <<collected, guid>>
        /\ Mina \in Entities \ ClientEntities
    BY <1>5, HandshakeAssumption DEF ServerOnConnect, ClientEntities, Owner, TypeOK
  <2> QED BY <1>c, <2>1
<1>6. ASSUME NEW c \in Clients, ServerOnDisconnect(c) PROVE Answered'
  BY <1>a, <1>b, <1>d, <1>6 DEF ServerOnDisconnect
<1>7. ASSUME NEW c \in Clients, ServerOnNeedNuid(c) PROVE Answered'
  <2> SUFFICES ASSUME OwnIds, collected' = {}, NEW k, IsForClient(k)'
               PROVE  UnderWayOnce(k)' /\ EndsOnce(k)'
    BY DEF Answered, OwnIds
  <2>1. UNCHANGED <<world, client, collected>>
    BY <1>7 DEF ServerOnNeedNuid
  <2>2. Server \notin collected
    BY <2>1
  <2>3. PICK e \in ClientEntities, g \in Guids, n \in Nuids, to \in SUBSET Clients :
          /\ getNextNuid(n, e, g)
          /\ SentTo(to, NewNuid(g, e[2], n))
          /\ NewNuid(g, e[2], n) \in Answers
          /\ \A a, b \in to : a = b
    BY <1>7, <2>2, NeedFacts, ZenonT(30)
  <2>4. /\ n \notin DOMAIN drawnFor
        /\ DOMAIN drawnFor' = DOMAIN drawnFor \cup {n}
        /\ drawnFor'[n] = e
        /\ \A l \in DOMAIN drawnFor :
             drawnFor'[l] = drawnFor[l] /\ ownerGuid'[l] = ownerGuid[l]
    BY <2>3, DrawFacts DEF ClientEntities
  <2>5. PICK m \in ClientEvents : m = NewNuid(g, e[2], n) /\ m.nuid = n
    BY <2>3 DEF ClientEvents, NewNuid
  <2>6. \A d \in Clients :
          toClient'[d] = IF d \in to THEN Append(toClient[d], m) ELSE toClient[d]
    BY <2>3, <2>5, SentFacts
  <2>7. \A d \in Clients : toClient[d] \in Seq(ClientEvents)
    BY DEF TypeOK
  <2>8. \A d \in Clients : \A i \in DOMAIN toClient'[d] :
          \/ i \in DOMAIN toClient[d] /\ toClient'[d][i] = toClient[d][i]
          \/ d \in to /\ i = Len(toClient[d]) + 1 /\ toClient'[d][i] = m
    <3>1. ASSUME NEW d \in Clients, NEW i \in DOMAIN Append(toClient[d], m)
          PROVE  \/ i \in DOMAIN toClient[d] /\ Append(toClient[d], m)[i] = toClient[d][i]
                 \/ i = Len(toClient[d]) + 1 /\ Append(toClient[d], m)[i] = m
      BY <2>7, SequenceFacts
    <3> QED BY <2>6, <3>1
  <2>9. CASE k = n
    <3>1. \A d \in Clients : loaded'[d][Answer(n)'] = 0
      <4>1. PICK id \in Ids : id = e[2]
        BY HandshakeAssumption DEF ClientEntities
      <4>2. PICK call \in Calls : call = <<n, id>>
        BY DEF Calls
      <4>3. call[1] = n
        BY <4>2
      <4>4. Answer(n)' = call
        BY <2>4, <4>1, <4>2 DEF Answer
      <4>5. \A d \in Clients : loaded[d][call] \in Nat
        BY DEF TypeOK
      <4>6. \A d \in Clients : ~ loaded[d][call] > 0
        BY <2>4, <4>3 DEF AllDrawn, LoadedIsDrawn
      <4> QED BY <2>1, <4>4, <4>5, <4>6
    <3>2. nuid'[e] # n
      <4>1. n # NoNuid
        BY DEF Nuids, NoNuid
      <4> QED BY <2>1, <2>4, <4>1 DEF AllDrawn, CarriedIsDrawn, ClientEntities
    <3>3. \A d \in Clients : \A i \in DOMAIN toClient[d] : ~ IsAnswer(toClient[d][i], n, e)
      BY <2>4 DEF AllDrawn, ToldIsDrawn, NamesItsEntity, Messages, IsAnswer, IsNewNuid
    <3>4. \A d \in Clients : \A i \in DOMAIN toClient'[d] :
            IsAnswer(toClient'[d][i], n, e) => d \in to /\ i = Len(toClient[d]) + 1
      BY <2>8, <3>3
    <3>5. UnderWayOnce(k)'
      BY <2>3, <2>4, <2>9, <3>1, <3>2, <3>4 DEF UnderWayOnce
    <3>6. EndsOnce(k)'
      BY <2>9, <3>1 DEF EndsOnce
    <3> QED BY <3>5, <3>6
  <2>10. CASE k # n
    <3>1. /\ IsForClient(k) /\ drawnFor'[k] = drawnFor[k] /\ Answer(k)' = Answer(k)
          /\ ownerGuid'[k] = ownerGuid[k]
      BY <2>4, <2>10 DEF IsForClient, Answer
    <3>2. UnderWayOnce(k) /\ EndsOnce(k)
      BY <2>1, <3>1 DEF Answered
    <3>3. EndsOnce(k)'
      BY <2>1, <3>1, <3>2 DEF EndsOnce
    <3>4. \A d \in Clients : \A i \in DOMAIN toClient'[d] :
            IsAnswer(toClient'[d][i], k, drawnFor[k]) =>
              i \in DOMAIN toClient[d] /\ IsAnswer(toClient[d][i], k, drawnFor[k])
      BY <2>5, <2>8, <2>10 DEF IsAnswer
    <3>5. UnderWayOnce(k)'
      BY <2>1, <3>1, <3>2, <3>4 DEF UnderWayOnce
    <3> QED BY <3>3, <3>5
  <2> QED BY <2>9, <2>10
<1>8. ASSUME NEW c \in Clients, ServerOnLostNuid(c) PROVE Answered'
  <2>1. UNCHANGED <<drawn, world, client, collected>>
    BY <1>8 DEF ServerOnLostNuid
  <2>2. CASE toClient' = toClient
    BY <1>a, <1>b, <1>d, <2>1, <2>2
  <2>3. CASE \E n \in DOMAIN drawnFor, to \in SUBSET Clients :
               /\ Owner(drawnFor[n]) = Server
               /\ NewNuid(ServerGuid, Unknown, n) \in Answers
               /\ SentTo(to, NewNuid(ServerGuid, Unknown, n))
    <3>1. PICK n \in DOMAIN drawnFor, to \in SUBSET Clients :
            /\ Owner(drawnFor[n]) = Server
            /\ NewNuid(ServerGuid, Unknown, n) \in Answers
            /\ SentTo(to, NewNuid(ServerGuid, Unknown, n))
      BY <2>3
    <3>2. PICK m \in ClientEvents : m = NewNuid(ServerGuid, Unknown, n) /\ m.nuid = n
      BY <3>1 DEF ClientEvents, NewNuid
    <3>3. \A k : IsForClient(k)' => ~ IsAnswer(m, k, drawnFor'[k])
      BY <2>1, <3>1, <3>2 DEF IsForClient, ClientEntities, IsAnswer
    <3>4. \A d \in Clients :
            toClient'[d] = toClient[d] \/ toClient'[d] = Append(toClient[d], m)
      <4>1. SentTo(to, m)
        BY <3>1, <3>2
      <4> QED BY <4>1, SentFacts
    <3>5. \A d \in Clients : OldAnswers(d)
      BY <3>3, <3>4, QueueFacts
    <3> QED BY <1>a, <1>d, <2>1, <3>5
  <2> QED BY <1>8, <2>2, <2>3, LostFacts
<1>9. ASSUME NEW c \in Clients, ClientOnEntityData(c) PROVE Answered'
  <2>1. /\ Takes(c, "entityData") /\ UNCHANGED <<drawn, world, guid, collected>>
    BY <1>9 DEF ClientOnEntityData
  <2>2. \A d \in Clients :
          \/ toClient'[d] = toClient[d]
          \/ toClient[d] # << >> /\ toClient'[d] = Tail(toClient[d])
    <3>1. toClient[c] # << >> /\ toClient' = [toClient EXCEPT ![c] = Tail(@)]
      BY <2>1, TakesFacts
    <3> QED BY <3>1 DEF TypeOK
  <2>3. \A d \in Clients : OldAnswers(d)
    BY <2>2, QueueFacts
  <2> QED BY <1>a, <1>d, <2>1, <2>3
<1>10. ASSUME NEW c \in Clients, Disconnect(c) PROVE Answered'
  <2>1. \A d \in Clients : toClient'[d] = toClient[d] \/ toClient'[d] = << >>
    BY <1>10 DEF Disconnect, TypeOK
  <2>2. \A d \in Clients : OldAnswers(d)
    BY <2>1, QueueFacts
  <2> QED BY <1>a, <1>d, <1>10, <2>2 DEF Disconnect
<1>11. ASSUME NEW c \in Clients, Connect(c) \/ ClientOnConnect(c) \/ ClientOnSeed(c)
       PROVE  Answered'
  BY <1>a, <1>b, <1>d, <1>11 DEF Connect, ClientOnConnect, ClientOnSeed
<1>12. ASSUME NEW c \in Clients, NEW n \in Nuids, UpdaterAdded(c, n) PROVE Answered'
  BY <1>a, <1>b, <1>d, <1>12 DEF UpdaterAdded
<1>13. ASSUME NEW process \in Clients \cup {Server}, Collect(process) PROVE Answered'
  BY <1>13 DEF Collect, Answered
<1>14. ASSUME NEW c \in Clients, ClientOnNewNuid(c) PROVE Answered'
  <2> SUFFICES ASSUME OwnIds, collected' = {}, NEW k, IsForClient(k)'
               PROVE  UnderWayOnce(k)' /\ EndsOnce(k)'
    BY DEF Answered, OwnIds
  <2>1. PICK q \in Seq(ClientEvents) : q = toClient[c]
    BY DEF TypeOK
  <2>2. PICK m : m = Head(q)
    OBVIOUS
  <2>3. /\ Takes(c, "newNuid")
        /\ UNCHANGED <<drawn, dead, guid, collected>>
        /\ \/ /\ IsMine(c, m)
              /\ nuid' = [nuid EXCEPT ![<<c, m.id>>] = m.nuid]
              /\ UNCHANGED loaded
           \/ /\ ~ IsMine(c, m)
              /\ loaded' = [loaded EXCEPT ![c][<<m.nuid, m.id>>] = @ + 1]
              /\ UNCHANGED nuid
    BY <1>14, <2>1, <2>2 DEF ClientOnNewNuid
  <2>4. /\ m \in Messages(q) /\ m \in ClientEvents /\ IsNewNuid(m) /\ m.nuid \in Nuids
        /\ q # << >> /\ toClient' = [toClient EXCEPT ![c] = Tail(@)]
    BY <2>1, <2>2, <2>3, TakesFacts, EventFacts DEF IsNewNuid
  <2>5. NamesItsEntity(m)
    BY <2>1, <2>4 DEF AllDrawn, ToldIsDrawn
  <2>6. toClient'[c] = Tail(q) /\ \A d \in Clients \ {c} : toClient'[d] = toClient[d]
    BY <2>1, <2>4 DEF TypeOK
  <2>7. /\ 1 \in DOMAIN q /\ q[1] = m
        /\ \A i \in DOMAIN Tail(q) : i \in Nat \ {0} /\ i + 1 \in DOMAIN q /\ Tail(q)[i] = q[i + 1]
    BY <2>1, <2>2, <2>4, SequenceFacts
  <2>8. IsForClient(k) /\ k \in DOMAIN drawnFor /\ drawnFor[k] \in ClientEntities
        /\ drawnFor'[k] = drawnFor[k] /\ Answer(k)' = Answer(k) /\ Answer(k) \in Calls
        /\ ownerGuid'[k] = ownerGuid[k] /\ guid' = guid
    <3>1. k \in Nuids
      <4>1. DOMAIN drawnFor = 1 .. Len(drawnFor) /\ Len(drawnFor) <= MaxNuid
            /\ Len(drawnFor) \in Nat
        BY DEF TypeOK
      <4> QED BY <2>3, <4>1, HandshakeBoundAssumption DEF Nuids, IsForClient
    <3> QED BY <2>3, <3>1, HandshakeAssumption DEF IsForClient, Answer, Calls, ClientEntities
  <2>9. UnderWayOnce(k) /\ EndsOnce(k)
    BY <2>3, <2>8 DEF Answered
  <2> DEFINE Is(x) == IsAnswer(x, k, drawnFor[k])
             call == <<m.nuid, m.id>>
  <2>a. /\ Is(m) <=> call = Answer(k)
        /\ call \in Calls
    BY <2>4, EventFacts DEF IsAnswer, Answer, Calls
  <2>b. UnderWayOnce(k) = \A d \in Clients : \A i \in DOMAIN toClient[d] :
          Is(toClient[d][i]) =>
            /\ \A b \in Clients : loaded[b][Answer(k)] = 0
            /\ nuid[drawnFor[k]] # k
            /\ \A b \in Clients : \A j \in DOMAIN toClient[b] :
                 Is(toClient[b][j]) => b = d /\ j = i
    BY DEF UnderWayOnce
  <2>c. (\A d \in Clients : \A i \in DOMAIN toClient'[d] :
          Is(toClient'[d][i]) =>
            /\ \A b \in Clients : loaded'[b][Answer(k)] = 0
            /\ nuid'[drawnFor[k]] # k
            /\ \A b \in Clients : \A j \in DOMAIN toClient'[b] :
                 Is(toClient'[b][j]) => b = d /\ j = i)
        => UnderWayOnce(k)'
    BY <2>8 DEF UnderWayOnce
  <2>d. PICK w \in Calls : w = call
    BY <2>a
  <2>e. \/ /\ IsMine(c, m)
           /\ nuid' = [nuid EXCEPT ![<<c, m.id>>] = m.nuid]
           /\ UNCHANGED loaded
        \/ /\ ~ IsMine(c, m)
           /\ loaded' = [loaded EXCEPT ![c][w] = @ + 1]
           /\ UNCHANGED nuid
    BY <2>3, <2>d
  <2> HIDE DEF Is, call
  <2>10. CASE Is(m)
    <3>1. /\ \A d \in Clients : loaded[d][Answer(k)] = 0
          /\ nuid[drawnFor[k]] # k
          /\ \A d \in Clients : \A j \in DOMAIN toClient[d] :
               Is(toClient[d][j]) => d = c /\ j = 1
      BY <2>1, <2>7, <2>9, <2>10, <2>b
    <3>2. \A d \in Clients : \A j \in DOMAIN toClient'[d] : ~ Is(toClient'[d][j])
      <4>1. \A j \in DOMAIN Tail(q) : ~ Is(Tail(q)[j])
        <5>1. ASSUME NEW j \in DOMAIN Tail(q), Is(Tail(q)[j]) PROVE FALSE
          <6>1. j + 1 \in DOMAIN q /\ Is(q[j + 1]) /\ j \in Nat \ {0}
            BY <2>7, <5>1
          <6>2. j + 1 = 1
            BY <2>1, <3>1, <6>1
          <6> QED BY <6>1, <6>2
        <5> QED BY <5>1
      <4>2. \A d \in Clients \ {c} : \A j \in DOMAIN toClient[d] : ~ Is(toClient[d][j])
        BY <3>1
      <4> QED BY <2>6, <4>1, <4>2
    <3>3. UnderWayOnce(k)'
      BY <3>2, <2>c
    <3>4. EndsOnce(k)'
      <4>1. CASE UNCHANGED loaded
        BY <2>8, <3>1, <4>1 DEF EndsOnce
      <4>2. CASE /\ ~ IsMine(c, m)
                 /\ loaded' = [loaded EXCEPT ![c][w] = @ + 1]
                 /\ UNCHANGED nuid
        <5>1. loaded'[c][Answer(k)] = 1 /\ \A d \in Clients \ {c} : loaded'[d][Answer(k)] = 0
          <6>1. w = Answer(k)
            BY <2>10, <2>a, <2>d
          <6>2. loaded'[c][Answer(k)] = loaded[c][Answer(k)] + 1
                /\ \A d \in Clients \ {c} : loaded'[d] = loaded[d]
            BY <4>2, <6>1 DEF TypeOK
          <6> QED BY <2>8, <3>1, <6>2
        <5>2. nuid'[drawnFor'[k]] # k
          BY <2>8, <3>1, <4>2
        <5>3. ASSUME Owner(drawnFor[k]) = c, ownerGuid[k] = guid[c] PROVE drawnFor[k] \in dead
          <6>1. PICK e \in ClientEntities : e = drawnFor[k] /\ e \in Entities /\ Owner(e) = c
                                            /\ Owner(e) # Server
            BY <2>8, <5>3 DEF ClientEntities
          <6>2. m.nuid = k /\ m.id = e[2] /\ m.id # Unknown /\ m.event = "newNuid"
            BY <2>4, <2>10, <6>1, HandshakeAssumption DEF Is, IsAnswer, IsNewNuid
          <6>3. m.owner = guid[c] /\ e = <<c, m.id>>
            BY <2>4, <2>5, <5>3, <6>1, <6>2, HandshakeAssumption
               DEF Owner, NamesItsEntity, IsNewNuid
          <6>4. ASSUME nuid[e] # NoNuid PROVE FALSE
            <7>1. PICK j : j = nuid[e] /\ j \in DOMAIN drawnFor /\ drawnFor[j] = e
              BY <6>1, <6>4 DEF AllDrawn, CarriedIsDrawn
            <7>2. <<e, ownerGuid[j]>> \in asked /\ <<e, ownerGuid[k]>> \in asked
              BY <2>8, <6>1, <7>1 DEF AllDrawn, DrawnIsCarried
            <7>3. ownerGuid[j] \in Guids /\ ownerGuid[k] \in Guids
              BY <2>8, <7>1, OwnerGuidFacts
            <7>4. ownerGuid[j][1] = c /\ ownerGuid[k][1] = c
              BY <2>8, <6>1, <7>1 DEF AllDrawn, DrawnForOwner
            <7>5. ownerGuid[j][2] <= ownerGuid[k][2]
              BY <5>3, <6>1, <7>2, <7>3 DEF GuidsAdvance, AskedBefore
            <7>6. ownerGuid[k][2] <= ownerGuid[j][2]
              BY <6>1, <6>4, <7>1, <7>2, <7>3 DEF CarriedLast
            <7>7. ownerGuid[j] = ownerGuid[k]
              BY <7>3, <7>4, <7>5, <7>6, GuidFacts
            <7>8. j = k
              BY <2>3, <2>8, <6>1, <7>1, <7>7 DEF Once, OneNuid
            <7> QED BY <3>1, <6>1, <7>1, <7>8
          <6> QED BY <4>2, <6>1, <6>3, <6>4 DEF IsMine
        <5>4. \A d \in Clients : loaded'[d][Answer(k)] > 0 => d = c
          BY <5>1
        <5> QED BY <2>3, <2>8, <5>1, <5>2, <5>3, <5>4 DEF EndsOnce
      <4> QED BY <2>e, <4>1, <4>2
    <3> QED BY <3>3, <3>4
  <2>11. CASE ~ Is(m)
    <3>1. \A d \in Clients : loaded'[d][Answer(k)] = loaded[d][Answer(k)]
      <4>1. w # Answer(k)
        BY <2>11, <2>a, <2>d
      <4>2. \A d \in Clients : loaded[d] \in [Calls -> Nat]
        BY DEF TypeOK
      <4>3. CASE loaded' = [loaded EXCEPT ![c][w] = @ + 1]
        BY <2>8, <4>1, <4>2, <4>3 DEF TypeOK
      <4> QED BY <2>e, <4>3
    <3>2. \/ nuid'[drawnFor[k]] = nuid[drawnFor[k]]
          \/ nuid'[drawnFor[k]] = m.nuid /\ m.nuid # k
      <4>1. CASE UNCHANGED nuid
        BY <4>1
      <4>2. CASE IsMine(c, m) /\ nuid' = [nuid EXCEPT ![<<c, m.id>>] = m.nuid]
        <5>1. PICK e \in Entities : e = drawnFor[k]
          BY <2>8 DEF ClientEntities
        <5>2. PICK f \in Entities : f = <<c, m.id>>
          BY <4>2 DEF IsMine
        <5>3. f[2] = m.id
          BY <5>2
        <5>4. nuid' = [nuid EXCEPT ![f] = m.nuid]
          BY <4>2, <5>2
        <5>5. f = e => m.nuid # k
          BY <2>4, <2>11, <5>1, <5>3 DEF Is, IsAnswer
        <5> QED BY <5>1, <5>4, <5>5 DEF TypeOK
      <4> QED BY <2>e, <4>1, <4>2
    <3>3. EndsOnce(k)'
      BY <2>3, <2>8, <2>9, <3>1, <3>2 DEF EndsOnce
    <3>4. ASSUME NEW d \in Clients, NEW i \in DOMAIN toClient'[d], Is(toClient'[d][i])
          PROVE  /\ \A b \in Clients : loaded'[b][Answer(k)] = 0
                 /\ nuid'[drawnFor[k]] # k
                 /\ \A b \in Clients : \A j \in DOMAIN toClient'[b] :
                      Is(toClient'[b][j]) => b = d /\ j = i
      <4>1. PICK s \in {0, 1} : s = IF d = c THEN 1 ELSE 0
        OBVIOUS
      <4>2. \A b \in Clients : \A j \in DOMAIN toClient'[b] :
              /\ b = c => j + 1 \in DOMAIN toClient[b] /\ toClient'[b][j] = toClient[b][j + 1]
              /\ b # c => j + 0 \in DOMAIN toClient[b] /\ toClient'[b][j] = toClient[b][j + 0]
              /\ j \in Int
        <5>1. \A b \in Clients \ {c} : \A j \in DOMAIN toClient[b] : j \in Int /\ j + 0 = j
          <6>1. \A b \in Clients : toClient[b] \in Seq(ClientEvents)
            BY DEF TypeOK
          <6>2. \A b \in Clients : \A j \in DOMAIN toClient[b] : j \in Nat
            BY <6>1
          <6> QED BY <6>2
        <5>2. \A j \in DOMAIN toClient'[c] :
                j + 1 \in DOMAIN toClient[c] /\ toClient'[c][j] = toClient[c][j + 1] /\ j \in Int
          BY <2>1, <2>6, <2>7
        <5>3. \A b \in Clients \ {c} : toClient'[b] = toClient[b]
          BY <2>6
        <5>4. \A b \in Clients \ {c} : \A j \in DOMAIN toClient'[b] :
                j + 0 \in DOMAIN toClient[b] /\ toClient'[b][j] = toClient[b][j + 0] /\ j \in Int
          BY <5>1, <5>3
        <5> QED BY <5>2, <5>4
      <4>3. i + s \in DOMAIN toClient[d] /\ Is(toClient[d][i + s])
        BY <3>4, <4>1, <4>2
      <4>4. /\ \A b \in Clients : loaded[b][Answer(k)] = 0
            /\ nuid[drawnFor[k]] # k
            /\ \A b \in Clients : \A j \in DOMAIN toClient[b] :
                 Is(toClient[b][j]) => b = d /\ j = i + s
        BY <2>9, <2>b, <4>3
      <4>5. ASSUME NEW b \in Clients, NEW j \in DOMAIN toClient'[b], Is(toClient'[b][j])
            PROVE  b = d /\ j = i
        <5>1. b = d
          BY <4>2, <4>4, <4>5
        <5>2. j + s = i + s
          BY <4>1, <4>2, <4>4, <4>5, <5>1
        <5>3. i \in Int /\ j \in Int
          BY <4>2
        <5>4. i = j
          BY <5>2, <5>3
        <5> QED BY <5>1, <5>4
      <4> QED BY <2>8, <3>1, <3>2, <4>4, <4>5
    <3>5. UnderWayOnce(k)'
      BY <2>c, <3>4
    <3> QED BY <3>3, <3>5
  <2> QED BY <2>10, <2>11
<1>15. ASSUME NEW n \in Nuids, ServerScanCopy(n) PROVE Answered'
  <2>1. UNCHANGED <<drawn, world, client, collected>>
    BY <1>15 DEF ServerScanCopy
  <2>2. PICK m \in ClientEvents, to \in SUBSET Clients :
          /\ SentTo(to, m)
          /\ m.nuid = n /\ m.id = CopyId[n]
    BY <1>15, CopyFacts
  <2>3. OwnIds => \A k : IsForClient(k)' => ~ IsAnswer(m, k, drawnFor'[k])
    BY <2>1, <2>2 DEF OwnIds, IsForClient, IsAnswer
  <2>4. \A d \in Clients :
          toClient'[d] = toClient[d] \/ toClient'[d] = Append(toClient[d], m)
    <3>1. \A d \in Clients :
            toClient'[d] = IF d \in to THEN Append(toClient[d], m) ELSE toClient[d]
      BY <2>2, SentFacts
    <3> QED BY <3>1
  <2>5. OwnIds => \A d \in Clients : OldAnswers(d)
    BY <2>3, <2>4, QueueFacts
  <2> QED BY <1>a, <1>d, <2>1, <2>5
<1>16. ASSUME NEW c \in Clients, ServerOnPlayerInfo(c) PROVE Answered'
  <2>1. PICK old : old = Head(toServer[c]).guid
    OBVIOUS
  <2>2. /\ Reports(c, "playerInfo") /\ Pop(c) /\ cachedGuids[c] <= MaxGuids
        /\ UNCHANGED <<drawn, world, client, collected>>
        /\ UNCHANGED toClient \/ \E to : SentTo(to, NewGuid(old, <<c, cachedGuids[c]>>))
    BY <1>16, <2>1 DEF ServerOnPlayerInfo
  <2>3. CASE UNCHANGED toClient
    BY <1>a, <1>b, <1>d, <2>2, <2>3
  <2>4. CASE \E to : SentTo(to, NewGuid(old, <<c, cachedGuids[c]>>))
    <3>1. PICK to : SentTo(to, NewGuid(old, <<c, cachedGuids[c]>>))
      BY <2>4
    <3>2. old \in Guids
      BY <2>1, <2>2, PopFacts, EventFacts
    <3>3. <<c, cachedGuids[c]>> \in Guids
      <4>1. cachedGuids[c] \in 0 .. MaxGuids
        BY <2>2, HandshakeBoundAssumption DEF TypeOK
      <4> QED BY <4>1, GuidFacts
    <3>4. PICK m \in ClientEvents : m = NewGuid(old, <<c, cachedGuids[c]>>)
                                   /\ m.event = "newGuid"
      BY <3>2, <3>3, EventFacts DEF NewGuid
    <3>5. \A n : ~ IsAnswer(m, n, drawnFor'[n])
      BY <3>4 DEF IsAnswer, IsNewNuid
    <3>6. \A d \in Clients :
            toClient'[d] = toClient[d] \/ toClient'[d] = Append(toClient[d], m)
      <4>1. SentTo(to, m)
        BY <3>1, <3>4
      <4> QED BY <4>1, SentFacts
    <3>7. \A d \in Clients : OldAnswers(d)
      BY <3>5, <3>6, QueueFacts
    <3> QED BY <1>a, <1>d, <2>2, <3>7
  <2> QED BY <2>2, <2>3, <2>4
<1>17. ASSUME NEW c \in Clients, ClientOnNewGuid(c) PROVE Answered'
  <2>1. PICK m : m = Head(toClient[c])
    OBVIOUS
  <2>2. /\ Takes(c, "newGuid") /\ UNCHANGED <<drawn, world, collected>>
        /\ guid' = [guid EXCEPT ![c] = IF @ = m.old THEN m.new ELSE @]
    BY <1>17, <2>1 DEF ClientOnNewGuid
  <2>3. m \in ClientEvents /\ m.event = "newGuid" /\ m \in Messages(toClient[c])
    BY <2>1, <2>2, TakesFacts
  <2>4. m.old[2] < m.new[2] /\ m.old[2] \in Nat /\ m.new[2] \in Nat
    BY <2>3, EventFacts, GuidFacts DEF GuidsAdvance, IsLater
  <2>5. \A d \in Clients : guid'[d] = IF d = c /\ guid[d] = m.old THEN m.new ELSE guid[d]
    BY <2>2 DEF TypeOK
  <2>6. GuidsStayOld
    <3>1. ASSUME NEW n, NEW d \in Clients, IsForClient(n), Owner(drawnFor[n]) = d,
                 ownerGuid[n] # guid[d], ownerGuid[n] = guid'[d]
          PROVE  FALSE
      <4>1. guid[d] = m.old /\ guid'[d] = m.new
        BY <2>5, <3>1
      <4>2. <<drawnFor[n], ownerGuid[n]>> \in asked
        BY <3>1 DEF IsForClient, AllDrawn, DrawnIsCarried
      <4>3. ownerGuid[n] \in Guids
        BY <3>1, OwnerGuidFacts DEF IsForClient
      <4>4. ownerGuid[n][2] <= guid[d][2]
        BY <3>1, <4>2, <4>3 DEF IsForClient, GuidsAdvance, AskedBefore
      <4> QED BY <2>4, <3>1, <4>1, <4>4
    <3> QED BY <3>1 DEF GuidsStayOld
  <2>7. \A d \in Clients :
          \/ toClient'[d] = toClient[d]
          \/ toClient[d] # << >> /\ toClient'[d] = Tail(toClient[d])
    <3>1. toClient[c] # << >> /\ toClient' = [toClient EXCEPT ![c] = Tail(@)]
      BY <2>2, TakesFacts
    <3> QED BY <3>1 DEF TypeOK
  <2>8. \A d \in Clients : OldAnswers(d)
    BY <2>7, QueueFacts
  <2> QED BY <1>a, <2>2, <2>6, <2>8
<1>18. CASE UNCHANGED vars
  BY <1>a, <1>b, <1>d, <1>18 DEF vars
<1> QED
  BY <1>1, <1>2, <1>3, <1>4, <1>5, <1>6, <1>7, <1>8, <1>9, <1>10, <1>11, <1>12, <1>13,
     <1>14, <1>15, <1>16, <1>17, <1>18 DEF Next, ServerUpdate, ClientUpdate

LEMMA HandshakeInvariant == Spec => [](TypeOK /\ AllDrawn /\ Once /\ Answered)
<1> DEFINE IInv == TypeOK /\ GuidsAdvance /\ AllDrawn /\ CarriedLast /\ Once /\ Answered
<1>1. Init => IInv
  BY TypeInit, GuidsInit, AllDrawnInit, CarriedLastInit, OnceInit, AnsweredInit
<1>2. IInv /\ [Next]_vars => IInv'
  BY TypeStep, GuidsStep, AllDrawnStep, CarriedLastStep, OnceStep, AnsweredStep
<1> QED BY <1>1, <1>2, PTL DEF Spec

(***************************************************************************)
(* Until a collector frees a checksum, an entity gets one nuid under each  *)
(* guid that its owner has: a client asks once for each under one guid,    *)
(* over all its connections (Client.sendNeedNuid,                          *)
(* NetworkUtils.alreadySent), and one question is answered with one nuid   *)
(* (Server.onNeedNuid), however the guids of clients are replaced          *)
(* (Server.onPlayerInfo, Client.onNewGuid).                                *)
(***************************************************************************)
THEOREM NuidIsOne == Spec => []OneNuid
BY HandshakeInvariant, PTL DEF Once

(***************************************************************************)
(* Until a collector frees a checksum, the nuid of an entity of a client   *)
(* is set or loaded once, by its owner only for a dead entity or under a   *)
(* guid that it has no more, as long as the copies on the server have ids  *)
(* of their own (EntityUtils.spawnEntity, Client.onNewNuid, onNewGuid,     *)
(* Server.sendNewNuid).                                                    *)
(***************************************************************************)
THEOREM AnswerEndsOnce == Spec => []AnsweredOnce
BY HandshakeInvariant, AnsweredFacts, PTL
----------------------------------------------------------------------------
(***************************************************************************)
(* Why WillBeSet fails: an entity that was asked for under the guid that   *)
(* its owner has now has no nuid, and neither the question nor an answer   *)
(* to it is under way.                                                     *)
(***************************************************************************)
Question(e) == NeedNuid(e, guid[Owner(e)])
IsAnswerTo(m, e) == IsNewNuid(m) /\ m.owner = guid[Owner(e)] /\ m.id = e[2]
LeftAlone(e) ==
  /\ <<e, guid[Owner(e)]>> \in asked /\ nuid[e] = NoNuid
  /\ Question(e) \notin Messages(toServer[Owner(e)])
  /\ \A m \in Messages(toClient[Owner(e)]) : ~ IsAnswerTo(m, e)

\* That is for good, until a collector frees a checksum or the server gives the
\* owner another guid: a question that was lost, or answered to another client, is
\* not repeated, in this connection or in any later one, as the cache of the client
\* has it (Client.sendNeedNuid, NetworkUtils.alreadySent).
NotAskedAgain ==
  [][\A e \in ClientEntities :
       LeftAlone(e) /\ collected' = {} /\ guid'[Owner(e)] = guid[Owner(e)]
         => LeftAlone(e)']_vars

LEMMA LeftAloneStep ==
  ASSUME OwnIds, TypeOK, AllDrawn, GuidsAdvance, [Next]_vars, NEW e \in ClientEntities,
         LeftAlone(e), collected' = {}, guid'[Owner(e)] = guid[Owner(e)]
  PROVE  LeftAlone(e)'
<1> USE DEF drawn, server, world, client
<1>1. PICK c \in Clients :
        c = Owner(e) /\ e \in Entities /\ e = <<c, e[2]>> /\ e[2] # Unknown /\ c # Server
  BY HandshakeAssumption DEF ClientEntities, Owner
<1>2. PICK g \in Guids : g = guid[c] /\ g = guid'[c] /\ g[1] = c
  BY <1>1 DEF TypeOK, GuidsAdvance
<1>3. /\ <<e, g>> \in asked /\ nuid[e] = NoNuid
      /\ NeedNuid(e, g) \notin Messages(toServer[c])
      /\ \A m \in Messages(toClient[c]) : ~ (IsNewNuid(m) /\ m.owner = g /\ m.id = e[2])
  BY <1>1, <1>2 DEF LeftAlone, Question, IsAnswerTo
<1> DEFINE IsTo(m) == IsNewNuid(m) /\ m.owner = g /\ m.id = e[2]
           StillAsked ==
             \A m \in Messages(toServer'[c]) : m \in Messages(toServer[c]) \/ m # NeedNuid(e, g)
           StillUnanswered ==
             \A m \in Messages(toClient'[c]) : m \in Messages(toClient[c]) \/ ~ IsTo(m)
<1>4. ASSUME asked \subseteq asked', nuid'[e] = nuid[e], StillAsked, StillUnanswered
      PROVE  LeftAlone(e)'
  <2>1. /\ <<e, g>> \in asked' /\ nuid'[e] = NoNuid
        /\ NeedNuid(e, g) \notin Messages(toServer'[c])
        /\ \A m \in Messages(toClient'[c]) : ~ IsTo(m)
    BY <1>3, <1>4
  <2> QED BY <1>1, <1>2, <2>1 DEF LeftAlone, Question, IsAnswerTo, NeedNuid, IsNewNuid, Owner
<1>5. UNCHANGED toServer => StillAsked
  OBVIOUS
<1>6. UNCHANGED toClient => StillUnanswered
  OBVIOUS
<1>7. ASSUME NEW d \in Clients, NEW event, Reports(d, event), Pop(d) PROVE StillAsked
  BY <1>7, PopFacts
<1>8. ASSUME NEW d \in Clients, NEW event, Takes(d, event) PROVE StillUnanswered
  BY <1>8, TakesFacts
<1>9. ASSUME NEW m, NEW to, SentTo(to, m), ~ IsTo(m) PROVE StillUnanswered
  BY <1>9, AnySentFacts
<1>10. \A x \in ServerEvents :
         Messages(toServer'[c]) \subseteq Messages(toServer[c]) \cup {x} /\ x # NeedNuid(e, g)
           => StillAsked
  OBVIOUS
<1> HIDE DEF StillAsked, StillUnanswered
<1>11. ASSUME NEW f \in Entities \ ClientEntities, NEW peers \in Seq(Clients), Announce(f, peers)
       PROVE  nuid'[e] = nuid[e] /\ StillUnanswered
  <2>1. PICK n \in Nuids, to \in SUBSET Clients :
          /\ SentTo(to, NewNuid(ServerGuid, f[2], n))
          /\ UNCHANGED nuid \/ nuid' = [nuid EXCEPT ![f] = n]
    BY <1>11, AnnounceFacts
  <2>2. ~ IsTo(NewNuid(ServerGuid, f[2], n))
    BY <1>1, <1>2, GuidFacts DEF NewNuid
  <2>3. StillUnanswered
    BY <1>9, <2>1, <2>2
  <2>4. nuid'[e] = nuid[e]
    BY <1>1, <2>1 DEF TypeOK
  <2> QED BY <2>3, <2>4
<1>12. ASSUME NEW f \in ClientEntities, sendNeedNuid(f) PROVE LeftAlone(e)'
  <2>1. PICK d \in Clients : d = Owner(f) /\ f \in Entities /\ f = <<d, f[2]>>
    BY HandshakeAssumption DEF ClientEntities, Owner
  <2>2. PICK h \in Guids : h = guid[d]
    BY DEF TypeOK
  <2>3. /\ FALSE \in alreadySent(d, <<f, h>> \in asked)
        /\ asked' = asked \cup {<<f, h>>} /\ Transmit(d, NeedNuid(f, h), TRUE)
        /\ UNCHANGED <<nuid, toClient, collected>>
    BY <1>12, <2>1, <2>2 DEF sendNeedNuid
  <2>4. <<f, h>> \notin asked
    BY <2>3 DEF alreadySent
  <2>5. <<f, h>> # <<e, g>>
    BY <1>3, <2>4
  <2>6. d = c => NeedNuid(f, h) # NeedNuid(e, g)
    BY <1>1, <2>1, <2>5 DEF NeedNuid
  <2>7. Messages(toServer'[c]) \subseteq
          Messages(toServer[c]) \cup {x \in {NeedNuid(f, h)} : c = d /\ TRUE}
    BY <2>1, <2>3, EventFacts, TransmitFacts
  <2>8. StillAsked
    BY <2>6, <2>7 DEF StillAsked
  <2> QED BY <1>4, <1>6, <2>3, <2>8
<1>13. ASSUME NEW f \in Entities, Die(f) PROVE LeftAlone(e)'
  BY <1>4, <1>5, <1>6, <1>13 DEF Die
<1>14. ASSUME NEW f \in Entities, ServerSendEntityData(f) PROVE LeftAlone(e)'
  <2>1. UNCHANGED <<asked, nuid, toServer>> /\ SentTo(Peers, EntityData(nuid[f]))
    BY <1>14 DEF ServerSendEntityData, SentTo
  <2>2. ~ IsTo(EntityData(nuid[f]))
    BY DEF IsNewNuid, EntityData
  <2> QED BY <1>4, <1>5, <1>9, <2>1, <2>2
<1>15. ASSUME NEW f \in Entities \ ClientEntities, ServerScan(f) PROVE LeftAlone(e)'
  <2>1. Announce(f, clients) /\ clients \in Seq(Clients) /\ UNCHANGED <<asked, toServer>>
    BY <1>15 DEF ServerScan, TypeOK
  <2> QED BY <1>4, <1>5, <1>11, <2>1
<1>16. ASSUME NEW d \in Clients, ServerOnConnect(d) PROVE LeftAlone(e)'
  <2>1. /\ Reports(d, "connect") /\ Pop(d) /\ asked' = asked
        /\ Announce(Mina, clients') /\ clients' \in Seq(Clients)
        /\ Mina \in Entities \ ClientEntities
    BY <1>16, HandshakeAssumption DEF ServerOnConnect, ClientEntities, Owner, TypeOK
  <2> QED BY <1>4, <1>7, <1>11, <2>1
<1>17. ASSUME NEW d \in Clients, ServerOnDisconnect(d) PROVE LeftAlone(e)'
  BY <1>4, <1>6, <1>7, <1>17 DEF ServerOnDisconnect
<1>18. ASSUME NEW d \in Clients, ServerOnPlayerInfo(d) PROVE LeftAlone(e)'
  <2>1. /\ Reports(d, "playerInfo") /\ Pop(d) /\ UNCHANGED <<asked, nuid>>
        /\ UNCHANGED toClient \/ \E to, old, new : SentTo(to, NewGuid(old, new))
    BY <1>18 DEF ServerOnPlayerInfo
  <2>2. \A old, new : ~ IsTo(NewGuid(old, new))
    BY DEF IsNewNuid, NewGuid
  <2>3. StillUnanswered
    BY <1>6, <1>9, <2>1, <2>2
  <2> QED BY <1>4, <1>7, <2>1, <2>3
<1>19. ASSUME NEW d \in Clients, ServerOnLostNuid(d) PROVE LeftAlone(e)'
  <2>1. /\ Reports(d, "lostNuid") /\ Pop(d) /\ UNCHANGED <<asked, nuid>>
        /\ \/ toClient' = toClient
           \/ \E n, to : SentTo(to, NewNuid(ServerGuid, Unknown, n))
    <3>1. UNCHANGED <<asked, nuid>>
      BY <1>19 DEF ServerOnLostNuid
    <3> QED BY <1>19, <3>1, LostFacts
  <2>2. \A n : ~ IsTo(NewNuid(ServerGuid, Unknown, n))
    BY <1>1 DEF NewNuid
  <2>3. StillUnanswered
    BY <1>6, <1>9, <2>1, <2>2
  <2> QED BY <1>4, <1>7, <2>1, <2>3
<1>20. ASSUME NEW d \in Clients, ServerOnNeedNuid(d) PROVE LeftAlone(e)'
  <2>1. PICK f \in ClientEntities, h \in Guids, n \in Nuids, to \in SUBSET Clients :
          /\ Owner(f) = d /\ f = <<d, f[2]>> /\ h[1] = d
          /\ Head(toServer[d]) = NeedNuid(f, h)
          /\ SentTo(to, NewNuid(h, f[2], n))
    BY <1>20, NeedFacts
  <2>2. Reports(d, "needNuid") /\ Pop(d) /\ UNCHANGED <<asked, nuid>>
    BY <1>20 DEF ServerOnNeedNuid
  <2>3. NeedNuid(f, h) \in Messages(toServer[d])
    BY <2>1, <2>2, PopFacts
  <2>4. ~ (h = g /\ f[2] = e[2])
    BY <1>1, <1>2, <1>3, <2>1, <2>3 DEF NeedNuid
  <2>5. ~ IsTo(NewNuid(h, f[2], n))
    BY <2>4 DEF NewNuid
  <2>6. StillUnanswered
    BY <1>9, <2>1, <2>5
  <2> QED BY <1>4, <1>7, <2>2, <2>6
<1>21. ASSUME NEW d \in Clients, ClientOnNewNuid(d) PROVE LeftAlone(e)'
  <2>1. PICK m : m = Head(toClient[d])
    OBVIOUS
  <2>2. /\ Takes(d, "newNuid") /\ UNCHANGED <<asked, toServer>>
        /\ \/ IsMine(d, m) /\ nuid' = [nuid EXCEPT ![<<d, m.id>>] = m.nuid]
           \/ UNCHANGED nuid
    BY <1>21, <2>1 DEF ClientOnNewNuid
  <2>3. m \in Messages(toClient[d]) /\ m.event = "newNuid"
    BY <2>1, <2>2, TakesFacts
  <2>4. IsMine(d, m) => <<d, m.id>> # e
    <3>1. ASSUME IsMine(d, m), <<d, m.id>> = e PROVE FALSE
      <4>1. d = c /\ m.id = e[2] /\ m.owner = g
        BY <1>1, <1>2, <3>1 DEF IsMine
      <4> QED BY <1>3, <2>3, <4>1 DEF IsNewNuid
    <3> QED BY <3>1
  <2>5. nuid'[e] = nuid[e]
    BY <1>1, <2>2, <2>4 DEF TypeOK
  <2> QED BY <1>4, <1>5, <1>8, <2>2, <2>5
<1>22. ASSUME NEW d \in Clients, ClientOnNewGuid(d) PROVE LeftAlone(e)'
  BY <1>4, <1>5, <1>8, <1>22 DEF ClientOnNewGuid
<1>23. ASSUME NEW d \in Clients, ClientOnEntityData(d) PROVE LeftAlone(e)'
  <2>1. PICK n, isSent : isSent \in BOOLEAN /\ WasSentData(d, n, isSent)
    BY <1>23, DataFacts
  <2>2. /\ Takes(d, "entityData") /\ UNCHANGED <<asked, nuid>>
        /\ n = Head(toClient[d]).nuid /\ Transmit(d, LostNuid(n), isSent)
    BY <1>23, <2>1 DEF ClientOnEntityData, WasSentData
  <2>3. n \in Nuids
    BY <2>2, TakesFacts, EventFacts
  <2>4. LostNuid(n) \in ServerEvents /\ LostNuid(n) # NeedNuid(e, g)
    BY <2>3, EventFacts DEF LostNuid, NeedNuid
  <2>5. Messages(toServer'[c]) \subseteq Messages(toServer[c]) \cup {LostNuid(n)}
    BY <2>2, <2>4, TransmitFacts
  <2>6. StillAsked
    BY <1>10, <2>4, <2>5
  <2> QED BY <1>4, <1>8, <2>2, <2>6
<1>24. ASSUME NEW d \in Clients, NEW queue \in Seq(ServerEvents), Report(d, queue),
              Messages(queue) \subseteq Messages(toServer[d]) \cup {Connected}
       PROVE  StillAsked
  <2>1. Messages(toServer'[d]) \subseteq Messages(queue) \cup {PlayerInfo(guid[d])}
        /\ \A b \in Clients \ {d} : toServer'[b] = toServer[b]
    BY <1>24, ReportFacts
  <2>2. Connected # NeedNuid(e, g) /\ PlayerInfo(guid[d]) # NeedNuid(e, g)
    BY DEF Connected, PlayerInfo, NeedNuid
  <2> QED BY <1>24, <2>1, <2>2 DEF StillAsked
<1>25. ASSUME NEW d \in Clients, ClientOnConnect(d) \/ ClientOnSeed(d) PROVE LeftAlone(e)'
  <2>1. UNCHANGED <<asked, nuid, toClient>>
    BY <1>25 DEF ClientOnConnect, ClientOnSeed
  <2>2. PICK queue \in Seq(ServerEvents) :
          Report(d, queue) /\ Messages(queue) \subseteq Messages(toServer[d]) \cup {Connected}
    <3>1. <<Connected>> \in Seq(ServerEvents) /\ Messages(<<Connected>>) = {Connected}
      BY EventFacts DEF Messages
    <3>2. toServer[d] \in Seq(ServerEvents)
      BY DEF TypeOK
    <3> QED BY <1>25, <3>1, <3>2 DEF ClientOnConnect, ClientOnSeed
  <2> QED BY <1>4, <1>6, <1>24, <2>1, <2>2
<1>26. ASSUME NEW d \in Clients, Disconnect(d) PROVE LeftAlone(e)'
  <2>1. /\ UNCHANGED <<asked, nuid>>
        /\ toServer'[c] \in {toServer[c], << >>, <<Disconnected>>}
        /\ toClient'[c] = toClient[c] \/ toClient'[c] = << >>
    BY <1>26 DEF Disconnect, TypeOK
  <2>2. Messages(<< >>) = {} /\ Messages(<<Disconnected>>) = {Disconnected}
    BY DEF Messages
  <2>3. Disconnected # NeedNuid(e, g)
    BY DEF Disconnected, NeedNuid
  <2>4. StillAsked
    BY <2>1, <2>2, <2>3 DEF StillAsked
  <2>5. StillUnanswered
    BY <2>1, <2>2 DEF StillUnanswered
  <2> QED BY <1>4, <2>1, <2>4, <2>5
<1>27. ASSUME NEW d \in Clients, Connect(d) \/ \E n \in Nuids : UpdaterAdded(d, n)
       PROVE  LeftAlone(e)'
  <2>1. UNCHANGED <<asked, nuid, toServer, toClient>>
    BY <1>27 DEF Connect, UpdaterAdded
  <2> QED BY <1>4, <1>5, <1>6, <2>1
<1>28. ASSUME NEW process \in Clients \cup {Server}, Collect(process) PROVE LeftAlone(e)'
  BY <1>28 DEF Collect
<1>29. ASSUME NEW n \in Nuids, ServerScanCopy(n) PROVE LeftAlone(e)'
  <2>1. PICK m \in ClientEvents, to \in SUBSET Clients : SentTo(to, m) /\ m.id = CopyId[n]
    BY <1>29, CopyFacts
  <2>2. ~ IsTo(m)
    BY <2>1 DEF OwnIds
  <2>3. UNCHANGED <<asked, nuid, toServer>>
    BY <1>29 DEF ServerScanCopy
  <2> QED BY <1>4, <1>5, <1>9, <2>1, <2>2, <2>3
<1>30. CASE UNCHANGED vars
  BY <1>4, <1>5, <1>6, <1>30 DEF vars
<1> QED
  BY <1>12, <1>13, <1>14, <1>15, <1>16, <1>17, <1>18, <1>19, <1>20, <1>21, <1>22, <1>23,
     <1>25, <1>26, <1>27, <1>28, <1>29, <1>30 DEF Next, ServerUpdate, ClientUpdate, ClientEntities

(***************************************************************************)
(* A question of a client that found no ear is not asked again under the   *)
(* guid it was asked under while no collector frees a checksum: until its  *)
(* owner gets another guid the entity stays without nuid, although the     *)
(* scan comes to it in every frame ("Will be set after this", Client.lua:  *)
(* 213, 433), as long as the copies on the server have ids of their own.   *)
(***************************************************************************)
THEOREM LostQuestionsStayLost == OwnIds /\ Spec => NotAskedAgain
<1> SUFFICES ASSUME OwnIds PROVE Spec => NotAskedAgain
  OBVIOUS
<1>1. TypeOK /\ AllDrawn /\ GuidsAdvance /\ [Next]_vars =>
        [\A e \in ClientEntities :
           LeftAlone(e) /\ collected' = {} /\ guid'[Owner(e)] = guid[Owner(e)]
             => LeftAlone(e)']_vars
  BY LeftAloneStep
<1> QED BY <1>1, DrawnInvariant, PTL DEF Spec, NotAskedAgain
=============================================================================
