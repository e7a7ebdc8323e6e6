--------------------------- MODULE NuidHandshake ---------------------------
(***************************************************************************)
(* How the entities of all players get one nuid each: a client asks for it *)
(* (needNuid), the server draws it, loads a copy of the entity and answers *)
(* (newNuid), and a client that is sent data of a nuid it has no entity    *)
(* for asks again (entityData, lostNuid).  Server.lua, Client.lua and      *)
(* EntityUtils.spawnEntity.                                                *)
(*                                                                         *)
(* An entity is its owner and an id that only means something there: the   *)
(* ids of two processes may be equal.  On the wire its owner is a guid,    *)
(* the one its process has at the moment: a server that knows the guid a   *)
(* client reports (playerInfo) has it replaced (newGuid), which happens to *)
(* a client whose machine played here before.  Guids are drawn for one     *)
(* client each (in Session two machines may start with the same one).      *)
(*                                                                         *)
(* The duplicate detection is that of Messaging and Session: one cache for *)
(* all peers of the server, so that what is sent to all reaches the first  *)
(* of them; a cache of each client, which no disconnect clears; after a    *)
(* collector freed a checksum, a payload may be sent again, or be taken    *)
(* for another one.                                                        *)
(*                                                                         *)
(* External: enet, which delivers in order, gives a connection up at any   *)
(* time with all that is under way, and does not transmit what a client    *)
(* sends while it is connecting; the engine, which runs nuid_updater.lua   *)
(* on loaded copies some time later.  What becomes of copies after the     *)
(* death of their entity (deadNuids) is left to DeathSync: they are        *)
(* counted when they are loaded.                                           *)
(***************************************************************************)
EXTENDS Naturals, Sequences, FiniteSets

CONSTANTS
  Clients, Server, \* the processes
  Ids,             \* entity ids
  Unknown,         \* the localEntityId of an answer to lostNuid
  Entities,        \* pairs of an owner and an id
  Mina,            \* the player of the server, one of them
  CopyId,          \* nuid -> the id that EntityLoad gives its copy on the server
  Returning,       \* the clients whose machines may have played here before
  MaxGuids,        \* bound: guids drawn for a client
  MaxNuid,         \* bound: nuids drawn
  MaxConnects,     \* bound: connections opened
  MaxCollections,  \* bound: processes whose collector frees a checksum
  MaxQueue         \* bound: messages waiting when entityData, or a question
                   \* that was asked before, is sent

ASSUME HandshakeAssumption ==
  /\ Server \notin Clients
  /\ Unknown \notin Ids
  /\ Entities \subseteq (Clients \cup {Server}) \X Ids
  /\ Mina \in Entities /\ Mina[1] = Server
  /\ CopyId \in [1 .. MaxNuid -> Ids]
  /\ Returning \subseteq Clients
ASSUME HandshakeBoundAssumption ==
  /\ MaxNuid \in Nat \ {0} /\ MaxGuids \in Nat /\ MaxConnects \in Nat
  /\ MaxCollections \in Nat /\ MaxQueue \in Nat

Nuids == 1 .. MaxNuid
NoNuid == 0
Owner(e) == e[1]
ClientEntities == {e \in Entities : Owner(e) # Server}
\* The k-th guid of a process; that of the server stays.
Guids == (Clients \cup {Server}) \X (0 .. MaxGuids)
ServerGuid == <<Server, 0>>
Calls == Nuids \X (Ids \cup {Unknown}) \* of spawnEntity, for one owner

VARIABLES
  \* the server
  clients,  \* self.clients
  drawnFor, \* the entities that the nuids 1, 2, ... were drawn for
  ownerGuid, \* the owners' guids: of the question, and so of the copy
  cachedGuids, \* client -> how many of its guids are in GuidUtils.cached_guid
  told,     \* the newNuid payloads in its cache
  \* the entities
  dead,     \* those that died
  nuid,     \* entity -> its nuid component, NoNuid when empty
  loaded,   \* client -> nuid and id -> how many copies spawnEntity loaded there
  globals,  \* client -> the nuids with a global there
  \* the clients
  link,     \* client -> state of self.connection
  guid,     \* client -> its guid, in its settings and everywhere
  reported, \* client -> the guids of the playerInfo payloads in its cache
  asked,    \* entity and guid of the needNuid payloads in the client caches
  lost,     \* client -> the nuids of the lostNuid payloads in its cache
  \* the network
  toServer, toClient, \* client -> messages enet still has to report
  connects, \* connections opened so far
  collected \* history: the processes whose collector freed a checksum

drawn == <<drawnFor, ownerGuid>>
server == <<clients, drawn, cachedGuids, told>>
world == <<dead, nuid, loaded, globals>>
client == <<link, guid, reported, asked, lost>>
vars == <<server, world, client, toServer, toClient, connects, collected>>

Connected == [event |-> "connect"]
Disconnected == [event |-> "disconnect"]
PlayerInfo(g) == [event |-> "playerInfo", guid |-> g]
NewGuid(old, new) == [event |-> "newGuid", old |-> old, new |-> new]
NeedNuid(e, g) == [event |-> "needNuid", owner |-> g, id |-> e[2]]
LostNuid(n) == [event |-> "lostNuid", nuid |-> n]
\* Mutant of NewNuid: the counter as it is after the draw.
NewNuidCounted(owner, id, n) ==
  [event |-> "newNuid", owner |-> owner, id |-> id, nuid |-> n + 1]
NewNuid(owner, id, n) == [event |-> "newNuid", owner |-> owner, id |-> id, nuid |-> n]
EntityData(n) == [event |-> "entityData", nuid |-> n]

Peers == {clients[i] : i \in DOMAIN clients}

\* self.clients without this one.
Without(c) ==
  LET place == CHOOSE i \in DOMAIN clients : clients[i] = c
  IN  IF c \in Peers
        THEN SubSeq(clients, 1, place - 1) \o SubSeq(clients, place + 1, Len(clients))
        ELSE clients
Messages(queue) == {queue[i] : i \in DOMAIN queue}
----------------------------------------------------------------------------
\* The server has met the clients in "known" before: it knows their guids, and
\* its player has the first nuid, drawn when they connected.  What else they left
\* there, with a process that is gone, is not in the model.
Met(known) ==
  /\ cachedGuids = [c \in Clients |-> IF c \in known THEN 1 ELSE 0]
  /\ drawnFor = IF known = {} THEN << >> ELSE <<Mina>>
  /\ ownerGuid = IF known = {} THEN << >> ELSE <<ServerGuid>>
  /\ nuid = [e \in Entities |-> IF known # {} /\ e = Mina THEN 1 ELSE NoNuid]

Init ==
  /\ \E known \in SUBSET Returning : Met(known)
  /\ clients = << >>
  /\ told = {}
  /\ dead = {}
  /\ loaded = [c \in Clients |-> [call \in Calls |-> 0]]
  /\ globals = [c \in Clients |-> {}]
  /\ link = [c \in Clients |-> "disconnected"]
  /\ guid = [c \in Clients |-> <<c, 0>>]
  /\ reported = [c \in Clients |-> {}]
  /\ asked = {}
  /\ lost = [c \in Clients |-> {}]
  /\ toServer = [c \in Clients |-> << >>]
  /\ toClient = [c \in Clients |-> << >>]
  /\ connects = 0
  /\ collected = {}
----------------------------------------------------------------------------
\* Mutant of alreadySent: nothing is taken for sent.
neverSent(process, cached) == {FALSE}

\* NetworkUtils.alreadySent: what it may answer for a payload that is, or is
\* not, in the cache of this process.
alreadySent(process, cached) == IF process \in collected THEN BOOLEAN ELSE {cached}

\* Client.send of an event that is cacheable; isSent says whether it goes out.
Transmit(c, message, isSent) ==
  toServer' = IF isSent /\ link[c] = "connected"
                THEN [toServer EXCEPT ![c] = Append(@, message)] ELSE toServer

\* The scan of a client, which runs in every frame of Client.update, also while
\* it is connecting, finds a living entity of its own without nuid and asks for
\* one, under the guid of the moment: EntityUtils.lua:284-288, sendNeedNuid.
sendNeedNuid(e) ==
  LET c == Owner(e)
  IN  /\ link[c] # "disconnected"
      /\ e \notin dead
      /\ nuid[e] = NoNuid
      /\ FALSE \in alreadySent(c, <<e, guid[c]>> \in asked)
      /\ <<e, guid[c]>> \in asked => Len(toServer[c]) < MaxQueue
      /\ asked' = asked \cup {<<e, guid[c]>>}
      /\ Transmit(c, NeedNuid(e, guid[c]), TRUE)
      /\ UNCHANGED <<server, world, link, guid, reported, lost, toClient,
                     connects, collected>>

\* An entity of a client dies.
Die(e) ==
  /\ e \notin dead
  /\ dead' = dead \cup {e}
  /\ UNCHANGED <<server, nuid, loaded, globals, client, toServer, toClient,
                 connects, collected>>
----------------------------------------------------------------------------
\* Whom the server sends a payload that it sends to all: the first, if it is not
\* in the cache, and then it is in the cache for the others.
Recipients(peers, cached) ==
  IF Server \in collected THEN SUBSET {peers[i] : i \in DOMAIN peers}
  ELSE {{peers[i] : i \in {j \in DOMAIN peers : j = 1 /\ ~ cached}}}
SentTo(to, message) ==
  toClient' = [c \in Clients |->
    IF c \in to THEN Append(toClient[c], message) ELSE toClient[c]]

\* Mutant of sendNewNuid: the last client counts as the first.
sendNewNuidToLast(peers, message) ==
  /\ told' = told \cup {message}
  /\ SentTo({peers[i] : i \in {j \in DOMAIN peers : j = Len(peers)}}, message)

\* Server.sendNewNuid to these clients.
sendNewNuid(peers, message) ==
  \E to \in Recipients(peers, message \in told) :
    /\ told' = IF to = {} THEN told ELSE told \cup {message}
    /\ SentTo(to, message)

\* NuidUtils.getNextNuid (see NuidGlobals), for an entity of the owner g.
getNextNuid(n, e, g) ==
  /\ n = Len(drawnFor) + 1
  /\ n \in Nuids
  /\ drawnFor' = Append(drawnFor, e)
  /\ ownerGuid' = Append(ownerGuid, g)

Reports(c, event) == toServer[c] # << >> /\ Head(toServer[c]).event = event
Pop(c) == toServer' = [toServer EXCEPT ![c] = Tail(@)]

\* The server draws a nuid for an entity of its own if it has none, and tells
\* its clients: in its scan (EntityScan) or, for its player, in onConnect.
Announce(e, peers) ==
  /\ \E n \in Nuids :
       /\ \/ nuid[e] = n /\ UNCHANGED <<drawn, nuid>>
          \/ /\ nuid[e] = NoNuid
             /\ getNextNuid(n, e, ServerGuid)
             /\ nuid' = [nuid EXCEPT ![e] = n]
       /\ sendNewNuid(peers, NewNuid(ServerGuid, e[2], n))
  /\ UNCHANGED <<cachedGuids, dead, loaded, globals>>

ServerScan(e) ==
  /\ Announce(e, clients)
  /\ \A c \in Peers : Len(toClient[c]) <= MaxQueue
  /\ UNCHANGED <<clients, client, toServer, connects, collected>>

\* The scan takes the copies it has of the entities of clients for new entities
\* too, and announces them by their id on the server, under the name of their
\* owner (unless isRemoteMinae knows them for players already).
ServerScanCopy(n) ==
  /\ n \in DOMAIN drawnFor
  /\ drawnFor[n] \in ClientEntities
  /\ \A c \in Peers : Len(toClient[c]) <= MaxQueue
  /\ sendNewNuid(clients, NewNuid(ownerGuid[n], CopyId[n], n))
  /\ UNCHANGED <<clients, drawn, cachedGuids, world, client, toServer, connects,
                 collected>>

ServerOnConnect(c) ==
  /\ Reports(c, "connect")
  /\ Pop(c)
  /\ clients' = Append(clients, c)
  /\ Announce(Mina, clients')
  /\ UNCHANGED <<client, connects, collected>>

\* The cache of the peer, which is that of all peers, is cleared, unless the
\* handler raised an error before (Session).
ServerOnDisconnect(c) ==
  /\ Reports(c, "disconnect")
  /\ Pop(c)
  /\ clients' = Without(c)
  /\ told' \in {{}, told}
  /\ UNCHANGED <<drawn, cachedGuids, world, client, toClient, connects, collected>>

\* onPlayerInfo: a guid that is cached already gets replaced by a new one.
ServerOnPlayerInfo(c) ==
  /\ Reports(c, "playerInfo")
  /\ Pop(c)
  /\ cachedGuids[c] <= MaxGuids
  /\ cachedGuids' = [cachedGuids EXCEPT ![c] = @ + 1]
  /\ LET old == Head(toServer[c]).guid
     IN  \/ old[2] >= cachedGuids[c] /\ UNCHANGED toClient
         \/ /\ old[2] < cachedGuids[c]
            /\ \E to \in Recipients(clients, FALSE) :
                 SentTo(to, NewGuid(old, <<c, cachedGuids[c]>>))
  /\ UNCHANGED <<clients, drawn, told, world, client, connects, collected>>

\* onNeedNuid: each question is answered with a new nuid.
ServerOnNeedNuid(c) ==
  /\ Reports(c, "needNuid")
  /\ Pop(c)
  /\ LET m == Head(toServer[c])
     IN  \E n \in Nuids :
           /\ getNextNuid(n, <<c, m.id>>, m.owner)
           /\ sendNewNuid(clients, NewNuid(m.owner, m.id, n))
  /\ UNCHANGED <<clients, cachedGuids, world, client, connects, collected>>

\* onLostNuid: answered to all clients, not to the one that asked, and without
\* an id; or not at all if the entity has no global yet.
ServerOnLostNuid(c) ==
  /\ Reports(c, "lostNuid")
  /\ Pop(c)
  /\ LET n == Head(toServer[c]).nuid
     IN  \/ sendNewNuid(clients, NewNuid(ownerGuid[n], Unknown, n))
         \/ UNCHANGED <<told, toClient>>
  /\ UNCHANGED <<clients, drawn, cachedGuids, world, client, connects, collected>>

\* Server.sendEntityData of an entity of its own goes to everybody each time.
ServerSendEntityData(e) ==
  /\ nuid[e] # NoNuid
  /\ clients # << >>
  /\ \A c \in Peers : Len(toClient[c]) < MaxQueue
  /\ toClient' = [c \in Clients |->
       IF c \in Peers THEN Append(toClient[c], EntityData(nuid[e])) ELSE toClient[c]]
  /\ UNCHANGED <<server, world, client, toServer, connects, collected>>
----------------------------------------------------------------------------
\* Client.update takes the next event.
Takes(c, event) ==
  /\ link[c] = "connected"
  /\ toClient[c] # << >>
  /\ Head(toClient[c]).event = event
  /\ toClient' = [toClient EXCEPT ![c] = Tail(@)]

\* Mutants of IsMine: whoever owns it; by owner.guid, which is no field of the
\* array on the wire.
IsMineById(c, m) ==
  /\ <<c, m.id>> \in Entities \ dead
  /\ nuid[<<c, m.id>>] = NoNuid
IsMineByGuid(c, m) == FALSE

\* spawnEntity: this is a living entity of this process that has no nuid, and the
\* owner on the wire is the guid of the moment.
IsMine(c, m) ==
  /\ m.owner = guid[c]
  /\ <<c, m.id>> \in Entities \ dead
  /\ nuid[<<c, m.id>>] = NoNuid

\* onNewNuid: it gets the nuid; anything else is loaded as a copy.  (Or raises an
\* error, when an entity with this id has this nuid from another owner; it is
\* counted all the same.)
ClientOnNewNuid(c) ==
  /\ Takes(c, "newNuid")
  /\ LET m == Head(toClient[c])
     IN  IF IsMine(c, m)
           THEN /\ nuid' = [nuid EXCEPT ![<<c, m.id>>] = m.nuid]
                /\ UNCHANGED loaded
           ELSE /\ loaded' = [loaded EXCEPT ![c][<<m.nuid, m.id>>] = @ + 1]
                /\ UNCHANGED nuid
  /\ UNCHANGED <<server, dead, globals, client, toServer, connects, collected>>

\* onNewGuid: whose guid it is the client decides by the old one; the guids of
\* other clients, which nothing here reads, are left out.
ClientOnNewGuid(c) ==
  /\ Takes(c, "newGuid")
  /\ LET m == Head(toClient[c])
     IN  guid' = [guid EXCEPT ![c] = IF @ = m.old THEN m.new ELSE @]
  /\ UNCHANGED <<server, world, link, reported, asked, lost, toServer, connects,
                 collected>>

\* onEntityData: getNuidEntityPair asks for a nuid that has no global.
ClientOnEntityData(c) ==
  /\ Takes(c, "entityData")
  /\ LET n == Head(toClient[c]).nuid
     IN  \E isSent \in {~ x : x \in alreadySent(c, n \in lost[c])} :
           /\ Transmit(c, LostNuid(n), isSent /\ n \notin globals[c])
           /\ lost' = [lost EXCEPT ![c] = @ \cup {k \in {n} : isSent /\ n \notin globals[c]}]
  /\ UNCHANGED <<server, world, link, guid, reported, asked, connects, collected>>

\* nuid_updater.lua runs on a copy.
UpdaterAdded(c, n) ==
  /\ \E call \in Calls : call[1] = n /\ loaded[c][call] > 0
  /\ n \notin globals[c]
  /\ globals' = [globals EXCEPT ![c] = @ \cup {n}]
  /\ UNCHANGED <<server, dead, nuid, loaded, client, toServer, toClient,
                 connects, collected>>
----------------------------------------------------------------------------
\* The player calls Client.connect.  (Not before the server has noticed the
\* end of the last connection: Session has several of them.)
Connect(c) ==
  /\ connects < MaxConnects
  /\ link[c] = "disconnected"
  /\ c \notin Peers /\ toServer[c] = << >>
  /\ link' = [link EXCEPT ![c] = "connecting"]
  /\ connects' = connects + 1
  /\ UNCHANGED <<server, world, guid, reported, asked, lost, toServer, toClient,
                 collected>>

\* Client.send of playerInfo behind these messages.
Report(c, queue) ==
  \E cached \in alreadySent(c, guid[c] \in reported[c]) :
    /\ reported' = [reported EXCEPT ![c] = @ \cup {g \in {guid[c]} : ~ cached}]
    /\ toServer' = [toServer EXCEPT ![c] =
         IF cached THEN queue ELSE Append(queue, PlayerInfo(guid[c]))]

\* enet reports the connection, here first, then to the server.
ClientOnConnect(c) ==
  /\ link[c] = "connecting"
  /\ link' = [link EXCEPT ![c] = "connected"]
  /\ Report(c, <<Connected>>)
  /\ UNCHANGED <<server, world, guid, asked, lost, toClient, connects, collected>>

\* onSeed reports the guid that onConnect reported, which is taken for sent unless
\* a checksum was freed.  (The seed itself, which the server sends with each
\* connection, is in Session; here it may come at any time.)
ClientOnSeed(c) ==
  /\ link[c] = "connected"
  /\ c \in collected
  /\ Len(toServer[c]) < MaxQueue
  /\ Report(c, toServer[c])
  /\ UNCHANGED <<server, world, link, guid, asked, lost, toClient, connects, collected>>

\* A player ends it, or the network does.
Disconnect(c) ==
  /\ link[c] # "disconnected"
  /\ link' = [link EXCEPT ![c] = "disconnected"]
  /\ toServer' = [toServer EXCEPT ![c] = IF c \in Peers THEN <<Disconnected>> ELSE << >>]
  /\ toClient' = [toClient EXCEPT ![c] = << >>]
  /\ UNCHANGED <<server, world, guid, reported, asked, lost, connects, collected>>

\* A collector frees checksums of what was sent.
Collect(process) ==
  /\ process \notin collected
  /\ Cardinality(collected) < MaxCollections
  /\ collected' = collected \cup {process}
  /\ UNCHANGED <<server, world, client, toServer, toClient, connects>>

ServerUpdate(c) ==
  \/ ServerOnConnect(c) \/ ServerOnDisconnect(c) \/ ServerOnPlayerInfo(c)
  \/ ServerOnNeedNuid(c) \/ ServerOnLostNuid(c)
ClientUpdate(c) ==
  \/ ClientOnConnect(c) \/ ClientOnSeed(c) \/ ClientOnNewGuid(c)
  \/ ClientOnNewNuid(c) \/ ClientOnEntityData(c)

Next ==
  \/ \E e \in ClientEntities : sendNeedNuid(e) \/ Die(e)
  \/ \E e \in Entities \ ClientEntities : ServerScan(e) \/ ServerSendEntityData(e)
  \/ \E n \in Nuids : ServerScanCopy(n)
  \/ \E c \in Clients :
       \/ ServerUpdate(c) \/ ClientUpdate(c) \/ Connect(c) \/ Disconnect(c)
       \/ \E n \in Nuids : UpdaterAdded(c, n)
  \/ \E process \in Clients \cup {Server} : Collect(process)

Spec == Init /\ [][Next]_vars

\* The engine calls both updates, with the scan, in every frame.
FairSpec ==
  /\ Spec
  /\ \A c \in Clients : WF_vars(ServerUpdate(c)) /\ WF_vars(ClientUpdate(c))
  /\ \A e \in ClientEntities : WF_vars(sendNeedNuid(e))
----------------------------------------------------------------------------
Infos == [event : {"playerInfo"}, guid : Guids]
Asks == [event : {"needNuid"}, owner : Guids, id : Ids]
Renames == [event : {"newGuid"}, old : Guids, new : Guids]
Answers == [event : {"newNuid"}, owner : Guids, id : Ids \cup {Unknown}, nuid : Nuids]
ServerEvents ==
  {Connected, Disconnected} \cup Infos \cup Asks \cup {LostNuid(n) : n \in Nuids}
ClientEvents == Renames \cup Answers \cup {EntityData(n) : n \in Nuids}

\* The types of the variables.
TypeOK ==
  /\ clients \in Seq(Clients)
  /\ drawnFor \in Seq(Entities) /\ Len(drawnFor) <= MaxNuid
  /\ ownerGuid \in Seq(Guids)
  /\ cachedGuids \in [Clients -> 0 .. MaxGuids + 1]
  /\ told \subseteq Answers
  /\ dead \subseteq Entities
  /\ nuid \in [Entities -> Nuids \cup {NoNuid}]
  /\ loaded \in [Clients -> [Calls -> Nat]]
  /\ globals \in [Clients -> SUBSET Nuids]
  /\ link \in [Clients -> {"disconnected", "connecting", "connected"}]
  /\ guid \in [Clients -> Guids]
  /\ reported \in [Clients -> SUBSET Guids]
  /\ asked \subseteq Entities \X Guids
  /\ lost \in [Clients -> SUBSET Nuids]
  /\ toServer \in [Clients -> Seq(ServerEvents)]
  /\ toClient \in [Clients -> Seq(ClientEvents)]
  /\ connects \in 0 .. MaxConnects
  /\ collected \subseteq Clients \cup {Server}

(***************************************************************************)
(* A nuid belongs to one entity, which never carries another: not when the *)
(* answer comes late, twice, without id, to the wrong client or to an      *)
(* entity with the same id there, and whatever was drawn and collected in  *)
(* between; as long as the ids that copies get on the server are none of   *)
(* the entities of clients (OwnIds).  Code: Server.onNeedNuid, onLostNuid, *)
(* EntityUtils.processAndSyncEntityNetworking, spawnEntity.                *)
(***************************************************************************)
OwnIds == \A e \in ClientEntities : \A n \in Nuids : e[2] # CopyId[n]
Registry == INSTANCE NuidRegistry
IsRegistry == Registry!Spec

(***************************************************************************)
(* As long as no collector freed a checksum, one nuid is drawn for an      *)
(* entity under a guid of its owner, and so one copy loaded on the server, *)
(* although the client asks in every frame and over several connections,   *)
(* and the server answers each question it gets.  (Each newGuid may cost   *)
(* the entities without nuid another one: the guid is part of the payload  *)
(* that is not sent twice.)                                                *)
(* Code: Client.sendNeedNuid, NetworkUtils.alreadySent, Server.onNeedNuid, *)
(* Client.onNewGuid.                                                       *)
(***************************************************************************)
OneNuid ==
  collected = {} =>
    \A m, n \in DOMAIN drawnFor :
      drawnFor[m] = drawnFor[n] /\ ownerGuid[m] = ownerGuid[n] => m = n

(***************************************************************************)
(* The answer to a question ends in one place: its nuid with the entity,   *)
(* or as one copy, which its owner loads only if the entity died, or the   *)
(* owner got another guid, in the meantime.  (As long as no collector      *)
(* freed a checksum; nuids of entities of the server are sent again in     *)
(* every connection and to whoever lost one, and the scan announces copies *)
(* once more, by ids of their own.)                                        *)
(* Code: EntityUtils.spawnEntity, Server.onNeedNuid, sendNewNuid,          *)
(* Client.onNewGuid.                                                       *)
(***************************************************************************)
Answer(n) == <<n, drawnFor[n][2]>>
EndsOnce(n) ==
  \A c \in Clients :
    loaded[c][Answer(n)] > 0 =>
      /\ loaded[c][Answer(n)] = 1
      /\ \A d \in Clients \ {c} : loaded[d][Answer(n)] = 0
      /\ nuid[drawnFor[n]] # n
      /\ Owner(drawnFor[n]) = c => drawnFor[n] \in dead \/ ownerGuid[n] # guid[c]
AnsweredOnce ==
  OwnIds /\ collected = {} =>
    \A n \in DOMAIN drawnFor : drawnFor[n] \in ClientEntities => EndsOnce(n)

(***************************************************************************)
(* "if the owner sent by network is the local owner, don't spawn an        *)
(* additional entity, but update the nuid, when nuid is not set already"   *)
(* (EntityUtils.lua:475): no client loads a copy of an entity of its own   *)
(* that lives.                                                             *)
(***************************************************************************)
NoAdditionalEntity ==
  \A c \in Clients : \A call \in Calls :
    loaded[c][call] > 0 /\ Owner(drawnFor[call[1]]) = c => drawnFor[call[1]] \in dead

(***************************************************************************)
(* A question of the first client is answered: its entity gets a nuid,     *)
(* unless it dies or the connection goes down; if the answer comes under a *)
(* guid that was replaced, to a question that the scan asks again under    *)
(* the new one.  (Those of the others are answered to the first.)          *)
(* Code: Server.onNeedNuid, Client.onNewNuid, sendNeedNuid, onNewGuid.     *)
(***************************************************************************)
Questioned(e) ==
  /\ clients # << >>
  /\ clients[1] = Owner(e)
  /\ \E g \in Guids : NeedNuid(e, g) \in Messages(toServer[Owner(e)])
AnswerArrives ==
  \A e \in ClientEntities :
    Questioned(e)
      ~> \/ nuid[e] # NoNuid \/ e \in dead
         \/ link[Owner(e)] # "connected" \/ collected # {}

(***************************************************************************)
(* "Could be nil. Timing issue. Will be set after this." (Client.lua:213,  *)
(* 433): the nuid of an entity, such as the player, of a client that stays *)
(* connected is set, unless it dies.                                       *)
(***************************************************************************)
WillBeSet ==
  \A e \in ClientEntities :
    ~ <>[](link[Owner(e)] = "connected" /\ e \notin dead /\ nuid[e] = NoNuid)
=============================================================================
