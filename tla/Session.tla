------------------------------ MODULE Session ------------------------------
(***************************************************************************)
(* How a NoitaMP server and its clients agree who is who: the handlers of  *)
(* connect, connect2, disconnect, playerInfo, newGuid and seed in          *)
(* Server.lua and Client.lua, the guids that GuidUtils draws, and what the *)
(* duplicate detection lets through.                                       *)
(*                                                                         *)
(* A message is an event with the guids it carries: the names, versions    *)
(* and seeds of a run do not change.  The acknowledgements, the message    *)
(* newNuid and the message disconnect2, on which a client does nothing but *)
(* acknowledge, are left out.  enet delivers the messages of a connection  *)
(* in order, and what is on its way when the connection breaks is lost.    *)
(* The playerInfo of the server, whose name and guid a client only stores, *)
(* is left out as well.                                                    *)
(*                                                                         *)
(* The cache behind the duplicate detection is the one of Messaging, where *)
(* all peers have one number, reduced to what a handler can notice: which  *)
(* payloads were sent since the last clear, and how often the collector    *)
(* freed a checksum.  The server draws a guid for each newGuid and         *)
(* connect2, so that only the seed can be sent again.                      *)
(***************************************************************************)
EXTENDS Integers, Sequences, FiniteSets

CONSTANTS
  Clients, Server, \* the processes
  Guids,          \* all guids
  ServerGuid,     \* the guid of the process that runs the server
  InitialGuids,   \* the guids the machines of the clients come with
  Drawn,          \* the guids that uuid() can draw
  NoGuid,         \* nil
  Nobody,         \* the owner of a connection not yet opened
  MaxConnections, \* bound: connections opened in one run of the server
  MaxCollections  \* bound: processes whose collector frees a checksum

Connections == 1 .. MaxConnections
NoConnection == 0

ASSUME GuidAssumption ==
  /\ ServerGuid \in Guids
  /\ InitialGuids \subseteq Guids
  /\ Drawn \subseteq Guids
  /\ NoGuid \notin Guids
\* uuid() draws no guid a machine has already.
ASSUME NewGuidAssumption == Drawn \cap InitialGuids = {}
ASSUME SessionBoundAssumption == MaxConnections \in Nat /\ MaxCollections \in Nat
ASSUME ProcessAssumption == Server \notin Clients /\ Nobody \notin Clients

VARIABLES
  \* the server
  clients,      \* self.clients, in the order of connection
  peerGuid,     \* connection -> the guid of its peer
  named,        \* the connections whose playerInfo was handled
  cachedGuids,  \* GuidUtils.cached_guid
  seedSent,     \* whether the event seed is in the cache
  \* the clients
  guid,         \* client -> self.guid, also the guid of its player
  otherClients, \* client -> the guids in self.otherClients
  reported,     \* client -> the guids of the playerInfo in its cache
  link,         \* client -> self.connection while Client.update runs
  \* the network
  owner,        \* connection -> its client
  open,         \* the connections that carry messages
  toServer, toClient, \* connection -> events enet still has to report
  collected     \* history: whose collectors freed a checksum: Server, clients

server == <<clients, peerGuid, named, cachedGuids, seedSent>>
client == <<guid, otherClients, reported, link>>
network == <<owner, open, toServer, toClient>>
vars == <<server, client, network, collected>>

Message(event, old, new) == [event |-> event, oldGuid |-> old, newGuid |-> new]
Connected == Message("connect", NoGuid, NoGuid)
Disconnected == Message("disconnect", NoGuid, NoGuid)
Seed == Message("seed", NoGuid, NoGuid)
PlayerInfo(g) == Message("playerInfo", g, NoGuid)
Connect2(g) == Message("connect2", g, NoGuid)
NewGuid(old, new) == Message("newGuid", old, new)

Peers == {clients[i] : i \in DOMAIN clients}
----------------------------------------------------------------------------
\* GuidUtils.getGuid({used}): both join the cached guids.
getGuid(new, used) ==
  /\ new \in Drawn \ (cachedGuids \cup {used})
  /\ cachedGuids' = cachedGuids \cup {used, new}

\* Mutant of Recipients: nothing is taken for sent.
RecipientsAll(process, isNew, targets) == {{targets[i] : i \in DOMAIN targets}}

\* Whom a loop of this process over these targets sends a payload: nobody if it
\* is in the cache; else the first, since what was sent to one counts as sent to
\* all.  Once the cache holds the address of a string that was collected, later
\* turns may not recognise the payload, and any turn may mistake it for another.
Recipients(process, isNew, targets) ==
  IF ~ isNew THEN {{}}
  ELSE IF process \in collected THEN SUBSET {targets[i] : i \in DOMAIN targets}
  ELSE {{targets[i] : i \in DOMAIN targets \cap {1}}}

\* The peers without one, who is among them once at most; Server.sendToAllBut
\* loops over them.
ButNobody(peers, i) == peers
But(peers, i) ==
  LET place == CHOOSE k \in DOMAIN peers : peers[k] = i
  IN  IF \A k \in DOMAIN peers : peers[k] # i THEN peers
      ELSE [k \in 1 .. Len(peers) - 1 |-> peers[IF k < place THEN k ELSE k + 1]]

\* Mutant of Without: the peer stays.
Kept(i) == clients

\* self.clients without a peer whose connection is down.
Without(i) == But(clients, i)

Deliver(i, yes, message) == IF yes /\ i \in open THEN <<message>> ELSE << >>

\* Connections go down: what was under way is lost, and both sides are told,
\* the server only of a peer it was told of before.
Down(gone) ==
  [j \in Connections |->
     IF j \notin gone THEN toServer[j]
     ELSE IF Connected \in {toServer[j][k] : k \in DOMAIN toServer[j]} THEN << >>
     ELSE <<Disconnected>>]

DownAtClient(gone) ==
  [j \in Connections |-> IF j \in gone THEN <<Disconnected>> ELSE toClient[j]]
----------------------------------------------------------------------------
Init ==
  /\ clients = << >>
  /\ peerGuid = [i \in Connections |-> NoGuid]
  /\ named = {}
  /\ cachedGuids = {}
  /\ seedSent = FALSE
  /\ guid \in [Clients -> InitialGuids]
  /\ otherClients = [c \in Clients |-> {}]
  /\ reported = [c \in Clients |-> {}]
  /\ link = [c \in Clients |-> NoConnection]
  /\ owner = [i \in Connections |-> Nobody]
  /\ open = {}
  /\ toServer = [i \in Connections |-> << >>]
  /\ toClient = [i \in Connections |-> << >>]
  /\ collected = {}
----------------------------------------------------------------------------
\* enet reports a new peer.  It was created with the guid of this process, and
\* so gets a new one; the peer is told and is sent the seed; the others are told
\* of the peer.
ServerOnConnect(i) ==
  /\ toServer[i] # << >>
  /\ Head(toServer[i]) = Connected
  /\ clients' = Append(clients, i)
  /\ \E new \in Guids :
       \E R1 \in Recipients(Server, TRUE, <<i>>),
          R2 \in Recipients(Server, ~ seedSent, <<i>>),
          R3 \in Recipients(Server, TRUE, But(clients', i)) :
         /\ getGuid(new, ServerGuid)
         /\ peerGuid' = [peerGuid EXCEPT ![i] = new]
         /\ seedSent' = (seedSent \/ i \in R2)
         /\ toClient' = [j \in Connections |->
              toClient[j] \o Deliver(j, j = i /\ i \in R1, NewGuid(ServerGuid, new))
                \o Deliver(j, j = i /\ i \in R2, Seed)
                \o Deliver(j, j \in R3, Connect2(new))]
  /\ toServer' = [toServer EXCEPT ![i] = Tail(@)]
  /\ UNCHANGED <<named, client, owner, open, collected>>

Named(i, g) ==
  /\ peerGuid' = [peerGuid EXCEPT ![i] = g]
  /\ named' = named \cup {i}
  /\ toServer' = [toServer EXCEPT ![i] = Tail(@)]

\* Mutant of IsTaken: compares with the guid of the server only.
IsServers(g) == g = ServerGuid

IsTaken(g) == g = ServerGuid \/ g \in cachedGuids

\* onPlayerInfo with a guid nobody used before.
ServerOnPlayerInfo(i) ==
  /\ toServer[i] # << >>
  /\ Head(toServer[i]).event = "playerInfo"
  /\ LET g == Head(toServer[i]).oldGuid
     IN  /\ ~ IsTaken(g)
         /\ Named(i, g)
         /\ cachedGuids' = cachedGuids \cup {g}
  /\ UNCHANGED <<clients, seedSent, client, owner, open, toClient, collected>>

\* onPlayerInfo with a guid that was used: everybody is to be sent a new one.
ServerOnPlayerInfoTaken(i) ==
  /\ toServer[i] # << >>
  /\ Head(toServer[i]).event = "playerInfo"
  /\ LET g == Head(toServer[i]).oldGuid
     IN  \E new \in Guids, R \in Recipients(Server, TRUE, clients) :
           /\ IsTaken(g)
           /\ getGuid(new, g)
           /\ Named(i, new)
           /\ toClient' = [j \in Connections |->
                toClient[j] \o Deliver(j, j \in R, NewGuid(g, new))]
  /\ UNCHANGED <<clients, seedSent, client, owner, open, collected>>

\* onDisconnect: the cache is cleared, unless disconnect2 raises an error
\* because playerInfo brought a nuid and there are others to tell (Messaging).
ServerOnDisconnect(i) ==
  /\ toServer[i] # << >>
  /\ Head(toServer[i]) = Disconnected
  /\ clients' = Without(i)
  /\ \/ seedSent' = FALSE
     \/ i \in named /\ But(clients', i) # << >> /\ UNCHANGED seedSent
  /\ peerGuid' = [peerGuid EXCEPT ![i] = NoGuid]
  /\ named' = named \ {i}
  /\ toServer' = [toServer EXCEPT ![i] = Tail(@)]
  /\ UNCHANGED <<cachedGuids, client, owner, open, toClient, collected>>
----------------------------------------------------------------------------
\* Client.send of playerInfo, over the connection of the moment: not if the
\* guid was reported before, whatever connection that was for.
Report(c) ==
  LET i == link[c]
  IN  \E R \in Recipients(c, guid[c] \notin reported[c], <<i>>) :
        /\ reported' = [reported EXCEPT ![c] = @ \cup {g \in {guid[c]} : i \in R}]
        /\ toServer' = [toServer EXCEPT ![i] = @ \o Deliver(i, i \in R, PlayerInfo(guid[c]))]

\* Client.update, which runs only while self.connection is up, takes an event
\* of any connection of this process.
Takes(c, i, event) ==
  /\ link[c] # NoConnection
  /\ owner[i] = c
  /\ toClient[i] # << >>
  /\ Head(toClient[i]).event = event
  /\ toClient' = [toClient EXCEPT ![i] = Tail(@)]

\* onConnect reports this client, then raises an error on needModList.
ClientOnConnect(c, i) ==
  /\ Takes(c, i, "connect")
  /\ Report(c)
  /\ UNCHANGED <<server, guid, otherClients, link, owner, open, collected>>

\* onSeed reports it again.
ClientOnSeed(c, i) ==
  /\ Takes(c, i, "seed")
  /\ Report(c)
  /\ UNCHANGED <<server, guid, otherClients, link, owner, open, collected>>

ClientOnConnect2(c, i) ==
  /\ Takes(c, i, "connect2")
  /\ otherClients' = [otherClients EXCEPT ![c] = @ \cup {Head(toClient[i]).oldGuid}]
  /\ UNCHANGED <<server, guid, reported, link, owner, open, toServer, collected>>

\* onNewGuid: whose guid it is the client decides by the old guid.
ClientOnNewGuid(c, i) ==
  LET m == Head(toClient[i])
  IN  /\ Takes(c, i, "newGuid")
      /\ IF m.oldGuid = guid[c]
           THEN /\ guid' = [guid EXCEPT ![c] = m.newGuid]
                /\ UNCHANGED otherClients
           ELSE /\ otherClients' = [otherClients EXCEPT ![c] =
                     {IF g = m.oldGuid THEN m.newGuid ELSE g : g \in @}]
                /\ UNCHANGED guid
      /\ UNCHANGED <<server, reported, link, owner, open, toServer, collected>>

\* onDisconnect resets the session, whichever connection is down; not if it
\* raises an error, which it does if a nuid updater once ran without nuid.
ClientOnDisconnect(c, i) ==
  /\ Takes(c, i, "disconnect")
  /\ \/ otherClients' = [otherClients EXCEPT ![c] = {}]
     \/ UNCHANGED otherClients
  /\ link' = [link EXCEPT ![c] = IF @ = i THEN NoConnection ELSE @]
  /\ UNCHANGED <<server, guid, reported, owner, open, toServer, collected>>
----------------------------------------------------------------------------
IsUp(c) ==
  /\ link[c] # NoConnection
  /\ Connected \notin {toClient[link[c]][k] : k \in DOMAIN toClient[link[c]]}

\* The player calls Client.connect, which first gives up a connection that is
\* up.  (Not while one is being established: a bound of the model.)
Connect(c) ==
  \E i \in Connections :
    /\ owner[i] = Nobody
    /\ \A j \in Connections : j < i => owner[j] # Nobody
    /\ link[c] = NoConnection \/ IsUp(c)
    /\ owner' = [owner EXCEPT ![i] = c]
    /\ open' = (open \ {link[c]}) \cup {i}
    /\ toServer' = [Down(open \cap {link[c]}) EXCEPT ![i] = <<Connected>>]
    /\ toClient' = [DownAtClient(open \cap {link[c]}) EXCEPT ![i] = <<Connected>>]
    /\ link' = [link EXCEPT ![c] = i]
    /\ UNCHANGED <<server, guid, otherClients, reported, collected>>

\* The player calls Client.disconnect.  From now on Client.update returns
\* early, so that the event of the disconnect waits for the next connect.
Disconnect(c) ==
  /\ IsUp(c)
  /\ open' = open \ {link[c]}
  /\ toServer' = Down(open \cap {link[c]})
  /\ toClient' = DownAtClient(open \cap {link[c]})
  /\ link' = [link EXCEPT ![c] = NoConnection]
  /\ UNCHANGED <<server, guid, otherClients, reported, owner, collected>>

\* The network fails and enet gives the connection up.
TimeOut(i) ==
  /\ i \in open
  /\ open' = open \ {i}
  /\ toServer' = Down({i})
  /\ toClient' = DownAtClient({i})
  /\ UNCHANGED <<server, client, owner, collected>>

\* The process of a client ends and is started again: its settings keep the
\* guid, and nothing else.
Restart(c) ==
  /\ link[c] # NoConnection \/ reported[c] # {}
  /\ open' = open \ {link[c]}
  /\ toServer' = Down(open \cap {link[c]})
  /\ toClient' = [j \in Connections |-> IF owner[j] = c THEN << >> ELSE toClient[j]]
  /\ otherClients' = [otherClients EXCEPT ![c] = {}]
  /\ reported' = [reported EXCEPT ![c] = {}]
  /\ link' = [link EXCEPT ![c] = NoConnection]
  /\ UNCHANGED <<server, guid, owner, collected>>

\* A collector frees checksums of what was sent: they are not recognised again.
CollectAtServer ==
  /\ Cardinality(collected) < MaxCollections
  /\ Peers # {}
  /\ seedSent' \in {seedSent, FALSE}
  /\ collected' = collected \cup {Server}
  /\ UNCHANGED <<clients, peerGuid, named, cachedGuids, client, network>>

CollectAtClient(c) ==
  /\ Cardinality(collected) < MaxCollections
  /\ \E g \in reported[c] : reported' = [reported EXCEPT ![c] = @ \ {g}]
  /\ collected' = collected \cup {c}
  /\ UNCHANGED <<server, guid, otherClients, link, network>>

Next ==
  \/ \E i \in Connections :
       \/ ServerOnConnect(i) \/ ServerOnPlayerInfo(i) \/ ServerOnPlayerInfoTaken(i)
       \/ ServerOnDisconnect(i) \/ TimeOut(i)
  \/ \E c \in Clients, i \in Connections :
       \/ ClientOnConnect(c, i) \/ ClientOnSeed(c, i)
       \/ ClientOnConnect2(c, i) \/ ClientOnNewGuid(c, i) \/ ClientOnDisconnect(c, i)
  \/ \E c \in Clients : Connect(c) \/ Disconnect(c) \/ Restart(c) \/ CollectAtClient(c)
  \/ CollectAtServer

Spec == Init /\ [][Next]_vars
----------------------------------------------------------------------------
Messages ==
  {Connected, Disconnected, Seed}
    \cup {PlayerInfo(g) : g \in Guids} \cup {Connect2(g) : g \in Guids}
    \cup {NewGuid(g, h) : g \in Guids, h \in Guids}

Types ==
  /\ clients \in Seq(Connections)
  /\ peerGuid \in [Connections -> Guids \cup {NoGuid}]
  /\ named \subseteq Connections
  /\ cachedGuids \subseteq Guids
  /\ seedSent \in BOOLEAN
  /\ guid \in [Clients -> Guids]
  /\ otherClients \in [Clients -> SUBSET Guids]
  /\ reported \in [Clients -> SUBSET Guids]
  /\ link \in [Clients -> Connections \cup {NoConnection}]
  /\ owner \in [Connections -> Clients \cup {Nobody}]
  /\ open \subseteq Connections
  /\ toServer \in [Connections -> Seq(Messages)]
  /\ toClient \in [Connections -> Seq(Messages)]
  /\ collected \subseteq Clients \cup {Server}

\* The types of the variables; every client in self.clients has a guid.
TypeOK == Types /\ \A i \in Peers : peerGuid[i] # NoGuid

(***************************************************************************)
(* "Make sure guids are unique" (Server.lua:321): no two peers of a server *)
(* have the same guid there, nor one the guid of the server, from the      *)
(* moment they are in self.clients, whatever guids they report, again      *)
(* after a reconnect or twice in one connection.                           *)
(***************************************************************************)
ServerGuidsUnique ==
  /\ \A i, j \in DOMAIN clients :
       peerGuid[clients[i]] = peerGuid[clients[j]] => i = j
  /\ \A i \in Peers : peerGuid[i] # ServerGuid

(***************************************************************************)
(* A client takes the guid of another one only if the collector freed a    *)
(* checksum: newGuid is sent to all clients, and each one whose guid is    *)
(* the old one adopts the new one (Client.lua:379), so that nothing but    *)
(* the duplicate detection, which lets it reach a single client, keeps two *)
(* machines with the same guid from both adopting it.                      *)
(***************************************************************************)
NoSharedByAdoption ==
  [][Server \notin collected' =>
       \A c, d \in Clients :
         c # d /\ guid'[c] # guid[c] => guid'[d] # guid'[c]]_vars

(***************************************************************************)
(* A client never lists itself among the others, although connect2 speaks  *)
(* of guids the server draws before the peer is told of them.  Code:       *)
(* Server.sendToAllBut, Client.onConnect2, Client.onNewGuid.               *)
(***************************************************************************)
OthersExcludeSelf == \A c \in Clients : guid[c] \notin otherClients[c]
=============================================================================
