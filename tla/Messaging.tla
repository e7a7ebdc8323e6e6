----------------------------- MODULE Messaging -----------------------------
(***************************************************************************)
(* How a NoitaMP server transmits: Server.send, sendToAll and sendToAllBut *)
(* with the duplicate detection of NetworkUtils.alreadySent, the cache of  *)
(* NetworkCache, and the peers that connect and disconnect.                *)
(*                                                                         *)
(* The event handlers run in one Lua thread, so a loop over the clients is *)
(* a `pending` job which nothing but the garbage collector interrupts.     *)
(* A payload is an event together with the values of its resend            *)
(* identifiers: two calls have the same checksum exactly if they have the  *)
(* same payload.  Each call draws a message id of its own, which is no     *)
(* part of the checksum.                                                   *)
(*                                                                         *)
(* The checksum is a Lua string.  Lua interns strings, so equal checksums  *)
(* have one address while one of them is alive; but the C array keeps only *)
(* the address, so the collector may free the string, and a later string   *)
(* may be given the address of a dead one or another address than before.  *)
(***************************************************************************)
EXTENDS NetworkCache, FiniteSets

CONSTANTS
  Clients,         \* the machines that connect
  Events,          \* the events of NetworkUtils.events ...
  CacheableEvents, \* ... and those with isCacheable
  Identifiers,     \* values of the resend identifiers
  Addresses,       \* where the checksum strings can live
  Free,            \* an address that holds no string
  ULONG_MAX,       \* the largest number strtoul answers with
  MaxMessageId,    \* bound: calls of getNextNetworkMessageId
  MaxCollections   \* bound: times one checksum is freed between two clears

Payloads == Events \X Identifiers
Cacheable == CacheableEvents \X Identifiers
Event(payload) == payload[1]

ASSUME EventAssumption == CacheableEvents \subseteq Events
ASSUME FreeAssumption == Free \notin Payloads \cup Clients
ASSUME EnoughAddresses == Cardinality(Addresses) >= Cardinality(Cacheable)
ASSUME BoundAssumption == MaxMessageId \in Nat /\ MaxCollections \in Nat

VARIABLES
  clients,        \* self.clients, in the order of connection
  messageId,      \* NetworkUtils.networkMessageIdCounter
  pending,        \* the running loop over clients, NoJob between handlers
  networkEntries, \* the C array
  heap,           \* address -> the checksum string that lives there
  wire,           \* client -> what enet still has to deliver to it
  acks,           \* client -> the acknowledgements on their way back
  received,       \* client -> the payloads its handlers have seen
  transmitted,    \* history: <<message id, payload>> sent since the last clear
  transmissions,  \* history: payload -> how often, since the last clear
  collections     \* history: payload -> checksums freed since the last clear

vars == <<clients, messageId, pending, networkEntries, heap, wire, acks,
          received, transmitted, transmissions, collections>>

Nobody == Free
NoJob == [to |-> << >>, payload |-> Free, id |-> 0, leaver |-> Nobody]
----------------------------------------------------------------------------
\* tonumber(guid, 16) saturates at ULONG_MAX for each of the 128 bit guids
\* the server gives to its peers: they all have the same number.
toNumber(client) == ULONG_MAX

\* Where the checksum of a payload may be when it is computed (again): the
\* address of the interned string if one is alive, else any free address.
ChecksumAddresses(payload) ==
  LET alive == {a \in Addresses : heap[a] = payload}
  IN  IF alive # {} THEN alive ELSE {a \in Addresses : heap[a] = Free}

\* Mutant of alreadySent: the checksums are not compared.
alreadyAcknowledged(client, id, payload, address) ==
  AcknowledgedInCache(networkEntries, toNumber(client), Event(payload), id)

\* NetworkUtils.alreadySent, with the checksum at this address
alreadySent(client, id, payload, address) ==
  \/ AcknowledgedInCache(networkEntries, toNumber(client), Event(payload), id)
  \/ ChecksumInCache(networkEntries, toNumber(client), address)

\* Mutants of Job: to all clients, whoever is meant; without an id of its own.
JobToAll(to, payload, leaver) ==
  /\ messageId < MaxMessageId
  /\ messageId' = messageId + 1
  /\ pending' = [to |-> clients, payload |-> payload, id |-> messageId + 1,
                 leaver |-> leaver]
JobWithOldId(to, payload, leaver) ==
  /\ messageId' = IF messageId = 0 THEN 1 ELSE messageId
  /\ pending' = [to |-> to, payload |-> payload, id |-> messageId', leaver |-> leaver]

\* What a handler that sends to a list of clients leaves to do.
Job(to, payload, leaver) ==
  /\ messageId < MaxMessageId
  /\ messageId' = messageId + 1
  /\ pending' = [to |-> to, payload |-> payload, id |-> messageId + 1,
                 leaver |-> leaver]

\* self.clients without this one, who is in it once.
But(client) ==
  LET place == CHOOSE i \in DOMAIN clients : clients[i] = client
  IN  [i \in 1 .. Len(clients) - 1 |-> clients[IF i < place THEN i ELSE i + 1]]
----------------------------------------------------------------------------
Init ==
  /\ clients = << >>
  /\ messageId = 0
  /\ pending = NoJob
  /\ networkEntries = << >>
  /\ heap = [a \in Addresses |-> Free]
  /\ wire = [c \in Clients |-> << >>]
  /\ acks = [c \in Clients |-> << >>]
  /\ received = [c \in Clients |-> {}]
  /\ transmitted = {}
  /\ transmissions = [p \in Payloads |-> 0]
  /\ collections = [p \in Payloads |-> 0]

Connected == {clients[i] : i \in DOMAIN clients}

\* enet reports a new peer, which becomes the last client.
Connect(c) ==
  /\ pending = NoJob
  /\ c \notin Connected
  /\ clients' = Append(clients, c)
  /\ received' = [received EXCEPT ![c] = {}]
  /\ UNCHANGED <<messageId, pending, networkEntries, heap, wire, acks,
                 transmitted, transmissions, collections>>

\* A handler calls Server.send for one peer.
Send(c, payload) ==
  /\ pending = NoJob
  /\ c \in Connected
  /\ Job(<<c>>, payload, Nobody)
  /\ UNCHANGED <<clients, networkEntries, heap, wire, acks, received,
                 transmitted, transmissions, collections>>

\* A handler calls Server.sendToAll; without clients it returns at once.
SendToAll(payload) ==
  /\ pending = NoJob
  /\ clients # << >>
  /\ Job(clients, payload, Nobody)
  /\ UNCHANGED <<clients, networkEntries, heap, wire, acks, received,
                 transmitted, transmissions, collections>>

\* A handler calls Server.sendToAllBut.
SendToAllBut(c, payload) ==
  /\ pending = NoJob
  /\ c \in Connected
  /\ But(c) # << >>
  /\ Job(But(c), payload, Nobody)
  /\ UNCHANGED <<clients, networkEntries, heap, wire, acks, received,
                 transmitted, transmissions, collections>>

\* The next turn of the loop, for an event that is not cacheable: sent, never
\* remembered.
SendUncacheable ==
  LET c == Head(pending.to)
  IN  /\ pending.to # << >>
      /\ pending.payload \notin Cacheable
      /\ wire' = [wire EXCEPT ![c] = Append(@, [id |-> pending.id, payload |-> pending.payload])]
      /\ pending' = [pending EXCEPT !.to = Tail(@)]
      /\ UNCHANGED <<clients, messageId, networkEntries, heap, acks, received,
                     transmitted, transmissions, collections>>

\* The next turn finds the event in the cache and skips this client.
Suppress ==
  LET c == Head(pending.to)
      payload == pending.payload
  IN  /\ pending.to # << >>
      /\ payload \in Cacheable
      /\ \E a \in ChecksumAddresses(payload) :
           /\ alreadySent(c, pending.id, payload, a)
           /\ heap' = [heap EXCEPT ![a] = payload]
      /\ pending' = [pending EXCEPT !.to = Tail(@)]
      /\ UNCHANGED <<clients, messageId, networkEntries, wire, acks, received,
                     transmitted, transmissions, collections>>

\* The next turn does not: the event is sent and remembered.  Server.send and
\* the Client.send it calls both look it up and both store it, with one
\* checksum and one key; no collection is modelled between the four.
Transmit ==
  LET c == Head(pending.to)
      payload == pending.payload
  IN  /\ pending.to # << >>
      /\ payload \in Cacheable
      /\ \E a \in ChecksumAddresses(payload) :
           /\ ~ alreadySent(c, pending.id, payload, a)
           /\ heap' = [heap EXCEPT ![a] = payload]
           /\ networkEntries' =
                NetworkWritten(networkEntries, toNumber(c), pending.id,
                               Event(payload), "sent", a)
      /\ wire' = [wire EXCEPT ![c] = Append(@, [id |-> pending.id, payload |-> payload])]
      /\ pending' = [pending EXCEPT !.to = Tail(@)]
      /\ transmitted' = transmitted \cup {<<pending.id, payload>>}
      /\ transmissions' = [transmissions EXCEPT ![payload] = @ + 1]
      /\ UNCHANGED <<clients, messageId, acks, received, collections>>

\* The loop is over; onDisconnect then clears the cache of the peer.
Finish ==
  /\ pending # NoJob
  /\ pending.to = << >>
  /\ pending' = NoJob
  /\ IF pending.leaver # Nobody
       THEN /\ networkEntries' = Cleared(networkEntries, toNumber(pending.leaver))
            /\ transmitted' = {}
            /\ transmissions' = [p \in Payloads |-> 0]
            /\ collections' = [p \in Payloads |-> 0]
       ELSE UNCHANGED <<networkEntries, transmitted, transmissions, collections>>
  /\ UNCHANGED <<clients, messageId, heap, wire, acks, received>>

\* enet reports that a peer is gone: it leaves self.clients, the others are
\* sent disconnect2 (some payload), and its cache is cleared.
Disconnect(c, payload) ==
  /\ pending = NoJob
  /\ c \in Connected
  /\ payload \in Cacheable
  /\ clients' = But(c)
  /\ Job(But(c), payload, c)
  /\ wire' = [wire EXCEPT ![c] = << >>]
  /\ acks' = [acks EXCEPT ![c] = << >>]
  /\ UNCHANGED <<networkEntries, heap, received, transmitted, transmissions,
                 collections>>

\* The same for a peer whose playerInfo came with a nuid, which onDisconnect
\* adds to disconnect2: zipTable raises "Missing data key" on this fourth value
\* at the first of the others, so that nobody is sent anything and the cache is
\* not cleared.
DisconnectAborted(c) ==
  /\ pending = NoJob
  /\ c \in Connected
  /\ But(c) # << >>
  /\ messageId < MaxMessageId
  /\ messageId' = messageId + 1
  /\ clients' = But(c)
  /\ wire' = [wire EXCEPT ![c] = << >>]
  /\ acks' = [acks EXCEPT ![c] = << >>]
  /\ UNCHANGED <<pending, networkEntries, heap, received, transmitted,
                 transmissions, collections>>

\* A client handles the next message and acknowledges it if it is cacheable.
Receive(c) ==
  /\ wire[c] # << >>
  /\ wire' = [wire EXCEPT ![c] = Tail(@)]
  /\ received' = [received EXCEPT ![c] = @ \cup {Head(wire[c]).payload}]
  /\ IF Head(wire[c]).payload \in Cacheable
       THEN acks' = [acks EXCEPT ![c] = Append(@, Head(wire[c]).id)]
       ELSE UNCHANGED acks
  /\ UNCHANGED <<clients, messageId, pending, networkEntries, heap,
                 transmitted, transmissions, collections>>

\* The server handles an acknowledgement.  It reads the cached entry and asks
\* for the checksum of what it read: a table with string keys only, of which
\* zipTable takes nothing, so that getSum raises "missing resendIdentifier"
\* before NetworkCache.set and removeOldest (Server.lua:181-189).
OnAcknowledgement(c) ==
  /\ pending = NoJob
  /\ acks[c] # << >>
  /\ acks' = [acks EXCEPT ![c] = Tail(@)]
  /\ UNCHANGED <<clients, messageId, pending, networkEntries, heap, wire,
                 received, transmitted, transmissions, collections>>

\* The Lua garbage collector frees a checksum string.
Collect(a) ==
  /\ heap[a] # Free
  /\ collections[heap[a]] < MaxCollections
  /\ collections' = [collections EXCEPT ![heap[a]] = @ + 1]
  /\ heap' = [heap EXCEPT ![a] = Free]
  /\ UNCHANGED <<clients, messageId, pending, networkEntries, wire, acks,
                 received, transmitted, transmissions>>

Next ==
  \/ \E c \in Clients : Connect(c) \/ Receive(c) \/ OnAcknowledgement(c)
  \/ \E c \in Clients : DisconnectAborted(c)
  \/ \E c \in Clients, p \in Payloads : Send(c, p) \/ SendToAllBut(c, p)
  \/ \E c \in Clients, p \in Cacheable : Disconnect(c, p)
  \/ \E p \in Payloads : SendToAll(p)
  \/ SendUncacheable \/ Suppress \/ Transmit \/ Finish
  \/ \E a \in Addresses : Collect(a)

Spec == Init /\ [][Next]_vars
----------------------------------------------------------------------------
Packet == [id : 1 .. MaxMessageId, payload : Payloads]

NetworkEntry ==
  [messageId : 1 .. MaxMessageId, peerNum : {toNumber(c) : c \in Clients},
   event : CacheableEvents, status : {"ack", "sent"}, dataChecksum : Addresses]

\* The types of the variables, and a running loop visits connected clients.
TypeOK ==
  /\ clients \in Seq(Clients)
  /\ messageId \in 0 .. MaxMessageId
  /\ pending \in [to : Seq(Connected), payload : Payloads \cup {Free},
                  id : 0 .. messageId, leaver : Clients \cup {Nobody}]
  /\ networkEntries \in Seq(NetworkEntry)
  /\ heap \in [Addresses -> Cacheable \cup {Free}]
  /\ wire \in [Clients -> Seq(Packet)]
  /\ acks \in [Clients -> Seq(1 .. MaxMessageId)]
  /\ received \in [Clients -> SUBSET Payloads]
  /\ transmitted \subseteq (1 .. MaxMessageId) \X Cacheable
  /\ transmissions \in [Payloads -> Nat]
  /\ collections \in [Payloads -> 0 .. MaxCollections]

(***************************************************************************)
(* The cache is a faithful log: it holds one entry for each message id and *)
(* event put on a wire since the last clear, and nothing else, although    *)
(* one id goes to several clients, whose turns a collection may separate   *)
(* and make the same key be written again (NetworkCacheUtils.set).         *)
(***************************************************************************)
CacheIsLog ==
  /\ {<<networkEntries[i].messageId, networkEntries[i].event>> :
        i \in DOMAIN networkEntries}
       = {<<t[1], Event(t[2])>> : t \in transmitted}
  /\ \A i, j \in DOMAIN networkEntries :
       /\ networkEntries[i].messageId = networkEntries[j].messageId
       /\ networkEntries[i].event = networkEntries[j].event
       => i = j

(***************************************************************************)
(* What the duplicate detection of NetworkUtils.alreadySent is worth: a    *)
(* cacheable payload goes out once between two clears, to one client, and  *)
(* once more at most for each time its checksum string was collected.      *)
(***************************************************************************)
TransmissionsBounded ==
  \A p \in Cacheable : transmissions[p] <= 1 + collections[p]

(***************************************************************************)
(* A client sees message ids in the order in which they were drawn, each   *)
(* once, whatever is skipped on its behalf.                                *)
(***************************************************************************)
IdsIncreaseOnWire ==
  \A c \in Clients : \A i, j \in DOMAIN wire[c] :
    i < j => wire[c][i].id < wire[c][j].id

SentTo(c) == received[c] \cup {wire[c][i].payload : i \in DOMAIN wire[c]}

(***************************************************************************)
(* What NetworkUtils.lua:185 says of alreadySent, "Checks if the event     *)
(* within its data was already sent": a client is skipped only if it was   *)
(* sent this payload since it connected.                                   *)
(***************************************************************************)
SkippedOnlyIfSent ==
  [][Suppress => pending.payload \in SentTo(Head(pending.to))]_vars
=============================================================================
