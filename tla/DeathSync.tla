----------------------------- MODULE DeathSync -----------------------------
(***************************************************************************)
(* How the death of an entity reaches its copies.  A script on each entity *)
(* (nuid_updater.lua) writes the global of its nuid when it is added, and  *)
(* makes the id in it negative and appends the nuid to the global          *)
(* deadNuids when it is removed.  In a tick each process sends this list,  *)
(* and takes from it what it sent; who is sent a list kills the entities   *)
(* its own globals name for these nuids, or asks for those without a       *)
(* global (lostNuid).  EntityUtils.lua, Server.lua, Client.lua.            *)
(*                                                                         *)
(* What NuidHandshake shows is taken for granted: a nuid belongs to one    *)
(* entity, which the server has first (its own, or the copy it loads when  *)
(* asked), and a client has after a newNuid (a copy, or its own entity     *)
(* with its nuid).  A client may load several copies of one nuid, with     *)
(* ids of their own; the global names one of them.  The duplicate          *)
(* detection is that of NuidHandshake; the checksum of lostNuid for a nuid *)
(* is that of the list with this nuid only, as it covers values and not    *)
(* the event.  Lists are counts: their order matters to checksums only.    *)
(*                                                                         *)
(* Left out: players, whose updaters never write a global (NuidGlobals),   *)
(* and world saves, from which dead nuids are read again (NuidGlobals).    *)
(***************************************************************************)
EXTENDS Integers, Sequences, FiniteSets

CONSTANTS
  Clients, Server, \* the processes
  Nuids,
  Own,             \* those of entities of the server
  MaxId,           \* bound: entities of one nuid in one process
  MaxConnects,     \* bound: connections opened
  MaxCollections,  \* bound: processes whose collector frees a checksum
  MaxQueue         \* bound: messages waiting when entityData is sent, or an
                   \* entity is announced by the scan

ASSUME DeathAssumption ==
  Server \notin Clients /\ Own \subseteq Nuids /\ IsFiniteSet(Nuids)
ASSUME DeathBoundAssumption ==
  /\ MaxId \in Nat \ {0} /\ MaxConnects \in Nat
  /\ MaxCollections \in Nat /\ MaxQueue \in Nat

Processes == Clients \cup {Server}
Ids == 1 .. MaxId
NoEntity == 0

VARIABLES
  entity,    \* process -> nuid -> id -> what became of this entity
  global,    \* process -> nuid -> the id it names, negative if dead
  deadNuids, \* process -> nuid -> how often it is in the global deadNuids
  clients,   \* self.clients of the server
  told,      \* the payloads in the server's cache
  sums,      \* client -> the checksums in its cache, as lists
  link,      \* client -> state of self.connection
  toServer, toClient, \* client -> messages enet still has to report
  connects,  \* connections opened so far
  collected  \* history: the processes whose collector freed a checksum

world == <<entity, global, deadNuids>>
session == <<clients, link, connects, collected>>
vars == <<world, session, told, sums, toServer, toClient>>

\* An entity is "added" until its updater runs, "alive" until it is "killed",
\* and "removed" when the updater was told.
Living == {"added", "alive"}
States == {"none", "killed", "removed"} \cup Living

Lists == [Nuids -> Nat]
Empty == [n \in Nuids |-> 0]
Only(n) == [m \in Nuids |-> IF m = n THEN 1 ELSE 0]
In(list) == {n \in Nuids : list[n] > 0}

\* Mutants of Minus: takes out what is not there; empties the list.
MinusBlind(list, taken) == [n \in Nuids |-> list[n] - taken[n]]
MinusAll(list, taken) == Empty

\* removeDeadNuid for each nuid of a list.
Minus(list, taken) ==
  [n \in Nuids |-> IF list[n] > taken[n] THEN list[n] - taken[n] ELSE 0]

Connected == [event |-> "connect"]
Disconnected == [event |-> "disconnect"]
LostNuid(n) == [event |-> "lostNuid", nuid |-> n]
EntityData(n) == [event |-> "entityData", nuid |-> n]
DeadNuids(list) == [event |-> "deadNuids", deadNuids |-> list]
\* By the owner's id, as an answer to needNuid; by the id the server has for it,
\* from its scan; "unknown", as an answer to lostNuid.
NewNuid(n, id) == [event |-> "newNuid", nuid |-> n, id |-> id]
NewNuidIds == {"owner's", "server's", "unknown"}

Peers == {clients[i] : i \in DOMAIN clients}
First == {clients[i] : i \in DOMAIN clients \cap {1}}
\* self.clients without this one.
Without(c) ==
  IF c \notin Peers THEN clients
  ELSE LET place == CHOOSE i \in DOMAIN clients : clients[i] = c
       IN  SubSeq(clients, 1, place - 1) \o SubSeq(clients, place + 1, Len(clients))
----------------------------------------------------------------------------
Init ==
  /\ entity = [p \in Processes |-> [n \in Nuids |-> [k \in Ids |-> "none"]]]
  /\ global = [p \in Processes |-> [n \in Nuids |-> NoEntity]]
  /\ deadNuids = [p \in Processes |-> Empty]
  /\ clients = << >>
  /\ told = {}
  /\ sums = [c \in Clients |-> {}]
  /\ link = [c \in Clients |-> "disconnected"]
  /\ toServer = [c \in Clients |-> << >>]
  /\ toClient = [c \in Clients |-> << >>]
  /\ connects = 0
  /\ collected = {}
----------------------------------------------------------------------------
\* NetworkUtils.alreadySent: what it may answer for a list that is, or is not,
\* in the cache.  Of several nuids the order may be another one.
alreadySent(process, list, cached) ==
  IF process \in collected \/ (cached /\ \A n \in Nuids : list # Only(n))
    THEN BOOLEAN ELSE {cached}

\* Server.sendToAll: sent to the first client if it is not in the cache, and
\* then in the cache for the others.
sendToAll(message, isCached) ==
  \E to \in IF Server \in collected THEN SUBSET Peers
            ELSE {IF cached THEN {} ELSE First : cached \in isCached} :
    /\ told' = IF to = {} THEN told ELSE told \cup {message}
    /\ toClient' = [c \in Clients |->
         IF c \in to THEN Append(toClient[c], message) ELSE toClient[c]]

sendNewNuid(n, id) == sendToAll(NewNuid(n, id), {NewNuid(n, id) \in told})

\* Client.send of this message, of which the checksum is that of a list.
send(c, message, list) ==
  \E isCached \in alreadySent(c, list, list \in sums[c]) :
    IF isCached THEN UNCHANGED <<sums, toServer>>
    ELSE /\ sums' = [sums EXCEPT ![c] = @ \cup {list}]
         /\ toServer' = IF link[c] = "connected"
                          THEN [toServer EXCEPT ![c] = Append(@, message)] ELSE toServer

\* sendLostNuid of several nuids, one after the other.
Arrangements(S) ==
  {q \in [1 .. Cardinality(S) -> S] : \A i, j \in DOMAIN q : q[i] = q[j] => i = j}
sendLostNuids(c, nuids) ==
  \E lost \in SUBSET nuids :
    /\ \A n \in nuids : \E isCached \in alreadySent(c, Only(n), Only(n) \in sums[c]) :
         n \in lost <=> ~ isCached
    /\ sums' = [sums EXCEPT ![c] = @ \cup {Only(n) : n \in lost}]
    /\ \E order \in Arrangements(lost) :
         toServer' = [toServer EXCEPT ![c] = @ \o [i \in DOMAIN order |-> LostNuid(order[i])]]
----------------------------------------------------------------------------
IsAlive(p, n, k) == k \in Ids /\ entity[p][n][k] \in Living
Abs(k) == IF k < 0 THEN - k ELSE k

\* Mutant of destroyByNuid: an id that the kill indicator does not mark is
\* taken for none.
destroyMarked(p, list) ==
  entity' = [entity EXCEPT ![p] = [n \in Nuids |-> [k \in Ids |->
    IF n \in In(list) /\ global[p][n] = - k /\ IsAlive(p, n, k)
      THEN "killed" ELSE @[n][k]]]]

\* destroyByNuid for each nuid of a list: kills what the global names.
destroyByNuid(p, list) ==
  entity' = [entity EXCEPT ![p] = [n \in Nuids |-> [k \in Ids |->
    IF n \in In(list) /\ Abs(global[p][n]) = k /\ IsAlive(p, n, k)
      THEN "killed" ELSE @[n][k]]]]
removeDeadNuids(p, list) == deadNuids' = [deadNuids EXCEPT ![p] = Minus(@, list)]
\* getNuidEntityPair asks for the nuids it finds no id for.
Unknown(c, nuids) == {n \in nuids : global[c][n] = NoEntity}
----------------------------------------------------------------------------
\* An entity of the server gets its nuid, and an updater with it.
Number(n) ==
  /\ n \in Own
  /\ entity[Server][n][1] = "none"
  /\ entity' = [entity EXCEPT ![Server][n][1] = "added"]
  /\ UNCHANGED <<global, deadNuids, session, told, sums, toServer, toClient>>

\* onNeedNuid: the server loads a copy of a client's entity and answers.
ServerOnNeedNuid(n) ==
  /\ n \notin Own
  /\ entity[Server][n][1] = "none"
  /\ clients # << >>
  /\ entity' = [entity EXCEPT ![Server][n][1] = "added"]
  /\ sendNewNuid(n, "owner's")
  /\ UNCHANGED <<global, deadNuids, session, sums, toServer>>

\* The scan announces a living entity, or a copy.
ServerScan(n) ==
  /\ IsAlive(Server, n, 1)
  /\ \A c \in Peers : Len(toClient[c]) < MaxQueue
  /\ sendNewNuid(n, "server's")
  /\ UNCHANGED <<world, session, sums, toServer>>

\* The scan sends data of an entity of the server, to everybody each time.
ServerSendEntityData(n) ==
  /\ n \in Own /\ IsAlive(Server, n, 1)
  /\ clients # << >>
  /\ \A c \in Peers : Len(toClient[c]) < MaxQueue
  /\ toClient' = [c \in Clients |->
       IF c \in Peers THEN Append(toClient[c], EntityData(n)) ELSE toClient[c]]
  /\ UNCHANGED <<world, session, told, sums, toServer>>
----------------------------------------------------------------------------
\* The engine kills an entity.
Die(p, n, k) ==
  /\ entity[p][n][k] = "alive"
  /\ entity' = [entity EXCEPT ![p][n][k] = "killed"]
  /\ UNCHANGED <<global, deadNuids, session, told, sums, toServer, toClient>>

\* nuid_updater.lua, executed on added.
UpdaterAdded(p, n, k) ==
  /\ entity[p][n][k] = "added"
  /\ entity' = [entity EXCEPT ![p][n][k] = "alive"]
  /\ global' = [global EXCEPT ![p][n] = k]
  /\ UNCHANGED <<deadNuids, session, told, sums, toServer, toClient>>

\* nuid_updater.lua, executed on removal ...
UpdaterRemoved(p, n, k) ==
  /\ entity[p][n][k] = "killed"
  /\ entity' = [entity EXCEPT ![p][n][k] = "removed"]
  /\ global' = [global EXCEPT ![p][n] = - k]
  /\ deadNuids' = [deadNuids EXCEPT ![p][n] = @ + 1]
  /\ UNCHANGED <<session, told, sums, toServer, toClient>>

\* ... or it was not executed before, and takes the removal for an addition,
\* which does nothing if the entity already counts as dead.
DieEarly(p, n, k) ==
  /\ entity[p][n][k] = "added"
  /\ entity' = [entity EXCEPT ![p][n][k] = "removed"]
  /\ global' \in {global, [global EXCEPT ![p][n] = k]}
  /\ UNCHANGED <<deadNuids, session, told, sums, toServer, toClient>>
----------------------------------------------------------------------------
\* syncDeadNuids of the server, in a tick.
ServerSyncDeadNuids ==
  /\ deadNuids[Server] # Empty
  /\ LET message == DeadNuids(deadNuids[Server])
     IN  sendToAll(message, alreadySent(Server, deadNuids[Server], message \in told))
  /\ removeDeadNuids(Server, deadNuids[Server])
  /\ UNCHANGED <<entity, global, session, sums, toServer>>

\* syncDeadNuids of a client, also while it is connecting; what it sent it
\* handles itself, too.  (Each nuid in its own list has a global.)
ClientSyncDeadNuids(c) ==
  /\ link[c] # "disconnected"
  /\ deadNuids[c] # Empty
  /\ send(c, DeadNuids(deadNuids[c]), deadNuids[c])
  /\ destroyByNuid(c, deadNuids[c])
  /\ removeDeadNuids(c, deadNuids[c])
  /\ UNCHANGED <<global, session, told, toClient>>

Reports(c, event) == toServer[c] # << >> /\ Head(toServer[c]).event = event
Pop(c) == toServer' = [toServer EXCEPT ![c] = Tail(@)]

ServerOnConnect(c) ==
  /\ Reports(c, "connect")
  /\ Pop(c)
  /\ clients' = Append(clients, c)
  /\ UNCHANGED <<world, link, connects, collected, told, sums, toClient>>

\* The cache is cleared, unless the handler raised an error before (Session).
ServerOnDisconnect(c) ==
  /\ Reports(c, "disconnect")
  /\ Pop(c)
  /\ clients' = Without(c)
  /\ told' \in {{}, told}
  /\ UNCHANGED <<world, link, connects, collected, sums, toClient>>

\* Mutant of ServerOnLostNuid: does not ask whether the entity is alive.
ServerAnswersLostNuid(c) ==
  /\ Reports(c, "lostNuid")
  /\ Pop(c)
  /\ LET n == Head(toServer[c]).nuid
     IN  IF global[Server][n] # NoEntity THEN sendNewNuid(n, "unknown")
         ELSE UNCHANGED <<told, toClient>>
  /\ UNCHANGED <<world, session, sums>>

\* onLostNuid: answered to all if the entity is alive.
ServerOnLostNuid(c) ==
  /\ Reports(c, "lostNuid")
  /\ Pop(c)
  /\ LET n == Head(toServer[c]).nuid
     IN  IF IsAlive(Server, n, global[Server][n]) THEN sendNewNuid(n, "unknown")
         ELSE UNCHANGED <<told, toClient>>
  /\ UNCHANGED <<world, session, sums>>

\* onDeadNuids of the server.  Nothing is forwarded: sendToAllBut raises an
\* error, as it looks for a message id in data[1], if there is anybody else.
ServerOnDeadNuids(c) ==
  /\ Reports(c, "deadNuids")
  /\ Pop(c)
  /\ LET list == Head(toServer[c]).deadNuids
     IN  destroyByNuid(Server, list) /\ removeDeadNuids(Server, list)
  /\ UNCHANGED <<global, session, told, sums, toClient>>
----------------------------------------------------------------------------
\* Client.update takes the next event.
Takes(c, event) ==
  /\ link[c] = "connected"
  /\ toClient[c] # << >>
  /\ Head(toClient[c]).event = event
  /\ toClient' = [toClient EXCEPT ![c] = Tail(@)]

\* onNewNuid: a copy is loaded, or an entity of this client is given its nuid
\* (NuidHandshake); or the engine does not load it, here beyond the bound.
ClientOnNewNuid(c) ==
  /\ Takes(c, "newNuid")
  /\ LET n == Head(toClient[c]).nuid
         free == {k \in Ids : entity[c][n][k] = "none"}
     IN  entity' = [entity EXCEPT ![c][n] =
           [k \in Ids |-> IF k \in free /\ \A j \in free : k <= j THEN "added" ELSE @[k]]]
  /\ UNCHANGED <<global, deadNuids, session, told, sums, toServer>>

ClientOnEntityData(c) ==
  /\ Takes(c, "entityData")
  /\ sendLostNuids(c, Unknown(c, {Head(toClient[c]).nuid}))
  /\ UNCHANGED <<world, session, told>>

ClientOnDeadNuids(c) ==
  /\ Takes(c, "deadNuids")
  /\ LET list == Head(toClient[c]).deadNuids
     IN  /\ sendLostNuids(c, Unknown(c, In(list)))
         /\ destroyByNuid(c, list)
         /\ removeDeadNuids(c, list)
  /\ UNCHANGED <<global, session, told>>
----------------------------------------------------------------------------
\* The player calls Client.connect (see NuidHandshake).
Connect(c) ==
  /\ connects < MaxConnects
  /\ link[c] = "disconnected"
  /\ c \notin Peers /\ toServer[c] = << >>
  /\ link' = [link EXCEPT ![c] = "connecting"]
  /\ connects' = connects + 1
  /\ UNCHANGED <<world, clients, collected, told, sums, toServer, toClient>>

ClientOnConnect(c) ==
  /\ link[c] = "connecting"
  /\ link' = [link EXCEPT ![c] = "connected"]
  /\ toServer' = [toServer EXCEPT ![c] = <<Connected>>]
  /\ UNCHANGED <<world, clients, connects, collected, told, sums, toClient>>

\* A player ends it, or the network does, with all that is under way.
Disconnect(c) ==
  /\ link[c] # "disconnected"
  /\ link' = [link EXCEPT ![c] = "disconnected"]
  /\ toServer' = [toServer EXCEPT ![c] = IF c \in Peers THEN <<Disconnected>> ELSE << >>]
  /\ toClient' = [toClient EXCEPT ![c] = << >>]
  /\ UNCHANGED <<world, clients, connects, collected, told, sums>>

\* A collector frees checksums of what was sent.
Collect(process) ==
  /\ process \notin collected
  /\ Cardinality(collected) < MaxCollections
  /\ collected' = collected \cup {process}
  /\ UNCHANGED <<world, clients, link, connects, told, sums, toServer, toClient>>

ServerUpdate(c) ==
  ServerOnConnect(c) \/ ServerOnDisconnect(c) \/ ServerOnLostNuid(c) \/ ServerOnDeadNuids(c)
ClientUpdate(c) ==
  ClientOnConnect(c) \/ ClientOnNewNuid(c) \/ ClientOnEntityData(c) \/ ClientOnDeadNuids(c)
Updater(p, n, k) == UpdaterAdded(p, n, k) \/ UpdaterRemoved(p, n, k) \/ DieEarly(p, n, k)

Next ==
  \/ \E n \in Nuids :
       Number(n) \/ ServerOnNeedNuid(n) \/ ServerScan(n) \/ ServerSendEntityData(n)
  \/ \E p \in Processes, n \in Nuids, k \in Ids : Die(p, n, k) \/ Updater(p, n, k)
  \/ ServerSyncDeadNuids
  \/ \E c \in Clients :
       \/ ServerUpdate(c) \/ ClientUpdate(c) \/ ClientSyncDeadNuids(c)
       \/ Connect(c) \/ Disconnect(c)
  \/ \E p \in Processes : Collect(p)

Spec == Init /\ [][Next]_vars

\* The engine calls both updates in every frame, and ticks recur.
FairSpec ==
  /\ Spec
  /\ WF_vars(ServerSyncDeadNuids)
  /\ \A c \in Clients :
       /\ WF_vars(ServerUpdate(c)) /\ WF_vars(ClientUpdate(c))
       /\ WF_vars(ClientSyncDeadNuids(c))
----------------------------------------------------------------------------
Announcements == {NewNuid(n, id) : n \in Nuids, id \in NewNuidIds}
ListMessages == [event : {"deadNuids"}, deadNuids : Lists]
ServerEvents == {Connected, Disconnected} \cup {LostNuid(n) : n \in Nuids} \cup ListMessages
ClientEvents == Announcements \cup {EntityData(n) : n \in Nuids} \cup ListMessages

\* The types of the variables.
TypeOK ==
  /\ entity \in [Processes -> [Nuids -> [Ids -> States]]]
  /\ global \in [Processes -> [Nuids -> - MaxId .. MaxId]]
  /\ deadNuids \in [Processes -> Lists]
  /\ clients \in Seq(Clients)
  /\ told \subseteq Announcements \cup ListMessages
  /\ sums \in [Clients -> SUBSET Lists]
  /\ link \in [Clients -> {"disconnected", "connecting", "connected"}]
  /\ toServer \in [Clients -> Seq(ServerEvents)]
  /\ toClient \in [Clients -> Seq(ClientEvents)]
  /\ connects \in 0 .. MaxConnects
  /\ collected \subseteq Processes

(***************************************************************************)
(* The server's last word on an entity is its death: whatever is asked,    *)
(* scanned, sent twice or reported by others, no client is told to load    *)
(* or to move an entity after it was told of its death.  Code:             *)
(* EntityUtils.syncDeadNuids, Server.onLostNuid, onDeadNuids, sendNewNuid. *)
(***************************************************************************)
Tells(message, n) == message.event \in {"newNuid", "entityData"} /\ message.nuid = n
TellsDeath(message, n) == message.event = "deadNuids" /\ message.deadNuids[n] > 0
DeathIsLast ==
  \A c \in Clients : \A i, j \in DOMAIN toClient[c] : \A n \in Nuids :
    TellsDeath(toClient[c][i], n) /\ Tells(toClient[c][j], n) => j < i

(***************************************************************************)
(* A death at the server kills the copy of the first client (the others    *)
(* are not told), if its global names it and no client reported a death    *)
(* itself, which takes the nuid from the server's list unannounced.  Code: *)
(* EntityUtils.syncDeadNuids, Client.onDeadNuids, destroyByNuid.           *)
(***************************************************************************)
Copied(p, n) == IsAlive(p, n, global[p][n])
Reported(n) == \E c \in Clients : \E k \in Ids : entity[c][n][k] = "removed"
DeathReachesFirst ==
  \A c \in Clients : \A n \in Nuids :
    (c \in First /\ deadNuids[Server][n] > 0 /\ Copied(c, n))
      ~> (~ Copied(c, n) \/ Reported(n) \/ link[c] # "connected" \/ collected # {})

(***************************************************************************)
(* A death at a client kills the entity of the server, if its global names *)
(* it and the client never sent a checksum with that nuid: not a list, and *)
(* not a lostNuid either, which has the checksum of the list.  Code:       *)
(* Client.sendDeadNuids, NetworkUtils.alreadySent, Server.onDeadNuids.     *)
(***************************************************************************)
DeathReachesServer ==
  \A c \in Clients : \A n \in Nuids :
    (/\ link[c] = "connected" /\ deadNuids[c][n] > 0 /\ Copied(Server, n)
     /\ \A list \in sums[c] : list[n] = 0)
      ~> (~ Copied(Server, n) \/ link[c] # "connected" \/ collected # {})
=============================================================================
