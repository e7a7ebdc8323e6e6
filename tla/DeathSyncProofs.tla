-------------------------- MODULE DeathSyncProofs --------------------------
(***************************************************************************)
(* Proofs about DeathSync, for any number of clients, nuids, copies,       *)
(* connections and collections: its types, that the server's last word on  *)
(* an entity is its death, and that no death is made up.                   *)
(***************************************************************************)
EXTENDS DeathSync, SequenceTheorems, FiniteSetTheorems, TLAPS

LEMMA SequenceFacts ==
  ASSUME NEW S, NEW q \in Seq(S)
  PROVE  /\ \A x \in S : /\ Append(q, x) \in Seq(S)
                         /\ DOMAIN Append(q, x) = DOMAIN q \cup {Len(q) + 1}
                         /\ Append(q, x)[Len(q) + 1] = x
                         /\ \A i \in DOMAIN q : Append(q, x)[i] = q[i]
         /\ q # << >> =>
              /\ Head(q) \in S
              /\ Tail(q) \in Seq(S)
              /\ \A i \in DOMAIN Tail(q) : i + 1 \in DOMAIN q /\ Tail(q)[i] = q[i + 1]
         /\ Len(q) \in Nat /\ DOMAIN q = 1 .. Len(q)
OBVIOUS

\* What the messages say of a nuid.
LEMMA EventFacts ==
  /\ \A n \in Nuids, id \in NewNuidIds :
       /\ NewNuid(n, id) \in Announcements \cap ClientEvents
       /\ \A m : Tells(NewNuid(n, id), m) <=> m = n
       /\ \A m : ~ TellsDeath(NewNuid(n, id), m)
  /\ \A n \in Nuids :
       /\ EntityData(n) \in ClientEvents /\ LostNuid(n) \in ServerEvents
       /\ \A m : Tells(EntityData(n), m) <=> m = n
       /\ \A m : ~ TellsDeath(EntityData(n), m)
  /\ \A list \in Lists :
       /\ DeadNuids(list) \in ListMessages \cap ClientEvents \cap ServerEvents
       /\ \A m : ~ Tells(DeadNuids(list), m)
       /\ \A m : TellsDeath(DeadNuids(list), m) <=> list[m] > 0
  /\ Connected \in ServerEvents /\ Disconnected \in ServerEvents
<1>1. ASSUME NEW n \in Nuids, NEW id \in NewNuidIds
      PROVE  /\ NewNuid(n, id) \in Announcements \cap ClientEvents
             /\ \A m : Tells(NewNuid(n, id), m) <=> m = n
             /\ \A m : ~ TellsDeath(NewNuid(n, id), m)
  <2>1. NewNuid(n, id) \in Announcements \cap ClientEvents
    BY DEF Announcements, ClientEvents
  <2>2. NewNuid(n, id).event = "newNuid" /\ NewNuid(n, id).nuid = n
    BY DEF NewNuid
  <2> QED BY <2>1, <2>2 DEF Tells, TellsDeath
<1>2. ASSUME NEW n \in Nuids
      PROVE  /\ EntityData(n) \in ClientEvents /\ LostNuid(n) \in ServerEvents
             /\ \A m : Tells(EntityData(n), m) <=> m = n
             /\ \A m : ~ TellsDeath(EntityData(n), m)
  <2>1. EntityData(n) \in ClientEvents /\ LostNuid(n) \in ServerEvents
    BY DEF ClientEvents, ServerEvents
  <2>2. EntityData(n).event = "entityData" /\ EntityData(n).nuid = n
    BY DEF EntityData
  <2> QED BY <2>1, <2>2 DEF Tells, TellsDeath
<1>3. ASSUME NEW list \in Lists
      PROVE  /\ DeadNuids(list) \in ListMessages \cap ClientEvents \cap ServerEvents
             /\ \A m : ~ Tells(DeadNuids(list), m)
             /\ \A m : TellsDeath(DeadNuids(list), m) <=> list[m] > 0
  <2>1. DeadNuids(list) \in ListMessages
    BY DEF DeadNuids, ListMessages
  <2>2. DeadNuids(list).event = "deadNuids" /\ DeadNuids(list).deadNuids = list
    BY DEF DeadNuids
  <2> QED BY <2>1, <2>2 DEF Tells, TellsDeath, ClientEvents, ServerEvents
<1>4. Connected \in ServerEvents /\ Disconnected \in ServerEvents
  BY DEF ServerEvents
<1> QED BY <1>1, <1>2, <1>3, <1>4

LEMMA ListFacts ==
  /\ Empty \in Lists
  /\ \A n \in Nuids : Only(n) \in Lists
  /\ \A list, taken \in Lists :
       /\ Minus(list, taken) \in Lists
       /\ \A n \in Nuids : Minus(list, taken)[n] <= list[n]
<1>1. Empty \in Lists /\ \A n \in Nuids : Only(n) \in Lists
  BY DEF Empty, Only, Lists
<1>2. ASSUME NEW list \in Lists, NEW taken \in Lists
      PROVE  /\ Minus(list, taken) \in Lists
             /\ \A n \in Nuids : Minus(list, taken)[n] <= list[n]
  <2>1. \A n \in Nuids : list[n] \in Nat /\ taken[n] \in Nat
    BY DEF Lists
  <2>2. \A n \in Nuids :
          /\ Minus(list, taken)[n] = IF list[n] > taken[n] THEN list[n] - taken[n] ELSE 0
          /\ Minus(list, taken)[n] \in Nat
    BY <2>1 DEF Minus
  <2>3. Minus(list, taken) \in Lists
    BY <2>1 DEF Minus, Lists
  <2> QED BY <2>1, <2>2, <2>3
<1> QED BY <1>1, <1>2
----------------------------------------------------------------------------
Buried(n) == entity[Server][n][1] = "removed"

\* Entities of a nuid at the server have one id.
OneAtServer ==
  \A n \in Nuids : \A k \in Ids : k # 1 => entity[Server][n][k] = "none"
\* Only the dead are in the server's list, and in what it announced.
ListedAreBuried == \A n \in Nuids : deadNuids[Server][n] > 0 => Buried(n)
ToldAreBuried ==
  \A c \in Clients : \A i \in DOMAIN toClient[c] : \A n \in Nuids :
    TellsDeath(toClient[c][i], n) => Buried(n)
DeathInv == OneAtServer /\ ListedAreBuried /\ ToldAreBuried /\ DeathIsLast

\* What a step does to the entities, to the server's list and to the queues.
EntityType == [Processes -> [Nuids -> [Ids -> States]]]
EntitiesStep ==
  /\ entity' \in EntityType
  /\ OneAtServer'
  /\ \A n \in Nuids : Buried(n) => Buried(n)'
GlobalsStep ==
  /\ global' \in [Processes -> [Nuids -> - MaxId .. MaxId]]
  /\ deadNuids' \in [Processes -> Lists]
  /\ \A n \in Nuids : deadNuids'[Server][n] > 0 => deadNuids[Server][n] > 0 \/ Buried(n)'
Shrinks ==
  \A c \in Clients :
    \/ toClient'[c] \in {toClient[c], << >>}
    \/ toClient[c] # << >> /\ toClient'[c] = Tail(toClient[c])
SentTo(to, m) ==
  toClient' = [c \in Clients |-> IF c \in to THEN Append(toClient[c], m) ELSE toClient[c]]
Sayable(m) ==
  \A n \in Nuids : /\ Tells(m, n) => ~ Buried(n)
                   /\ TellsDeath(m, n) => deadNuids[Server][n] > 0
QueuesStep ==
  /\ toClient' \in [Clients -> Seq(ClientEvents)]
  /\ Shrinks \/ \E m \in ClientEvents : Sayable(m) /\ \E to : SentTo(to, m)
StepFacts == TypeOK' /\ EntitiesStep /\ GlobalsStep /\ QueuesStep

LEMMA EntityUnchanged ==
  ASSUME TypeOK, OneAtServer, UNCHANGED entity
  PROVE  EntitiesStep
BY DEF EntitiesStep, EntityType, TypeOK, OneAtServer, Buried

\* One entity changed.
LEMMA EntityChanged ==
  ASSUME TypeOK, OneAtServer, NEW p \in Processes, NEW n \in Nuids, NEW k \in Ids,
         NEW s \in States, p = Server => k = 1, entity[p][n][k] # "removed",
         entity' = [entity EXCEPT ![p][n][k] = s]
  PROVE  EntitiesStep
<1>1. entity \in EntityType /\ Server \in Processes
  BY DEF TypeOK, EntityType, Processes
<1>2. entity' \in EntityType
  BY <1>1 DEF EntityType
<1>3. \A q \in Processes, m \in Nuids, j \in Ids :
        entity'[q][m][j] = IF q = p /\ m = n /\ j = k THEN s ELSE entity[q][m][j]
  BY <1>1 DEF EntityType
<1>4. 1 \in Ids
  BY DeathBoundAssumption DEF Ids
<1> QED BY <1>1, <1>2, <1>3, <1>4 DEF EntitiesStep, OneAtServer, Buried

LEMMA DestroyFacts ==
  ASSUME TypeOK, OneAtServer, NEW p \in Processes, NEW list, destroyByNuid(p, list)
  PROVE  EntitiesStep
<1>1. entity \in EntityType /\ Server \in Processes /\ 1 \in Ids
  BY DeathBoundAssumption DEF TypeOK, EntityType, Processes, Ids
<1>2. \A q \in Processes, n \in Nuids, k \in Ids :
        /\ entity[q][n][k] \in States
        /\ \/ entity'[q][n][k] = entity[q][n][k]
           \/ entity[q][n][k] \in Living /\ entity'[q][n][k] = "killed"
  BY <1>1 DEF EntityType, destroyByNuid, IsAlive
<1>3. /\ entity' = [q \in Processes |-> entity'[q]]
      /\ \A q \in Processes : entity'[q] = [n \in Nuids |-> entity'[q][n]]
      /\ \A q \in Processes, n \in Nuids : entity'[q][n] = [k \in Ids |-> entity'[q][n][k]]
  BY <1>1 DEF EntityType, destroyByNuid
<1>4. \A q \in Processes, n \in Nuids, k \in Ids : entity'[q][n][k] \in States
  BY <1>2 DEF States, Living
<1>5. entity' \in EntityType
  BY <1>3, <1>4 DEF EntityType
<1>6. "none" \notin Living /\ "removed" \notin Living
  BY DEF Living
<1> QED BY <1>1, <1>2, <1>5, <1>6 DEF EntitiesStep, OneAtServer, Buried

LEMMA GlobalsUnchanged ==
  ASSUME TypeOK, UNCHANGED <<global, deadNuids>>
  PROVE  GlobalsStep
BY DEF GlobalsStep, TypeOK

LEMMA RemovedFromList ==
  ASSUME TypeOK, NEW p \in Processes, NEW list \in Lists, UNCHANGED global,
         removeDeadNuids(p, list)
  PROVE  GlobalsStep
<1>1. deadNuids \in [Processes -> Lists] /\ Server \in Processes
  BY DEF TypeOK, Processes
<1>2. deadNuids' = [deadNuids EXCEPT ![p] = Minus(deadNuids[p], list)]
  BY DEF removeDeadNuids
<1>3. Minus(deadNuids[p], list) \in Lists
      /\ \A n \in Nuids : Minus(deadNuids[p], list)[n] <= deadNuids[p][n]
  BY <1>1, ListFacts
<1>4. deadNuids' \in [Processes -> Lists]
  BY <1>1, <1>2, <1>3
<1>5. \A n \in Nuids : deadNuids[Server][n] \in Nat /\ deadNuids'[Server][n] \in Nat
  BY <1>1, <1>4 DEF Lists
<1>6. \A n \in Nuids : deadNuids'[Server][n] <= deadNuids[Server][n]
  BY <1>1, <1>2, <1>3, <1>5
<1>7. \A n \in Nuids : deadNuids'[Server][n] > 0 => deadNuids[Server][n] > 0
  BY <1>5, <1>6
<1> QED BY <1>4, <1>7 DEF GlobalsStep, TypeOK

LEMMA QueuesUnchanged ==
  ASSUME TypeOK, UNCHANGED toClient
  PROVE  QueuesStep
BY DEF QueuesStep, Shrinks, TypeOK

LEMMA SentFacts ==
  ASSUME TypeOK, NEW to, NEW m \in ClientEvents, SentTo(to, m), Sayable(m)
  PROVE  QueuesStep
<1>1. \A c \in Clients : toClient[c] \in Seq(ClientEvents)
  BY DEF TypeOK
<1>2. toClient' \in [Clients -> Seq(ClientEvents)]
  BY <1>1, SequenceFacts DEF SentTo
<1> QED BY <1>2 DEF QueuesStep

LEMMA SendToAllFacts ==
  ASSUME TypeOK, NEW m \in Announcements \cup ListMessages, NEW isCached, Sayable(m),
         sendToAll(m, isCached)
  PROVE  told' \subseteq Announcements \cup ListMessages /\ QueuesStep
<1>1. PICK to :
        /\ told' = IF to = {} THEN told ELSE told \cup {m}
        /\ SentTo(to, m)
  BY DEF sendToAll, SentTo
<1>2. m \in ClientEvents
  BY DEF ClientEvents
<1> QED BY <1>1, <1>2, SentFacts DEF TypeOK

LEMMA TakesFacts ==
  ASSUME TypeOK, NEW c \in Clients, NEW event, Takes(c, event)
  PROVE  /\ QueuesStep
         /\ Head(toClient[c]) \in ClientEvents
         /\ Head(toClient[c]).event = event
<1>1. \A d \in Clients : toClient[d] \in Seq(ClientEvents)
  BY DEF TypeOK
<1>2. /\ toClient[c] # << >> /\ Head(toClient[c]).event = event
      /\ toClient' = [toClient EXCEPT ![c] = Tail(toClient[c])]
  BY DEF Takes
<1>3. Tail(toClient[c]) \in Seq(ClientEvents) /\ Head(toClient[c]) \in ClientEvents
  BY <1>1, <1>2, SequenceFacts
<1>4. toClient' \in [Clients -> Seq(ClientEvents)]
  BY <1>1, <1>2, <1>3 DEF TypeOK
<1>5. Shrinks
  BY <1>2 DEF Shrinks, TypeOK
<1> QED BY <1>2, <1>3, <1>4, <1>5 DEF QueuesStep

LEMMA PopFacts ==
  ASSUME TypeOK, NEW c \in Clients, NEW event, Reports(c, event), Pop(c)
  PROVE  /\ toServer' \in [Clients -> Seq(ServerEvents)]
         /\ Head(toServer[c]) \in ServerEvents
         /\ Head(toServer[c]).event = event
<1>1. \A d \in Clients : toServer[d] \in Seq(ServerEvents)
  BY DEF TypeOK
<1>2. toServer[c] # << >> /\ Head(toServer[c]).event = event
  BY DEF Reports
<1>3. Tail(toServer[c]) \in Seq(ServerEvents) /\ Head(toServer[c]) \in ServerEvents
  BY <1>1, <1>2, SequenceFacts
<1> QED BY <1>1, <1>2, <1>3 DEF Pop, TypeOK

\* What the messages carry.
LEMMA NuidFacts ==
  /\ \A m \in ServerEvents :
       /\ m.event = "lostNuid" => m.nuid \in Nuids
       /\ m.event = "deadNuids" => m.deadNuids \in Lists
  /\ \A m \in ClientEvents :
       /\ m.event \in {"newNuid", "entityData"} => m.nuid \in Nuids
       /\ m.event = "deadNuids" => m.deadNuids \in Lists
<1>1. ASSUME NEW m \in ServerEvents
      PROVE  /\ m.event = "lostNuid" => m.nuid \in Nuids
             /\ m.event = "deadNuids" => m.deadNuids \in Lists
  BY DEF ServerEvents, ListMessages, Connected, Disconnected, LostNuid
<1>2. ASSUME NEW m \in ClientEvents
      PROVE  /\ m.event \in {"newNuid", "entityData"} => m.nuid \in Nuids
             /\ m.event = "deadNuids" => m.deadNuids \in Lists
  BY DEF ClientEvents, Announcements, ListMessages, NewNuid, EntityData
<1> QED BY <1>1, <1>2

LEMMA ClientSendFacts ==
  ASSUME TypeOK, NEW c \in Clients, NEW m \in ServerEvents, NEW list \in Lists,
         send(c, m, list)
  PROVE  /\ sums' \in [Clients -> SUBSET Lists]
         /\ toServer' \in [Clients -> Seq(ServerEvents)]
<1>1. \A d \in Clients : toServer[d] \in Seq(ServerEvents)
  BY DEF TypeOK
<1>2. Append(toServer[c], m) \in Seq(ServerEvents)
  BY <1>1, SequenceFacts
<1>3. \/ UNCHANGED <<sums, toServer>>
      \/ /\ sums' = [sums EXCEPT ![c] = sums[c] \cup {list}]
         /\ \/ toServer' = [toServer EXCEPT ![c] = Append(toServer[c], m)]
            \/ toServer' = toServer
  BY DEF send
<1>4. sums' \in [Clients -> SUBSET Lists]
  <2>1. sums \in [Clients -> SUBSET Lists]
    BY DEF TypeOK
  <2>2. sums' = sums \/ sums' = [sums EXCEPT ![c] = sums[c] \cup {list}]
    BY <1>3
  <2> QED BY <2>1, <2>2
<1>5. [toServer EXCEPT ![c] = Append(toServer[c], m)] \in [Clients -> Seq(ServerEvents)]
  BY <1>2 DEF TypeOK
<1>6. toServer \in [Clients -> Seq(ServerEvents)]
  BY DEF TypeOK
<1>7. toServer' \in [Clients -> Seq(ServerEvents)]
  BY <1>3, <1>5, <1>6
<1> QED BY <1>4, <1>7

LEMMA LostFacts ==
  ASSUME TypeOK, NEW c \in Clients, NEW nuids \in SUBSET Nuids, sendLostNuids(c, nuids)
  PROVE  /\ sums' \in [Clients -> SUBSET Lists]
         /\ toServer' \in [Clients -> Seq(ServerEvents)]
<1>1. PICK lost \in SUBSET nuids :
        /\ sums' = [sums EXCEPT ![c] = @ \cup {Only(n) : n \in lost}]
        /\ \E order \in Arrangements(lost) :
             toServer' = [toServer EXCEPT ![c] = @ \o [i \in DOMAIN order |-> LostNuid(order[i])]]
  BY DEF sendLostNuids
<1>2. PICK order \in Arrangements(lost) :
        toServer' = [toServer EXCEPT ![c] = @ \o [i \in DOMAIN order |-> LostNuid(order[i])]]
  BY <1>1
<1> DEFINE questions == [i \in DOMAIN order |-> LostNuid(order[i])]
<1>3. questions \in Seq(ServerEvents)
  <2>1. Cardinality(lost) \in Nat
    BY DeathAssumption, FS_Subset, FS_CardinalityType
  <2>2. DOMAIN order = 1 .. Cardinality(lost) /\ \A i \in DOMAIN order : order[i] \in Nuids
    BY DEF Arrangements
  <2>3. \A i \in DOMAIN order : LostNuid(order[i]) \in ServerEvents
    BY <2>2, EventFacts
  <2> QED BY <2>1, <2>2, <2>3
<1>4. toServer[c] \o questions \in Seq(ServerEvents)
  BY <1>3 DEF TypeOK
<1>5. toServer' \in [Clients -> Seq(ServerEvents)]
  <2> HIDE DEF questions
  <2>1. toServer' = [toServer EXCEPT ![c] = toServer[c] \o questions]
    BY <1>2 DEF questions
  <2> QED BY <2>1, <1>4 DEF TypeOK
<1>6. sums' \in [Clients -> SUBSET Lists]
  <2>1. {Only(n) : n \in lost} \subseteq Lists
    BY ListFacts
  <2> QED BY <2>1, <1>1 DEF TypeOK
<1> QED BY <1>5, <1>6

LEMMA WithoutFacts ==
  ASSUME TypeOK, NEW c
  PROVE  Without(c) \in Seq(Clients)
<1> DEFINE place == CHOOSE i \in DOMAIN clients : clients[i] = c
<1>1. CASE c \in Peers
  <2>1. place \in DOMAIN clients
    BY <1>1 DEF Peers
  <2>2. clients \in Seq(Clients) /\ place \in 1 .. Len(clients) /\ Len(clients) \in Nat
    BY <2>1 DEF TypeOK
  <2> HIDE DEF place
  <2>3. \A i \in 1 .. Len(clients) : clients[i] \in Clients
    BY <2>2
  <2>4. SubSeq(clients, 1, place - 1) \in Seq(Clients)
    <3>1. 1 \in Int /\ place - 1 \in Int /\ 1 .. (place - 1) \subseteq 1 .. Len(clients)
      BY <2>2
    <3> QED BY <3>1, <2>3, SubSeqProperties
  <2>5. SubSeq(clients, place + 1, Len(clients)) \in Seq(Clients)
    <3>1. /\ place + 1 \in Int /\ Len(clients) \in Int
          /\ (place + 1) .. Len(clients) \subseteq 1 .. Len(clients)
      BY <2>2
    <3> QED BY <3>1, <2>3, SubSeqProperties
  <2>6. SubSeq(clients, 1, place - 1) \o SubSeq(clients, place + 1, Len(clients)) \in Seq(Clients)
    BY <2>4, <2>5
  <2>7. Without(c) = SubSeq(clients, 1, place - 1) \o SubSeq(clients, place + 1, Len(clients))
    BY <1>1, Zenon DEF Without, place
  <2> QED BY <2>6, <2>7
<1>2. CASE c \notin Peers
  BY <1>2 DEF Without, TypeOK
<1> QED BY <1>1, <1>2
----------------------------------------------------------------------------
\* The steps of entities: nuids, copies and the scan at the server, the engine
\* and the updaters.
LEMMA WorldStep ==
  ASSUME TypeOK, DeathInv, NEW n \in Nuids,
         \/ Number(n) \/ ServerOnNeedNuid(n) \/ ServerScan(n) \/ ServerSendEntityData(n)
         \/ \E p \in Processes, k \in Ids : Die(p, n, k) \/ Updater(p, n, k)
  PROVE  StepFacts
<1> USE DEF DeathInv
<1>1. Server \in Processes /\ 1 \in Ids /\ Living \subseteq States
      /\ "removed" \notin Living /\ "none" \notin Living
      /\ {"none", "killed", "removed", "added", "alive"} \subseteq States
  BY DeathBoundAssumption DEF Processes, Ids, Living, States
<1>2. CASE Number(n)
  <2>1. EntitiesStep
    BY <1>1, <1>2, EntityChanged DEF Number
  <2>2. GlobalsStep /\ QueuesStep
    BY <1>2, GlobalsUnchanged, QueuesUnchanged DEF Number
  <2>3. TypeOK'
    BY <1>2, <2>1, <2>2 DEF Number, TypeOK, session, EntitiesStep, EntityType, GlobalsStep, QueuesStep
  <2> QED BY <2>1, <2>2, <2>3 DEF StepFacts
<1>3. CASE ServerOnNeedNuid(n)
  <2>1. EntitiesStep
    BY <1>1, <1>3, EntityChanged DEF ServerOnNeedNuid
  <2>2. GlobalsStep
    BY <1>3, GlobalsUnchanged DEF ServerOnNeedNuid
  <2>3. ~ Buried(n) /\ "owner's" \in NewNuidIds
    BY <1>3 DEF ServerOnNeedNuid, Buried, NewNuidIds
  <2>4. NewNuid(n, "owner's") \in Announcements /\ Sayable(NewNuid(n, "owner's"))
    BY <2>3, EventFacts DEF Sayable
  <2>5. told' \subseteq Announcements \cup ListMessages /\ QueuesStep
    BY <1>3, <2>4, SendToAllFacts DEF ServerOnNeedNuid, sendNewNuid
  <2>6. TypeOK'
    BY <1>3, <2>1, <2>2, <2>5
    DEF ServerOnNeedNuid, TypeOK, session, EntitiesStep, EntityType, GlobalsStep, QueuesStep
  <2> QED BY <2>1, <2>2, <2>5, <2>6 DEF StepFacts
<1>4. CASE ServerScan(n)
  <2>1. EntitiesStep /\ GlobalsStep
    BY <1>4, EntityUnchanged, GlobalsUnchanged DEF ServerScan, world
  <2>2. ~ Buried(n) /\ "server's" \in NewNuidIds
    BY <1>1, <1>4 DEF ServerScan, IsAlive, Buried, NewNuidIds
  <2>3. NewNuid(n, "server's") \in Announcements /\ Sayable(NewNuid(n, "server's"))
    BY <2>2, EventFacts DEF Sayable
  <2>4. told' \subseteq Announcements \cup ListMessages /\ QueuesStep
    BY <1>4, <2>3, SendToAllFacts DEF ServerScan, sendNewNuid
  <2>5. TypeOK'
    BY <1>4, <2>1, <2>4
    DEF ServerScan, TypeOK, world, session, EntitiesStep, EntityType, GlobalsStep, QueuesStep
  <2> QED BY <2>1, <2>4, <2>5 DEF StepFacts
<1>5. CASE ServerSendEntityData(n)
  <2>1. EntitiesStep /\ GlobalsStep
    BY <1>5, EntityUnchanged, GlobalsUnchanged DEF ServerSendEntityData, world
  <2>2. ~ Buried(n)
    BY <1>1, <1>5 DEF ServerSendEntityData, IsAlive, Buried
  <2>3. EntityData(n) \in ClientEvents /\ Sayable(EntityData(n))
    BY <2>2, EventFacts DEF Sayable
  <2>4. QueuesStep
    BY <1>5, <2>3, SentFacts DEF ServerSendEntityData, SentTo
  <2>5. TypeOK'
    BY <1>5, <2>1, <2>4
    DEF ServerSendEntityData, TypeOK, world, session, EntitiesStep, EntityType, GlobalsStep, QueuesStep
  <2> QED BY <2>1, <2>4, <2>5 DEF StepFacts
<1>6. ASSUME NEW p \in Processes, NEW k \in Ids, Die(p, n, k) \/ Updater(p, n, k)
      PROVE  StepFacts
  <2>1. entity[p][n][k] \in {"added", "alive", "killed"} /\ (p = Server => k = 1)
    BY <1>6 DEF Die, Updater, UpdaterAdded, UpdaterRemoved, DieEarly, OneAtServer
  <2>2. PICK s \in States : /\ entity' = [entity EXCEPT ![p][n][k] = s]
                            /\ UpdaterRemoved(p, n, k) => s = "removed"
    BY <1>1, <1>6 DEF Die, Updater, UpdaterAdded, UpdaterRemoved, DieEarly
  <2>3. EntitiesStep
    BY <2>1, <2>2, EntityChanged
  <2>4. QueuesStep
    BY <1>6, QueuesUnchanged DEF Die, Updater, UpdaterAdded, UpdaterRemoved, DieEarly
  <2>5. global' \in [Processes -> [Nuids -> - MaxId .. MaxId]]
    <3>1. k \in - MaxId .. MaxId /\ - k \in - MaxId .. MaxId
      BY DeathBoundAssumption DEF Ids
    <3>2. \/ global' = global
          \/ global' = [global EXCEPT ![p][n] = k]
          \/ global' = [global EXCEPT ![p][n] = - k]
      BY <1>6 DEF Die, Updater, UpdaterAdded, UpdaterRemoved, DieEarly
    <3> DEFINE named == - MaxId .. MaxId
    <3>3. global \in [Processes -> [Nuids -> named]]
      BY DEF TypeOK
    <3> HIDE DEF named
    <3>4. \A j \in named : [global EXCEPT ![p][n] = j] \in [Processes -> [Nuids -> named]]
      BY <3>3
    <3>5. k \in named /\ - k \in named
      BY <3>1 DEF named
    <3>6. global' \in [Processes -> [Nuids -> named]]
      BY <3>2, <3>3, <3>4, <3>5
    <3> QED BY <3>6 DEF named
  <2>6. CASE UpdaterRemoved(p, n, k)
    <3>1. deadNuids' = [deadNuids EXCEPT ![p][n] = deadNuids[p][n] + 1]
      BY <2>6 DEF UpdaterRemoved
    <3>2. deadNuids \in [Processes -> [Nuids -> Nat]]
      BY DEF TypeOK, Lists
    <3>3. deadNuids' \in [Processes -> [Nuids -> Nat]]
      BY <3>1, <3>2
    <3>4. \A m \in Nuids : deadNuids'[Server][m] > 0 =>
            deadNuids[Server][m] > 0 \/ (p = Server /\ m = n)
      BY <1>1, <3>1, <3>2
    <3>5. p = Server => Buried(n)'
      BY <2>1, <2>2, <2>6, <1>1 DEF Buried, TypeOK
    <3>6. GlobalsStep
      BY <2>5, <3>3, <3>4, <3>5 DEF GlobalsStep, Lists
    <3> QED
      BY <2>3, <2>4, <2>6, <3>6
      DEF StepFacts, UpdaterRemoved, TypeOK, session, EntitiesStep, EntityType, GlobalsStep, QueuesStep
  <2>7. CASE ~ UpdaterRemoved(p, n, k)
    <3>1. deadNuids' = deadNuids
      BY <1>6, <2>7 DEF Die, Updater, UpdaterAdded, DieEarly
    <3>2. GlobalsStep
      BY <2>5, <3>1 DEF GlobalsStep, TypeOK
    <3>3. UNCHANGED <<session, told, sums, toServer>>
      BY <1>6, <2>7 DEF Die, Updater, UpdaterAdded, DieEarly
    <3> QED
      BY <2>3, <2>4, <3>2, <3>3
      DEF StepFacts, TypeOK, session, EntitiesStep, EntityType, GlobalsStep, QueuesStep
  <2> QED BY <2>6, <2>7
<1> QED BY <1>2, <1>3, <1>4, <1>5, <1>6

\* The steps of the server's update and of its synchronisation.
LEMMA ServerStep ==
  ASSUME TypeOK, DeathInv,
         ServerSyncDeadNuids \/ \E c \in Clients : ServerUpdate(c)
  PROVE  StepFacts
<1> USE DEF DeathInv
<1> DEFINE list == deadNuids[Server]
<1>1. CASE ServerSyncDeadNuids
  <2>1. list \in Lists
    BY DEF TypeOK, Processes
  <2>2. DeadNuids(list) \in ListMessages /\ Sayable(DeadNuids(list))
    BY <2>1, EventFacts DEF Sayable
  <2>3. told' \subseteq Announcements \cup ListMessages /\ QueuesStep
    BY <1>1, <2>2, SendToAllFacts DEF ServerSyncDeadNuids
  <2>4. EntitiesStep
    BY <1>1, EntityUnchanged DEF ServerSyncDeadNuids
  <2>5. GlobalsStep
    <3>1. Server \in Processes /\ UNCHANGED global /\ removeDeadNuids(Server, list)
      BY <1>1 DEF ServerSyncDeadNuids, Processes
    <3> QED BY <2>1, <3>1, RemovedFromList
  <2>6. TypeOK'
    BY <1>1, <2>3, <2>4, <2>5
    DEF ServerSyncDeadNuids, TypeOK, session, EntitiesStep, EntityType, GlobalsStep, QueuesStep
  <2> QED BY <2>3, <2>4, <2>5, <2>6 DEF StepFacts
<1>2. ASSUME NEW c \in Clients, ServerUpdate(c)
      PROVE  StepFacts
  <2>1. CASE ServerOnConnect(c) \/ ServerOnDisconnect(c)
    <3>1. EntitiesStep /\ GlobalsStep /\ QueuesStep
      BY <2>1, EntityUnchanged, GlobalsUnchanged, QueuesUnchanged
      DEF ServerOnConnect, ServerOnDisconnect, world
    <3>2. toServer' \in [Clients -> Seq(ServerEvents)]
      BY <2>1, PopFacts DEF ServerOnConnect, ServerOnDisconnect
    <3>3. clients' \in Seq(Clients)
      <4>1. Append(clients, c) \in Seq(Clients)
        BY SequenceFacts DEF TypeOK
      <4> QED BY <2>1, <4>1, WithoutFacts DEF ServerOnConnect, ServerOnDisconnect
    <3>4. told' \subseteq Announcements \cup ListMessages
      BY <2>1 DEF ServerOnConnect, ServerOnDisconnect, TypeOK
    <3>5. UNCHANGED <<link, connects, collected, sums>>
      BY <2>1 DEF ServerOnConnect, ServerOnDisconnect
    <3> QED
      BY <3>1, <3>2, <3>3, <3>4, <3>5
      DEF StepFacts, TypeOK, EntitiesStep, EntityType, GlobalsStep, QueuesStep
  <2>2. CASE ServerOnLostNuid(c)
    <3> DEFINE n == Head(toServer[c]).nuid
    <3>1. toServer' \in [Clients -> Seq(ServerEvents)] /\ n \in Nuids
      BY <2>2, PopFacts, NuidFacts DEF ServerOnLostNuid
    <3>2. EntitiesStep /\ GlobalsStep
      BY <2>2, EntityUnchanged, GlobalsUnchanged DEF ServerOnLostNuid, world
    <3>3. told' \subseteq Announcements \cup ListMessages /\ QueuesStep
      <4>1. CASE IsAlive(Server, n, global[Server][n]) /\ sendNewNuid(n, "unknown")
        <5>1. entity[Server][n][1] \in Living /\ "unknown" \in NewNuidIds
          BY <3>1, <4>1 DEF IsAlive, OneAtServer, Living, NewNuidIds
        <5>2. ~ Buried(n)
          BY <5>1 DEF Buried, Living
        <5>3. NewNuid(n, "unknown") \in Announcements /\ Sayable(NewNuid(n, "unknown"))
          BY <3>1, <5>1, <5>2, EventFacts DEF Sayable
        <5> QED BY <4>1, <5>3, SendToAllFacts DEF sendNewNuid
      <4>2. CASE UNCHANGED <<told, toClient>>
        BY <4>2, QueuesUnchanged DEF TypeOK
      <4> QED BY <2>2, <4>1, <4>2 DEF ServerOnLostNuid
    <3> QED
      BY <2>2, <3>1, <3>2, <3>3
      DEF ServerOnLostNuid, StepFacts, TypeOK, session, EntitiesStep, EntityType, GlobalsStep, QueuesStep
  <2>3. CASE ServerOnDeadNuids(c)
    <3> DEFINE reported == Head(toServer[c]).deadNuids
    <3>1. toServer' \in [Clients -> Seq(ServerEvents)] /\ reported \in Lists
      BY <2>3, PopFacts, NuidFacts DEF ServerOnDeadNuids
    <3>2. Server \in Processes /\ destroyByNuid(Server, reported) /\ removeDeadNuids(Server, reported)
          /\ UNCHANGED <<global, session, told, sums, toClient>>
      BY <2>3 DEF ServerOnDeadNuids, Processes
    <3>3. EntitiesStep /\ GlobalsStep /\ QueuesStep
      BY <3>1, <3>2, DestroyFacts, RemovedFromList, QueuesUnchanged
    <3> QED
      BY <3>1, <3>2, <3>3
      DEF StepFacts, TypeOK, session, EntitiesStep, EntityType, GlobalsStep, QueuesStep
  <2> QED BY <1>2, <2>1, <2>2, <2>3 DEF ServerUpdate
<1> QED BY <1>1, <1>2

\* The steps of a client and of its connection.
LEMMA ClientStep ==
  ASSUME TypeOK, DeathInv, NEW c \in Clients,
         ClientUpdate(c) \/ ClientSyncDeadNuids(c) \/ Connect(c) \/ Disconnect(c)
  PROVE  StepFacts
<1> USE DEF DeathInv
<1>1. c \in Processes /\ c # Server
  BY DeathAssumption DEF Processes
<1>2. CASE ClientOnConnect(c) \/ Connect(c) \/ Disconnect(c)
  <2>1. EntitiesStep /\ GlobalsStep
    BY <1>2, EntityUnchanged, GlobalsUnchanged DEF ClientOnConnect, Connect, Disconnect, world
  <2>2. QueuesStep
    <3>1. << >> \in Seq(ClientEvents) /\ toClient \in [Clients -> Seq(ClientEvents)]
      BY DEF TypeOK
    <3>2. toClient' = toClient \/ toClient' = [toClient EXCEPT ![c] = << >>]
      BY <1>2 DEF ClientOnConnect, Connect, Disconnect
    <3> QED BY <3>1, <3>2 DEF QueuesStep, Shrinks
  <2>3. toServer' \in [Clients -> Seq(ServerEvents)]
    <3>1. << >> \in Seq(ServerEvents) /\ <<Connected>> \in Seq(ServerEvents)
          /\ <<Disconnected>> \in Seq(ServerEvents)
      BY EventFacts
    <3>2. toServer' = toServer \/ \E q \in {<< >>, <<Connected>>, <<Disconnected>>} :
            toServer' = [toServer EXCEPT ![c] = q]
      BY <1>2 DEF ClientOnConnect, Connect, Disconnect
    <3> QED BY <3>1, <3>2 DEF TypeOK
  <2>4. connects' \in 0 .. MaxConnects
        /\ link' \in [Clients -> {"disconnected", "connecting", "connected"}]
    <3>1. \/ connects' = connects
          \/ connects < MaxConnects /\ connects' = connects + 1
      BY <1>2 DEF ClientOnConnect, Connect, Disconnect
    <3>2. \E state \in {"disconnected", "connecting", "connected"} :
            link' = [link EXCEPT ![c] = state]
      BY <1>2 DEF ClientOnConnect, Connect, Disconnect
    <3>3. connects' \in 0 .. MaxConnects
      BY <3>1, DeathBoundAssumption DEF TypeOK
    <3> QED BY <3>2, <3>3 DEF TypeOK
  <2>5. UNCHANGED <<clients, collected, told, sums>>
    BY <1>2 DEF ClientOnConnect, Connect, Disconnect
  <2> QED
    BY <2>1, <2>2, <2>3, <2>4, <2>5
    DEF StepFacts, TypeOK, EntitiesStep, EntityType, GlobalsStep, QueuesStep
<1>3. CASE ClientSyncDeadNuids(c)
  <2>1. deadNuids[c] \in Lists
    BY <1>1 DEF TypeOK
  <2>2. EntitiesStep /\ GlobalsStep /\ QueuesStep
    BY <1>1, <1>3, <2>1, DestroyFacts, RemovedFromList, QueuesUnchanged DEF ClientSyncDeadNuids
  <2>3. /\ sums' \in [Clients -> SUBSET Lists]
        /\ toServer' \in [Clients -> Seq(ServerEvents)]
    BY <1>3, <2>1, EventFacts, ClientSendFacts DEF ClientSyncDeadNuids
  <2> QED
    BY <1>3, <2>2, <2>3
    DEF ClientSyncDeadNuids, StepFacts, TypeOK, session, EntitiesStep, EntityType, GlobalsStep, QueuesStep
<1>4. CASE ClientOnNewNuid(c)
  <2> DEFINE n == Head(toClient[c]).nuid
  <2> DEFINE free == {k \in Ids : entity[c][n][k] = "none"}
  <2>1. QueuesStep /\ n \in Nuids
    BY <1>4, TakesFacts, NuidFacts DEF ClientOnNewNuid
  <2>2. entity' = [entity EXCEPT ![c][n] =
          [k \in Ids |-> IF k \in free /\ \A j \in free : k <= j THEN "added" ELSE entity[c][n][k]]]
    BY <1>4 DEF ClientOnNewNuid
  <2>3. EntitiesStep
    <3>1. entity \in EntityType /\ "added" \in States /\ Server \in Processes
      BY DEF TypeOK, EntityType, States, Living, Processes
    <3>2. [k \in Ids |-> IF k \in free /\ \A j \in free : k <= j THEN "added" ELSE entity[c][n][k]]
            \in [Ids -> States]
      BY <1>1, <2>1, <3>1 DEF EntityType
    <3>3. entity' \in EntityType
      BY <1>1, <2>1, <2>2, <3>1, <3>2 DEF EntityType
    <3>4. entity'[Server] = entity[Server]
      BY <1>1, <2>2, <3>1 DEF EntityType
    <3> QED BY <3>3, <3>4 DEF EntitiesStep, OneAtServer, Buried
  <2>4. GlobalsStep
    BY <1>4, GlobalsUnchanged DEF ClientOnNewNuid
  <2> QED
    BY <1>4, <2>1, <2>3, <2>4
    DEF ClientOnNewNuid, StepFacts, TypeOK, session, EntitiesStep, EntityType, GlobalsStep, QueuesStep
<1>5. CASE ClientOnEntityData(c)
  <2>1. QueuesStep
    BY <1>5, TakesFacts DEF ClientOnEntityData
  <2>2. EntitiesStep /\ GlobalsStep
    BY <1>5, EntityUnchanged, GlobalsUnchanged DEF ClientOnEntityData, world
  <2>3. Unknown(c, {Head(toClient[c]).nuid}) \subseteq Nuids
    BY <1>5, TakesFacts, NuidFacts DEF ClientOnEntityData, Unknown
  <2>4. /\ sums' \in [Clients -> SUBSET Lists]
        /\ toServer' \in [Clients -> Seq(ServerEvents)]
    BY <1>5, <2>3, LostFacts DEF ClientOnEntityData
  <2> QED
    BY <1>5, <2>1, <2>2, <2>4
    DEF ClientOnEntityData, StepFacts, TypeOK, session, EntitiesStep, EntityType, GlobalsStep, QueuesStep
<1>6. CASE ClientOnDeadNuids(c)
  <2> DEFINE list == Head(toClient[c]).deadNuids
  <2>1. QueuesStep /\ list \in Lists
    BY <1>6, TakesFacts, NuidFacts DEF ClientOnDeadNuids
  <2>2. EntitiesStep /\ GlobalsStep
    BY <1>1, <1>6, <2>1, DestroyFacts, RemovedFromList DEF ClientOnDeadNuids
  <2>3. Unknown(c, In(list)) \subseteq Nuids
    BY DEF Unknown, In
  <2>4. /\ sums' \in [Clients -> SUBSET Lists]
        /\ toServer' \in [Clients -> Seq(ServerEvents)]
    BY <1>6, <2>3, LostFacts DEF ClientOnDeadNuids
  <2> QED
    BY <1>6, <2>1, <2>2, <2>4
    DEF ClientOnDeadNuids, StepFacts, TypeOK, session, EntitiesStep, EntityType, GlobalsStep, QueuesStep
<1> QED BY <1>2, <1>3, <1>4, <1>5, <1>6 DEF ClientUpdate

LEMMA NextStep ==
  ASSUME TypeOK, DeathInv, [Next]_vars
  PROVE  StepFacts
<1>1. CASE \E n \in Nuids :
        \/ Number(n) \/ ServerOnNeedNuid(n) \/ ServerScan(n) \/ ServerSendEntityData(n)
        \/ \E p \in Processes, k \in Ids : Die(p, n, k) \/ Updater(p, n, k)
  BY <1>1, WorldStep
<1>2. CASE ServerSyncDeadNuids \/ \E c \in Clients : ServerUpdate(c)
  BY <1>2, ServerStep
<1>3. CASE \E c \in Clients :
        ClientUpdate(c) \/ ClientSyncDeadNuids(c) \/ Connect(c) \/ Disconnect(c)
  BY <1>3, ClientStep
<1>4. CASE \E p \in Processes : Collect(p)
  <2>1. EntitiesStep /\ GlobalsStep /\ QueuesStep
    BY <1>4, EntityUnchanged, GlobalsUnchanged, QueuesUnchanged DEF Collect, world, DeathInv
  <2> QED BY <1>4, <2>1 DEF Collect, world, StepFacts, TypeOK
<1>5. CASE UNCHANGED vars
  <2>1. EntitiesStep /\ GlobalsStep /\ QueuesStep
    BY <1>5, EntityUnchanged, GlobalsUnchanged, QueuesUnchanged DEF vars, world, DeathInv
  <2> QED BY <1>5, <2>1 DEF vars, world, session, StepFacts, TypeOK
<1> QED BY <1>1, <1>2, <1>3, <1>4, <1>5 DEF Next
----------------------------------------------------------------------------
LEMMA InitHolds ==
  ASSUME Init
  PROVE  TypeOK /\ DeathInv
<1>1. entity \in EntityType /\ deadNuids \in [Processes -> Lists]
  BY ListFacts DEF Init, EntityType, States
<1>2. global \in [Processes -> [Nuids -> - MaxId .. MaxId]]
  <2>1. NoEntity \in - MaxId .. MaxId
    BY DeathBoundAssumption DEF NoEntity
  <2> QED BY <2>1 DEF Init
<1>3. /\ toServer \in [Clients -> Seq(ServerEvents)]
      /\ toClient \in [Clients -> Seq(ClientEvents)]
      /\ clients \in Seq(Clients)
      /\ \A c \in Clients : DOMAIN toClient[c] = {}
  BY DEF Init
<1>4. connects \in 0 .. MaxConnects
  BY DeathBoundAssumption DEF Init
<1>5. TypeOK
  BY <1>1, <1>2, <1>3, <1>4 DEF Init, TypeOK, EntityType
<1>6. ToldAreBuried /\ DeathIsLast
  BY <1>3 DEF ToldAreBuried, DeathIsLast
<1>7. OneAtServer /\ ListedAreBuried
  <2>1. Server \in Processes
    BY DEF Processes
  <2> QED BY <2>1 DEF Init, Empty, OneAtServer, ListedAreBuried
<1> QED BY <1>5, <1>6, <1>7 DEF DeathInv

\* What was said before, in a queue that grew or shrank.
LEMMA DeathInvStep ==
  ASSUME TypeOK, DeathInv, StepFacts
  PROVE  DeathInv'
<1>1. OneAtServer' /\ ListedAreBuried'
  BY DEF StepFacts, EntitiesStep, GlobalsStep, DeathInv, ListedAreBuried
<1>2. \A n \in Nuids : Buried(n) => Buried(n)'
  BY DEF StepFacts, EntitiesStep
<1>3. \A c \in Clients : toClient[c] \in Seq(ClientEvents)
  BY DEF TypeOK
<1>4. CASE Shrinks
  <2>1. \A c \in Clients :
          \/ \A i \in DOMAIN toClient'[c] : i \in DOMAIN toClient[c] /\ toClient'[c][i] = toClient[c][i]
          \/ \A i \in DOMAIN toClient'[c] :
               i + 1 \in DOMAIN toClient[c] /\ toClient'[c][i] = toClient[c][i + 1]
    <3> SUFFICES ASSUME NEW c \in Clients
                 PROVE  \/ \A i \in DOMAIN toClient'[c] :
                             i \in DOMAIN toClient[c] /\ toClient'[c][i] = toClient[c][i]
                        \/ \A i \in DOMAIN toClient'[c] :
                             i + 1 \in DOMAIN toClient[c] /\ toClient'[c][i] = toClient[c][i + 1]
      OBVIOUS
    <3>1. CASE toClient'[c] = toClient[c]
      BY <3>1
    <3>2. CASE toClient'[c] = << >>
      <4>1. DOMAIN toClient'[c] = {}
        BY <3>2
      <4> QED BY <4>1
    <3>3. CASE toClient[c] # << >> /\ toClient'[c] = Tail(toClient[c])
      BY <1>3, <3>3, SequenceFacts
    <3> QED BY <1>4, <3>1, <3>2, <3>3 DEF Shrinks
  <2>2. \A c \in Clients : DOMAIN toClient'[c] \subseteq Int
    BY SequenceFacts DEF StepFacts, QueuesStep
  <2>3. ToldAreBuried'
    BY <1>2, <2>1 DEF DeathInv, ToldAreBuried
  <2>4. DeathIsLast'
    BY <2>1, <2>2 DEF DeathInv, DeathIsLast
  <2> QED BY <1>1, <2>3, <2>4 DEF DeathInv
<1>5. ASSUME NEW m \in ClientEvents, Sayable(m), NEW to, SentTo(to, m)
      PROVE  DeathInv'
  <2>1. \A c \in Clients :
          \A i \in DOMAIN toClient'[c] :
             \/ i \in DOMAIN toClient[c] /\ toClient'[c][i] = toClient[c][i]
             \/ i = Len(toClient[c]) + 1 /\ toClient'[c][i] = m
    BY <1>3, <1>5, SequenceFacts DEF SentTo
  <2>2. \A n \in Nuids : TellsDeath(m, n) => Buried(n)
    BY <1>5 DEF Sayable, DeathInv, ListedAreBuried
  <2>3. \A n \in Nuids : Tells(m, n) => ~ Buried(n)
    BY <1>5 DEF Sayable
  <2>4. \A c \in Clients : Len(toClient[c]) \in Nat /\ DOMAIN toClient[c] = 1 .. Len(toClient[c])
    BY <1>3, SequenceFacts
  <2>5. ToldAreBuried'
    BY <1>2, <2>1, <2>2 DEF DeathInv, ToldAreBuried
  <2>6. DeathIsLast'
    <3> SUFFICES ASSUME NEW c \in Clients, NEW i \in DOMAIN toClient'[c], NEW j \in DOMAIN toClient'[c],
                        NEW n \in Nuids,
                        TellsDeath(toClient'[c][i], n), Tells(toClient'[c][j], n)
                 PROVE  j < i
      BY DEF DeathIsLast
    <3>1. CASE i \in DOMAIN toClient[c] /\ toClient'[c][i] = toClient[c][i]
      <4>1. Buried(n)
        BY <3>1 DEF DeathInv, ToldAreBuried
      <4>2. toClient'[c][j] # m
        BY <4>1, <2>3
      <4>3. j \in DOMAIN toClient[c] /\ toClient'[c][j] = toClient[c][j]
        BY <2>1, <4>2
      <4> QED BY <3>1, <4>3 DEF DeathInv, DeathIsLast
    <3>2. CASE i = Len(toClient[c]) + 1 /\ toClient'[c][i] = m
      <4>1. ~ Tells(m, n)
        BY <3>2, <2>2, <2>3
      <4>2. j \in DOMAIN toClient[c]
        BY <4>1, <2>1
      <4> QED BY <3>2, <4>2, <2>4
    <3> QED BY <3>1, <3>2, <2>1
  <2> QED BY <1>1, <2>5, <2>6 DEF DeathInv
<1> QED BY <1>4, <1>5 DEF StepFacts, QueuesStep

\* Every state of a behaviour satisfies both.
LEMMA Invariance == Spec => [](TypeOK /\ DeathInv)
<1>1. Init => TypeOK /\ DeathInv
  BY InitHolds
<1>2. TypeOK /\ DeathInv /\ [Next]_vars => (TypeOK /\ DeathInv)'
  <2> SUFFICES ASSUME TypeOK, DeathInv, [Next]_vars
               PROVE  (TypeOK /\ DeathInv)'
    OBVIOUS
  <2>1. StepFacts
    BY NextStep
  <2> QED BY <2>1, DeathInvStep DEF StepFacts
<1> QED BY <1>1, <1>2, PTL DEF Spec

(***************************************************************************)
(* The types of the variables, for any number of clients, nuids, copies,   *)
(* connections and collections.                                            *)
(***************************************************************************)
THEOREM TypeCorrect == Spec => []TypeOK
BY Invariance, PTL

(***************************************************************************)
(* No client is told to load or to move an entity after it was told of its *)
(* death.  What the server announces as dead was removed at the server,    *)
(* from its list of dead nuids until the message was taken; what is        *)
(* removed is never alive again; and every other message of an entity is   *)
(* sent while it lives.                                                    *)
(***************************************************************************)
THEOREM DeathComesLast == Spec => []DeathIsLast
<1>1. TypeOK /\ DeathInv => DeathIsLast
  BY DEF DeathInv
<1> QED BY <1>1, Invariance, PTL
----------------------------------------------------------------------------
(***************************************************************************)
(* Deaths have causes.  A process that was not there when an entity died   *)
(* kills what its own global names for the nuid, on a word of another one, *)
(* or of its own list (destroyByNuid).                                     *)
(***************************************************************************)
Gone(p, n) == \E k \in Ids : entity[p][n][k] = "removed"
\* Whose lists it kills by: those of the clients; those of the server, and its own.
DiedBefore(p, n) ==
  IF p = Server THEN \E c \in Clients : Gone(c, n) ELSE Gone(Server, n) \/ Gone(p, n)

\* Who kills an entity without the engine has a global that names it, and an
\* entity of the same nuid was removed before, where the list comes from: no
\* message that is late, repeated, echoed or of an earlier connection kills the
\* copies of an entity that lives (Server.onDeadNuids, Client.onDeadNuids,
\* Client.sendDeadNuids).
DeathsHaveCauses ==
  [][\A p \in Processes : \A n \in Nuids : \A k \in Ids :
       entity'[p][n][k] = "killed" =>
         \/ entity[p][n][k] = "killed" \/ Die(p, n, k)
         \/ k = Abs(global[p][n]) /\ DiedBefore(p, n)]_vars

\* Only what was removed in a process is in its list, and in its reports.
ListedAreGone == \A p \in Processes : \A n \in Nuids : deadNuids[p][n] > 0 => Gone(p, n)
ReportedAreGone ==
  \A c \in Clients : \A i \in DOMAIN toServer[c] : \A n \in Nuids :
    TellsDeath(toServer[c][i], n) => Gone(c, n)
GoneInv == ListedAreGone /\ ReportedAreGone

\* What a step does to the removed, to the lists and to the reports.
RemovedStay ==
  \A p \in Processes : \A n \in Nuids : \A k \in Ids :
    entity[p][n][k] = "removed" => entity'[p][n][k] = "removed"
ListsStep ==
  \A p \in Processes : \A n \in Nuids :
    deadNuids'[p][n] > 0 => deadNuids[p][n] > 0 \/ Gone(p, n)'
ReportsStep ==
  \A c \in Clients : \A i \in DOMAIN toServer'[c] : \A n \in Nuids :
    TellsDeath(toServer'[c][i], n) =>
      \/ deadNuids[c][n] > 0
      \/ \E j \in DOMAIN toServer[c] : TellsDeath(toServer[c][j], n)
\* Nobody but the engine kills, or these do, by this list.
Kills(p, n, k) == entity[p][n][k] # "killed" /\ entity'[p][n][k] = "killed"
KillsOnly(p, n, k) ==
  \A q \in Processes : \A m \in Nuids : \A j \in Ids :
    Kills(q, m, j) => q = p /\ m = n /\ j = k /\ entity'[p][n][k] = "killed"
OneChange(p, n, k, s) == RemovedStay /\ entity'[p][n][k] = s /\ KillsOnly(p, n, k)
KillsNone == \A p \in Processes : \A n \in Nuids : \A k \in Ids : ~ Kills(p, n, k)
KillsBy(p, list) ==
  \A q \in Processes : \A n \in Nuids : \A k \in Ids :
    Kills(q, n, k) => q = p /\ list[n] > 0 /\ k = Abs(global[p][n])
KillsStep ==
  \A p \in Processes : \A n \in Nuids : \A k \in Ids :
    Kills(p, n, k) => Die(p, n, k) \/ (k = Abs(global[p][n]) /\ DiedBefore(p, n))
CauseStep == RemovedStay /\ ListsStep /\ ReportsStep /\ KillsStep

LEMMA NobodyKilled ==
  ASSUME UNCHANGED entity
  PROVE  RemovedStay /\ KillsNone
BY DEF RemovedStay, KillsNone, Kills

\* One entity changed, and was not removed before.
LEMMA OneChanged ==
  ASSUME TypeOK, NEW p \in Processes, NEW n \in Nuids, NEW k \in Ids,
         NEW s \in States, entity[p][n][k] # "removed", entity' = [entity EXCEPT ![p][n][k] = s]
  PROVE  OneChange(p, n, k, s)
<1>1. entity \in EntityType
  BY DEF TypeOK, EntityType
<1>2. \A q \in Processes, m \in Nuids, j \in Ids :
        entity'[q][m][j] = IF q = p /\ m = n /\ j = k THEN s ELSE entity[q][m][j]
  BY <1>1 DEF EntityType
<1> QED BY <1>2 DEF OneChange, RemovedStay, KillsOnly, Kills

LEMMA DestroyKills ==
  ASSUME TypeOK, NEW p \in Processes, NEW list, destroyByNuid(p, list)
  PROVE  RemovedStay /\ KillsBy(p, list)
<1>1. entity \in EntityType
  BY DEF TypeOK, EntityType
<1>2. \A q \in Processes, n \in Nuids, k \in Ids :
        entity'[q][n][k] =
          IF q = p /\ n \in In(list) /\ Abs(global[p][n]) = k /\ IsAlive(p, n, k)
          THEN "killed" ELSE entity[q][n][k]
  BY <1>1 DEF EntityType, destroyByNuid
<1>3. \A n, k : IsAlive(p, n, k) => entity[p][n][k] # "removed"
  BY DEF IsAlive, Living
<1>4. \A n \in In(list) : n \in Nuids /\ list[n] > 0
  BY DEF In
<1> QED BY <1>2, <1>3, <1>4 DEF RemovedStay, KillsBy, Kills

LEMMA ListsUnchanged ==
  ASSUME UNCHANGED deadNuids
  PROVE  ListsStep
BY DEF ListsStep

LEMMA ListShorter ==
  ASSUME TypeOK, NEW p \in Processes, NEW list \in Lists, removeDeadNuids(p, list)
  PROVE  ListsStep
<1>1. deadNuids \in [Processes -> Lists]
  BY DEF TypeOK
<1>2. deadNuids' = [deadNuids EXCEPT ![p] = Minus(deadNuids[p], list)]
  BY DEF removeDeadNuids
<1>3. /\ Minus(deadNuids[p], list) \in Lists
      /\ \A n \in Nuids : Minus(deadNuids[p], list)[n] <= deadNuids[p][n]
  BY <1>1, ListFacts
<1>4. \A q \in Processes : deadNuids'[q] = IF q = p THEN Minus(deadNuids[p], list) ELSE deadNuids[q]
  BY <1>1, <1>2
<1>5. \A n \in Nuids : deadNuids[p][n] \in Nat /\ Minus(deadNuids[p], list)[n] \in Nat
  BY <1>1, <1>3 DEF Lists
<1>6. \A n \in Nuids : Minus(deadNuids[p], list)[n] > 0 => deadNuids[p][n] > 0
  BY <1>3, <1>5
<1> QED BY <1>4, <1>6 DEF ListsStep

LEMMA ReportsUnchanged ==
  ASSUME UNCHANGED toServer
  PROVE  ReportsStep
BY DEF ReportsStep

\* A queue of reports that was replaced by another one.
LEMMA ReportsReplaced ==
  ASSUME TypeOK, NEW c \in Clients, NEW q, toServer' = [toServer EXCEPT ![c] = q],
         \A i \in DOMAIN q : \A n \in Nuids : TellsDeath(q[i], n) =>
           \/ deadNuids[c][n] > 0
           \/ \E j \in DOMAIN toServer[c] : TellsDeath(toServer[c][j], n)
  PROVE  ReportsStep
<1>1. \A d \in Clients : toServer'[d] = IF d = c THEN q ELSE toServer[d]
  BY DEF TypeOK
<1> QED BY <1>1 DEF ReportsStep

LEMMA PopReports ==
  ASSUME TypeOK, NEW c \in Clients, toServer[c] # << >>, Pop(c)
  PROVE  ReportsStep
<1>1. toServer[c] \in Seq(ServerEvents) /\ toServer' = [toServer EXCEPT ![c] = Tail(toServer[c])]
  BY DEF Pop, TypeOK
<1>2. \A i \in DOMAIN Tail(toServer[c]) :
        i + 1 \in DOMAIN toServer[c] /\ Tail(toServer[c])[i] = toServer[c][i + 1]
  BY <1>1, SequenceFacts
<1>3. \A i \in DOMAIN Tail(toServer[c]) : \A n \in Nuids : TellsDeath(Tail(toServer[c])[i], n) =>
        \E j \in DOMAIN toServer[c] : TellsDeath(toServer[c][j], n)
  BY <1>2
<1> HIDE DEF TellsDeath
<1> QED BY <1>1, <1>3, ReportsReplaced

LEMMA SentReports ==
  ASSUME TypeOK, NEW c \in Clients, deadNuids[c] \in Lists,
         send(c, DeadNuids(deadNuids[c]), deadNuids[c])
  PROVE  ReportsStep
<1> DEFINE m == DeadNuids(deadNuids[c])
<1>1. /\ m \in ServerEvents
      /\ \A n \in Nuids : TellsDeath(m, n) => deadNuids[c][n] > 0
  BY EventFacts
<1> HIDE DEF m
<1>2. toServer' = toServer \/ toServer' = [toServer EXCEPT ![c] = Append(toServer[c], m)]
  BY DEF send, m
<1>3. CASE toServer' = toServer
  BY <1>3, ReportsUnchanged
<1>4. CASE toServer' = [toServer EXCEPT ![c] = Append(toServer[c], m)]
  <2>1. toServer[c] \in Seq(ServerEvents)
    BY DEF TypeOK
  <2>2. \A i \in DOMAIN Append(toServer[c], m) :
          \/ i \in DOMAIN toServer[c] /\ Append(toServer[c], m)[i] = toServer[c][i]
          \/ Append(toServer[c], m)[i] = m
    BY <2>1, <1>1, SequenceFacts
  <2>3. \A i \in DOMAIN Append(toServer[c], m) : \A n \in Nuids :
          TellsDeath(Append(toServer[c], m)[i], n) =>
            \/ deadNuids[c][n] > 0
            \/ \E j \in DOMAIN toServer[c] : TellsDeath(toServer[c][j], n)
    BY <2>2, <1>1
  <2> QED BY <1>4, <2>3, ReportsReplaced
<1> QED BY <1>2, <1>3, <1>4

\* Questions report no death.
LEMMA LostReports ==
  ASSUME TypeOK, NEW c \in Clients, NEW nuids \in SUBSET Nuids, sendLostNuids(c, nuids)
  PROVE  ReportsStep
<1>0. PICK lost \in SUBSET nuids :
        \E order \in Arrangements(lost) :
          toServer' = [toServer EXCEPT ![c] = @ \o [i \in DOMAIN order |-> LostNuid(order[i])]]
  BY DEF sendLostNuids
<1>1. PICK order \in Arrangements(lost) :
        toServer' = [toServer EXCEPT ![c] = @ \o [i \in DOMAIN order |-> LostNuid(order[i])]]
  BY <1>0
<1> DEFINE questions == [i \in DOMAIN order |-> LostNuid(order[i])]
<1>2. \A i \in DOMAIN questions : questions[i].event = "lostNuid"
  BY DEF LostNuid
<1>3. questions \in Seq(ServerEvents)
  <2>1. Cardinality(lost) \in Nat
    BY DeathAssumption, FS_Subset, FS_CardinalityType
  <2>2. DOMAIN order = 1 .. Cardinality(lost) /\ \A i \in DOMAIN order : order[i] \in Nuids
    BY DEF Arrangements
  <2>3. \A i \in DOMAIN order : LostNuid(order[i]) \in ServerEvents
    BY <2>2, EventFacts
  <2> QED BY <2>1, <2>2, <2>3
<1>4. toServer' = [toServer EXCEPT ![c] = toServer[c] \o questions]
  BY <1>1
<1>5. toServer[c] \in Seq(ServerEvents)
  BY DEF TypeOK
<1> HIDE DEF questions
<1>6. \A i \in DOMAIN (toServer[c] \o questions) :
        \/ i \in DOMAIN toServer[c] /\ (toServer[c] \o questions)[i] = toServer[c][i]
        \/ \E j \in DOMAIN questions : (toServer[c] \o questions)[i] = questions[j]
  BY <1>3, <1>5
<1>7. \A j \in DOMAIN questions : \A n : ~ TellsDeath(questions[j], n)
  BY <1>2 DEF TellsDeath
<1>8. \A i \in DOMAIN (toServer[c] \o questions) : \A n \in Nuids :
        TellsDeath((toServer[c] \o questions)[i], n) =>
          \E j \in DOMAIN toServer[c] : TellsDeath(toServer[c][j], n)
  BY <1>6, <1>7
<1> QED BY <1>4, <1>8, ReportsReplaced

LEMMA NoneIsCause ==
  ASSUME KillsNone
  PROVE  KillsStep
BY DEF KillsNone, KillsStep
----------------------------------------------------------------------------
\* The steps of the entities, and of the server's scan.
LEMMA WorldCause ==
  ASSUME TypeOK, DeathInv, GoneInv, NEW n \in Nuids,
         \/ Number(n) \/ ServerOnNeedNuid(n) \/ ServerScan(n) \/ ServerSendEntityData(n)
         \/ \E p \in Processes, k \in Ids : Die(p, n, k) \/ Updater(p, n, k)
  PROVE  CauseStep
<1>1. CASE Number(n) \/ ServerOnNeedNuid(n)
  <2>1. /\ entity[Server][n][1] # "removed" /\ entity' = [entity EXCEPT ![Server][n][1] = "added"]
        /\ UNCHANGED <<deadNuids, toServer>>
    BY <1>1 DEF Number, ServerOnNeedNuid
  <2>2. Server \in Processes /\ 1 \in Ids /\ "added" \in States
    BY DeathBoundAssumption DEF Processes, Ids, States, Living
  <2>3. OneChange(Server, n, 1, "added")
    BY <2>1, <2>2, OneChanged
  <2>4. RemovedStay /\ KillsNone
    BY <2>3 DEF OneChange, KillsNone, KillsOnly
  <2> QED
    BY <2>1, <2>4, ListsUnchanged, ReportsUnchanged, NoneIsCause DEF CauseStep
<1>2. CASE ServerScan(n) \/ ServerSendEntityData(n)
  <2>1. UNCHANGED <<entity, deadNuids, toServer>>
    BY <1>2 DEF ServerScan, ServerSendEntityData, world
  <2> QED
    BY <2>1, NobodyKilled, ListsUnchanged, ReportsUnchanged, NoneIsCause DEF CauseStep
<1>3. ASSUME NEW p \in Processes, NEW k \in Ids, Die(p, n, k) \/ Updater(p, n, k)
      PROVE  CauseStep
  <2>1. entity[p][n][k] # "removed" /\ UNCHANGED toServer
    BY <1>3 DEF Die, Updater, UpdaterAdded, UpdaterRemoved, DieEarly
  <2>2. PICK s \in States : /\ entity' = [entity EXCEPT ![p][n][k] = s]
                            /\ s = "killed" => Die(p, n, k)
                            /\ UpdaterRemoved(p, n, k) => s = "removed"
    BY <1>3 DEF Die, Updater, UpdaterAdded, UpdaterRemoved, DieEarly, States, Living
  <2>3. OneChange(p, n, k, s)
    BY <2>1, <2>2, OneChanged
  <2>4. RemovedStay /\ KillsStep
    BY <2>2, <2>3 DEF OneChange, KillsStep, KillsOnly
  <2>5. ListsStep
    <3>1. CASE UpdaterRemoved(p, n, k)
      <4>1. deadNuids' = [deadNuids EXCEPT ![p][n] = deadNuids[p][n] + 1]
        BY <3>1 DEF UpdaterRemoved
      <4>2. \A q \in Processes : \A m \in Nuids :
              (q = p /\ m = n) \/ deadNuids'[q][m] = deadNuids[q][m]
        BY <4>1 DEF TypeOK, Lists
      <4>3. Gone(p, n)'
        BY <2>2, <2>3, <3>1 DEF OneChange, Gone
      <4> QED BY <4>2, <4>3 DEF ListsStep
    <3>2. CASE ~ UpdaterRemoved(p, n, k)
      BY <1>3, <3>2, ListsUnchanged DEF Die, Updater, UpdaterAdded, DieEarly
    <3> QED BY <3>1, <3>2
  <2> QED BY <2>1, <2>4, <2>5, ReportsUnchanged DEF CauseStep
<1> QED BY <1>1, <1>2, <1>3

\* A list at the server, or on its way to it, is that of a client.
LEMMA ServerCause ==
  ASSUME TypeOK, DeathInv, GoneInv,
         ServerSyncDeadNuids \/ \E c \in Clients : ServerUpdate(c)
  PROVE  CauseStep
<1>1. CASE ServerSyncDeadNuids
  <2>1. /\ Server \in Processes /\ deadNuids[Server] \in Lists
        /\ removeDeadNuids(Server, deadNuids[Server]) /\ UNCHANGED <<entity, toServer>>
    BY <1>1 DEF ServerSyncDeadNuids, TypeOK, Processes
  <2> QED BY <2>1, NobodyKilled, ListShorter, ReportsUnchanged, NoneIsCause DEF CauseStep
<1>2. ASSUME NEW c \in Clients, ServerUpdate(c)
      PROVE  CauseStep
  <2>1. toServer[c] # << >> /\ Pop(c)
    BY <1>2 DEF ServerUpdate, ServerOnConnect, ServerOnDisconnect, ServerOnLostNuid,
                ServerOnDeadNuids, Reports
  <2>2. ReportsStep
    BY <2>1, PopReports
  <2>3. CASE ServerOnConnect(c) \/ ServerOnDisconnect(c) \/ ServerOnLostNuid(c)
    <3>1. UNCHANGED <<entity, deadNuids>>
      BY <2>3 DEF ServerOnConnect, ServerOnDisconnect, ServerOnLostNuid, world
    <3> QED BY <2>2, <3>1, NobodyKilled, ListsUnchanged, NoneIsCause DEF CauseStep
  <2>4. CASE ServerOnDeadNuids(c)
    <3> DEFINE reported == Head(toServer[c]).deadNuids
    <3>1. reported \in Lists
      BY <2>4, PopFacts, NuidFacts DEF ServerOnDeadNuids
    <3>2. /\ Server \in Processes /\ destroyByNuid(Server, reported)
          /\ removeDeadNuids(Server, reported)
      BY <2>4 DEF ServerOnDeadNuids, Processes
    <3>3. \A m \in Nuids : reported[m] > 0 => Gone(c, m)
      <4>1. /\ toServer[c] \in Seq(ServerEvents) /\ toServer[c] # << >>
            /\ Head(toServer[c]).event = "deadNuids"
        BY <2>4 DEF ServerOnDeadNuids, Reports, TypeOK
      <4>2. 1 \in DOMAIN toServer[c] /\ toServer[c][1] = Head(toServer[c])
        BY <4>1
      <4>3. \A m \in Nuids : reported[m] > 0 => TellsDeath(toServer[c][1], m)
        BY <4>1, <4>2 DEF TellsDeath
      <4> QED BY <4>2, <4>3 DEF GoneInv, ReportedAreGone
    <3> HIDE DEF reported
    <3>4. RemovedStay /\ KillsBy(Server, reported)
      BY <3>2, DestroyKills
    <3>5. KillsStep
      BY <3>3, <3>4 DEF KillsBy, KillsStep, DiedBefore
    <3> QED BY <2>2, <3>1, <3>2, <3>4, <3>5, ListShorter DEF CauseStep
  <2> QED BY <1>2, <2>3, <2>4 DEF ServerUpdate
<1> QED BY <1>1, <1>2

\* A list at a client is its own, or on its way from the server.
LEMMA ClientCause ==
  ASSUME TypeOK, DeathInv, GoneInv, NEW c \in Clients,
         ClientUpdate(c) \/ ClientSyncDeadNuids(c) \/ Connect(c) \/ Disconnect(c)
  PROVE  CauseStep
<1>1. c \in Processes /\ c # Server
  BY DeathAssumption DEF Processes
<1>2. CASE ClientOnConnect(c) \/ Connect(c) \/ Disconnect(c)
  <2>1. UNCHANGED <<entity, deadNuids>>
    BY <1>2 DEF ClientOnConnect, Connect, Disconnect, world
  <2>2. toServer' = toServer \/ \E q \in {<< >>, <<Connected>>, <<Disconnected>>} :
          toServer' = [toServer EXCEPT ![c] = q]
    BY <1>2 DEF ClientOnConnect, Connect, Disconnect
  <2>3. \A q \in {<< >>, <<Connected>>, <<Disconnected>>} : \A i \in DOMAIN q : \A n :
          ~ TellsDeath(q[i], n)
    BY DEF TellsDeath, Connected, Disconnected
  <2>4. ReportsStep
    BY <2>2, <2>3, ReportsUnchanged, ReportsReplaced
  <2> QED BY <2>1, <2>4, NobodyKilled, ListsUnchanged, NoneIsCause DEF CauseStep
<1>3. CASE ClientSyncDeadNuids(c)
  <2>1. /\ deadNuids[c] \in Lists /\ destroyByNuid(c, deadNuids[c])
        /\ removeDeadNuids(c, deadNuids[c]) /\ send(c, DeadNuids(deadNuids[c]), deadNuids[c])
    BY <1>1, <1>3 DEF ClientSyncDeadNuids, TypeOK
  <2>2. RemovedStay /\ KillsBy(c, deadNuids[c]) /\ ListsStep /\ ReportsStep
    BY <1>1, <2>1, DestroyKills, ListShorter, SentReports
  <2>3. KillsStep
    BY <1>1, <2>2 DEF KillsBy, KillsStep, DiedBefore, GoneInv, ListedAreGone
  <2> QED BY <2>2, <2>3 DEF CauseStep
<1>4. CASE ClientOnNewNuid(c)
  <2> DEFINE n == Head(toClient[c]).nuid
  <2> DEFINE free == {k \in Ids : entity[c][n][k] = "none"}
  <2>1. /\ entity' = [entity EXCEPT ![c][n] =
             [k \in Ids |-> IF k \in free /\ \A j \in free : k <= j THEN "added" ELSE entity[c][n][k]]]
        /\ UNCHANGED <<deadNuids, toServer>> /\ n \in Nuids
    BY <1>4, TakesFacts, NuidFacts DEF ClientOnNewNuid
  <2>2. \A q \in Processes, m \in Nuids, k \in Ids :
          \/ entity'[q][m][k] = entity[q][m][k]
          \/ entity[q][m][k] = "none" /\ entity'[q][m][k] = "added"
    BY <1>1, <2>1 DEF TypeOK
  <2>3. RemovedStay /\ KillsNone
    BY <2>2 DEF RemovedStay, KillsNone, Kills
  <2> QED BY <2>1, <2>3, ListsUnchanged, ReportsUnchanged, NoneIsCause DEF CauseStep
<1>5. CASE ClientOnEntityData(c)
  <2>1. UNCHANGED <<entity, deadNuids>>
    BY <1>5 DEF ClientOnEntityData, world
  <2>2. Unknown(c, {Head(toClient[c]).nuid}) \subseteq Nuids
    BY <1>5, TakesFacts, NuidFacts DEF ClientOnEntityData, Unknown
  <2>3. ReportsStep
    BY <1>5, <2>2, LostReports DEF ClientOnEntityData
  <2> QED BY <2>1, <2>3, NobodyKilled, ListsUnchanged, NoneIsCause DEF CauseStep
<1>6. CASE ClientOnDeadNuids(c)
  <2> DEFINE list == Head(toClient[c]).deadNuids
  <2>1. list \in Lists
    BY <1>6, TakesFacts, NuidFacts DEF ClientOnDeadNuids
  <2>2. destroyByNuid(c, list) /\ removeDeadNuids(c, list)
        /\ sendLostNuids(c, Unknown(c, In(list)))
    BY <1>6 DEF ClientOnDeadNuids
  <2>3. \A m \in Nuids : list[m] > 0 => Gone(Server, m)
    <3>1. /\ toClient[c] \in Seq(ClientEvents) /\ toClient[c] # << >>
          /\ Head(toClient[c]).event = "deadNuids"
      BY <1>6 DEF ClientOnDeadNuids, Takes, TypeOK
    <3>2. 1 \in DOMAIN toClient[c] /\ toClient[c][1] = Head(toClient[c])
      BY <3>1
    <3>3. \A m \in Nuids : list[m] > 0 => TellsDeath(toClient[c][1], m)
      BY <3>1, <3>2 DEF TellsDeath
    <3>4. 1 \in Ids
      BY DeathBoundAssumption DEF Ids
    <3> QED BY <3>2, <3>3, <3>4 DEF DeathInv, ToldAreBuried, Buried, Gone
  <2>4. Unknown(c, In(list)) \subseteq Nuids
    BY DEF Unknown, In
  <2> HIDE DEF list
  <2>5. RemovedStay /\ KillsBy(c, list) /\ ListsStep /\ ReportsStep
    BY <1>1, <2>1, <2>2, <2>4, DestroyKills, ListShorter, LostReports
  <2>6. KillsStep
    BY <1>1, <2>3, <2>5 DEF KillsBy, KillsStep, DiedBefore
  <2> QED BY <2>5, <2>6 DEF CauseStep
<1> QED BY <1>2, <1>3, <1>4, <1>5, <1>6 DEF ClientUpdate

LEMMA NextCause ==
  ASSUME TypeOK, DeathInv, GoneInv, [Next]_vars
  PROVE  CauseStep
<1>1. CASE \E n \in Nuids :
        \/ Number(n) \/ ServerOnNeedNuid(n) \/ ServerScan(n) \/ ServerSendEntityData(n)
        \/ \E p \in Processes, k \in Ids : Die(p, n, k) \/ Updater(p, n, k)
  BY <1>1, WorldCause
<1>2. CASE ServerSyncDeadNuids \/ \E c \in Clients : ServerUpdate(c)
  BY <1>2, ServerCause
<1>3. CASE \E c \in Clients :
        ClientUpdate(c) \/ ClientSyncDeadNuids(c) \/ Connect(c) \/ Disconnect(c)
  BY <1>3, ClientCause
<1>4. CASE UNCHANGED vars \/ \E p \in Processes : Collect(p)
  <2>1. UNCHANGED <<entity, deadNuids, toServer>>
    BY <1>4 DEF Collect, vars, world
  <2> QED
    BY <2>1, NobodyKilled, ListsUnchanged, ReportsUnchanged, NoneIsCause DEF CauseStep
<1> QED BY <1>1, <1>2, <1>3, <1>4 DEF Next

LEMMA GoneInvStep ==
  ASSUME GoneInv, CauseStep
  PROVE  GoneInv'
<1>1. \A p \in Processes : \A n \in Nuids : Gone(p, n) => Gone(p, n)'
  BY DEF CauseStep, RemovedStay, Gone
<1>2. ListedAreGone'
  BY <1>1 DEF CauseStep, ListsStep, GoneInv, ListedAreGone
<1>3. \A c \in Clients : c \in Processes
  BY DEF Processes
<1>4. ReportedAreGone'
  BY <1>1, <1>3 DEF CauseStep, ReportsStep, GoneInv, ListedAreGone, ReportedAreGone
<1> QED BY <1>2, <1>4 DEF GoneInv

(***************************************************************************)
(* No process kills an entity on a message, or by its list, unless one of  *)
(* the same nuid was removed before where the list comes from, and its own *)
(* global names the entity.  Every list, and every report on its way, is   *)
(* one of what was removed (GoneInv), and what is removed stays so.        *)
(***************************************************************************)
THEOREM NoDeathWithoutCause == Spec => DeathsHaveCauses
<1>1. Init => GoneInv
  <2> SUFFICES ASSUME Init PROVE GoneInv
    OBVIOUS
  <2>1. \A p \in Processes : \A n \in Nuids : deadNuids[p][n] = 0
    BY DEF Init, Empty
  <2>2. \A c \in Clients : DOMAIN toServer[c] = {}
    BY DEF Init
  <2> QED BY <2>1, <2>2 DEF GoneInv, ListedAreGone, ReportedAreGone
<1>2. TypeOK /\ DeathInv /\ GoneInv /\ [Next]_vars => GoneInv'
  BY NextCause, GoneInvStep
<1>3. TypeOK /\ DeathInv /\ GoneInv /\ [Next]_vars =>
        \A p \in Processes : \A n \in Nuids : \A k \in Ids :
          entity'[p][n][k] = "killed" =>
            \/ entity[p][n][k] = "killed" \/ Die(p, n, k)
            \/ k = Abs(global[p][n]) /\ DiedBefore(p, n)
  BY NextCause DEF CauseStep, KillsStep, Kills
<1> QED BY <1>1, <1>2, <1>3, Invariance, PTL DEF Spec, DeathsHaveCauses
=============================================================================
