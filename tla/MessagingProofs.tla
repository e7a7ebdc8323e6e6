-------------------------- MODULE MessagingProofs --------------------------
(***************************************************************************)
(* Proofs about Messaging, for any number of clients, payloads, addresses, *)
(* message ids and collections: its types, that the cache is a log of what *)
(* was sent, what the duplicate detection is worth, the order of ids, and  *)
(* what a client is skipped for.                                           *)
(***************************************************************************)
EXTENDS Messaging, SequenceTheorems, TLAPS

LEMMA SequenceFacts ==
  ASSUME NEW S, NEW q \in Seq(S)
  PROVE  /\ \A x \in S : /\ Append(q, x) \in Seq(S)
                         /\ DOMAIN Append(q, x) = DOMAIN q \cup {Len(q) + 1}
                         /\ Append(q, x)[Len(q) + 1] = x
                         /\ \A i \in DOMAIN q : Append(q, x)[i] = q[i]
         /\ q # << >> =>
              /\ Head(q) \in S /\ Head(q) = q[1] /\ 1 \in DOMAIN q
              /\ Tail(q) \in Seq(S)
              /\ \A i \in DOMAIN Tail(q) : i + 1 \in DOMAIN q /\ Tail(q)[i] = q[i + 1]
         /\ \A i \in DOMAIN q : q[i] \in S /\ i \in Nat
         /\ Len(q) \in Nat /\ DOMAIN q = 1 .. Len(q)
OBVIOUS
----------------------------------------------------------------------------
\* A client is in self.clients once, and a loop visits each once.
Distinct(q) == \A i, j \in DOMAIN q : q[i] = q[j] => i = j
\* A running loop sends the payload with the newest id.
JobIsNewest ==
  pending # NoJob =>
    pending.id = messageId /\ pending.id \in Nat \ {0} /\ pending.payload \in Payloads
IdsAreOld ==
  /\ \A c \in Clients : \A i \in DOMAIN wire[c] : wire[c][i].id <= messageId
  /\ \A k \in DOMAIN pending.to : \A i \in DOMAIN wire[pending.to[k]] :
       wire[pending.to[k]][i].id < pending.id
\* A checksum string is at one address, and a message id has one payload.
Interned ==
  \A a, b \in Addresses : heap[a] = heap[b] /\ heap[a] # Free => a = b
IdsHaveOnePayload ==
  /\ \A s, t \in transmitted : s[1] = t[1] => s = t
  /\ \A t \in transmitted :
       /\ t[1] <= messageId
       /\ pending # NoJob /\ t[1] = pending.id => t[2] = pending.payload
\* An entry of a transmission of this payload has the address of its checksum.
Remembered(p) ==
  \E a \in Addresses, i \in DOMAIN networkEntries :
    /\ heap[a] = p
    /\ networkEntries[i].dataChecksum = a
    /\ <<networkEntries[i].messageId, p>> \in transmitted
AtLimitRemembered ==
  \A p \in Cacheable : transmissions[p] = 1 + collections[p] => Remembered(p)

IInv ==
  /\ TypeOK
  /\ Distinct(clients) /\ Distinct(pending.to) /\ JobIsNewest
  /\ IdsAreOld /\ IdsIncreaseOnWire
  /\ CacheIsLog
  /\ Interned /\ IdsHaveOnePayload
  /\ TransmissionsBounded /\ AtLimitRemembered
----------------------------------------------------------------------------
LEMMA ConstantFacts ==
  /\ Cacheable \subseteq Payloads /\ Free \notin Payloads /\ Free \notin Clients
  /\ \A p \in Cacheable : Event(p) \in CacheableEvents
  /\ \A p \in Payloads : Event(p) \in Events
BY EventAssumption, FreeAssumption DEF Cacheable, Payloads, Event

\* The other clients.
LEMMA ButFacts ==
  ASSUME TypeOK, Distinct(clients), NEW c \in Connected
  PROVE  /\ But(c) \in Seq(Connected \ {c}) /\ But(c) \in Seq(Clients)
         /\ Distinct(But(c))
<1> DEFINE place == CHOOSE k \in DOMAIN clients : clients[k] = c
           r == But(c)
<1>1. clients \in Seq(Clients) /\ Len(clients) \in Nat /\ DOMAIN clients = 1 .. Len(clients)
  BY DEF TypeOK
<1>2. place \in 1 .. Len(clients) /\ clients[place] = c
  BY <1>1 DEF Connected
<1>3. r = [k \in 1 .. Len(clients) - 1 |-> clients[IF k < place THEN k ELSE k + 1]]
  BY DEF But
<1> HIDE DEF place, r
<1>4. /\ DOMAIN r = 1 .. Len(clients) - 1 /\ Len(clients) - 1 \in Nat
      /\ \A k \in DOMAIN r :
           LET n == IF k < place THEN k ELSE k + 1
           IN  n \in DOMAIN clients /\ n # place /\ r[k] = clients[n]
  BY <1>1, <1>2, <1>3
<1>5. \A k \in DOMAIN r : r[k] \in Connected \ {c} /\ r[k] \in Clients
  BY <1>1, <1>2, <1>4 DEF Connected, Distinct
<1>6. r = [k \in 1 .. Len(clients) - 1 |-> r[k]]
  BY <1>3
<1>7. r \in Seq(Connected \ {c}) /\ r \in Seq(Clients)
  BY <1>4, <1>5, <1>6
<1>8. Distinct(r)
  BY <1>1, <1>2, <1>4 DEF Distinct
<1> QED BY <1>7, <1>8 DEF r

\* The elements of the sequences.
LEMMA PacketFacts ==
  ASSUME TypeOK
  PROVE  \A c \in Clients : \A i \in DOMAIN wire[c] : wire[c][i].id \in Nat
<1>1. ASSUME NEW c \in Clients, NEW i \in DOMAIN wire[c] PROVE wire[c][i].id \in Nat
  <2>1. wire[c] \in Seq(Packet)
    BY DEF TypeOK
  <2>2. wire[c][i] \in Packet
    BY <2>1
  <2> QED BY <2>2 DEF Packet
<1> QED BY <1>1

LEMMA EntryFacts ==
  ASSUME TypeOK
  PROVE  \A i \in DOMAIN networkEntries :
           networkEntries[i] \in NetworkEntry /\ networkEntries[i].peerNum = ULONG_MAX
<1>1. \A i \in DOMAIN networkEntries : networkEntries[i] \in NetworkEntry
  BY DEF TypeOK
<1>2. \A entry \in NetworkEntry : entry.peerNum = ULONG_MAX
  BY DEF NetworkEntry, toNumber
<1> QED BY <1>1, <1>2

\* A sequence is one of its own elements.
LEMMA RangeFacts ==
  ASSUME NEW S, NEW q \in Seq(S)
  PROVE  q \in Seq({q[i] : i \in DOMAIN q})
<1>1. q = [i \in 1 .. Len(q) |-> q[i]] /\ Len(q) \in Nat /\ DOMAIN q = 1 .. Len(q)
  OBVIOUS
<1>2. \A i \in 1 .. Len(q) : q[i] \in {q[j] : j \in DOMAIN q}
  BY <1>1
<1> QED BY <1>1, <1>2
----------------------------------------------------------------------------
\* What a handler that starts a loop does.
LEMMA JobStarts ==
  ASSUME IInv, pending = NoJob, NEW to \in Seq(Connected), Distinct(to),
         NEW payload \in Payloads, NEW leaver \in Clients \cup {Nobody},
         Job(to, payload, leaver)
  PROVE  /\ messageId' \in 0 .. MaxMessageId /\ messageId' = messageId + 1
         /\ pending' = [to |-> to, payload |-> payload, id |-> messageId + 1, leaver |-> leaver]
         /\ pending' # NoJob
         /\ Distinct(pending'.to) /\ JobIsNewest'
         /\ \A t \in transmitted : t[1] # pending'.id /\ t[1] <= messageId'
<1>1. messageId \in Nat /\ messageId < MaxMessageId /\ MaxMessageId \in Nat
  BY BoundAssumption DEF IInv, TypeOK, Job
<1>2. /\ messageId' = messageId + 1
      /\ pending' = [to |-> to, payload |-> payload, id |-> messageId + 1, leaver |-> leaver]
  BY DEF Job
<1>3. /\ pending'.to = to /\ pending'.payload = payload /\ pending'.id = messageId + 1
  BY <1>2
<1>4. pending' # NoJob
  BY <1>3, ConstantFacts DEF NoJob
<1>5. JobIsNewest'
  BY <1>1, <1>2, <1>3 DEF JobIsNewest
<1>6. \A t \in transmitted : t[1] <= messageId /\ t[1] \in Nat
  <2>1. \A t \in transmitted : t[1] \in 1 .. MaxMessageId
    BY DEF IInv, TypeOK
  <2> QED BY <1>1, <2>1 DEF IInv, IdsHaveOnePayload
<1>7. \A t \in transmitted : t[1] # pending'.id /\ t[1] <= messageId'
  BY <1>1, <1>2, <1>3, <1>6
<1>8. messageId' \in 0 .. MaxMessageId
  BY <1>1, <1>2
<1> QED BY <1>2, <1>3, <1>4, <1>5, <1>7, <1>8

\* Send, sendToAll and sendToAllBut, which only start the loop.
LEMMA StartStep ==
  ASSUME IInv, pending = NoJob, NEW to \in Seq(Connected), Distinct(to),
         NEW payload \in Payloads, Job(to, payload, Nobody),
         UNCHANGED <<clients, networkEntries, heap, wire, acks, received,
                     transmitted, transmissions, collections>>
  PROVE  IInv'
<1>1. /\ messageId' \in 0 .. MaxMessageId /\ messageId' = messageId + 1
      /\ pending' = [to |-> to, payload |-> payload, id |-> messageId + 1, leaver |-> Nobody]
      /\ pending' # NoJob
      /\ Distinct(pending'.to) /\ JobIsNewest'
      /\ \A t \in transmitted : t[1] # pending'.id /\ t[1] <= messageId'
  BY JobStarts
<1>2. messageId \in Nat
  BY DEF IInv, TypeOK
<1>3. TypeOK'
  BY <1>1, <1>2 DEF IInv, TypeOK, Connected
<1>4. IdsAreOld'
  <2>1. \A c \in Clients : \A i \in DOMAIN wire[c] : wire[c][i].id <= messageId /\ wire[c][i].id \in Nat
    BY PacketFacts DEF IInv, IdsAreOld
  <2>2. \A k \in DOMAIN to : to[k] \in Clients
    BY DEF IInv, TypeOK, Connected
  <2> QED BY <1>1, <1>2, <2>1, <2>2 DEF IdsAreOld
<1>5. IdsHaveOnePayload'
  BY <1>1 DEF IInv, IdsHaveOnePayload
<1>6. (IdsIncreaseOnWire /\ CacheIsLog /\ Interned /\ TransmissionsBounded /\ AtLimitRemembered)'
  BY DEF IInv, IdsIncreaseOnWire, CacheIsLog, Interned, TransmissionsBounded, AtLimitRemembered, Remembered
<1> QED BY <1>1, <1>3, <1>4, <1>5, <1>6 DEF IInv

\* The next turn of the loop: its client is no longer to come.
LEMMA TurnFacts ==
  ASSUME IInv, pending.to # << >>, pending' = [pending EXCEPT !.to = Tail(pending.to)],
         UNCHANGED <<clients, messageId>>
  PROVE  /\ Head(pending.to) \in Clients /\ Head(pending.to) = pending.to[1]
         /\ 1 \in DOMAIN pending.to
         /\ pending # NoJob /\ pending.id = messageId /\ pending.id \in 1 .. MaxMessageId
         /\ pending.payload \in Payloads
         /\ pending'.id = pending.id /\ pending'.payload = pending.payload
         /\ pending'.to = Tail(pending.to)
         /\ pending' \in [to : Seq(Connected'), payload : Payloads \cup {Free},
                          id : 0 .. messageId', leaver : Clients \cup {Nobody}]
         /\ Distinct(pending'.to) /\ JobIsNewest'
         /\ \A k \in DOMAIN pending'.to :
              /\ k + 1 \in DOMAIN pending.to /\ pending'.to[k] = pending.to[k + 1]
              /\ pending'.to[k] # Head(pending.to) /\ pending'.to[k] \in Clients
<1>1. /\ pending.to \in Seq(Connected) /\ Connected \subseteq Clients
      /\ pending \in [to : Seq(Connected), payload : Payloads \cup {Free},
                      id : 0 .. messageId, leaver : Clients \cup {Nobody}]
      /\ messageId \in 0 .. MaxMessageId /\ MaxMessageId \in Nat
  BY BoundAssumption DEF IInv, TypeOK, Connected
<1>2. pending # NoJob
  BY DEF NoJob
<1>3. /\ pending.id = messageId /\ pending.id \in Nat \ {0} /\ pending.payload \in Payloads
  BY <1>2 DEF IInv, JobIsNewest
<1>4. /\ pending'.id = pending.id /\ pending'.payload = pending.payload
      /\ pending'.to = Tail(pending.to) /\ pending'.leaver = pending.leaver
  BY <1>1
<1>5. /\ Head(pending.to) \in Connected /\ Head(pending.to) = pending.to[1]
      /\ 1 \in DOMAIN pending.to
      /\ Tail(pending.to) \in Seq(Connected)
      /\ \A k \in DOMAIN Tail(pending.to) :
           /\ k + 1 \in DOMAIN pending.to /\ Tail(pending.to)[k] = pending.to[k + 1]
           /\ k \in Nat \ {0} /\ Tail(pending.to)[k] \in Connected
  <2>1. pending.to # << >> /\ pending.to \in Seq(Connected)
    BY <1>1
  <2>2. \A k \in DOMAIN Tail(pending.to) : k \in Nat \ {0}
    BY <2>1
  <2> QED BY <2>1, <2>2, SequenceFacts
<1>6. Connected' = Connected
  BY DEF Connected
<1>7. pending' \in [to : Seq(Connected'), payload : Payloads \cup {Free},
                    id : 0 .. messageId', leaver : Clients \cup {Nobody}]
  BY <1>1, <1>5, <1>6
<1>8. \A k \in DOMAIN pending'.to :
        /\ k + 1 \in DOMAIN pending.to /\ pending'.to[k] = pending.to[k + 1]
        /\ pending'.to[k] # Head(pending.to) /\ pending'.to[k] \in Clients
  BY <1>1, <1>4, <1>5 DEF IInv, Distinct
<1>9. Distinct(pending'.to)
  BY <1>4, <1>5 DEF IInv, Distinct
<1>10. JobIsNewest'
  BY <1>3, <1>4 DEF JobIsNewest
<1> QED BY <1>1, <1>2, <1>3, <1>4, <1>5, <1>7, <1>8, <1>9, <1>10

\* A turn that puts the message on the wire of its client.
LEMMA WireFacts ==
  ASSUME IInv, pending.to # << >>, pending' = [pending EXCEPT !.to = Tail(pending.to)],
         UNCHANGED <<clients, messageId>>,
         wire' = [wire EXCEPT ![Head(pending.to)] =
                    Append(@, [id |-> pending.id, payload |-> pending.payload])]
  PROVE  wire' \in [Clients -> Seq(Packet)] /\ IdsAreOld' /\ IdsIncreaseOnWire'
<1> DEFINE c == Head(pending.to)
           m == [id |-> pending.id, payload |-> pending.payload]
<1>1. /\ c \in Clients /\ c = pending.to[1] /\ 1 \in DOMAIN pending.to
      /\ pending.id = messageId /\ pending.id \in 1 .. MaxMessageId /\ pending.payload \in Payloads
      /\ pending'.id = pending.id
      /\ \A k \in DOMAIN pending'.to :
           /\ k + 1 \in DOMAIN pending.to /\ pending'.to[k] = pending.to[k + 1]
           /\ pending'.to[k] # c /\ pending'.to[k] \in Clients
  BY TurnFacts
<1>2. m \in Packet /\ m.id = messageId
  BY <1>1 DEF Packet
<1>3. \A d \in Clients : wire[d] \in Seq(Packet)
  BY DEF IInv, TypeOK
<1>4. \A i \in DOMAIN wire[c] : wire[c][i].id < messageId
  BY <1>1 DEF IInv, IdsAreOld
<1> HIDE DEF m, c
<1>5. wire' = [wire EXCEPT ![c] = Append(wire[c], m)]
  BY DEF m, c
<1>6. Append(wire[c], m) \in Seq(Packet)
  BY <1>1, <1>2, <1>3, SequenceFacts
<1>7. wire' \in [Clients -> Seq(Packet)]
  BY <1>5, <1>6 DEF IInv, TypeOK
<1>8. \A d \in Clients : d # c => wire'[d] = wire[d]
  BY <1>5 DEF IInv, TypeOK
<1>9. /\ wire'[c] = Append(wire[c], m)
      /\ DOMAIN wire'[c] = DOMAIN wire[c] \cup {Len(wire[c]) + 1}
      /\ DOMAIN wire[c] = 1 .. Len(wire[c]) /\ Len(wire[c]) \in Nat
      /\ wire'[c][Len(wire[c]) + 1] = m
      /\ \A i \in DOMAIN wire[c] : wire'[c][i] = wire[c][i]
  <2>1. wire'[c] = Append(wire[c], m)
    BY <1>1, <1>5 DEF IInv, TypeOK
  <2> QED BY <2>1, <1>1, <1>2, <1>3, SequenceFacts
<1>10. messageId \in Nat
  BY DEF IInv, TypeOK
<1>11. \A d \in Clients : \A i \in DOMAIN wire'[d] : wire'[d][i].id <= messageId
  BY <1>2, <1>8, <1>9, <1>10 DEF IInv, IdsAreOld
<1>12. \A k \in DOMAIN pending'.to : \A i \in DOMAIN wire'[pending'.to[k]] :
         wire'[pending'.to[k]][i].id < pending'.id
  <2> SUFFICES ASSUME NEW k \in DOMAIN pending'.to, NEW i \in DOMAIN wire'[pending'.to[k]]
               PROVE  wire'[pending'.to[k]][i].id < pending'.id
    OBVIOUS
  <2>1. /\ k + 1 \in DOMAIN pending.to /\ pending'.to[k] = pending.to[k + 1]
        /\ wire'[pending'.to[k]] = wire[pending.to[k + 1]]
    BY <1>1, <1>8
  <2>2. wire[pending.to[k + 1]][i].id < pending.id
    BY <2>1 DEF IInv, IdsAreOld
  <2> QED BY <1>1, <2>1, <2>2
<1>13. IdsAreOld'
  BY <1>11, <1>12 DEF IdsAreOld
<1>14. \A i, j \in DOMAIN wire'[c] : i < j => wire'[c][i].id < wire'[c][j].id
  <2>1. ASSUME NEW i \in DOMAIN wire'[c], NEW j \in DOMAIN wire'[c], i < j
        PROVE  wire'[c][i].id < wire'[c][j].id
    <3>1. i \in DOMAIN wire[c]
      BY <1>9, <2>1
    <3>2. CASE j \in DOMAIN wire[c]
      BY <1>1, <1>9, <2>1, <3>1, <3>2 DEF IInv, IdsIncreaseOnWire
    <3>3. CASE j = Len(wire[c]) + 1
      BY <1>2, <1>4, <1>9, <3>1, <3>3
    <3> QED BY <1>9, <3>2, <3>3
  <2> QED BY <2>1
<1>15. IdsIncreaseOnWire'
  BY <1>8, <1>14 DEF IInv, IdsIncreaseOnWire
<1> QED BY <1>7, <1>13, <1>15
----------------------------------------------------------------------------
LEMMA UncacheableStep ==
  ASSUME IInv, SendUncacheable
  PROVE  IInv'
<1>1. /\ pending.to # << >> /\ pending' = [pending EXCEPT !.to = Tail(pending.to)]
      /\ UNCHANGED <<clients, messageId>>
      /\ wire' = [wire EXCEPT ![Head(pending.to)] =
                    Append(@, [id |-> pending.id, payload |-> pending.payload])]
      /\ UNCHANGED <<networkEntries, heap, acks, received, transmitted, transmissions, collections>>
  BY DEF SendUncacheable
<1>2. /\ pending # NoJob /\ pending'.id = pending.id /\ pending'.payload = pending.payload
      /\ pending' \in [to : Seq(Connected'), payload : Payloads \cup {Free},
                       id : 0 .. messageId', leaver : Clients \cup {Nobody}]
      /\ Distinct(pending'.to) /\ JobIsNewest'
  BY <1>1, TurnFacts
<1>3. wire' \in [Clients -> Seq(Packet)] /\ IdsAreOld' /\ IdsIncreaseOnWire'
  BY <1>1, WireFacts
<1>4. TypeOK'
  BY <1>1, <1>2, <1>3 DEF IInv, TypeOK
<1>5. IdsHaveOnePayload'
  BY <1>1, <1>2 DEF IInv, IdsHaveOnePayload
<1>6. Distinct(clients)'
  BY <1>1 DEF IInv
<1>7. (CacheIsLog /\ Interned /\ TransmissionsBounded /\ AtLimitRemembered)'
  BY <1>1 DEF IInv, CacheIsLog, Interned, TransmissionsBounded, AtLimitRemembered, Remembered
<1> QED BY <1>2, <1>3, <1>4, <1>5, <1>6, <1>7 DEF IInv

\* The checksum of a payload is computed, at one of the addresses it may have.
LEMMA HeapFacts ==
  ASSUME IInv, NEW p \in Cacheable, NEW a \in ChecksumAddresses(p),
         heap' = [heap EXCEPT ![a] = p]
  PROVE  /\ heap' \in [Addresses -> Cacheable \cup {Free}]
         /\ a \in Addresses /\ heap'[a] = p
         /\ \A b \in Addresses : heap[b] # Free => heap'[b] = heap[b]
         /\ \A b \in Addresses : heap[b] = p => b = a
         /\ Interned'
<1>1. heap \in [Addresses -> Cacheable \cup {Free}] /\ p # Free /\ a \in Addresses
  BY ConstantFacts DEF IInv, TypeOK, ChecksumAddresses
<1>2. heap[a] = p \/ (heap[a] = Free /\ \A b \in Addresses : heap[b] # p)
  BY DEF ChecksumAddresses
<1>3. \A b \in Addresses : heap'[b] = IF b = a THEN p ELSE heap[b]
  BY <1>1
<1>4. \A b \in Addresses : heap[b] = p => b = a
  BY <1>1, <1>2 DEF IInv, Interned
<1>5. Interned'
  BY <1>3, <1>4 DEF IInv, Interned
<1> QED BY <1>1, <1>2, <1>3, <1>4, <1>5

LEMMA SuppressStep ==
  ASSUME IInv, Suppress
  PROVE  IInv'
<1>1. /\ pending.to # << >> /\ pending' = [pending EXCEPT !.to = Tail(pending.to)]
      /\ UNCHANGED <<clients, messageId>>
      /\ UNCHANGED <<networkEntries, wire, acks, received, transmitted, transmissions, collections>>
      /\ pending.payload \in Cacheable
  BY DEF Suppress
<1>2. /\ pending # NoJob /\ pending'.id = pending.id /\ pending'.payload = pending.payload
      /\ pending' \in [to : Seq(Connected'), payload : Payloads \cup {Free},
                       id : 0 .. messageId', leaver : Clients \cup {Nobody}]
      /\ Distinct(pending'.to) /\ JobIsNewest'
      /\ \A k \in DOMAIN pending'.to :
           k + 1 \in DOMAIN pending.to /\ pending'.to[k] = pending.to[k + 1]
  BY <1>1, TurnFacts
<1>3. PICK a \in ChecksumAddresses(pending.payload) : heap' = [heap EXCEPT ![a] = pending.payload]
  BY DEF Suppress
<1>4. /\ heap' \in [Addresses -> Cacheable \cup {Free}]
      /\ \A b \in Addresses : heap[b] # Free => heap'[b] = heap[b]
      /\ Interned'
  BY <1>1, <1>3, HeapFacts
<1>5. TypeOK'
  BY <1>1, <1>2, <1>4 DEF IInv, TypeOK
<1>6. IdsHaveOnePayload'
  BY <1>1, <1>2 DEF IInv, IdsHaveOnePayload
<1>7. IdsAreOld'
  BY <1>1, <1>2 DEF IInv, IdsAreOld
<1>8. (Distinct(clients) /\ IdsIncreaseOnWire /\ CacheIsLog /\ TransmissionsBounded)'
  BY <1>1 DEF IInv, IdsIncreaseOnWire, CacheIsLog, TransmissionsBounded
<1>9. AtLimitRemembered'
  <2>1. \A p \in Cacheable : p # Free
    BY ConstantFacts
  <2>2. \A p \in Cacheable : Remembered(p) => Remembered(p)'
    BY <1>1, <1>4, <2>1 DEF Remembered
  <2> QED BY <1>1, <2>2 DEF IInv, AtLimitRemembered
<1> QED BY <1>2, <1>4, <1>5, <1>6, <1>7, <1>8, <1>9 DEF IInv

\* NetworkCache.set: an entry of that key is overwritten or appended, and the
\* others stay as they are.
Key(entry) == <<entry.messageId, entry.event>>
Keys(entries) == {Key(entries[i]) : i \in DOMAIN entries}
LEMMA WrittenFacts ==
  ASSUME IInv, NEW id \in 1 .. MaxMessageId, NEW event \in CacheableEvents, NEW a \in Addresses,
         Clients # {},
         networkEntries' = NetworkWritten(networkEntries, ULONG_MAX, id, event, "sent", a)
  PROVE  /\ networkEntries' \in Seq(NetworkEntry)
         /\ Keys(networkEntries')
              = Keys(networkEntries) \cup {<<id, event>>}
         /\ \A i, j \in DOMAIN networkEntries' :
              Key(networkEntries'[i]) = Key(networkEntries'[j]) => i = j
         /\ \A i \in DOMAIN networkEntries : Key(networkEntries[i]) # <<id, event>> =>
              i \in DOMAIN networkEntries' /\ networkEntries'[i] = networkEntries[i]
         /\ \E i \in DOMAIN networkEntries' :
              /\ networkEntries'[i].messageId = id /\ networkEntries'[i].dataChecksum = a
<1> DEFINE slots == KeySlots(networkEntries, ULONG_MAX, event, id)
           entry == [messageId |-> id, peerNum |-> ULONG_MAX, event |-> event,
                     status |-> "sent", dataChecksum |-> a]
<1>1. networkEntries \in Seq(NetworkEntry) /\ DOMAIN networkEntries = 1 .. Len(networkEntries)
      /\ Len(networkEntries) \in Nat
  BY DEF IInv, TypeOK
<1>2. \A i \in DOMAIN networkEntries : networkEntries[i].peerNum = ULONG_MAX
  BY EntryFacts DEF IInv
<1>3. entry \in NetworkEntry
  BY DEF NetworkEntry, toNumber
<1>4. entry.messageId = id /\ entry.dataChecksum = a /\ Key(entry) = <<id, event>>
  BY DEF Key
<1>5. \A i \in DOMAIN networkEntries : i \in slots <=> Key(networkEntries[i]) = <<id, event>>
  BY <1>2 DEF KeySlots, Key
<1>6. \A i, j \in DOMAIN networkEntries : Key(networkEntries[i]) = Key(networkEntries[j]) => i = j
  BY DEF IInv, CacheIsLog, Key
<1>7. networkEntries' = IF slots = {} THEN Append(networkEntries, entry)
                        ELSE [networkEntries EXCEPT ![LeastSlot(slots)] = entry]
  BY DEF NetworkWritten, StoredStatus
<1>8. slots \subseteq DOMAIN networkEntries
  BY DEF KeySlots
<1> HIDE DEF slots, entry
<1>9. CASE slots = {}
  <2>1. networkEntries' = Append(networkEntries, entry)
    BY <1>7, <1>9
  <2>2. /\ networkEntries' \in Seq(NetworkEntry)
        /\ DOMAIN networkEntries' = DOMAIN networkEntries \cup {Len(networkEntries) + 1}
        /\ networkEntries'[Len(networkEntries) + 1] = entry
        /\ \A i \in DOMAIN networkEntries : networkEntries'[i] = networkEntries[i]
    <3>1. networkEntries \in Seq(NetworkEntry) /\ entry \in NetworkEntry
      BY <1>1, <1>3
    <3>2. /\ Append(networkEntries, entry) \in Seq(NetworkEntry)
          /\ DOMAIN Append(networkEntries, entry) = DOMAIN networkEntries \cup {Len(networkEntries) + 1}
          /\ Append(networkEntries, entry)[Len(networkEntries) + 1] = entry
          /\ \A i \in DOMAIN networkEntries : Append(networkEntries, entry)[i] = networkEntries[i]
      BY <3>1, SequenceFacts
    <3> QED BY <2>1, <3>2
  <2>3. \A i \in DOMAIN networkEntries : Key(networkEntries[i]) # Key(entry)
    BY <1>4, <1>5, <1>9
  <2>4. Keys(networkEntries')
          = Keys(networkEntries) \cup {<<id, event>>}
    BY <2>2, <1>4 DEF Keys
  <2>5. \A i, j \in DOMAIN networkEntries' :
          Key(networkEntries'[i]) = Key(networkEntries'[j]) => i = j
    BY <2>2, <2>3, <1>6
  <2> QED BY <2>2, <2>4, <2>5, <1>4
<1>10. CASE slots # {}
  <2>1. PICK s \in slots : TRUE
    BY <1>10
  <2>2. \A i \in slots : i = s
    BY <2>1, <1>5, <1>6, <1>8
  <2>3. LeastSlot(slots) = s
    <3>1. s \in slots /\ \A j \in slots : s <= j
      BY <2>1, <2>2, <1>1, <1>8
    <3>2. LeastSlot(slots) \in slots
      BY <3>1 DEF LeastSlot
    <3> QED BY <3>2, <2>2
  <2>4. s \in DOMAIN networkEntries /\ Key(networkEntries[s]) = <<id, event>>
    BY <2>1, <1>5, <1>8
  <2>5. networkEntries' = [networkEntries EXCEPT ![s] = entry]
    BY <1>7, <1>10, <2>3
  <2>6. /\ networkEntries' \in Seq(NetworkEntry)
        /\ DOMAIN networkEntries' = DOMAIN networkEntries
        /\ networkEntries'[s] = entry
        /\ \A i \in DOMAIN networkEntries : i # s => networkEntries'[i] = networkEntries[i]
    BY <2>4, <2>5, <1>1, <1>3
  <2>7. \A i \in DOMAIN networkEntries : Key(networkEntries'[i]) = Key(networkEntries[i])
    BY <2>4, <2>6, <1>4
  <2>8. Keys(networkEntries')
          = Keys(networkEntries) \cup {<<id, event>>}
    BY <2>4, <2>6, <2>7 DEF Keys
  <2>9. \A i, j \in DOMAIN networkEntries' :
          Key(networkEntries'[i]) = Key(networkEntries'[j]) => i = j
    BY <2>6, <2>7, <1>6
  <2>10. \A i \in DOMAIN networkEntries : Key(networkEntries[i]) # <<id, event>> =>
           i \in DOMAIN networkEntries' /\ networkEntries'[i] = networkEntries[i]
    BY <2>4, <2>6
  <2> QED BY <2>4, <2>6, <2>8, <2>9, <2>10, <1>4
<1> QED BY <1>9, <1>10

LEMMA TransmitStep ==
  ASSUME IInv, Transmit
  PROVE  IInv'
<1>0. PICK p, id : p = pending.payload /\ id = pending.id
  OBVIOUS
<1>1. /\ pending.to # << >> /\ pending' = [pending EXCEPT !.to = Tail(pending.to)]
      /\ UNCHANGED <<clients, messageId>>
      /\ wire' = [wire EXCEPT ![Head(pending.to)] =
                    Append(@, [id |-> pending.id, payload |-> pending.payload])]
      /\ p \in Cacheable
      /\ transmitted' = transmitted \cup {<<id, p>>}
      /\ transmissions' = [transmissions EXCEPT ![p] = transmissions[p] + 1]
      /\ UNCHANGED <<acks, received, collections>>
  BY <1>0 DEF Transmit
<1>2. PICK a \in ChecksumAddresses(p) :
        /\ ~ alreadySent(Head(pending.to), id, p, a)
        /\ heap' = [heap EXCEPT ![a] = p]
        /\ networkEntries' = NetworkWritten(networkEntries, ULONG_MAX, id, Event(p), "sent", a)
  BY <1>0 DEF Transmit, toNumber
<1>3. /\ Head(pending.to) \in Clients
      /\ pending # NoJob /\ id = messageId /\ id \in 1 .. MaxMessageId
      /\ pending'.id = id /\ pending'.payload = p
      /\ pending' \in [to : Seq(Connected'), payload : Payloads \cup {Free},
                       id : 0 .. messageId', leaver : Clients \cup {Nobody}]
      /\ Distinct(pending'.to) /\ JobIsNewest'
  BY <1>0, <1>1, TurnFacts
<1>4. wire' \in [Clients -> Seq(Packet)] /\ IdsAreOld' /\ IdsIncreaseOnWire'
  BY <1>1, WireFacts
<1>5. /\ heap' \in [Addresses -> Cacheable \cup {Free}]
      /\ a \in Addresses /\ heap'[a] = p
      /\ \A b \in Addresses : heap[b] # Free => heap'[b] = heap[b]
      /\ \A b \in Addresses : heap[b] = p => b = a
      /\ Interned'
  BY <1>1, <1>2, HeapFacts
<1>6. Event(p) \in CacheableEvents
  BY <1>1, ConstantFacts
<1>7. /\ networkEntries' \in Seq(NetworkEntry)
      /\ Keys(networkEntries')
           = Keys(networkEntries) \cup {<<id, Event(p)>>}
      /\ \A i, j \in DOMAIN networkEntries' :
           Key(networkEntries'[i]) = Key(networkEntries'[j]) => i = j
      /\ \A i \in DOMAIN networkEntries : Key(networkEntries[i]) # <<id, Event(p)>> =>
           i \in DOMAIN networkEntries' /\ networkEntries'[i] = networkEntries[i]
      /\ \E i \in DOMAIN networkEntries' :
           /\ networkEntries'[i].messageId = id /\ networkEntries'[i].dataChecksum = a
  <2>1. Clients # {}
    BY <1>3
  <2>2. id \in 1 .. MaxMessageId /\ Event(p) \in CacheableEvents /\ a \in Addresses
    BY <1>3, <1>5, <1>6
  <2>3. networkEntries' = NetworkWritten(networkEntries, ULONG_MAX, id, Event(p), "sent", a)
    BY <1>2
  <2> QED BY <2>1, <2>2, <2>3, WrittenFacts
<1>8. TypeOK'
  <2>1. transmitted' \subseteq (1 .. MaxMessageId) \X Cacheable
    BY <1>1, <1>3 DEF IInv, TypeOK
  <2>2. transmissions' \in [Payloads -> Nat]
    <3>1. transmissions \in [Payloads -> Nat]
      BY DEF IInv, TypeOK
    <3>2. p \in Payloads
      BY <1>1, ConstantFacts
    <3>3. transmissions[p] + 1 \in Nat
      BY <3>1, <3>2
    <3> QED BY <1>1, <3>1, <3>3
  <2> QED BY <1>1, <1>3, <1>4, <1>5, <1>7, <2>1, <2>2 DEF IInv, TypeOK
<1>9. CacheIsLog'
  <2>1. {<<networkEntries'[i].messageId, networkEntries'[i].event>> : i \in DOMAIN networkEntries'}
          = {<<t[1], Event(t[2])>> : t \in transmitted'}
    <3>1. Keys(networkEntries)
            = {<<t[1], Event(t[2])>> : t \in transmitted}
      BY DEF IInv, CacheIsLog, Key, Keys
    <3>2. {<<t[1], Event(t[2])>> : t \in transmitted'}
            = {<<t[1], Event(t[2])>> : t \in transmitted} \cup {<<id, Event(p)>>}
      <4>1. <<id, p>>[1] = id /\ <<id, p>>[2] = p
        OBVIOUS
      <4> QED BY <1>1, <4>1
    <3> QED BY <1>7, <3>1, <3>2 DEF Key, Keys
  <2> QED BY <2>1, <1>7 DEF CacheIsLog, Key
<1>10. IdsHaveOnePayload'
  <2>1. \A t \in transmitted : t = <<t[1], t[2]>>
    BY DEF IInv, TypeOK
  <2>2. \A t \in transmitted : t[1] <= messageId /\ (t[1] = id => t[2] = p)
    BY <1>0, <1>3 DEF IInv, IdsHaveOnePayload
  <2>3. \A t \in transmitted : t[1] = id => t = <<id, p>>
    BY <2>1, <2>2
  <2>4. \A s, t \in transmitted' : s[1] = t[1] => s = t
    BY <1>1, <2>3 DEF IInv, IdsHaveOnePayload
  <2>5. \A t \in transmitted' : t[1] <= messageId /\ (t[1] = id => t[2] = p)
    BY <1>1, <1>3, <2>2
  <2> QED BY <1>1, <1>3, <2>4, <2>5 DEF IdsHaveOnePayload
<1>11. Remembered(p)'
  <2>1. PICK i \in DOMAIN networkEntries' :
          networkEntries'[i].messageId = id /\ networkEntries'[i].dataChecksum = a
    BY <1>7
  <2>2. <<networkEntries'[i].messageId, p>> \in transmitted'
    BY <1>1, <2>1
  <2>3. heap'[a] = p /\ a \in Addresses
    BY <1>5
  <2> QED BY <2>1, <2>2, <2>3 DEF Remembered
<1>12. transmissions[p] # 1 + collections[p]
  <2>1. SUFFICES ASSUME Remembered(p) PROVE FALSE
    BY <1>1 DEF IInv, AtLimitRemembered
  <2>2. PICK b \in Addresses, i \in DOMAIN networkEntries :
          heap[b] = p /\ networkEntries[i].dataChecksum = b
    BY <2>1 DEF Remembered
  <2>3. b = a
    BY <2>2, <1>5
  <2>4. networkEntries[i].peerNum = ULONG_MAX
    BY EntryFacts DEF IInv
  <2> QED BY <2>2, <2>3, <2>4, <1>2 DEF alreadySent, ChecksumInCache, ChecksumSlots, toNumber
<1>13. ASSUME NEW q \in Cacheable, q # p, Remembered(q)
       PROVE  Remembered(q)'
  <2>1. PICK b \in Addresses, i \in DOMAIN networkEntries :
          /\ heap[b] = q /\ networkEntries[i].dataChecksum = b
          /\ <<networkEntries[i].messageId, q>> \in transmitted
    BY <1>13 DEF Remembered
  <2>2. networkEntries[i].messageId # id
    BY <2>1, <1>0, <1>3, <1>13 DEF IInv, IdsHaveOnePayload
  <2>3. i \in DOMAIN networkEntries' /\ networkEntries'[i] = networkEntries[i]
    BY <2>2, <1>7 DEF Key
  <2>4. heap'[b] = q
    BY <2>1, <1>5, ConstantFacts
  <2>5. <<networkEntries[i].messageId, q>> \in transmitted'
    BY <2>1, <1>1
  <2> QED BY <2>1, <2>3, <2>4, <2>5 DEF Remembered
<1>14. /\ \A q \in Cacheable : q # p => transmissions'[q] = transmissions[q]
       /\ transmissions'[p] = transmissions[p] + 1
       /\ \A q \in Cacheable : transmissions[q] \in Nat /\ collections[q] \in Nat
  BY <1>1, ConstantFacts, BoundAssumption DEF IInv, TypeOK
<1>15. TransmissionsBounded'
  BY <1>1, <1>12, <1>14 DEF IInv, TransmissionsBounded
<1>16. AtLimitRemembered'
  <2> SUFFICES ASSUME NEW q \in Cacheable, transmissions'[q] = 1 + collections'[q]
               PROVE  Remembered(q)'
    BY DEF AtLimitRemembered
  <2>1. CASE q = p
    BY <1>11, <2>1
  <2>2. CASE q # p
    <3>1. transmissions[q] = 1 + collections[q]
      BY <1>1, <1>14, <2>2
    <3>2. Remembered(q)
      BY <3>1 DEF IInv, AtLimitRemembered
    <3> QED BY <1>13, <2>2, <3>2
  <2> QED BY <2>1, <2>2
<1>17. Distinct(clients)'
  BY <1>1 DEF IInv
<1> QED BY <1>3, <1>4, <1>5, <1>8, <1>9, <1>10, <1>15, <1>16, <1>17 DEF IInv
LEMMA FinishStep ==
  ASSUME IInv, Finish
  PROVE  IInv'
<1>1. /\ pending' = NoJob /\ UNCHANGED <<clients, messageId, heap, wire, acks, received>>
  BY DEF Finish
<1>2. pending'.to = << >> /\ DOMAIN pending'.to = {}
  BY <1>1 DEF NoJob
<1>3. pending' \in [to : Seq(Connected'), payload : Payloads \cup {Free},
                    id : 0 .. messageId', leaver : Clients \cup {Nobody}]
  <2>1. << >> \in Seq(Connected') /\ messageId' \in Nat
    BY <1>1 DEF IInv, TypeOK
  <2> QED BY <1>1, <2>1 DEF NoJob
<1>4. Distinct(pending'.to) /\ JobIsNewest' /\ Distinct(clients)'
  BY <1>1, <1>2 DEF IInv, Distinct, JobIsNewest
<1>5. IdsAreOld' /\ IdsIncreaseOnWire' /\ Interned'
  BY <1>1, <1>2 DEF IInv, IdsAreOld, IdsIncreaseOnWire, Interned
<1>6. CASE pending.leaver # Nobody
  <2>1. /\ networkEntries' = Cleared(networkEntries, ULONG_MAX)
        /\ transmitted' = {}
        /\ transmissions' = [p \in Payloads |-> 0]
        /\ collections' = [p \in Payloads |-> 0]
    BY <1>6 DEF Finish, toNumber
  <2>2. networkEntries' = << >>
    <3>1. networkEntries \in Seq(NetworkEntry) /\ DOMAIN networkEntries = 1 .. Len(networkEntries)
          /\ Len(networkEntries) \in Nat
      BY DEF IInv, TypeOK
    <3>2. PeerSlots(networkEntries, ULONG_MAX) = DOMAIN networkEntries
      BY EntryFacts DEF IInv, PeerSlots
    <3>3. CASE networkEntries = << >>
      BY <2>1, <3>2, <3>3 DEF Cleared
    <3>4. CASE networkEntries # << >>
      <4>1. 1 \in DOMAIN networkEntries /\ \A j \in DOMAIN networkEntries : 1 <= j /\ j \in Nat
        BY <3>1, <3>4
      <4>2. LeastSlot(DOMAIN networkEntries) = 1
        <5>1. \E i \in DOMAIN networkEntries : \A j \in DOMAIN networkEntries : i <= j
          BY <4>1
        <5>2. /\ LeastSlot(DOMAIN networkEntries) \in DOMAIN networkEntries
              /\ \A j \in DOMAIN networkEntries : LeastSlot(DOMAIN networkEntries) <= j
          BY <5>1 DEF LeastSlot
        <5> QED BY <4>1, <5>2
      <4>3. networkEntries' = SubSeq(networkEntries, 1, 1 - 1)
        BY <2>1, <3>2, <4>1, <4>2 DEF Cleared
      <4> QED BY <3>1, <4>3
    <3> QED BY <3>3, <3>4
  <2>3. TypeOK'
    <3>1. networkEntries' \in Seq(NetworkEntry)
      BY <2>2
    <3>2. 0 \in 0 .. MaxCollections
      BY BoundAssumption
    <3> QED BY <1>1, <1>3, <2>1, <3>1, <3>2 DEF IInv, TypeOK
  <2>4. CacheIsLog' /\ IdsHaveOnePayload'
    <3>1. DOMAIN networkEntries' = {}
      BY <2>2
    <3> QED BY <2>1, <3>1 DEF CacheIsLog, IdsHaveOnePayload
  <2>5. \A p \in Cacheable : transmissions'[p] = 0 /\ collections'[p] = 0
    BY <2>1, ConstantFacts
  <2>6. TransmissionsBounded' /\ AtLimitRemembered'
    BY <2>5 DEF TransmissionsBounded, AtLimitRemembered
  <2> QED BY <1>4, <1>5, <2>3, <2>4, <2>6 DEF IInv
<1>7. CASE pending.leaver = Nobody
  <2>1. UNCHANGED <<networkEntries, transmitted, transmissions, collections>>
    BY <1>7 DEF Finish
  <2>2. TypeOK'
    BY <1>1, <1>3, <2>1 DEF IInv, TypeOK
  <2>3. (CacheIsLog /\ TransmissionsBounded /\ AtLimitRemembered)'
    BY <1>1, <2>1 DEF IInv, CacheIsLog, TransmissionsBounded, AtLimitRemembered, Remembered
  <2>4. IdsHaveOnePayload'
    BY <1>1, <2>1 DEF IInv, IdsHaveOnePayload
  <2> QED BY <1>4, <1>5, <2>2, <2>3, <2>4 DEF IInv
<1> QED BY <1>6, <1>7

\* A peer is gone: its queues are empty.
LEMMA GoneFacts ==
  ASSUME IInv, NEW c \in Clients,
         wire' = [wire EXCEPT ![c] = << >>], acks' = [acks EXCEPT ![c] = << >>]
  PROVE  /\ wire' \in [Clients -> Seq(Packet)]
         /\ acks' \in [Clients -> Seq(1 .. MaxMessageId)]
         /\ \A d \in Clients : \/ wire'[d] = wire[d]
                               \/ wire'[d] = << >> /\ DOMAIN wire'[d] = {}
         /\ IdsIncreaseOnWire'
<1>1. wire' \in [Clients -> Seq(Packet)] /\ acks' \in [Clients -> Seq(1 .. MaxMessageId)]
  BY DEF IInv, TypeOK
<1>2. \A d \in Clients : \/ wire'[d] = wire[d]
                         \/ wire'[d] = << >> /\ DOMAIN wire'[d] = {}
  BY DEF IInv, TypeOK
<1>3. IdsIncreaseOnWire'
  BY <1>2 DEF IInv, IdsIncreaseOnWire
<1> QED BY <1>1, <1>2, <1>3

LEMMA DisconnectStep ==
  ASSUME IInv, NEW c \in Clients, NEW p \in Cacheable, Disconnect(c, p)
  PROVE  IInv'
<1>1. /\ pending = NoJob /\ c \in Connected
      /\ clients' = But(c)
      /\ Job(But(c), p, c)
      /\ wire' = [wire EXCEPT ![c] = << >>] /\ acks' = [acks EXCEPT ![c] = << >>]
      /\ UNCHANGED <<networkEntries, heap, received, transmitted, transmissions, collections>>
  BY DEF Disconnect
<1>2. But(c) \in Seq(Connected \ {c}) /\ But(c) \in Seq(Clients) /\ Distinct(But(c))
  BY <1>1, ButFacts DEF IInv
<1>3. But(c) \in Seq(Connected) /\ p \in Payloads
  BY <1>2, ConstantFacts
<1>4. /\ messageId' \in 0 .. MaxMessageId /\ messageId' = messageId + 1
      /\ pending' = [to |-> But(c), payload |-> p, id |-> messageId + 1, leaver |-> c]
      /\ pending' # NoJob
      /\ Distinct(pending'.to) /\ JobIsNewest'
      /\ \A t \in transmitted : t[1] # pending'.id /\ t[1] <= messageId'
  BY <1>1, <1>2, <1>3, JobStarts
<1>5. messageId \in Nat
  BY DEF IInv, TypeOK
<1>6. /\ wire' \in [Clients -> Seq(Packet)] /\ acks' \in [Clients -> Seq(1 .. MaxMessageId)]
      /\ \A d \in Clients : \/ wire'[d] = wire[d]
                            \/ wire'[d] = << >> /\ DOMAIN wire'[d] = {}
      /\ IdsIncreaseOnWire'
  BY <1>1, GoneFacts
<1>7. TypeOK'
  <2>1. But(c) \in Seq(Connected')
    BY <1>1, <1>2, RangeFacts DEF Connected
  <2>2. pending' \in [to : Seq(Connected'), payload : Payloads \cup {Free},
                      id : 0 .. messageId', leaver : Clients \cup {Nobody}]
    BY <1>3, <1>4, <1>5, <2>1
  <2> QED BY <1>1, <1>2, <1>4, <1>6, <2>2 DEF IInv, TypeOK
<1>8. IdsAreOld'
  <2>1. \A d \in Clients : \A i \in DOMAIN wire'[d] :
          wire'[d][i].id <= messageId /\ wire'[d][i].id \in Nat
    BY <1>6, PacketFacts DEF IInv, IdsAreOld
  <2>2. \A k \in DOMAIN But(c) : But(c)[k] \in Clients
    BY <1>2
  <2> QED BY <1>4, <1>5, <2>1, <2>2 DEF IdsAreOld
<1>9. IdsHaveOnePayload'
  BY <1>1, <1>4 DEF IInv, IdsHaveOnePayload
<1>10. (CacheIsLog /\ Interned /\ TransmissionsBounded /\ AtLimitRemembered)'
  BY <1>1 DEF IInv, CacheIsLog, Interned, TransmissionsBounded, AtLimitRemembered, Remembered
<1>11. Distinct(clients)'
  BY <1>1, <1>2 DEF Distinct
<1> QED BY <1>4, <1>6, <1>7, <1>8, <1>9, <1>10, <1>11 DEF IInv

LEMMA AbortedStep ==
  ASSUME IInv, NEW c \in Clients, DisconnectAborted(c)
  PROVE  IInv'
<1>1. /\ pending = NoJob /\ c \in Connected
      /\ messageId < MaxMessageId /\ messageId' = messageId + 1
      /\ clients' = But(c)
      /\ wire' = [wire EXCEPT ![c] = << >>] /\ acks' = [acks EXCEPT ![c] = << >>]
      /\ UNCHANGED <<pending, networkEntries, heap, received, transmitted, transmissions, collections>>
  BY DEF DisconnectAborted
<1>2. But(c) \in Seq(Clients) /\ Distinct(But(c))
  BY <1>1, ButFacts DEF IInv
<1>3. messageId \in Nat /\ messageId' \in 0 .. MaxMessageId /\ messageId' \in Nat
  BY <1>1, BoundAssumption DEF IInv, TypeOK
<1>4. /\ wire' \in [Clients -> Seq(Packet)] /\ acks' \in [Clients -> Seq(1 .. MaxMessageId)]
      /\ \A d \in Clients : \/ wire'[d] = wire[d]
                            \/ wire'[d] = << >> /\ DOMAIN wire'[d] = {}
      /\ IdsIncreaseOnWire'
  BY <1>1, GoneFacts
<1>5. TypeOK'
  <2>1. pending' \in [to : Seq(Connected'), payload : Payloads \cup {Free},
                      id : 0 .. messageId', leaver : Clients \cup {Nobody}]
    BY <1>1, <1>3 DEF NoJob
  <2> QED BY <1>1, <1>2, <1>3, <1>4, <2>1 DEF IInv, TypeOK
<1>6. IdsAreOld'
  <2>1. \A d \in Clients : \A i \in DOMAIN wire'[d] :
          wire'[d][i].id <= messageId /\ wire'[d][i].id \in Nat
    BY <1>4, PacketFacts DEF IInv, IdsAreOld
  <2>2. DOMAIN pending'.to = {}
    BY <1>1 DEF NoJob
  <2> QED BY <1>1, <1>3, <2>1, <2>2 DEF IdsAreOld
<1>7. IdsHaveOnePayload'
  <2>1. \A t \in transmitted : t[1] <= messageId /\ t[1] \in Nat
    <3>1. \A t \in transmitted : t[1] \in 1 .. MaxMessageId
      BY DEF IInv, TypeOK
    <3> QED BY <3>1, BoundAssumption DEF IInv, IdsHaveOnePayload
  <2> QED BY <1>1, <1>3, <2>1 DEF IInv, IdsHaveOnePayload
<1>8. (CacheIsLog /\ Interned /\ TransmissionsBounded /\ AtLimitRemembered)'
  BY <1>1 DEF IInv, CacheIsLog, Interned, TransmissionsBounded, AtLimitRemembered, Remembered
<1>9. Distinct(clients)' /\ Distinct(pending'.to) /\ JobIsNewest'
  BY <1>1, <1>2 DEF IInv, Distinct, JobIsNewest
<1> QED BY <1>4, <1>5, <1>6, <1>7, <1>8, <1>9 DEF IInv

LEMMA ConnectStep ==
  ASSUME IInv, NEW c \in Clients, Connect(c)
  PROVE  IInv'
<1>1. /\ pending = NoJob /\ c \notin Connected
      /\ clients' = Append(clients, c)
      /\ received' = [received EXCEPT ![c] = {}]
      /\ UNCHANGED <<messageId, pending, networkEntries, heap, wire, acks,
                     transmitted, transmissions, collections>>
  BY DEF Connect
<1>2. /\ clients' \in Seq(Clients)
      /\ DOMAIN clients' = DOMAIN clients \cup {Len(clients) + 1}
      /\ clients'[Len(clients) + 1] = c
      /\ \A i \in DOMAIN clients : clients'[i] = clients[i]
  BY <1>1, SequenceFacts DEF IInv, TypeOK
<1>3. Distinct(clients)'
  BY <1>1, <1>2 DEF IInv, Distinct, Connected
<1>4. TypeOK'
  <2>1. pending' \in [to : Seq(Connected'), payload : Payloads \cup {Free},
                      id : 0 .. messageId', leaver : Clients \cup {Nobody}]
    <3>1. messageId \in Nat
      BY DEF IInv, TypeOK
    <3> QED BY <1>1, <3>1 DEF NoJob
  <2> QED BY <1>1, <1>2, <2>1 DEF IInv, TypeOK
<1>5. (/\ Distinct(pending.to) /\ JobIsNewest /\ IdsAreOld /\ IdsIncreaseOnWire
       /\ CacheIsLog /\ Interned /\ IdsHaveOnePayload)'
  BY <1>1
  DEF IInv, Distinct, JobIsNewest, IdsAreOld, IdsIncreaseOnWire, CacheIsLog, Interned, IdsHaveOnePayload
<1>6. (TransmissionsBounded /\ AtLimitRemembered)'
  BY <1>1 DEF IInv, TransmissionsBounded, AtLimitRemembered, Remembered
<1> QED BY <1>3, <1>4, <1>5, <1>6 DEF IInv

LEMMA ReceiveStep ==
  ASSUME IInv, NEW c \in Clients, Receive(c)
  PROVE  IInv'
<1>1. /\ wire[c] # << >>
      /\ wire' = [wire EXCEPT ![c] = Tail(wire[c])]
      /\ received' = [received EXCEPT ![c] = received[c] \cup {Head(wire[c]).payload}]
      /\ acks' = [acks EXCEPT ![c] = Append(acks[c], Head(wire[c]).id)] \/ acks' = acks
      /\ UNCHANGED <<clients, messageId, pending, networkEntries, heap,
                     transmitted, transmissions, collections>>
  BY DEF Receive
<1>2. wire[c] \in Seq(Packet) /\ acks[c] \in Seq(1 .. MaxMessageId)
  BY DEF IInv, TypeOK
<1>3. /\ Head(wire[c]) \in Packet /\ Tail(wire[c]) \in Seq(Packet)
      /\ \A i \in DOMAIN Tail(wire[c]) :
           i + 1 \in DOMAIN wire[c] /\ Tail(wire[c])[i] = wire[c][i + 1] /\ i \in Nat
  BY <1>1, <1>2, SequenceFacts
<1>4. Head(wire[c]).id \in 1 .. MaxMessageId /\ Head(wire[c]).payload \in Payloads
  BY <1>3 DEF Packet
<1>5. /\ wire' \in [Clients -> Seq(Packet)]
      /\ wire'[c] = Tail(wire[c]) /\ \A d \in Clients : d # c => wire'[d] = wire[d]
  BY <1>1, <1>3 DEF IInv, TypeOK
<1>6. acks' \in [Clients -> Seq(1 .. MaxMessageId)]
  <2>1. Append(acks[c], Head(wire[c]).id) \in Seq(1 .. MaxMessageId)
    BY <1>2, <1>4, SequenceFacts
  <2> QED BY <1>1, <2>1 DEF IInv, TypeOK
<1>7. received' \in [Clients -> SUBSET Payloads]
  BY <1>1, <1>4 DEF IInv, TypeOK
<1>8. Connected' = Connected
  BY <1>1 DEF Connected
<1>9. TypeOK'
  BY <1>1, <1>5, <1>6, <1>7, <1>8 DEF IInv, TypeOK
<1>10. IdsAreOld'
  <2>1. \A d \in Clients : \A i \in DOMAIN wire'[d] :
          \E j \in DOMAIN wire[d] : wire'[d][i] = wire[d][j]
    BY <1>3, <1>5
  <2>2. \A k \in DOMAIN pending.to : pending.to[k] \in Clients
    BY DEF IInv, TypeOK, Connected
  <2>3. \A d \in Clients : \A i \in DOMAIN wire'[d] : wire'[d][i].id <= messageId
    BY <2>1 DEF IInv, IdsAreOld
  <2>4. \A k \in DOMAIN pending.to : \A i \in DOMAIN wire'[pending.to[k]] :
          wire'[pending.to[k]][i].id < pending.id
    BY <2>1, <2>2 DEF IInv, IdsAreOld
  <2> QED BY <1>1, <2>3, <2>4 DEF IdsAreOld
<1>11. IdsIncreaseOnWire'
  <2>1. \A i, j \in DOMAIN Tail(wire[c]) : i < j => Tail(wire[c])[i].id < Tail(wire[c])[j].id
    BY <1>3 DEF IInv, IdsIncreaseOnWire
  <2> QED BY <1>5, <2>1 DEF IInv, IdsIncreaseOnWire
<1>12. (/\ Distinct(clients) /\ Distinct(pending.to) /\ JobIsNewest
        /\ CacheIsLog /\ Interned /\ IdsHaveOnePayload)'
  BY <1>1 DEF IInv, Distinct, JobIsNewest, CacheIsLog, Interned, IdsHaveOnePayload
<1>13. (TransmissionsBounded /\ AtLimitRemembered)'
  BY <1>1 DEF IInv, TransmissionsBounded, AtLimitRemembered, Remembered
<1> QED BY <1>9, <1>10, <1>11, <1>12, <1>13 DEF IInv

LEMMA CollectStep ==
  ASSUME IInv, NEW a \in Addresses, Collect(a)
  PROVE  IInv'
<1>1. /\ heap[a] # Free /\ collections[heap[a]] < MaxCollections
      /\ collections' = [collections EXCEPT ![heap[a]] = collections[heap[a]] + 1]
      /\ heap' = [heap EXCEPT ![a] = Free]
      /\ UNCHANGED <<clients, messageId, pending, networkEntries, wire, acks,
                     received, transmitted, transmissions>>
  BY DEF Collect
<1>2. heap \in [Addresses -> Cacheable \cup {Free}] /\ collections \in [Payloads -> 0 .. MaxCollections]
      /\ MaxCollections \in Nat
  BY BoundAssumption DEF IInv, TypeOK
<1>3. heap[a] \in Cacheable /\ heap[a] \in Payloads
  BY <1>1, <1>2, ConstantFacts
<1>4. /\ heap' \in [Addresses -> Cacheable \cup {Free}]
      /\ \A b \in Addresses : heap'[b] = IF b = a THEN Free ELSE heap[b]
  BY <1>1, <1>2
<1>5. /\ collections' \in [Payloads -> 0 .. MaxCollections]
      /\ collections'[heap[a]] = collections[heap[a]] + 1
      /\ \A p \in Payloads : p # heap[a] => collections'[p] = collections[p]
      /\ \A p \in Payloads : collections[p] \in Nat
  BY <1>1, <1>2, <1>3
<1>6. Connected' = Connected
  BY <1>1 DEF Connected
<1>7. TypeOK'
  BY <1>1, <1>4, <1>5, <1>6 DEF IInv, TypeOK
<1>8. Interned'
  BY <1>4 DEF IInv, Interned
<1>9. \A p \in Cacheable : transmissions[p] \in Nat
  BY ConstantFacts DEF IInv, TypeOK
<1>10. TransmissionsBounded'
  BY <1>1, <1>3, <1>5, <1>9, ConstantFacts DEF IInv, TransmissionsBounded
<1>11. AtLimitRemembered'
  <2> SUFFICES ASSUME NEW p \in Cacheable, transmissions[p] = 1 + collections'[p]
               PROVE  Remembered(p)'
    BY <1>1 DEF AtLimitRemembered
  <2>1. p # heap[a]
    BY <1>3, <1>5, <1>9 DEF IInv, TransmissionsBounded
  <2>2. Remembered(p)
    BY <1>5, <2>1, ConstantFacts DEF IInv, AtLimitRemembered
  <2> QED BY <1>1, <1>4, <2>1, <2>2 DEF Remembered
<1>12. (/\ Distinct(clients) /\ Distinct(pending.to) /\ JobIsNewest /\ IdsAreOld
        /\ IdsIncreaseOnWire /\ CacheIsLog /\ IdsHaveOnePayload)'
  BY <1>1
  DEF IInv, Distinct, JobIsNewest, IdsAreOld, IdsIncreaseOnWire, CacheIsLog, IdsHaveOnePayload
<1> QED BY <1>7, <1>8, <1>10, <1>11, <1>12 DEF IInv

\* What changes nothing but the acknowledgements.
LEMMA QuietStep ==
  ASSUME IInv, acks' \in [Clients -> Seq(1 .. MaxMessageId)],
         UNCHANGED <<clients, messageId, pending, networkEntries, heap, wire,
                     received, transmitted, transmissions, collections>>
  PROVE  IInv'
<1>1. Connected' = Connected
  BY DEF Connected
<1>2. TypeOK'
  BY <1>1 DEF IInv, TypeOK
<1>3. (/\ Distinct(clients) /\ Distinct(pending.to) /\ JobIsNewest /\ IdsAreOld
       /\ IdsIncreaseOnWire /\ CacheIsLog /\ Interned /\ IdsHaveOnePayload)'
  BY DEF IInv, Distinct, JobIsNewest, IdsAreOld, IdsIncreaseOnWire, CacheIsLog, Interned, IdsHaveOnePayload
<1>4. (TransmissionsBounded /\ AtLimitRemembered)'
  BY DEF IInv, TransmissionsBounded, AtLimitRemembered, Remembered
<1> QED BY <1>2, <1>3, <1>4 DEF IInv
----------------------------------------------------------------------------
LEMMA NextStep ==
  ASSUME IInv, [Next]_vars
  PROVE  IInv'
<1>1. ASSUME NEW c \in Clients,
             Connect(c) \/ Receive(c) \/ OnAcknowledgement(c) \/ DisconnectAborted(c)
      PROVE  IInv'
  <2>1. CASE OnAcknowledgement(c)
    <3>1. acks[c] \in Seq(1 .. MaxMessageId) /\ acks[c] # << >>
      BY <2>1 DEF OnAcknowledgement, IInv, TypeOK
    <3>2. Tail(acks[c]) \in Seq(1 .. MaxMessageId)
      BY <3>1, SequenceFacts
    <3>3. acks' \in [Clients -> Seq(1 .. MaxMessageId)]
      BY <2>1, <3>2 DEF OnAcknowledgement, IInv, TypeOK
    <3> QED BY <2>1, <3>3, QuietStep DEF OnAcknowledgement
  <2> QED BY <1>1, <2>1, ConnectStep, ReceiveStep, AbortedStep
<1>2. ASSUME NEW c \in Clients, NEW p \in Payloads, Send(c, p) \/ SendToAllBut(c, p)
      PROVE  IInv'
  <2>1. CASE Send(c, p)
    <3>1. <<c>> \in Seq(Connected) /\ Distinct(<<c>>)
      BY <2>1 DEF Send, Distinct
    <3> QED BY <2>1, <3>1, StartStep DEF Send
  <2>2. CASE SendToAllBut(c, p)
    <3>1. But(c) \in Seq(Connected \ {c}) /\ Distinct(But(c))
      BY <2>2, ButFacts DEF SendToAllBut, IInv
    <3>2. But(c) \in Seq(Connected)
      BY <3>1
    <3> QED BY <2>2, <3>1, <3>2, StartStep DEF SendToAllBut
  <2> QED BY <1>2, <2>1, <2>2
<1>3. ASSUME NEW p \in Payloads, SendToAll(p)
      PROVE  IInv'
  <2>1. clients \in Seq(Connected) /\ Distinct(clients)
    BY RangeFacts DEF IInv, TypeOK, Connected
  <2> QED BY <1>3, <2>1, StartStep DEF SendToAll
<1>4. CASE UNCHANGED vars
  <2>1. acks' \in [Clients -> Seq(1 .. MaxMessageId)]
    BY <1>4 DEF vars, IInv, TypeOK
  <2> QED BY <1>4, <2>1, QuietStep DEF vars
<1> QED
  BY <1>1, <1>2, <1>3, <1>4, DisconnectStep, UncacheableStep, SuppressStep, TransmitStep,
     FinishStep, CollectStep DEF Next

LEMMA InitHolds ==
  ASSUME Init
  PROVE  IInv
<1>1. pending.to = << >> /\ pending = NoJob /\ messageId = 0 /\ transmitted = {}
      /\ networkEntries = << >> /\ clients = << >>
  BY DEF Init, NoJob
<1>2. TypeOK
  <2>1. pending \in [to : Seq(Connected), payload : Payloads \cup {Free},
                     id : 0 .. messageId, leaver : Clients \cup {Nobody}]
    BY <1>1 DEF NoJob
  <2>2. 0 \in 0 .. MaxMessageId /\ 0 \in 0 .. MaxCollections
    BY BoundAssumption
  <2> QED BY <2>1, <2>2 DEF Init, TypeOK
<1>3. DOMAIN pending.to = {} /\ DOMAIN clients = {} /\ DOMAIN networkEntries = {}
      /\ \A c \in Clients : DOMAIN wire[c] = {}
  BY <1>1 DEF Init
<1>4. Distinct(clients) /\ Distinct(pending.to) /\ JobIsNewest /\ IdsAreOld
      /\ IdsIncreaseOnWire /\ IdsHaveOnePayload
  BY <1>1, <1>3 DEF Distinct, JobIsNewest, IdsAreOld, IdsIncreaseOnWire, IdsHaveOnePayload
<1>5. CacheIsLog /\ Interned
  BY <1>1, <1>3 DEF Init, CacheIsLog, Interned
<1>6. \A p \in Cacheable : transmissions[p] = 0 /\ collections[p] = 0
  BY ConstantFacts DEF Init
<1>7. TransmissionsBounded /\ AtLimitRemembered
  BY <1>6 DEF TransmissionsBounded, AtLimitRemembered
<1> QED BY <1>2, <1>4, <1>5, <1>7 DEF IInv

LEMMA Invariance == Spec => []IInv
<1>1. Init => IInv
  BY InitHolds
<1>2. IInv /\ [Next]_vars => IInv'
  BY NextStep
<1> QED BY <1>1, <1>2, PTL DEF Spec

----------------------------------------------------------------------------
(***************************************************************************)
(* What is left of "was already sent" (NetworkUtils.lua:185): an entry was *)
(* made by a transmission, and its address is that of the checksum of what *)
(* was transmitted until that string is collected.                         *)
(***************************************************************************)
EntriesNameSent ==
  \A i \in DOMAIN networkEntries :
    /\ networkEntries[i].status = "sent"
    /\ \E t \in transmitted :
         /\ t[1] = networkEntries[i].messageId
         /\ collections[t[2]] = 0 => heap[networkEntries[i].dataChecksum] = t[2]

\* A client is skipped for a payload that went out since the last clear, to
\* whichever client, or else the checksum of another payload was collected
\* since, and its address may be the one that was found.
SkippedIsOld ==
  [][Suppress => \/ \E t \in transmitted : t[2] = pending.payload
                 \/ \E q \in Cacheable \ {pending.payload} : collections[q] > 0]_vars

LEMMA WrittenEntries ==
  ASSUME TypeOK, NEW id, NEW event, NEW a,
         networkEntries' = NetworkWritten(networkEntries, ULONG_MAX, id, event, "sent", a)
  PROVE  \A i \in DOMAIN networkEntries' :
           \/ i \in DOMAIN networkEntries /\ networkEntries'[i] = networkEntries[i]
           \/ /\ networkEntries'[i].messageId = id
              /\ networkEntries'[i].status = "sent"
              /\ networkEntries'[i].dataChecksum = a
<1> DEFINE slots == KeySlots(networkEntries, ULONG_MAX, event, id)
           entry == [messageId |-> id, peerNum |-> ULONG_MAX, event |-> event,
                     status |-> "sent", dataChecksum |-> a]
<1>1. networkEntries' = IF slots = {} THEN Append(networkEntries, entry)
                        ELSE [networkEntries EXCEPT ![LeastSlot(slots)] = entry]
  BY DEF NetworkWritten, StoredStatus
<1>2. entry.messageId = id /\ entry.status = "sent" /\ entry.dataChecksum = a
  OBVIOUS
<1>3. networkEntries \in Seq(NetworkEntry)
  BY DEF TypeOK
<1> HIDE DEF slots, entry
<1>4. CASE slots = {}
  <2>1. networkEntries' = Append(networkEntries, entry)
    BY <1>1, <1>4
  <2>2. /\ DOMAIN networkEntries = 1 .. Len(networkEntries) /\ Len(networkEntries) \in Nat
        /\ DOMAIN Append(networkEntries, entry) = 1 .. Len(networkEntries) + 1
        /\ \A i \in 1 .. Len(networkEntries) + 1 :
             Append(networkEntries, entry)[i]
               = IF i = Len(networkEntries) + 1 THEN entry ELSE networkEntries[i]
    BY <1>3
  <2> QED BY <2>1, <2>2, <1>2
<1>5. CASE slots # {}
  <2>1. networkEntries' = [networkEntries EXCEPT ![LeastSlot(slots)] = entry]
    BY <1>1, <1>5
  <2>2. /\ DOMAIN networkEntries' = DOMAIN networkEntries
        /\ \A i \in DOMAIN networkEntries' :
             networkEntries'[i] = entry \/ networkEntries'[i] = networkEntries[i]
    BY <2>1
  <2> QED BY <2>2, <1>2
<1> QED BY <1>4, <1>5

LEMMA SentFacts ==
  ASSUME TypeOK
  PROVE  \A t \in transmitted : t[2] \in Cacheable /\ t[2] # Free /\ collections[t[2]] \in Nat
<1>1. \A t \in transmitted : t[2] \in Cacheable
  BY DEF TypeOK
<1>2. \A p \in Cacheable : p # Free /\ p \in Payloads
  BY ConstantFacts
<1>3. \A p \in Payloads : collections[p] \in Nat
  BY BoundAssumption DEF TypeOK
<1> QED BY <1>1, <1>2, <1>3

\* A turn that skips its client leaves the strings that live where they are,
\* and so does one that transmits, which adds the entry of what it sends.
LEMMA TurnKeepsEntries ==
  ASSUME IInv, EntriesNameSent, Suppress \/ Transmit
  PROVE  EntriesNameSent'
<1>0. PICK p, id : p = pending.payload /\ id = pending.id
  OBVIOUS
<1>1. p \in Cacheable /\ collections' = collections /\ transmitted \subseteq transmitted'
  BY <1>0 DEF Suppress, Transmit
<1>2. PICK a \in ChecksumAddresses(p) :
        /\ heap' = [heap EXCEPT ![a] = p]
        /\ \/ networkEntries' = networkEntries
           \/ /\ networkEntries' = NetworkWritten(networkEntries, ULONG_MAX, id, Event(p), "sent", a)
              /\ <<id, p>> \in transmitted'
  BY <1>0 DEF Suppress, Transmit, toNumber
<1>3. heap'[a] = p /\ \A b \in Addresses : heap[b] # Free => heap'[b] = heap[b]
  BY <1>1, <1>2, HeapFacts
<1>4. \A i \in DOMAIN networkEntries : networkEntries[i].dataChecksum \in Addresses
  <2>1. \A entry \in NetworkEntry : entry.dataChecksum \in Addresses
    BY DEF NetworkEntry
  <2> QED BY <2>1, EntryFacts DEF IInv
<1>5. ASSUME NEW i \in DOMAIN networkEntries', i \in DOMAIN networkEntries,
             networkEntries'[i] = networkEntries[i]
      PROVE  /\ networkEntries'[i].status = "sent"
             /\ \E t \in transmitted' :
                  /\ t[1] = networkEntries'[i].messageId
                  /\ collections'[t[2]] = 0 => heap'[networkEntries'[i].dataChecksum] = t[2]
  <2>1. networkEntries[i].status = "sent"
    BY <1>5 DEF EntriesNameSent
  <2>2. PICK t \in transmitted :
          /\ t[1] = networkEntries[i].messageId
          /\ collections[t[2]] = 0 => heap[networkEntries[i].dataChecksum] = t[2]
    BY <1>5 DEF EntriesNameSent
  <2>3. t[2] # Free
    BY SentFacts DEF IInv
  <2>4. collections'[t[2]] = 0 => heap'[networkEntries[i].dataChecksum] = t[2]
    BY <1>1, <1>3, <1>4, <1>5, <2>2, <2>3
  <2> QED BY <1>1, <1>5, <2>1, <2>2, <2>4
<1>6. CASE networkEntries' = networkEntries
  BY <1>5, <1>6 DEF EntriesNameSent
<1>7. CASE /\ networkEntries' = NetworkWritten(networkEntries, ULONG_MAX, id, Event(p), "sent", a)
           /\ <<id, p>> \in transmitted'
  <2>1. ASSUME NEW i \in DOMAIN networkEntries', networkEntries'[i].messageId = id,
               networkEntries'[i].status = "sent", networkEntries'[i].dataChecksum = a
        PROVE  \E t \in transmitted' :
                 /\ t[1] = networkEntries'[i].messageId
                 /\ collections'[t[2]] = 0 => heap'[networkEntries'[i].dataChecksum] = t[2]
    <3>1. <<id, p>>[1] = id /\ <<id, p>>[2] = p
      OBVIOUS
    <3> QED BY <1>3, <1>7, <2>1, <3>1
  <2>2. \A i \in DOMAIN networkEntries' :
          \/ i \in DOMAIN networkEntries /\ networkEntries'[i] = networkEntries[i]
          \/ /\ networkEntries'[i].messageId = id
             /\ networkEntries'[i].status = "sent"
             /\ networkEntries'[i].dataChecksum = a
    BY <1>7, WrittenEntries DEF IInv
  <2> QED BY <1>5, <2>1, <2>2 DEF EntriesNameSent
<1> QED BY <1>2, <1>6, <1>7

LEMMA CollectKeepsEntries ==
  ASSUME IInv, EntriesNameSent, NEW a \in Addresses, Collect(a)
  PROVE  EntriesNameSent'
<1>1. /\ heap[a] # Free /\ UNCHANGED <<networkEntries, transmitted>>
      /\ collections' = [collections EXCEPT ![heap[a]] = collections[heap[a]] + 1]
      /\ heap' = [heap EXCEPT ![a] = Free]
  BY DEF Collect
<1>2. \A b \in Addresses : b # a => heap'[b] = heap[b]
  BY <1>1 DEF IInv, TypeOK
<1>3. /\ collections'[heap[a]] = collections[heap[a]] + 1
      /\ collections[heap[a]] \in Nat
      /\ \A p \in Payloads : p # heap[a] => collections'[p] = collections[p]
  <2>1. heap[a] \in Payloads
    BY <1>1, ConstantFacts DEF IInv, TypeOK
  <2>2. collections \in [Payloads -> 0 .. MaxCollections] /\ MaxCollections \in Nat
    BY BoundAssumption DEF IInv, TypeOK
  <2> QED BY <1>1, <2>1, <2>2
<1>4. \A t \in transmitted : t[2] \in Payloads
  BY SentFacts, ConstantFacts DEF IInv
<1>5. \A i \in DOMAIN networkEntries : networkEntries[i].dataChecksum \in Addresses
  <2>1. \A entry \in NetworkEntry : entry.dataChecksum \in Addresses
    BY DEF NetworkEntry
  <2> QED BY <2>1, EntryFacts DEF IInv
<1>6. ASSUME NEW i \in DOMAIN networkEntries
      PROVE  \E t \in transmitted :
               /\ t[1] = networkEntries[i].messageId
               /\ collections'[t[2]] = 0 => heap'[networkEntries[i].dataChecksum] = t[2]
  <2>1. PICK t \in transmitted :
          /\ t[1] = networkEntries[i].messageId
          /\ collections[t[2]] = 0 => heap[networkEntries[i].dataChecksum] = t[2]
    BY DEF EntriesNameSent
  <2>2. ASSUME collections'[t[2]] = 0
        PROVE  heap'[networkEntries[i].dataChecksum] = t[2]
    <3>1. t[2] # heap[a]
      BY <1>3, <2>2
    <3>2. collections[t[2]] = 0
      BY <1>3, <1>4, <2>2, <3>1
    <3>3. heap[networkEntries[i].dataChecksum] = t[2]
      BY <2>1, <3>2
    <3> QED BY <1>2, <1>5, <3>1, <3>3
  <2> QED BY <2>1, <2>2
<1> QED BY <1>1, <1>6 DEF EntriesNameSent

\* The clear empties the cache (FinishStep); nothing else touches entries,
\* strings or what was transmitted.
LEMMA StepKeepsEntries ==
  ASSUME IInv, EntriesNameSent, [Next]_vars
  PROVE  EntriesNameSent'
<1>1. CASE UNCHANGED <<networkEntries, heap, transmitted, collections>>
  BY <1>1 DEF EntriesNameSent
<1>2. CASE Finish
  <2>1. CASE pending.leaver # Nobody
    <3>1. networkEntries' = Cleared(networkEntries, ULONG_MAX) /\ transmitted' = {}
      BY <1>2, <2>1 DEF Finish, toNumber
    <3>2. IInv'
      BY <1>2, FinishStep
    <3>3. DOMAIN networkEntries' = {}
      <4>1. {<<networkEntries'[i].messageId, networkEntries'[i].event>> : i \in DOMAIN networkEntries'}
              = {<<t[1], Event(t[2])>> : t \in transmitted'}
        BY <3>2 DEF IInv, CacheIsLog
      <4>2. {<<t[1], Event(t[2])>> : t \in transmitted'} = {}
        BY <3>1
      <4> QED BY <4>1, <4>2
    <3> QED BY <3>3 DEF EntriesNameSent
  <2>2. CASE pending.leaver = Nobody
    BY <1>1, <1>2, <2>2 DEF Finish
  <2> QED BY <2>1, <2>2
<1>3. ASSUME NEW c \in Clients,
             Connect(c) \/ Receive(c) \/ OnAcknowledgement(c) \/ DisconnectAborted(c)
      PROVE  EntriesNameSent'
  BY <1>1, <1>3 DEF Connect, Receive, OnAcknowledgement, DisconnectAborted
<1>4. ASSUME NEW c \in Clients, NEW p \in Payloads, Send(c, p) \/ SendToAllBut(c, p)
      PROVE  EntriesNameSent'
  BY <1>1, <1>4 DEF Send, SendToAllBut
<1>5. ASSUME NEW c \in Clients, NEW p \in Cacheable, Disconnect(c, p) PROVE EntriesNameSent'
  BY <1>1, <1>5 DEF Disconnect
<1>6. ASSUME NEW p \in Payloads, SendToAll(p) PROVE EntriesNameSent'
  BY <1>1, <1>6 DEF SendToAll
<1>7. CASE SendUncacheable
  BY <1>1, <1>7 DEF SendUncacheable
<1>8. CASE UNCHANGED vars
  BY <1>1, <1>8 DEF vars
<1> QED
  BY <1>2, <1>3, <1>4, <1>5, <1>6, <1>7, <1>8, TurnKeepsEntries, CollectKeepsEntries DEF Next

LEMMA SkippedWasFound ==
  ASSUME IInv, EntriesNameSent, Suppress
  PROVE  \/ \E t \in transmitted : t[2] = pending.payload
         \/ \E q \in Cacheable \ {pending.payload} : collections[q] > 0
<1>1. PICK a \in ChecksumAddresses(pending.payload) :
        alreadySent(Head(pending.to), pending.id, pending.payload, a)
  BY DEF Suppress
<1>2. heap[a] = pending.payload \/ heap[a] = Free
  BY DEF ChecksumAddresses
<1>3. ~ AcknowledgedInCache(networkEntries, ULONG_MAX, Event(pending.payload), pending.id)
  <2> DEFINE slots == KeySlots(networkEntries, ULONG_MAX, Event(pending.payload), pending.id)
  <2>1. slots \subseteq DOMAIN networkEntries /\ slots \subseteq Nat
    <3>1. DOMAIN networkEntries \subseteq Nat
      BY DEF IInv, TypeOK
    <3> QED BY <3>1 DEF KeySlots
  <2>2. ASSUME slots # {} PROVE LeastSlot(slots) \in slots
    <3>1. \A i, j \in slots : i = j
      BY DEF IInv, CacheIsLog, KeySlots
    <3>2. \E i \in slots : \A j \in slots : i <= j
      BY <2>1, <2>2, <3>1
    <3> QED BY <3>2 DEF LeastSlot
  <2>3. \A i \in DOMAIN networkEntries : networkEntries[i].status # "ack"
    BY DEF EntriesNameSent
  <2> QED BY <2>1, <2>2, <2>3 DEF AcknowledgedInCache
<1>4. PICK i \in DOMAIN networkEntries : networkEntries[i].dataChecksum = a
  BY <1>1, <1>3 DEF alreadySent, toNumber, ChecksumInCache, ChecksumSlots
<1>5. PICK t \in transmitted : collections[t[2]] = 0 => heap[a] = t[2]
  BY <1>4 DEF EntriesNameSent
<1>6. t[2] \in Cacheable /\ t[2] # Free /\ collections[t[2]] \in Nat
  BY SentFacts DEF IInv
<1>7. CASE t[2] = pending.payload
  BY <1>7
<1>8. CASE t[2] # pending.payload
  <2>1. collections[t[2]] > 0
    BY <1>2, <1>5, <1>6, <1>8
  <2> QED BY <1>6, <1>8, <2>1
<1> QED BY <1>7, <1>8

(***************************************************************************)
(* The types of the variables, for any number of clients, payloads,        *)
(* addresses, message ids and collections; a loop visits connected clients *)
(* only (the handlers of Server.lua run to their end).                     *)
(***************************************************************************)
THEOREM TypeCorrect == Spec => []TypeOK
<1>1. IInv => TypeOK
  BY DEF IInv
<1> QED BY <1>1, Invariance, PTL

(***************************************************************************)
(* The cache holds one entry for each message id and event that was sent   *)
(* since the last clear, although NetworkCache.set looks for the key only, *)
(* and a key is written again after a collection.                          *)
(***************************************************************************)
THEOREM CacheLogs == Spec => []CacheIsLog
<1>1. IInv => CacheIsLog
  BY DEF IInv
<1> QED BY <1>1, Invariance, PTL

(***************************************************************************)
(* A cacheable payload goes out once between two clears and once more at   *)
(* most for each collection of its checksum (NetworkUtils.alreadySent): as *)
(* often as it may, only if an entry has the address of its living string. *)
(***************************************************************************)
THEOREM DuplicatesAreBounded == Spec => []TransmissionsBounded
<1>1. IInv => TransmissionsBounded
  BY DEF IInv
<1> QED BY <1>1, Invariance, PTL

(***************************************************************************)
(* The ids on a wire increase: a loop sends one id, the newest, and visits *)
(* each client once.                                                       *)
(***************************************************************************)
THEOREM IdsArriveInOrder == Spec => []IdsIncreaseOnWire
<1>1. IInv => IdsIncreaseOnWire
  BY DEF IInv
<1> QED BY <1>1, Invariance, PTL
(***************************************************************************)
(* What alreadySent does promise, beside SkippedOnlyIfSent, which it does  *)
(* not keep: the payload it skips was transmitted since the last clear, if *)
(* to another client, unless the checksum of a different payload was       *)
(* collected since and left its address in the C array.                    *)
(***************************************************************************)
THEOREM SkipsWhatWasSent == Spec => SkippedIsOld
<1>1. Init => EntriesNameSent
  <2>1. ASSUME Init PROVE DOMAIN networkEntries = {}
    BY <2>1 DEF Init
  <2> QED BY <2>1 DEF EntriesNameSent
<1>2. IInv /\ EntriesNameSent /\ [Next]_vars => EntriesNameSent'
  BY StepKeepsEntries
<1>3. IInv /\ EntriesNameSent /\ [Next]_vars =>
        [Suppress => \/ \E t \in transmitted : t[2] = pending.payload
                    \/ \E q \in Cacheable \ {pending.payload} : collections[q] > 0]_vars
  BY SkippedWasFound
<1> QED BY <1>1, <1>2, <1>3, Invariance, PTL DEF Spec, SkippedIsOld
=============================================================================
