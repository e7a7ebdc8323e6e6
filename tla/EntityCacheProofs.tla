------------------------- MODULE EntityCacheProofs -------------------------
(***************************************************************************)
(* Theorems about EntityCache for every set of entities, nuids, numbers,   *)
(* texts and addresses and for every bound on the array.                   *)
(***************************************************************************)
EXTENDS EntityCache, TLAPS, SequenceTheorems, WellFoundedInduction
----------------------------------------------------------------------------
\* A linear search ends at the least matching slot.
LEMMA FirstIsLeast ==
  ASSUME NEW S \in SUBSET Nat, S # {}
  PROVE  First(S) \in S /\ \A j \in S : First(S) <= j
<1> DEFINE Less == OpToRel(<, Nat)
<1>1. \A x, y \in Nat : <<x, y>> \in Less <=> x < y
  BY DEF OpToRel
<1>2. IsWellFoundedOn(Less, Nat)
  BY NatLessThanWellFounded
<1> HIDE DEF Less
<1>3. PICK x \in S : \A y \in S : ~ (<<y, x>> \in Less)
  BY <1>2, WFMin
<1>4. \A y \in S : x <= y
  <2> TAKE y \in S
  <2>1. x \in Nat /\ y \in Nat
    OBVIOUS
  <2>2. ~ (y < x)
    BY <1>1, <1>3, <2>1
  <2> QED
    BY <2>1, <2>2
<1> QED
  BY <1>4 DEF First

\* Slot k holds the first entry of entity id.
IsFirstSlot(e, id, k) ==
  /\ k \in 1 .. Len(e)
  /\ e[k].entityId = id
  /\ \A j \in 1 .. k - 1 : e[j].entityId # id

\* An entity is either in no slot, or has a first one.
LEMMA FirstSlotExists ==
  ASSUME NEW e \in Seq(Entry), NEW id
  PROVE  \/ EntitySlots(e, id) = {}
         \/ \E k : IsFirstSlot(e, id, k)
<1>1. DOMAIN e = 1 .. Len(e) /\ Len(e) \in Nat
  BY LenProperties
<1> SUFFICES ASSUME EntitySlots(e, id) # {}
             PROVE  \E k : IsFirstSlot(e, id, k)
  OBVIOUS
<1> DEFINE k == First(EntitySlots(e, id))
<1>2. EntitySlots(e, id) \in SUBSET Nat
  BY <1>1 DEF EntitySlots
<1>3. k \in EntitySlots(e, id) /\ \A j \in EntitySlots(e, id) : k <= j
  BY <1>2, FirstIsLeast
<1> HIDE DEF k
<1>4. k \in 1 .. Len(e) /\ e[k].entityId = id
  BY <1>1, <1>3 DEF EntitySlots
<1>5. \A j \in 1 .. k - 1 : e[j].entityId # id
  BY <1>1, <1>3, <1>4 DEF EntitySlots
<1> QED
  BY <1>4, <1>5 DEF IsFirstSlot

\* get finds the entry of that slot.
LEMMA FoundInFirstSlot ==
  ASSUME NEW e \in Seq(Entry), NEW id, NEW k, IsFirstSlot(e, id, k)
  PROVE  /\ EntitySlots(e, id) # {}
         /\ First(EntitySlots(e, id)) = k
         /\ Found(e, id) = e[k]
         /\ Found(e, id) # None
<1>1. DOMAIN e = 1 .. Len(e) /\ Len(e) \in Nat /\ k \in 1 .. Len(e)
  BY LenProperties DEF IsFirstSlot
<1>2. k \in EntitySlots(e, id)
  BY <1>1 DEF EntitySlots, IsFirstSlot
<1>3. EntitySlots(e, id) \in SUBSET Nat
  BY <1>1 DEF EntitySlots
<1>4. \A j \in EntitySlots(e, id) : k <= j
  BY <1>1 DEF EntitySlots, IsFirstSlot
<1>5. First(EntitySlots(e, id)) = k
  <2>1. /\ First(EntitySlots(e, id)) \in EntitySlots(e, id)
        /\ First(EntitySlots(e, id)) <= k
    BY <1>2, <1>3, FirstIsLeast
  <2>2. k <= First(EntitySlots(e, id))
    BY <1>4, <2>1
  <2> QED
    BY <1>1, <1>3, <2>1, <2>2
<1>6. e[k] \in Entry
  BY <1>1, ElementOfSeq
<1> QED
  BY <1>2, <1>5, <1>6, NoneAssumption DEF Found

\* get finds nothing when the entity is in no slot.
LEMMA FoundNothing ==
  ASSUME NEW e \in Seq(Entry), NEW id, \A j \in 1 .. Len(e) : e[j].entityId # id
  PROVE  EntitySlots(e, id) = {} /\ Found(e, id) = None
<1>1. DOMAIN e = 1 .. Len(e)
  BY LenProperties
<1> QED
  BY <1>1 DEF EntitySlots, Found
----------------------------------------------------------------------------
\* A set stores its entry for its entity and leaves every other answer alone.
LEMMA WrittenFacts ==
  ASSUME NEW e \in Seq(Entry), NEW entry \in Entry
  PROVE  /\ Written(e, entry) \in Seq(Entry)
         /\ Len(Written(e, entry)) = IF EntitySlots(e, entry.entityId) = {}
                                     THEN Len(e) + 1 ELSE Len(e)
         /\ Found(Written(e, entry), entry.entityId) = entry
         /\ \A id \in EntityIds \ {entry.entityId} :
              Found(Written(e, entry), id) = Found(e, id)
<1> DEFINE w == Written(e, entry)
           own == entry.entityId
<1>0. DOMAIN e = 1 .. Len(e) /\ Len(e) \in Nat
  BY LenProperties
<1>1. CASE EntitySlots(e, own) = {}
  <2>1. w = Append(e, entry)
    BY <1>1 DEF Written
  <2>2. /\ w \in Seq(Entry)
        /\ Len(w) = Len(e) + 1
        /\ \A j \in 1 .. Len(e) : w[j] = e[j]
        /\ w[Len(e) + 1] = entry
    BY <2>1, AppendProperties
  <2> HIDE DEF w
  <2>3. \A j \in 1 .. Len(e) : e[j].entityId # own
    BY <1>0, <1>1 DEF EntitySlots
  <2>4. IsFirstSlot(w, own, Len(e) + 1)
    BY <1>0, <2>2, <2>3 DEF IsFirstSlot
  <2>5. Found(w, own) = entry
    BY <2>2, <2>4, FoundInFirstSlot
  <2>6. ASSUME NEW id \in EntityIds \ {own}
        PROVE  Found(w, id) = Found(e, id)
    <3>1. CASE \E k : IsFirstSlot(e, id, k)
      <4>1. PICK k : IsFirstSlot(e, id, k)
        BY <3>1
      <4>2. IsFirstSlot(w, id, k) /\ w[k] = e[k]
        BY <1>0, <2>2, <4>1 DEF IsFirstSlot
      <4> QED
        BY <2>2, <4>1, <4>2, FoundInFirstSlot
    <3>2. CASE EntitySlots(e, id) = {}
      <4>1. \A j \in 1 .. Len(e) : e[j].entityId # id
        BY <1>0, <3>2 DEF EntitySlots
      <4>2. \A j \in 1 .. Len(w) : w[j].entityId # id
        BY <1>0, <2>2, <4>1
      <4> QED
        BY <2>2, <4>1, <4>2, FoundNothing
    <3> QED
      BY <3>1, <3>2, FirstSlotExists
  <2> QED
    BY <1>1, <2>2, <2>5, <2>6 DEF w
<1>2. CASE EntitySlots(e, own) # {}
  <2>1. PICK k : IsFirstSlot(e, own, k)
    BY <1>2, FirstSlotExists
  <2>2. First(EntitySlots(e, own)) = k /\ k \in 1 .. Len(e)
    BY <2>1, FoundInFirstSlot DEF IsFirstSlot
  <2>3. w = [e EXCEPT ![k] = entry]
    BY <1>2, <2>2 DEF Written
  <2>4. /\ w \in Seq(Entry)
        /\ Len(w) = Len(e)
        /\ \A j \in 1 .. Len(e) : w[j] = IF j = k THEN entry ELSE e[j]
    BY <2>2, <2>3, ExceptSeq
  <2> HIDE DEF w
  <2>5. \A j \in 1 .. Len(e) : w[j].entityId = e[j].entityId
    BY <2>1, <2>4 DEF IsFirstSlot
  <2>6. \A id, m : IsFirstSlot(w, id, m) <=> IsFirstSlot(e, id, m)
    BY <1>0, <2>4, <2>5 DEF IsFirstSlot
  <2>7. Found(w, own) = entry
    <3>1. IsFirstSlot(w, own, k)
      BY <2>1, <2>6
    <3> QED
      BY <2>2, <2>4, <3>1, FoundInFirstSlot
  <2>8. ASSUME NEW id \in EntityIds \ {own}
        PROVE  Found(w, id) = Found(e, id)
    <3>1. CASE \E m : IsFirstSlot(e, id, m)
      <4>1. PICK m : IsFirstSlot(e, id, m)
        BY <3>1
      <4>2. m # k /\ m \in 1 .. Len(e)
        BY <2>1, <4>1 DEF IsFirstSlot
      <4>3. IsFirstSlot(w, id, m) /\ w[m] = e[m]
        BY <2>4, <2>6, <4>1, <4>2
      <4> QED
        BY <2>4, <4>1, <4>3, FoundInFirstSlot
    <3>2. CASE EntitySlots(e, id) = {}
      <4>1. \A j \in 1 .. Len(e) : e[j].entityId # id
        BY <1>0, <3>2 DEF EntitySlots
      <4>2. \A j \in 1 .. Len(w) : w[j].entityId # id
        BY <2>4, <2>5, <4>1
      <4> QED
        BY <2>4, <4>1, <4>2, FoundNothing
    <3> QED
      BY <3>1, <3>2, FirstSlotExists
  <2> QED
    BY <1>2, <2>4, <2>7, <2>8 DEF w
<1> QED
  BY <1>1, <1>2
----------------------------------------------------------------------------
\* A deletion leaves a shorter array of old entries, in which every entity
\* answers as before unless all its slots were among the two last ones.
LEMMA RemovedFacts ==
  ASSUME NEW e \in Seq(Entry), NEW i \in 1 .. Len(e)
  PROVE  /\ Removed(e, i) \in Seq(Entry)
         /\ Len(Removed(e, i)) = Len(e) - 1
         /\ \A id \in EntityIds :
              \/ Found(Removed(e, i), id) = Found(e, id)
              \/ /\ Found(Removed(e, i), id) = None
                 /\ \A s \in EntitySlots(e, id) : s >= Len(e) - 1
<1> DEFINE r == Removed(e, i)
<1>0. DOMAIN e = 1 .. Len(e) /\ Len(e) \in Nat /\ i \in Nat
  BY LenProperties
<1>1. /\ r \in Seq(Entry)
      /\ Len(r) = Len(e) - 1
      /\ \A j \in 1 .. Len(e) - 1 : r[j] = IF j <= i THEN e[j] ELSE e[j - 1]
  <2>1. \A j \in 1 .. Len(e) : e[j] \in Entry
    BY ElementOfSeq
  <2>2. \A j \in 1 .. Len(e) - 1 :
          (IF j <= i THEN e[j] ELSE e[j - 1]) \in Entry
    BY <1>0, <2>1
  <2> QED
    BY <1>0, <2>2 DEF Removed
<1> HIDE DEF r
<1>2. ASSUME NEW id \in EntityIds
      PROVE  \/ Found(r, id) = Found(e, id)
             \/ /\ Found(r, id) = None
                /\ \A s \in EntitySlots(e, id) : s >= Len(e) - 1
  <2>1. CASE EntitySlots(e, id) = {}
    <3>1. \A j \in 1 .. Len(e) : e[j].entityId # id
      BY <1>0, <2>1 DEF EntitySlots
    <3>2. \A j \in 1 .. Len(r) : r[j].entityId # id
      BY <1>0, <1>1, <3>1
    <3> QED
      BY <1>1, <3>1, <3>2, FoundNothing
  <2>2. CASE \E k : IsFirstSlot(e, id, k)
    <3>1. PICK k : IsFirstSlot(e, id, k)
      BY <2>2
    <3>2. k \in 1 .. Len(e)
      BY <3>1 DEF IsFirstSlot
    <3>3. CASE k <= i /\ k <= Len(e) - 1
      <4>1. \A j \in 1 .. k : r[j] = e[j]
        BY <1>0, <1>1, <3>2, <3>3
      <4>2. IsFirstSlot(r, id, k) /\ r[k] = e[k]
        <5>1. r[k] = e[k]
          BY <3>2, <4>1
        <5>2. k \in 1 .. Len(r)
          BY <1>0, <1>1, <3>2, <3>3
        <5>3. e[k].entityId = id /\ \A j \in 1 .. k - 1 : e[j].entityId # id
          BY <3>1 DEF IsFirstSlot
        <5>4. \A j \in 1 .. k - 1 : r[j].entityId # id
          BY <3>2, <4>1, <5>3
        <5> QED BY <5>1, <5>2, <5>3, <5>4 DEF IsFirstSlot
      <4> QED
        BY <1>1, <3>1, <4>2, FoundInFirstSlot
    <3>4. CASE k > i /\ k + 1 <= Len(e) - 1
      <4>1. r[k + 1] = e[k]
        BY <1>0, <1>1, <3>2, <3>4
      <4>2. \A j \in 1 .. k : r[j].entityId # id
        BY <1>0, <1>1, <3>1, <3>2, <3>4 DEF IsFirstSlot
      <4>3. IsFirstSlot(r, id, k + 1)
        BY <1>0, <1>1, <3>1, <3>2, <3>4, <4>1, <4>2 DEF IsFirstSlot
      <4> QED
        BY <1>1, <3>1, <4>1, <4>3, FoundInFirstSlot
    <3>5. CASE k > Len(e) - 1 \/ (k > i /\ k + 1 > Len(e) - 1)
      <4>1. \A j \in 1 .. Len(r) : r[j].entityId # id
        <5> SUFFICES ASSUME NEW j \in 1 .. Len(r) PROVE r[j].entityId # id
          OBVIOUS
        <5>1. \A m \in 1 .. k - 1 : e[m].entityId # id
          BY <3>1 DEF IsFirstSlot
        <5>2. CASE j <= i
          <6>1. r[j] = e[j] /\ j \in 1 .. k - 1
            BY <1>0, <1>1, <3>2, <3>5, <5>2
          <6> QED
            BY <5>1, <6>1
        <5>3. CASE j > i
          <6>1. r[j] = e[j - 1] /\ j - 1 \in 1 .. k - 1
            BY <1>0, <1>1, <3>2, <3>5, <5>3
          <6> QED
            BY <5>1, <6>1
        <5> QED
          BY <1>0, <1>1, <5>2, <5>3
      <4>2. Found(r, id) = None
        BY <1>1, <4>1, FoundNothing
      <4>3. \A s \in EntitySlots(e, id) : s >= k
        BY <1>0, <3>1, <3>2 DEF EntitySlots, IsFirstSlot
      <4>4. \A s \in EntitySlots(e, id) : s >= Len(e) - 1
        BY <1>0, <3>2, <3>5, <4>3 DEF EntitySlots
      <4> QED
        BY <4>2, <4>4
    <3> QED
      BY <1>0, <3>2, <3>3, <3>4, <3>5
  <2> QED
    BY <2>1, <2>2, FirstSlotExists
<1> QED
  BY <1>1, <1>2 DEF r

\* Both deletions remove the first of a non-empty set of slots.
LEMMA FirstInArray ==
  ASSUME NEW e \in Seq(Entry), NEW slots \in SUBSET DOMAIN e, slots # {}
  PROVE  First(slots) \in 1 .. Len(e)
<1>1. DOMAIN e = 1 .. Len(e) /\ Len(e) \in Nat
  BY LenProperties
<1> QED
  BY <1>1, FirstIsLeast
----------------------------------------------------------------------------
\* The entry a set stores at address a.
EntryAt(value, a) == [entityId |-> value.entityId, nuid |-> value.nuid,
                      numbers |-> value.numbers, string |-> a]

\* What a set does to the array and to the memory.
SetFacts(value, text, a) ==
  /\ a \in Addresses
  /\ memory' = [memory EXCEPT ![a] = text]
  /\ memory[a] = text \/ memory[a] = Freed
  /\ entityEntries' = Written(entityEntries, EntryAt(value, a))
  /\ EntryAt(value, a) \in Entry
  /\ EntryAt(value, a).entityId = value.entityId

LEMMA SetStores ==
  ASSUME NEW value \in Value, NEW text \in Texts, Set(value, text)
  PROVE  \E a \in Addresses : SetFacts(value, text, a)
<1>1. PICK a \in Places(text) :
        /\ memory' = [memory EXCEPT ![a] = text]
        /\ entityEntries' = Written(entityEntries, EntryAt(value, a))
  BY DEF Set, EntryAt
<1>2. a \in Addresses /\ (memory[a] = text \/ memory[a] = Freed)
  BY DEF Places
<1>3. EntryAt(value, a) \in Entry /\ EntryAt(value, a).entityId = value.entityId
  BY <1>2 DEF EntryAt, Entry, Value
<1> QED
  BY <1>1, <1>2, <1>3 DEF SetFacts

\* A deletion removes one slot of the array and leaves the memory alone.
Deletion ==
  \/ \E id \in EntityIds : Delete(id)
  \/ \E nuid \in Nuids : DeleteNuid(nuid)

LEMMA DeletionRemoves ==
  ASSUME TypeOK, Deletion
  PROVE  /\ UNCHANGED memory
         /\ \E i \in 1 .. Len(entityEntries) :
              entityEntries' = Removed(entityEntries, i)
<1>1. entityEntries \in Seq(Entry)
  BY DEF TypeOK
<1>2. CASE \E id \in EntityIds : Delete(id)
  BY <1>1, <1>2, FirstInArray DEF Delete, EntitySlots
<1>3. CASE \E nuid \in Nuids : DeleteNuid(nuid)
  BY <1>1, <1>3, FirstInArray DEF DeleteNuid, NuidSlots
<1> QED
  BY <1>2, <1>3 DEF Deletion

\* What is found is an entry of the array, or nothing.
LEMMA FoundIsEntry ==
  ASSUME NEW e \in Seq(Entry), NEW id
  PROVE  Found(e, id) \in Entry \/ Found(e, id) = None
<1>1. CASE EntitySlots(e, id) = {}
  BY <1>1 DEF Found
<1>2. CASE \E k : IsFirstSlot(e, id, k)
  <2>1. PICK k : IsFirstSlot(e, id, k)
    BY <1>2
  <2>2. Found(e, id) = e[k] /\ k \in 1 .. Len(e)
    BY <2>1, FoundInFirstSlot DEF IsFirstSlot
  <2> QED
    BY <2>2, ElementOfSeq
<1> QED
  BY <1>1, <1>2, FirstSlotExists
----------------------------------------------------------------------------
\* Every call leaves whole entries, and the collector strings or nothing.
LEMMA TypeStays == ASSUME TypeOK, [Next]_vars PROVE TypeOK'
<1>0. /\ entityEntries \in Seq(Entry)
      /\ Len(entityEntries) \in Nat
      /\ memory \in [Addresses -> Texts \cup {Freed}]
  BY LenProperties DEF TypeOK
<1>1. CASE \E value \in Value, text \in Texts : Set(value, text)
  <2>1. PICK value \in Value, text \in Texts : Set(value, text)
    BY <1>1
  <2>2. PICK a \in Addresses : SetFacts(value, text, a)
    BY <2>1, SetStores
  <2>3. memory' \in [Addresses -> Texts \cup {Freed}]
    BY <1>0, <2>2 DEF SetFacts
  <2>4. /\ entityEntries' \in Seq(Entry)
        /\ Len(entityEntries') = IF EntitySlots(entityEntries, value.entityId) = {}
                                 THEN Len(entityEntries) + 1
                                 ELSE Len(entityEntries)
    BY <1>0, <2>2, WrittenFacts DEF SetFacts
  <2>5. \/ EntitySlots(entityEntries, value.entityId) # {}
        \/ Len(entityEntries) < MaxSize
    BY <2>1 DEF Set
  <2>6. Len(entityEntries') <= MaxSize
    BY <1>0, <2>4, <2>5, MaxSizeAssumption DEF TypeOK
  <2> QED
    BY <2>3, <2>4, <2>6 DEF TypeOK
<1>2. CASE Deletion
  <2>1. PICK i \in 1 .. Len(entityEntries) :
          entityEntries' = Removed(entityEntries, i)
    BY <1>2, DeletionRemoves
  <2>2. UNCHANGED memory
    BY <1>2, DeletionRemoves
  <2> QED
    BY <1>0, <2>1, <2>2, RemovedFacts, MaxSizeAssumption DEF TypeOK
<1>3. CASE \E text \in Texts : Intern(text)
  <2>1. PICK text \in Texts : Intern(text)
    BY <1>3
  <2>2. memory' \in [Addresses -> Texts \cup {Freed}]
    BY <1>0, <2>1 DEF Intern, Places
  <2> QED
    BY <2>1, <2>2 DEF Intern, TypeOK
<1>4. CASE \E a \in Addresses : Collect(a)
  BY <1>0, <1>4 DEF Collect, TypeOK
<1>5. CASE UNCHANGED vars
  BY <1>5 DEF vars, TypeOK
<1> QED
  BY <1>1, <1>2, <1>3, <1>4, <1>5 DEF Next, Deletion

(***************************************************************************)
(* The array of luaExtensions.c:24-78 and 157-193 holds whole entries and  *)
(* stays within its bound, whatever the calls.                             *)
(***************************************************************************)
THEOREM TypeCorrect == Spec => []TypeOK
<1>1. Init => TypeOK
  BY MaxSizeAssumption, EmptySeq DEF Init, TypeOK
<1>2. TypeOK /\ [Next]_vars => TypeOK'
  BY TypeStays
<1> QED
  BY <1>1, <1>2, PTL DEF Spec
----------------------------------------------------------------------------
\* A set is a Put of the abstract store, and get answers its string.
LEMMA SetPuts == ASSUME TypeOK PROVE SetIsPut
<1> SUFFICES ASSUME NEW value \in Value, NEW text \in Texts, Set(value, text)
             PROVE  /\ Store!Put(value.entityId, value)
                    /\ Get(value.entityId)'.string = text
  BY DEF SetIsPut
<1>0. entityEntries \in Seq(Entry) /\ DOMAIN memory = Addresses
  BY DEF TypeOK
<1>1. PICK a \in Addresses : SetFacts(value, text, a)
  BY SetStores
<1> DEFINE own   == value.entityId
           entry == EntryAt(value, a)
<1>2. own \in EntityIds /\ entry \in Entry /\ entry.entityId = own
  BY <1>1 DEF Value, SetFacts
<1>3. /\ Found(entityEntries', own) = entry
      /\ \A id \in EntityIds \ {own} :
           Found(entityEntries', id) = Found(entityEntries, id)
  BY <1>0, <1>1, <1>2, WrittenFacts DEF SetFacts
<1>4. entry # None
  BY <1>2, NoneAssumption
<1>5. Read(own)' = value
  <2>1. Read(own)' = [entityId |-> entry.entityId, nuid |-> entry.nuid,
                      numbers |-> entry.numbers]
    BY <1>3, <1>4 DEF Read
  <2> QED
    BY <2>1 DEF EntryAt, Value
<1>6. \A id \in EntityIds \ {own} : Read(id)' = Read(id)
  BY <1>3 DEF Read
<1>7. Cached' = [Cached EXCEPT ![own] = value]
  BY <1>2, <1>5, <1>6 DEF Cached
<1>8. Get(own)'.string = text
  <2>1. Get(own)' = [entityId |-> entry.entityId, nuid |-> entry.nuid,
                     numbers |-> entry.numbers, string |-> memory'[entry.string]]
    BY <1>3, <1>4 DEF Get, Answer
  <2>2. entry.string = a /\ memory'[a] = text
    BY <1>0, <1>1 DEF EntryAt, SetFacts
  <2> QED
    BY <2>1, <2>2
<1> QED
  BY <1>7, <1>8 DEF Store!Put

\* A deletion is a Forget of the abstract store, whichever entry it dropped.
LEMMA RemovalForgets == ASSUME TypeOK PROVE DeletionForgets
<1> SUFFICES ASSUME Deletion
             PROVE  \E forgotten \in SUBSET EntityIds : Store!Forget(forgotten)
  BY DEF DeletionForgets, Deletion
<1> DEFINE forgotten == {id \in EntityIds : Cached'[id] = None}
<1>1. PICK i \in 1 .. Len(entityEntries) :
        entityEntries' = Removed(entityEntries, i)
  BY DeletionRemoves
<1>2. \A id \in EntityIds :
        \/ Found(entityEntries', id) = Found(entityEntries, id)
        \/ Found(entityEntries', id) = None
  BY <1>1, RemovedFacts DEF TypeOK
<1>3. \A id \in EntityIds :
        Cached'[id] = Cached[id] \/ Cached'[id] = None
  BY <1>2 DEF Cached, Read
<1>4. Cached' = [id \in EntityIds |-> IF id \in forgotten THEN None ELSE Cached[id]]
  BY <1>3 DEF Cached
<1> QED
  BY <1>4 DEF Store!Forget

\* A string changes in an answer by a set of the entity, or by the collector.
LEMMA StringsStay == ASSUME TypeOK, [Next]_vars PROVE StringsLive
<1> SUFFICES ASSUME NEW id \in EntityIds, Restrung(id), Get(id).string # Freed
             PROVE  \/ Collect(Found(entityEntries, id).string)
                    \/ \E value \in Value, text \in Texts :
                         value.entityId = id /\ Set(value, text)
  BY DEF StringsLive
<1> DEFINE entry == Found(entityEntries, id)
<1>0. /\ entityEntries \in Seq(Entry)
      /\ memory \in [Addresses -> Texts \cup {Freed}]
  BY DEF TypeOK
<1>1. entry # None /\ entry \in Entry
  BY <1>0, FoundIsEntry DEF Restrung, Get
<1>2. entry.string \in Addresses
  BY <1>1 DEF Entry
<1>3. Get(id).string = memory[entry.string]
  BY <1>1 DEF Get, Answer
<1>4. ASSUME Found(entityEntries', id) = entry
      PROVE  memory'[entry.string] # memory[entry.string]
  <2>1. Get(id)'.string = memory'[entry.string]
    BY <1>1, <1>4 DEF Get, Answer
  <2> QED
    BY <1>3, <2>1 DEF Restrung
<1>5. CASE \E value \in Value, text \in Texts : Set(value, text)
  <2>1. PICK value \in Value, text \in Texts : Set(value, text)
    BY <1>5
  <2>2. PICK a \in Addresses : SetFacts(value, text, a)
    BY <2>1, SetStores
  <2>3. CASE value.entityId = id
    BY <2>1, <2>3
  <2>4. CASE value.entityId # id
    <3>1. Found(entityEntries', id) = entry
      BY <1>0, <2>2, <2>4, WrittenFacts DEF SetFacts
    <3>2. memory'[entry.string] # memory[entry.string]
      BY <1>4, <3>1
    <3>3. memory[entry.string] # Freed
      BY <1>3
    <3> QED
      BY <1>0, <1>2, <2>2, <3>2, <3>3 DEF SetFacts
  <2> QED
    BY <2>3, <2>4
<1>6. CASE Deletion
  <2>1. PICK i \in 1 .. Len(entityEntries) :
          entityEntries' = Removed(entityEntries, i)
    BY <1>6, DeletionRemoves
  <2>2. memory' = memory
    BY <1>6, DeletionRemoves
  <2>3. \/ Found(entityEntries', id) = entry
        \/ Found(entityEntries', id) = None
    BY <1>0, <2>1, RemovedFacts
  <2>4. Found(entityEntries', id) # None
    BY DEF Restrung, Get
  <2> QED
    BY <1>4, <2>2, <2>3, <2>4
<1>7. CASE \E text \in Texts : Intern(text)
  <2>1. PICK text \in Texts : Intern(text)
    BY <1>7
  <2>2. PICK a \in Places(text) : memory' = [memory EXCEPT ![a] = text]
    BY <2>1 DEF Intern
  <2>3. a \in Addresses /\ memory[a] = Freed
    BY <2>1 DEF Intern, Places
  <2>4. Found(entityEntries', id) = entry
    BY <2>1 DEF Intern
  <2>5. memory'[entry.string] # memory[entry.string]
    BY <1>4, <2>4
  <2> QED
    BY <1>0, <1>2, <1>3, <2>2, <2>3, <2>5
<1>8. CASE \E a \in Addresses : Collect(a)
  <2>1. PICK a \in Addresses : Collect(a)
    BY <1>8
  <2>2. Found(entityEntries', id) = entry
    BY <2>1 DEF Collect
  <2>3. memory'[entry.string] # memory[entry.string]
    BY <1>4, <2>2
  <2>4. a = entry.string
    BY <1>0, <1>2, <2>1, <2>3 DEF Collect
  <2> QED
    BY <2>1, <2>4
<1>9. CASE UNCHANGED vars
  <2>1. Found(entityEntries', id) = entry /\ memory' = memory
    BY <1>9 DEF vars
  <2> QED
    BY <1>4, <2>1
<1> QED
  BY <1>5, <1>6, <1>7, <1>8, <1>9 DEF Next, Deletion

(***************************************************************************)
(* The C array with the wrong-way memmove implements a lossy store of what *)
(* the program reads: get answers with the nuid and the numbers of the     *)
(* last set of that entity or with nil.  The strings, whose addresses the  *)
(* array keeps and nothing anchors, are those of the last set until the    *)
(* collector frees one.                                                    *)
(***************************************************************************)
THEOREM ImplementsLossyStore == Spec => IsLossyStore
<1>1. Init => Store!Init
  <2> SUFFICES ASSUME Init PROVE Store!Init
    OBVIOUS
  <2>1. entityEntries \in Seq(Entry) /\ Len(entityEntries) = 0
    BY EmptySeq DEF Init
  <2>2. \A j \in 1 .. Len(entityEntries) : FALSE
    BY <2>1
  <2>3. \A id \in EntityIds : Found(entityEntries, id) = None
    BY <2>1, <2>2, FoundNothing
  <2> QED
    BY <2>3 DEF Store!Init, Cached, Read
<1>2. TypeOK /\ [Next]_vars => [Store!Next]_Cached
  <2> SUFFICES ASSUME TypeOK, [Next]_vars
               PROVE  [Store!Next]_Cached
    OBVIOUS
  <2>1. CASE \E value \in Value, text \in Texts : Set(value, text)
    <3>1. PICK value \in Value, text \in Texts : Set(value, text)
      BY <2>1
    <3>2. value.entityId \in EntityIds
      BY DEF Value
    <3>3. Store!Put(value.entityId, value)
      BY <3>1, SetPuts DEF SetIsPut
    <3> QED
      BY <3>2, <3>3 DEF Store!Next
  <2>2. CASE Deletion
    BY <2>2, RemovalForgets DEF DeletionForgets, Deletion, Store!Next
  <2>3. CASE UNCHANGED entityEntries
    BY <2>3 DEF Cached, Read
  <2> QED
    BY <2>1, <2>2, <2>3 DEF Next, Deletion, Intern, Collect, vars
<1>3. TypeOK /\ [Next]_vars => [SetIsPut /\ DeletionForgets /\ StringsLive]_vars
  BY SetPuts, RemovalForgets, StringsStay
<1> QED
  BY <1>1, <1>2, <1>3, TypeCorrect, PTL DEF Spec, IsLossyStore, Store!Spec

(***************************************************************************)
(* An entity that disappears from the array by a deletion sat in the two   *)
(* last slots, whichever entity was deleted.                               *)
(***************************************************************************)
THEOREM ForgetsOnlyNewest == Spec => OnlyNewestForgotten
<1>1. TypeOK /\ [Next]_vars => [ForgetsNewest]_vars
  <2> SUFFICES ASSUME TypeOK, Next, NEW id \in EntityIds, Forgets(id)
               PROVE  EntitySlots(entityEntries, id) \subseteq LastTwoSlots
    BY DEF ForgetsNewest
  <2>0. entityEntries \in Seq(Entry)
    BY DEF TypeOK
  <2>1. Found(entityEntries, id) # None /\ Found(entityEntries', id) = None
    <3>1. \/ Found(entityEntries', id) \in Entry
          \/ Found(entityEntries', id) = None
      BY <2>0, TypeStays, FoundIsEntry DEF TypeOK
    <3>2. ASSUME Found(entityEntries', id) \in Entry
          PROVE  Read(id)' \in Value
      <4>1. Found(entityEntries', id) # None
        BY <3>2, NoneAssumption
      <4> QED
        BY <3>2, <4>1 DEF Read, Entry, Value
    <3>3. Read(id) # None /\ Read(id)' = None
      BY DEF Forgets, Cached
    <3>4. Found(entityEntries', id) = None
      BY <3>1, <3>2, <3>3, NoneAssumption
    <3> QED
      BY <3>3, <3>4 DEF Read
  <2>2. CASE \E value \in Value, text \in Texts : Set(value, text)
    <3>1. PICK value \in Value, text \in Texts : Set(value, text)
      BY <2>2
    <3>2. PICK a \in Addresses : SetFacts(value, text, a)
      BY <3>1, SetStores
    <3>3. \/ Found(entityEntries', id) = EntryAt(value, a)
          \/ Found(entityEntries', id) = Found(entityEntries, id)
      BY <2>0, <3>2, WrittenFacts DEF SetFacts
    <3> QED
      BY <2>1, <3>2, <3>3, NoneAssumption DEF SetFacts
  <2>3. CASE Deletion
    <3>1. PICK i \in 1 .. Len(entityEntries) :
            entityEntries' = Removed(entityEntries, i)
      BY <2>3, DeletionRemoves
    <3>2. \/ Found(entityEntries', id) = Found(entityEntries, id)
          \/ \A s \in EntitySlots(entityEntries, id) : s >= Len(entityEntries) - 1
      BY <2>0, <3>1, RemovedFacts
    <3> QED
      BY <2>1, <3>2 DEF LastTwoSlots, EntitySlots
  <2>4. CASE UNCHANGED entityEntries
    BY <2>1, <2>4
  <2> QED
    BY <2>2, <2>3, <2>4 DEF Next, Deletion, Intern, Collect
<1> QED
  BY <1>1, TypeCorrect, PTL DEF Spec, OnlyNewestForgotten
=============================================================================
