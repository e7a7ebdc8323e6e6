---------------------------- MODULE EntityCache ----------------------------
(***************************************************************************)
(* The Lua library EntityCache of luaExtensions.c: one C array, searched   *)
(* linearly, in which EntityUtils.processAndSyncEntityNetworking keeps the *)
(* last synchronised data of every entity.                                 *)
(*                                                                         *)
(* Kept: which slot a call reads, overwrites or drops, and the contents of *)
(* every slot after the memmove of a deletion.  The position, the velocity *)
(* and the health of an entry are one element of Numbers: the array holds  *)
(* their values.  The guid and the name of the owner and the file name are *)
(* stored and answered alike, and are one field, string: the array holds   *)
(* the ADDRESS of a Lua string that nothing anchors, and get answers       *)
(* whatever it finds there.  Slots count from 1 as in TLA+, from 0 in C.   *)
(***************************************************************************)
EXTENDS Integers, Sequences

CONSTANTS
  EntityIds,   \* entity ids of the game engine
  Nuids,       \* network unique ids, never 0
  NoNuid,      \* what the array stores for a nil nuid: -1 in C
  Numbers,     \* position, velocity and health, copied into the entry
  Texts,       \* what the strings of the program say
  Addresses,   \* bound: where the strings of the program live
  Freed,       \* what a freed address holds: arbitrary bytes
  None,        \* nil, the answer of a search that finds nothing
  MaxSize      \* bound: the array never grows past MaxSize entries

Entry == [entityId : EntityIds, nuid : Nuids \cup {NoNuid},
          numbers : Numbers, string : Addresses]

\* What the array has by value.  The program reads no more of an answer: the
\* owner and the file name it takes from the entity, never from the cache.
Value == [entityId : EntityIds, nuid : Nuids \cup {NoNuid}, numbers : Numbers]

ASSUME NoneAssumption == None \notin Entry /\ None \notin Value
ASSUME FreedAssumption == Freed \notin Texts
ASSUME MaxSizeAssumption == MaxSize \in Nat

VARIABLES
  entityEntries,   \* the array
  memory           \* what each address holds: the text of a string, or Freed

vars == <<entityEntries, memory>>
----------------------------------------------------------------------------
\* The first slot a linear search reaches.
First(slots) == CHOOSE i \in slots : \A j \in slots : i <= j

EntitySlots(entries, id) == {i \in DOMAIN entries : entries[i].entityId = id}

NuidSlots(entries, nuid) == {i \in DOMAIN entries : entries[i].nuid = nuid}

\* The entry EntityCache.get(entityId) answers with.
Found(entries, id) ==
  LET slots == EntitySlots(entries, id)
  IN  IF slots = {} THEN None ELSE entries[First(slots)]

\* The table it makes of the entry: the numbers, and a string of what memory
\* holds now at the address the entry was given.
Answer(entry) == [entityId |-> entry.entityId, nuid |-> entry.nuid,
                  numbers |-> entry.numbers, string |-> memory[entry.string]]

Get(id) == LET entry == Found(entityEntries, id)
           IN  IF entry = None THEN None ELSE Answer(entry)

\* Where a string lives: strings are interned, so that the program has one
\* string of a text, or makes it at an address that holds none.
Places(text) ==
  LET living == {a \in Addresses : memory[a] = text}
  IN  IF living = {} THEN {a \in Addresses : memory[a] = Freed} ELSE living

\* Mutants of Written: the entry found last is overwritten; none is looked for.
WrittenLast(entries, entry) ==
  LET slots == EntitySlots(entries, entry.entityId)
      Last == CHOOSE i \in slots : \A j \in slots : j <= i
  IN  IF slots = {} THEN Append(entries, entry)
                    ELSE [entries EXCEPT ![Last] = entry]
WrittenAppended(entries, entry) == Append(entries, entry)

\* The array after EntityCache.set: the first entry of the entity is
\* overwritten in place, a new entity gets a slot at the end.
Written(entries, entry) ==
  LET slots == EntitySlots(entries, entry.entityId)
  IN  IF slots = {} THEN Append(entries, entry)
                    ELSE [entries EXCEPT ![First(slots)] = entry]

\* Mutant of Removed: the array is cut at the entry.
RemovedRest(entries, i) == SubSeq(entries, 1, i - 1)

\* memmove(e + i + 1, e + i, (n - 1 - i) * size) followed by n = n - 1: slot
\* i and those after it move away from i instead of onto it, so that entry i
\* is doubled and the two last entries fall off the end.
Removed(entries, i) ==
  [j \in 1 .. Len(entries) - 1 |-> IF j <= i THEN entries[j] ELSE entries[j - 1]]
----------------------------------------------------------------------------
Init ==
  /\ entityEntries = << >>
  /\ memory = [a \in Addresses |-> Freed]

\* EntityCache.set(entityId, nuid, ..., string, ..., numbers)
Set(value, text) ==
  /\ \/ EntitySlots(entityEntries, value.entityId) # {}
     \/ Len(entityEntries) < MaxSize
  /\ \E a \in Places(text) :
       /\ memory' = [memory EXCEPT ![a] = text]
       /\ entityEntries' =
            Written(entityEntries,
                    [entityId |-> value.entityId, nuid |-> value.nuid,
                     numbers |-> value.numbers, string |-> a])

\* EntityCache.delete(entityId): returns true, or false and changes nothing.
Delete(id) ==
  LET slots == EntitySlots(entityEntries, id)
  IN  /\ slots # {}
      /\ entityEntries' = Removed(entityEntries, First(slots))
      /\ UNCHANGED memory

\* EntityCache.deleteNuid(nuid)
DeleteNuid(nuid) ==
  LET slots == NuidSlots(entityEntries, nuid)
  IN  /\ slots # {}
      /\ entityEntries' = Removed(entityEntries, First(slots))
      /\ UNCHANGED memory

\* The program makes a string, of which the cache is told nothing.
Intern(text) ==
  /\ \A a \in Addresses : memory[a] # text
  /\ \E a \in Places(text) : memory' = [memory EXCEPT ![a] = text]
  /\ UNCHANGED entityEntries

\* The collector frees the string at an address: the array keeps none alive.
Collect(a) ==
  /\ memory[a] # Freed
  /\ memory' = [memory EXCEPT ![a] = Freed]
  /\ UNCHANGED entityEntries

Next ==
  \/ \E value \in Value, text \in Texts : Set(value, text)
  \/ \E id \in EntityIds : Delete(id)
  \/ \E nuid \in Nuids : DeleteNuid(nuid)
  \/ \E text \in Texts : Intern(text)
  \/ \E a \in Addresses : Collect(a)

Spec == Init /\ [][Next]_vars
----------------------------------------------------------------------------
\* The array holds entries only, and no more than the bound; every address
\* holds a string or nothing.
TypeOK ==
  /\ entityEntries \in Seq(Entry)
  /\ Len(entityEntries) <= MaxSize
  /\ memory \in [Addresses -> Texts \cup {Freed}]

\* What get answers, without the string.
Read(id) ==
  LET entry == Found(entityEntries, id)
  IN  IF entry = None THEN None
      ELSE [entityId |-> entry.entityId, nuid |-> entry.nuid,
            numbers |-> entry.numbers]

Cached == [id \in EntityIds |-> Read(id)]

Store == INSTANCE LossyStore
           WITH Keys <- EntityIds, Values <- Value, store <- Cached

\* Each call does to the store what its caller is promised, even in a step
\* that another operation of the store would allow as well; get answers the
\* string that was just set.
SetIsPut ==
  \A value \in Value, text \in Texts :
    Set(value, text) => /\ Store!Put(value.entityId, value)
                        /\ Get(value.entityId)'.string = text
DeletionForgets ==
  (\/ \E id \in EntityIds : Delete(id)
   \/ \E nuid \in Nuids : DeleteNuid(nuid))
    => \E forgotten \in SUBSET EntityIds : Store!Forget(forgotten)

\* Between two answers about an entity the string changed.
Restrung(id) ==
  /\ Get(id) # None
  /\ Get(id)' # None
  /\ Get(id)'.string # Get(id).string

\* The string of an answer is another one only after a set of that entity,
\* or once the collector freed the string it was set with.
StringsLive ==
  \A id \in EntityIds :
    Restrung(id) => \/ Get(id).string = Freed
                    \/ Collect(Found(entityEntries, id).string)
                    \/ \E value \in Value, text \in Texts :
                         value.entityId = id /\ Set(value, text)

(***************************************************************************)
(* The array implements a lossy store of what it has by value: whatever    *)
(* the memmove of a deletion doubles or drops (luaExtensions.c:157-193),   *)
(* get answers with the nuid and the numbers of the last set of that       *)
(* entity, or with nothing; a set makes no entity disappear, and a         *)
(* deletion brings nothing back.  Of the three strings, whose addresses    *)
(* nothing anchors (luaExtensions.c:49-51, 67-69, 95-102), only this       *)
(* holds: the answer has those of the last set until the collector frees   *)
(* one, and anything from then on.                                         *)
(***************************************************************************)
IsLossyStore ==
  Store!Spec /\ [][SetIsPut /\ DeletionForgets /\ StringsLive]_vars

LastTwoSlots ==
  {i \in DOMAIN entityEntries : i >= Len(entityEntries) - 1}

Forgets(id) == Cached[id] # None /\ Cached'[id] = None

ForgetsNewest ==
  \A id \in EntityIds :
    Forgets(id) => EntitySlots(entityEntries, id) \subseteq LastTwoSlots

(***************************************************************************)
(* The entities a deletion forgets are those of the two last slots, which  *)
(* need not include the one the caller asked to delete: every entity       *)
(* cached earlier keeps its data.                                          *)
(***************************************************************************)
OnlyNewestForgotten == [][ForgetsNewest]_vars
=============================================================================
