----------------------------- MODULE EntityScan -----------------------------
(***************************************************************************)
(* How a server finds out which entities to tell its clients of:           *)
(* EntityUtils.processAndSyncEntityNetworking, which Server.update calls   *)
(* in every frame, with the tick of NetworkUtils.isTick, its time budget   *)
(* and the index at which the next frame resumes.                          *)
(*                                                                         *)
(* The scan of a frame takes one action for each turn of its loop; time    *)
(* passes between them.  Everything else happens between two frames.  The  *)
(* engine is external: which entities are around the player, and which are *)
(* alive.  An entity is its id, so that a sorted list is a set and its     *)
(* members have ranks.  A nuid is there or not (NuidGlobals says which),   *)
(* the cached data of an entity as well: whether they differ from the      *)
(* current ones by the threshold is left open.  Of the array behind the    *)
(* cache only the promise of LossyStore is used.                           *)
(***************************************************************************)
EXTENDS Integers, FiniteSets

CONSTANTS
  Entities,  \* entity ids
  Parent,    \* entity -> its parent, or NoParent
  NoParent,  \* 0, which EntityGetParent returns for a root
  MaxChanges \* bound: how often the world around the player changes

ASSUME EntityAssumption == Entities \subseteq Nat \ {0} /\ NoParent \notin Entities
ASSUME ParentAssumption == Parent \in [Entities -> Entities \cup {NoParent}]
ASSUME ChangeBoundAssumption == MaxChanges \in Nat

VARIABLES
  \* the world
  kind,            \* entity -> "own", "excluded" by config.lua, or "foreign"
  alive,           \* the living entities
  entityIds,       \* the entities around the player, with children
  changes,         \* how often the world changed so far
  \* their components
  component,       \* entity -> "none", "empty" without nuid, or "nuid"
  remoteMinae,     \* the entities that are the players of clients
  \* the scan
  prevEntityIndex, \* where the next scan starts
  entityIndex,     \* where this scan is, 0 between the frames
  tick,            \* whether a tick has elapsed since isTick was last true
  cache,           \* entity -> "cached", or None: EntityCache
  \* what clients were told
  announced,       \* history: the entities of newNuid
  updated,         \* history: the entities of entityData
  synced           \* history: entities synced since the last tick elapsed

world == <<kind, alive, entityIds, changes>>
told == <<announced, updated, synced>>
vars == <<world, component, remoteMinae, prevEntityIndex, entityIndex, tick, cache, told>>

None == "none"
Store == INSTANCE LossyStore WITH Keys <- Entities, Values <- {"cached"}, store <- cache

\* The entity at this place of the sorted list.
IsAt(e, index) ==
  e \in entityIds /\ Cardinality({f \in entityIds : f <= e}) = index

\* All parents of an entity, up to the root.
Chain[e \in Entities] ==
  IF Parent[e] = NoParent THEN {} ELSE {Parent[e]} \cup Chain[Parent[e]]
Ancestors(e) == Chain[e] \cap Entities

\* Mutant of getParentsUntilRootEntity: looks at the parent only.
getParent(e) == {p \in {Parent[e]} \ {NoParent} : component[p] # "nuid"}

\* The parents that are given a nuid on the way to the root.
getParentsUntilRootEntity(e) == {p \in Ancestors(e) : component[p] # "nuid"}
----------------------------------------------------------------------------
\* A server starts with entities it meets for the first time, some from the
\* time it was no server (empty), and with those loaded for clients by needNuid.
Init ==
  /\ kind \in [Entities -> {"own", "excluded", "foreign"}]
  /\ component \in [Entities -> {"none", "empty", "nuid"}]
  /\ \A e \in Entities : component[e] = "nuid" <=> kind[e] = "foreign"
  /\ alive = Entities
  /\ entityIds \in SUBSET Entities
  /\ changes = 0
  /\ remoteMinae = {}
  /\ prevEntityIndex = 1
  /\ entityIndex = 0
  /\ tick = TRUE
  /\ Store!Init
  /\ announced = {e \in Entities : kind[e] = "foreign"}
  /\ updated = {}
  /\ synced = 0
----------------------------------------------------------------------------
\* Server.update begins a scan.
StartScan ==
  /\ entityIndex = 0
  /\ entityIndex' = prevEntityIndex
  /\ UNCHANGED <<world, component, remoteMinae, prevEntityIndex, tick, cache, told>>

\* The loop has come to the end of the list.
EndScan ==
  /\ entityIndex > Cardinality(entityIds)
  /\ entityIndex' = 0
  /\ prevEntityIndex' = 1
  /\ UNCHANGED <<world, component, remoteMinae, tick, cache, told>>

NextEntity == entityIndex' = entityIndex + 1 /\ UNCHANGED prevEntityIndex

\* Mutants of OutOfTime: counts from 0; resumes with the entity it stopped at.
OutOfTimeZero == entityIndex' = 0 /\ prevEntityIndex' = entityIndex - 1
OutOfTimeHere == entityIndex' = 0 /\ prevEntityIndex' = entityIndex

\* maxExecutionTime is over: the next frame resumes behind this entity.
OutOfTime == entityIndex' = 0 /\ prevEntityIndex' = entityIndex + 1

\* An entity that is gone, ...
DeleteDead(e) ==
  /\ IsAt(e, entityIndex)
  /\ e \notin alive
  /\ \E forgotten \in SUBSET Entities : e \in forgotten /\ Store!Forget(forgotten)
  /\ NextEntity
  /\ UNCHANGED <<world, component, remoteMinae, tick, told>>

\* ... or neither cached nor included is passed over, without a look at the time.
Exclude(e) ==
  /\ IsAt(e, entityIndex)
  /\ e \in alive
  /\ cache[e] = None /\ kind[e] = "excluded"
  /\ NextEntity
  /\ UNCHANGED <<world, component, remoteMinae, tick, cache, told>>

\* An entity that is synced.
IsTurn(e) ==
  /\ IsAt(e, entityIndex)
  /\ e \in alive
  /\ cache[e] # None \/ kind[e] # "excluded"

\* One without network components gets them, and a nuid, in its turn.
Numbered(e) == [component EXCEPT ![e] = IF @ = "none" THEN "nuid" ELSE @]

\* Mutant of isTick: a look at the time that leaves no trace.
isTickPure == tick /\ UNCHANGED tick

\* NetworkUtils.isTick, if it is true.
isTick == tick /\ tick' = FALSE

\* No tick is due.
Pass(e) ==
  /\ IsTurn(e)
  /\ ~ tick
  /\ component' = Numbered(e)
  /\ NextEntity \/ OutOfTime
  /\ UNCHANGED <<world, remoteMinae, tick, cache, told>>

\* A tick is due, but this is the player of a client.
PassRemoteMina(e) ==
  /\ IsTurn(e)
  /\ isTick
  /\ e \in remoteMinae
  /\ component' = Numbered(e)
  /\ NextEntity \/ OutOfTime
  /\ UNCHANGED <<world, remoteMinae, cache, told>>

\* Mutant of IsNew: asks for the nuid, not for the cache.
HasNoNuid(e) == component[e] # "nuid"

IsNew(e) == cache[e] = None

\* A tick is due and the entity is new: it is announced, after its parents
\* without nuid.
Announce(e) ==
  /\ IsTurn(e)
  /\ isTick
  /\ e \notin remoteMinae
  /\ IsNew(e)
  /\ LET parents == getParentsUntilRootEntity(e)
     IN  /\ component' = [f \in Entities |-> IF f \in {e} \cup parents THEN "nuid" ELSE component[f]]
         /\ announced' = announced \cup {e} \cup parents
  /\ Store!Put(e, "cached")
  /\ synced' = synced + 1
  /\ NextEntity \/ OutOfTime
  /\ UNCHANGED <<world, remoteMinae, updated>>

\* A tick is due and the entity is known: it is sent if it changed, and if it
\* belongs to this process.
Update(e) ==
  /\ IsTurn(e)
  /\ isTick
  /\ e \notin remoteMinae
  /\ ~ IsNew(e)
  /\ component' = Numbered(e)
  /\ \/ updated' = updated \cup {e} /\ kind[e] # "foreign"
     \/ UNCHANGED updated
  /\ Store!Put(e, "cached")
  /\ synced' = synced + 1
  /\ NextEntity \/ OutOfTime
  /\ UNCHANGED <<world, remoteMinae, announced>>

Scan ==
  \/ StartScan \/ EndScan
  \/ \E e \in Entities : \/ DeleteDead(e) \/ Exclude(e) \/ Pass(e)
                         \/ PassRemoteMina(e) \/ Announce(e) \/ Update(e)
----------------------------------------------------------------------------
\* Time passes, also within a frame.
Elapse ==
  /\ ~ tick
  /\ tick' = TRUE
  /\ synced' = 0
  /\ UNCHANGED <<world, component, remoteMinae, prevEntityIndex, entityIndex, cache,
                 announced, updated>>

Changes ==
  /\ entityIndex = 0
  /\ changes < MaxChanges
  /\ changes' = changes + 1
  /\ UNCHANGED <<kind, component, prevEntityIndex, entityIndex, tick, told>>

\* The player or the entities move, or new entities appear.
Move ==
  /\ Changes
  /\ entityIds' \in SUBSET Entities \ {entityIds}
  /\ UNCHANGED <<alive, remoteMinae, cache>>

\* An entity dies with its children, at first still in the lists of the engine.
Die(e) ==
  /\ Changes
  /\ e \in alive
  /\ alive' = {f \in alive : f # e /\ e \notin Ancestors(f)}
  /\ UNCHANGED <<entityIds, remoteMinae, cache>>

\* playerInfo tells which entity is the player of a client.
Recognise(e) ==
  /\ Changes
  /\ kind[e] = "foreign"
  /\ remoteMinae' = remoteMinae \cup {e}
  /\ UNCHANGED <<alive, entityIds, cache>>

\* onDeadNuids deletes a nuid from the cache.
DeleteNuid ==
  /\ Changes
  /\ \E forgotten \in SUBSET Entities : Store!Forget(forgotten)
  /\ UNCHANGED <<alive, entityIds, remoteMinae>>

Next ==
  \/ Scan \/ Elapse \/ Move \/ DeleteNuid
  \/ \E e \in Entities : Die(e) \/ Recognise(e)

Spec == Init /\ [][Next]_vars

\* Server.update runs in every frame, and the clock goes on.
FairSpec == Spec /\ WF_vars(Scan) /\ WF_vars(Elapse)
----------------------------------------------------------------------------
\* The types of the variables.
TypeOK ==
  /\ kind \in [Entities -> {"own", "excluded", "foreign"}]
  /\ alive \subseteq Entities
  /\ entityIds \subseteq Entities
  /\ changes \in Nat
  /\ component \in [Entities -> {"none", "empty", "nuid"}]
  /\ remoteMinae \subseteq Entities
  /\ prevEntityIndex \in Nat \ {0}
  /\ entityIndex \in Nat
  /\ tick \in BOOLEAN
  /\ cache \in [Entities -> {"cached", None}]
  /\ announced \subseteq Entities
  /\ updated \subseteq Entities
  /\ synced \in Nat

(***************************************************************************)
(* Clients are told of an entity, with a nuid, before they are sent its    *)
(* data: newNuid precedes entityData, although nuids are handed out in     *)
(* turns without tick, which announce nothing, and the cache may forget    *)
(* any entity at any time.  Code: EntityUtils.lua:369-432.                 *)
(***************************************************************************)
AnnouncedFirst ==
  /\ updated \subseteq announced
  /\ \A e \in announced : component[e] = "nuid"

(***************************************************************************)
(* "x-message per second = tick rate x" (settings.lua:252): between two    *)
(* ticks no more than one entity is synced, over all frames and turns.     *)
(***************************************************************************)
OnePerTick == synced <= 1

(***************************************************************************)
(* When an entity is in the cache, all its parents up to the root have     *)
(* nuids, whether config.lua includes them or not and in which order the   *)
(* turns came.  Code: getParentsUntilRootEntity.                           *)
(***************************************************************************)
ParentsHaveNuids ==
  \A e, p \in Entities : cache[e] # None /\ p \in Ancestors(e) => component[p] = "nuid"

Scanned == {e \in entityIds \cap alive : kind[e] = "own"}

(***************************************************************************)
(* An entity of this process without network components that stays around  *)
(* the player gets them, with a nuid, although scans run out of time and   *)
(* resume by index in a list that may have changed meanwhile.  (Changes of *)
(* the world are bounded.)                                                 *)
(***************************************************************************)
EventuallyNumbered ==
  \A e \in Entities : e \in Scanned ~> e \notin Scanned \/ component[e] # "none"
=============================================================================
