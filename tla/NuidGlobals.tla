---------------------------- MODULE NuidGlobals ----------------------------
(***************************************************************************)
(* Where network unique ids (nuids) come from, and how a death is noticed. *)
(* The process that hosts a game: its Lua memory (NuidUtils), the globals  *)
(* of the game (GlobalsUtils), the components of its entities              *)
(* (NetworkVscUtils), the script nuid_updater.lua that the engine runs     *)
(* when its component is added to and removed from an entity, and the save *)
(* file world_state.xml, which both the game and NuidUtils read back.      *)
(*                                                                         *)
(* The engine is external: when it runs a script, saves, ends or reloads   *)
(* is left open.  A reload restores the saved entities and globals, loses  *)
(* all Lua memory, and adds the components of the entities anew.           *)
(***************************************************************************)
EXTENDS Integers, Sequences

CONSTANTS
  Entities,   \* entities that may come to exist in this world
  Mina,       \* the player of this process, one of them
  ScriptsFirst, \* whether the engine runs added scripts before it saves
  MaxNuid,    \* bound: the highest nuid handed out
  MaxSaves    \* bound: how often the engine writes the save file

ASSUME MinaAssumption == Mina \in Entities
ASSUME ScriptsFirstAssumption == ScriptsFirst \in BOOLEAN
ASSUME NuidBoundAssumption == MaxNuid \in Nat /\ MaxSaves \in Nat

Nuids == 1 .. MaxNuid
NoNuid == 0            \* the value "" of a nuid component
NilNuid == 0           \* the text "nil" in the list of dead nuids

VARIABLES
  role,       \* whoAmI(): "server" while a server runs, else "client"
  counter,    \* NuidUtils: counter
  xmlParsed,  \* NuidUtils: xmlParsed
  life,       \* entity -> "unborn", "alive" or "dead"
  nuid,       \* entity -> its nuid component, NoNuid when empty
  updater,    \* entity -> its nuid_updater: "none", "added" or "ran"
  mapping,    \* global "nuid = n": sign of its entity id, or no such global
  deadNuids,  \* global "deadNuids" ...
  deadKey,    \* ... and whether that global was ever written
  saved,      \* the last save, with the world it belongs to
  saves,      \* history: saves so far
  issued,     \* history: nuids handed out since the world was loaded
  loaded,     \* history: nuids with a global when the world was loaded
  reported    \* history: nuids sent with the event deadNuids since then

lua == <<counter, xmlParsed>>
components == <<life, nuid, updater>>
globals == <<mapping, deadNuids, deadKey>>
history == <<saves, issued, loaded, reported>>
vars == <<role, lua, components, globals, saved, history>>

\* The sign of the entity id in the global of a nuid.
NoGlobal == "none"
Living == "entityId > 0"
Killed == "entityId < 0"
Keys(m) == {n \in Nuids : m[n] # NoGlobal}

World == [life |-> life, nuid |-> nuid, updater |-> updater,
          mapping |-> mapping, deadNuids |-> deadNuids, deadKey |-> deadKey]
----------------------------------------------------------------------------
Init ==
  /\ role = "client"
  /\ counter = 0
  /\ xmlParsed = FALSE
  /\ life = [e \in Entities |-> IF e = Mina THEN "alive" ELSE "unborn"]
  /\ nuid = [e \in Entities |-> NoNuid]
  /\ updater = [e \in Entities |-> "none"]
  /\ mapping = [n \in Nuids |-> NoGlobal]
  /\ deadNuids = << >>
  /\ deadKey = FALSE
  /\ saved = World
  /\ saves = 0
  /\ issued = {}
  /\ loaded = {}
  /\ reported = {}

Start ==
  /\ role = "client"
  /\ role' = "server"
  /\ UNCHANGED <<lua, components, globals, saved, history>>

Stop ==
  /\ role = "server"
  /\ role' = "client"
  /\ UNCHANGED <<lua, components, globals, saved, history>>
----------------------------------------------------------------------------
\* Mutant of getNextNuid: never reads the save file.
getNextNuidWithoutSave(next) ==
  /\ role = "server"
  /\ counter < MaxNuid
  /\ next = counter + 1
  /\ counter' = next
  /\ xmlParsed' = TRUE
  /\ issued' = issued \cup {next}

\* NuidUtils.getNextNuid: the first call after a start of the game raises the
\* counter to the highest nuid with a global in the save file.  (The other
\* globals with "nuid" in their name parse to nil and are passed over.)
getNextNuid(next) ==
  /\ role = "server"
  /\ \E highest \in {counter} \cup (IF xmlParsed THEN {} ELSE Keys(saved.mapping)) :
       /\ \A n \in Keys(saved.mapping) : xmlParsed \/ n <= highest
       /\ counter <= highest
       /\ highest < MaxNuid
       /\ next = highest + 1
  /\ counter' = next
  /\ xmlParsed' = TRUE
  /\ issued' = issued \cup {next}

\* NetworkVscUtils: only an empty nuid component can be filled, ...
addOrUpdateVscForNuid(e, n) ==
  /\ nuid[e] = NoNuid
  /\ nuid' = [nuid EXCEPT ![e] = n]

\* ... an entity has at most one updater, ...
addNuidUpdater(e) ==
  updater' = [updater EXCEPT ![e] = IF @ = "none" THEN "added" ELSE @]

\* ... and gets the two together.
addOrUpdateAllVscs(e, n) == addOrUpdateVscForNuid(e, n) /\ addNuidUpdater(e)

\* OnWorldPreUpdate asks for the local player in every frame.  Before a server
\* runs, MinaUtils gives the player its components without a nuid.
AddEmptyVscs ==
  /\ role = "client"
  /\ life[Mina] = "alive"
  /\ updater[Mina] = "none"
  /\ addOrUpdateAllVscs(Mina, NoNuid)
  /\ UNCHANGED <<role, lua, life, globals, saved, history>>

\* The engine creates an entity.
Spawn(e) ==
  /\ life[e] = "unborn"
  /\ life' = [life EXCEPT ![e] = "alive"]
  /\ UNCHANGED <<role, lua, nuid, updater, globals, saved, history>>

\* Every frame begins with MinaUtils.getLocalMinaInformation and ends there
\* if the player is gone, or, by an error, if a server runs and the player has
\* no network components.
FrameRuns == life[Mina] = "alive" /\ updater[Mina] # "none"

\* A server finds a living entity without nuid, in its scan over the entities
\* around the player or, for the player itself, when a client connects.
AssignNuid(e) ==
  \E n \in Nuids :
    /\ FrameRuns
    /\ life[e] = "alive"
    /\ getNextNuid(n)
    /\ addOrUpdateAllVscs(e, n)
    /\ UNCHANGED <<role, life, globals, saved, saves, loaded, reported>>

\* onNeedNuid: a client asks for a nuid; the server draws it and loads a copy
\* of the entity that carries it.
SpawnForClient(e) ==
  \E n \in Nuids :
    /\ FrameRuns
    /\ life[e] = "unborn"
    /\ life' = [life EXCEPT ![e] = "alive"]
    /\ getNextNuid(n)
    /\ addOrUpdateAllVscs(e, n)
    /\ UNCHANGED <<role, globals, saved, saves, loaded, reported>>
----------------------------------------------------------------------------
\* Mutant of setNuid: every entity id gets the sign of a killed one.
setNuidKilled(n, sign) ==
  mapping' = IF n = NoNuid THEN mapping ELSE [mapping EXCEPT ![n] = Killed]

\* GlobalsUtils.setNuid for an entity with or without a nuid: the global
\* "nuid = nil" is never read as a nuid and is left out.
setNuid(n, sign) ==
  mapping' = IF n = NoNuid THEN mapping ELSE [mapping EXCEPT ![n] = sign]

\* GlobalsUtils.setDeadNuid: nil cannot start the list, but can follow.  What
\* the engine makes of a write of nil to an empty list is left open.
setDeadNuid(n) ==
  IF n = NoNuid /\ deadNuids = << >>
    THEN deadNuids' = deadNuids /\ deadKey' \in {deadKey, TRUE}
    ELSE deadNuids' = Append(deadNuids, n) /\ deadKey' = TRUE

\* nuid_updater.lua runs because its component was added.
UpdaterAdded(e) ==
  /\ life[e] = "alive"
  /\ updater[e] = "added"
  /\ updater' = [updater EXCEPT ![e] = "ran"]
  /\ setNuid(nuid[e], Living)
  /\ UNCHANGED <<role, lua, life, nuid, deadNuids, deadKey, saved, history>>

\* nuid_updater.lua runs because its entity is killed.  It reads no nuid if
\* the entity already counts as dead to the engine (isEntityAlive) ...
UpdaterRemoved(e) ==
  \E n \in {nuid[e], NoNuid} :
    /\ life[e] = "alive"
    /\ updater[e] = "ran"
    /\ life' = [life EXCEPT ![e] = "dead"]
    /\ setNuid(n, Killed)
    /\ setDeadNuid(n)
    /\ UNCHANGED <<role, lua, nuid, updater, saved, history>>

\* ... or it never ran before and takes the removal for an addition, which
\* does nothing if the entity already counts as dead ...
UpdaterRemovedEarly(e) ==
  \E n \in {nuid[e], NoNuid} :
    /\ life[e] = "alive"
    /\ updater[e] = "added"
    /\ life' = [life EXCEPT ![e] = "dead"]
    /\ setNuid(n, Living)
    /\ UNCHANGED <<role, lua, nuid, updater, deadNuids, deadKey, saved, history>>

\* ... or the entity has no updater, and nothing notices its death.
DieUnnoticed(e) ==
  /\ life[e] = "alive"
  /\ updater[e] = "none"
  /\ life' = [life EXCEPT ![e] = "dead"]
  /\ UNCHANGED <<role, lua, nuid, updater, globals, saved, history>>
----------------------------------------------------------------------------
\* GlobalsUtils.getDeadNuids drops the first "nil" of the list only: onDeadNuids
\* stops with an error at the second one, and at the end if there is none.
Nils == {i \in DOMAIN deadNuids : deadNuids[i] = NilNuid}
StopsAt(i) ==
  /\ \A j, k \in Nils : j < k => i <= k
  /\ i = Len(deadNuids) + 1 \/ (i \in Nils /\ \E j \in Nils : j < i)

\* The list once every nuid before that was removed (removeDeadNuid): the first
\* "nil" was only dropped from a copy.
Remaining(stop) ==
  (IF \E i \in Nils : i < stop THEN <<NilNuid>> ELSE << >>)
    \o SubSeq(deadNuids, stop, Len(deadNuids))

\* NuidUtils.getEntityIdsByKillIndicator: the listed nuids and those the save
\* file says are killed.  Reading the file raises an error as soon as it has
\* the global "deadNuids", whose name also contains "nuid".
KilledInSave == {n \in Nuids : saved.mapping[n] = Killed}

Listed == {deadNuids[i] : i \in DOMAIN deadNuids}

\* Mutants of Announced: with the text "nil"; without the list.
AnnouncedWithNil == KilledInSave \cup Listed
AnnouncedFromSave == KilledInSave

Announced == KilledInSave \cup (Listed \ {NilNuid})

\* EntityUtils.syncDeadNuids in a tick of the server: Server.sendDeadNuids
\* sends the nuids to all clients and runs onDeadNuids on them.
syncDeadNuids ==
  /\ role = "server"
  /\ FrameRuns
  /\ ~ saved.deadKey
  /\ deadNuids # << >> \/ KilledInSave # {}
  /\ reported' = reported \cup Announced
  /\ \E i \in 1 .. Len(deadNuids) + 1 : StopsAt(i) /\ deadNuids' = Remaining(i)
  /\ UNCHANGED <<role, lua, components, mapping, deadKey, saved, saves,
                 issued, loaded>>

\* The engine writes world_state.xml and the entities.
Save ==
  /\ saves < MaxSaves
  /\ ScriptsFirst => \A e \in Entities : life[e] = "alive" => updater[e] # "added"
  /\ saves' = saves + 1
  /\ saved' = World
  /\ UNCHANGED <<role, lua, components, globals, issued, loaded, reported>>

\* The game ends, by a crash or not, and the world is loaded again.
Reload ==
  /\ saves > 0
  /\ role' = "client"
  /\ counter' = 0
  /\ xmlParsed' = FALSE
  /\ life' = saved.life
  /\ nuid' = saved.nuid
  /\ updater' = [e \in Entities |-> IF saved.updater[e] = "none" THEN "none" ELSE "added"]
  /\ mapping' = saved.mapping
  /\ deadNuids' = saved.deadNuids
  /\ deadKey' = saved.deadKey
  /\ loaded' = Keys(saved.mapping)
  /\ issued' = {}
  /\ reported' = {}
  /\ UNCHANGED <<saved, saves>>

Next ==
  \/ Start \/ Stop \/ AddEmptyVscs \/ syncDeadNuids \/ Save \/ Reload
  \/ \E e \in Entities :
       \/ Spawn(e) \/ AssignNuid(e) \/ SpawnForClient(e)
       \/ UpdaterAdded(e) \/ UpdaterRemoved(e) \/ UpdaterRemovedEarly(e)
       \/ DieUnnoticed(e)

Spec == Init /\ [][Next]_vars

\* The engine calls Server.update in every frame and ticks recur, so that a
\* tick with something to do comes; nothing else is promised.
FairSpec == Spec /\ WF_vars(syncDeadNuids)
----------------------------------------------------------------------------
Lives == {"unborn", "alive", "dead"}
Signs == {NoGlobal, Living, Killed}
Worlds == [life : [Entities -> Lives],
           nuid : [Entities -> Nuids \cup {NoNuid}],
           updater : [Entities -> {"none", "added", "ran"}],
           mapping : [Nuids -> Signs],
           deadNuids : Seq(Nuids \cup {NilNuid}),
           deadKey : BOOLEAN]

TypeOK ==
  /\ role \in {"client", "server"}
  /\ counter \in 0 .. MaxNuid
  /\ xmlParsed \in BOOLEAN
  /\ World \in Worlds
  /\ saved \in Worlds
  /\ saves \in 0 .. MaxSaves
  /\ issued \subseteq Nuids
  /\ loaded \subseteq Nuids
  /\ reported \subseteq Nuids

\* A nuid is never handed out twice after the world was loaded, nor one that
\* then had a global, although the counter starts again at 0 and its first
\* use may come after later saves.  Code: NuidUtils.getNextNuid.
NuidFresh ==
  [][ \/ Reload
      \/ \A n \in issued' \ issued :
           n \notin loaded /\ \A m \in issued : m < n ]_vars

\* What is announced to the clients as dead has died: a living entity is never
\* killed there, whatever is saved, reloaded and announced in between.  Code:
\* nuid_updater.lua, GlobalsUtils.setDeadNuid, getEntityIdsByKillIndicator.
DiedWith(n) == \E e \in Entities : life[e] = "dead" /\ nuid[e] = n
ReportedReallyDied == \A n \in reported : DiedWith(n)

\* A death in the globals is announced, unless the save file has the key
\* "deadNuids".  Code: EntityUtils.syncDeadNuids, GlobalsUtils.removeDeadNuid.
Waiting(n) ==
  /\ role = "server"
  /\ FrameRuns
  /\ mapping[n] = Killed
  /\ n \notin reported
DeathAnnounced ==
  \A n \in Nuids : ~ <>[](Waiting(n) /\ ~ saved.deadKey)

\* No two living entities carry the same nuid: it is a "network unique
\* identifier".  (NuidUtils.lua, head of the class)
NuidUnique ==
  \A d, e \in Entities :
    life[d] = "alive" /\ life[e] = "alive" /\ nuid[d] = nuid[e] /\ nuid[d] # NoNuid
      => d = e
=============================================================================
