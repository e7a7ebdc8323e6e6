# NoitaMP in TLA+

NoitaMP is a mod that lets several instances of the game Noita share a run. One instance is the server, the
others connect to it with enet. This directory specifies the parts of the mod in which order, failure and time
matter, checks them with TLC on small instances, and proves the central results with TLAPS for every instance.

Paths below are relative to the repository; `scripts/` is `mods/noita-mp/files/scripts/`.

## 1. Inventory

All Lua code of a process runs in one thread, inside callbacks of the engine. `init.lua` calls `Server.update`
and `Client.update` before each frame of the world; these scan the entities, synchronise deaths in every tick, and
then handle all events that enet has for them, each handler running to its end or to an error. What interleaves is
the processes, the messages between them, the engine (which runs the scripts of entities, kills entities, saves and
reloads) and the garbage collector.

| component | state | operations | interacts with |
| --- | --- | --- | --- |
| EntityCache, C (`.building/luaExtensions.c:4-193`) | one array of entries, searched linearly; numbers by value, strings by address | set, get, delete, deleteNuid | written and read by the entity scan |
| NetworkCache, C (`luaExtensions.c:195-401`, `scripts/util/NetworkCacheUtils.lua`) | one array of sent messages, keyed by peer number, event and message id; addresses of checksums | set, get, getChecksum, clear, removeOldest | every send looks up and writes it, onDisconnect clears it |
| Sending (`scripts/net/Server.lua:836-890`, `Client.lua:887-911`, `NetworkUtils.lua`) | the message id counter | send, sendToAll, sendToAllBut, alreadySent, acknowledgements | cache, enet |
| Session (`Server.lua:195-344`, `Client.lua:202-449`, `GuidUtils.lua`) | `self.clients` with the guid of each peer, `cached_guid`, `self.guid`, `otherClients`, the connection | connect, disconnect, onConnect, onConnect2, onDisconnect, onPlayerInfo, onNewGuid, onSeed | sends through the cache; guids are kept in the mod settings |
| Nuids (`NuidUtils.lua`, `GlobalsUtils.lua`, `scripts/noita-components/nuid_updater.lua`, `NetworkVscUtils.lua`) | counter, globals of the world, network components of entities, save file | getNextNuid, setNuid, setDeadNuid, removeDeadNuid, syncDeadNuids, the updater script | drawn by scan and handlers; the engine runs the script, saves and reloads |
| Nuid handshake (needNuid, newNuid, lostNuid, `EntityUtils.spawnEntity`) | entities with and without nuid on both sides, copies, what was asked and answered | sendNeedNuid, onNeedNuid, sendNewNuid, onNewNuid, onEntityData, sendLostNuid, onLostNuid | nuids, sending, session |
| Deaths (deadNuids: `EntityUtils.syncDeadNuids`, `destroyByNuid`, `Server.lua:517-537`, `Client.lua`) | the list of dead nuids, globals and entities of each process | syncDeadNuids, sendDeadNuids, onDeadNuids of both sides, lostNuid | nuids, sending, entityData |
| Entity scan (`EntityUtils.processAndSyncEntityNetworking`, sendEntityData) | index of the next entity, time of the last tick | one scan per frame, cut short after a time budget | entity cache, nuids, sending |
| Garbage collector of LuaJIT (`.building/LuaJIT-2.0.4/src/lj_gc.c`, vendored; `init.lua:154-165` calls it) | colours of objects, lists of gray objects, sweep position, userdata to finalize | `lj_gc_step`, `lj_gc_fullgc`, write barriers | runs between the steps of all Lua code; the checksums of the network cache are its strings |
| Mod list and mod content (needModList ... modContent) | required and missing mods | handlers of both sides, files | sending, file utilities |
| Settings, files, profiler, logger, Lua extensions, user interface | files, tables | pure helpers, I/O | all |

What is hard, and what makes each component correct:

* **EntityCache.** A deletion moves the wrong half of the array, so that its effect depends on all earlier calls; the
  owner and the file name of an entry are addresses of Lua strings the collector may free. Correct: `get` answers with
  the nuid and the numbers of the last `set` of that entity, or nothing; its strings are those until one is freed.
* **NetworkCache and sending.** One message id goes to several peers in a loop; each turn looks up and writes the
  cache; a guid is cut to a number that is the same for all peers; the C array keeps addresses of Lua strings that
  the collector may free. Correct: the cache is a log of what was sent; a payload is not sent again without need; a
  client is skipped only if it was sent the payload.
* **Session.** Guids come from two sides and are replaced while messages that carry the old ones are on their way;
  connections break and are opened again in any order; caches outlive connections. Correct: the server keeps its
  peers apart; a client adopts the guid meant for it.
* **Nuids.** The counter lives in memory and is rebuilt from a save file read later than the world was loaded;
  deaths travel through a script, a global, a save and a list with holes. Correct: a nuid is handed out once, only
  the dead are announced as dead, and each death is announced.
* **Nuid handshake.** A client asks in every frame, before its connection stands and over several connections, for
  entities that may die; answers go to all, name an id that means something else elsewhere, and an owner by a guid that
  `newGuid` may have replaced since. Correct: an entity carries one nuid, drawn for it; a question is answered once; who
  asks gets the answer.
* **Deaths.** Each process announces what died with it, kills what others announce, and asks for what it does not
  know; an announcement may race data, a new copy and a question for the same nuid, and its checksum is that of a
  question. Correct: nobody is told of an entity after its death; a death reaches the copies.
* **Garbage collector.** The program changes the heap between any two steps of marking and sweeping; coroutines,
  upvalues, strings and userdata come back from the dead. Correct: nothing the program can reach is freed, all else is
  in the end, and finalizers come first.
* **Entity scan.** It is resumed at an index into a list that was rebuilt in between, and one time stamp decides
  for all entities whether it is time to synchronise. Correct: each entity in reach gets a nuid and is announced, clients
  are told of an entity before its data, and no more is sent than the ticks allow.

`PROJECT.json` lists these hazards at their lines, with the properties that cover them.

## 2. Modules

| module | models | state and actions |
| --- | --- | --- |
| `LossyStore` | what a cache promises: last value or nothing | `Put`, `Forget` |
| `EntityCache` | the C array of entities, and the memory its addresses point to | `Set`, `Delete`, `DeleteNuid`; `Removed` is the memmove as it is, `Answer` reads a string from memory; the program's `Intern` and the collector's `Collect` |
| `NetworkCache` | the functions of the C array of messages | operators only: `NetworkWritten`, `Cleared`, lookups |
| `Messaging` | the sending of the server, over `NetworkCache` | `pending` is the loop over the clients: `Send`, `SendToAll` and `SendToAllBut` start it, `Transmit`, `Suppress` and `SendUncacheable` are its turns, `Finish` ends it; `Connect`, `Disconnect`, `DisconnectAborted`, `Receive`, `OnAcknowledgement`, `Collect` |
| `Session` | both sides of the session, with enet between them | one action per handler and event: `ServerOnConnect`, `ServerOnPlayerInfo`, `ServerOnPlayerInfoTaken`, `ServerOnDisconnect`, `ClientOnConnect`, `ClientOnSeed`, `ClientOnConnect2`, `ClientOnNewGuid`, `ClientOnDisconnect`; the player's `Connect` and `Disconnect`; `TimeOut`, `Restart`, `CollectAtServer`, `CollectAtClient` |
| `NuidGlobals` | nuids, globals, updater script, save file of the hosting process | `AssignNuid`, `SpawnForClient` (draw a nuid), `AddEmptyVscs`, `UpdaterAdded`, `UpdaterRemoved`, `UpdaterRemovedEarly`, `syncDeadNuids`, `Start`, `Stop`; the engine's `Spawn`, `DieUnnoticed`, `Save`, `Reload` |
| `EntityScan` | the scan of a server for entities to announce or update, over `LossyStore` | one action per turn of the loop: `DeleteDead`, `Exclude`, `Pass` (no tick), `PassRemoteMina`, `Announce`, `Update`, each going on (`NextEntity`) or cut short (`OutOfTime`); `StartScan`, `EndScan`; time (`Elapse`) and the world between two frames (`Move`, `Die`, `Recognise`, `DeleteNuid`) |
| `NuidRegistry` | what nuids promise: drawn for one entity, which keeps it | `Draw`, `DrawAndCarry`, `Carry` |
| `NuidHandshake` | the entities of server and clients between needNuid and their nuid, and the guids of their owners | the scans: `sendNeedNuid`, `ServerScan`, `ServerScanCopy`, `ServerSendEntityData`; one action per handler: `ServerOnPlayerInfo`, `ServerOnNeedNuid`, `ServerOnLostNuid`, `ClientOnNewGuid`, `ClientOnNewNuid`, `ClientOnEntityData`, `ClientOnSeed`, and those of connections; the engine's `Die` and `UpdaterAdded`; `Connect`, `Disconnect`, `Collect` |
| `DeathSync` | how the death of an entity reaches its copies in the other processes | the entities: `Number`, `ServerOnNeedNuid`, `ServerScan`, `ServerSendEntityData`; the engine's `Die`, `UpdaterAdded`, `UpdaterRemoved`, `DieEarly`; `ServerSyncDeadNuids`, `ClientSyncDeadNuids`; one action per handler: `ServerOnLostNuid`, `ServerOnDeadNuids`, `ClientOnNewNuid`, `ClientOnEntityData`, `ClientOnDeadNuids`, and those of connections; `Collect` |
| `LuaGC` | the collector of LuaJIT and the program that runs between its steps | the program: `New`, `Intern`, `NewClosure`, `Load`, `StoreInTable`, `StoreInThread`, `StoreInUdata`, `SetUpvalue`, `Drop`, `SetMode`, `CloseUpvalue`; the collector: one action per step of `gc_onestep` (`StartCycle`, `propagatemark`, `atomic`, `sweepstring`, `sweep`, `gc_finalize`, the ends of the phases), `lj_gc_fullgc` |
| `EntityCacheProofs`, `NuidGlobalsProofs`, `SessionProofs`, `EntityScanProofs`, `NuidHandshakeProofs`, `DeathSyncProofs`, `MessagingProofs`, `LuaGCProofs` | theorems | |
| `*MC` | instances for TLC: symmetry and bounds | |

How they compose: `Messaging` EXTENDS `NetworkCache` and keeps the array whose functions that module holds.
`EntityCache` instantiates `LossyStore` with the refinement mapping `Cached`, and `EntityScan` uses the cache by that
abstract specification only: what is shown of the scan holds for any cache that may forget, the C array included (the
scan reads the numbers of an answer, never its strings, `EntityUtils.lua:326-422`).
`NuidHandshake` instantiates `NuidRegistry`, which has two of its variables. `LuaGC` is the external `Collect` of the other modules: that a checksum is freed
while the C array of `NetworkCache` keeps its address contradicts nothing in `LuaGC`, since the C array is no root. `Session` and `NuidHandshake` use the result of
`Messaging` in a short form: with one number for all peers a payload counts as sent to everybody once it was sent to
one (`Recipients`), until the cache is cleared or the collector frees a checksum (then anything may happen, and
`collected` remembers whose). `NuidHandshake` takes of `Session` that the server tells the guids of its peers apart and draws a new one for a guid it
knows, and of `NuidGlobals` that nuids are drawn in order. A guid is there its owner and a number, so that two clients
never have the same; with machines that start with one guid, `Session` says what becomes of it. `DeathSync` takes of
`NuidHandshake` that a nuid belongs to one entity, and that the server has it first; where `NuidGlobals` follows the
deaths of one process through reloads, it follows them through connections. The `map` of `PROJECT.json` gives the source lines of each definition.

Facts of the code that shape the models:

* `GuidUtils.toNumber` converts 32 hexadecimal digits with `tonumber(_, 16)`, which saturates. Every peer has the same
  number in the cache, hence `toNumber(client) == ULONG_MAX`.
* `Server.onAcknowledgement` computes the checksum of what it read from the cache, which is a table `zipTable` cannot
  take values from, and raises. Nothing is ever acknowledged in the cache, and `removeOldest` is never reached.
* `onDisconnect` of the server adds the nuid of the peer to `disconnect2`, a value its schema has no key for. With a
  nuid and another client `zipTable` raises, nobody is told and the cache is not cleared (`DisconnectAborted`).
* The server creates the object of a peer with `Client.new`, which reads the guid of its own settings: a new peer
  always has the guid of the server first, and always is given a new one.
* `Client.update` returns at once unless its connection is up or coming up, so that the event of a disconnect waits
  for the next connect.
* `NetworkUtils.isTick` answers true once per tick, to whoever asks first. Every turn of the scan asks, so that a tick
  serves one entity; a turn for the player of a client takes the tick and sends nothing.
* `Client.update` scans, and asks for nuids, also while the connection is coming up; `Client.send` does not look at the
  state of the connection, and records in its cache what enet does not take.
* `needNuid` is cached under the name and the guid of the owner (`NetworkUtils.lua:100`), and `spawnEntity` compares
  the owner of an answer with the guid its process has now (`EntityUtils.lua:470-474`), which `newGuid` replaces
  (`Client.lua:379-390`, `config.lua:67-69`): with a new guid the scan asks again, and answers under the old one are
  for a stranger.
* `EntityCache.set` keeps what `luaL_checkstring` returns, the address of a Lua string, and anchors nothing; `get` makes a
  new string of what it finds there (`luaExtensions.c:49-51, 67-69, 95-102`).
* The array on the wire has `owner` as an array, too: `spawnEntity` reads `owner[2]`, and `onNewNuid`, which reads
  `owner.guid`, never sets `self.nuid`.
* The server scans the copies of its clients' entities like its own; only players it knows are passed over
  (`isRemoteMinae`).
* The answer to `lostNuid` has the id "unknown": `spawnEntity` cannot take it for an entity of the client.
* `atomic` marks what it finds in a certain order (open upvalues, weak tables, the running thread, the second chance
  list), each followed by `gc_propagate_gray`. Nothing runs in between, so that the result is the smallest set of
  objects that contains them and is closed (`Spread`), whatever the order.
* A dead string or open upvalue is alive again when it is found before the sweep comes to it. A dead table is not:
  only strings are found by their content, and upvalues by their stack slot.
* The updater of the local player is added before a server runs, when she has no nuid, and is never run again: no
  global names her nuid. This is why `NuidUnique` fails and `NuidFresh` speaks of nuids with a global.

## 3. Runs

| run | shows | bounds |
| --- | --- | --- |
| `entity_cache` | The array refines the lossy store in what it has by value (`IsLossyStore`, whose second part ties each call to its own step of the store and leaves the strings as they were set until one is freed); a deletion forgets entities of the two last slots only. | 3 entities, a nuid or none, 2 values of the numbers, 2 texts at 2 addresses, 4 slots |
| `messaging` | The cache is a log of what was sent; a payload goes out once plus once per collection; message ids arrive in order. | 2 clients, 2 payloads of a cacheable event and 2 of another, 3 message ids, each checksum freed once between clears, 3 addresses |
| `messaging_skip` | violated: only who was sent a payload is skipped | no collections |
| `session` | The server never has two peers of one guid; no client lists itself; no two clients adopt one guid while the server's checksums live. | 2 clients, 3 connections, 4 guids to draw, one process that loses a checksum (then 2 connections) |
| `nuid_globals` | No nuid is handed out twice while the process lives, nor one with a global in the world it loaded; only the dead are announced; each death in the globals is announced, as long as the save file has no key `deadNuids`. | 3 entities, 2 nuids, 2 saves, any number of reloads |
| `nuid_globals_unique` | violated: no two living entities have one nuid | 2 entities, 2 nuids, 1 save |
| `entity_scan` | Clients are told of an entity before its data; parents of cached entities have nuids; one entity is synced per tick; each entity without network components that stays in reach gets them, with a nuid. | 3 entities, each the parent of the next, every mixture of own, excluded and foreign ones, 2 changes of the world |
| `nuid_handshake` | An entity carries one nuid, which was drawn for it (`IsRegistry`); without collections one nuid is drawn for it under each guid of its owner, and the answer ends with it or as one copy; the first client gets its answer. | 2 clients, the first of which the server may know from before; an entity of it and one of the server with equal ids, copies on the server with another; 2 guids of a client, 3 nuids, 2 connections, 1 process that loses checksums |
| `nuid_handshake_unset` | violated: the nuid of an entity of a connected client is set in the end | the same, 1 guid, 2 nuids, 1 connection, no collections |
| `nuid_handshake_additional` | violated: no client loads a copy of a living entity of its own | the same, 1 guid, 2 nuids, 1 connection, no collections |
| `death_sync` | No client is told to load or move an entity after it was told of its death; a death at the server kills the copy of the first client, a death at a client the entity of the server. | 2 clients, 2 nuids (an entity of the server and one of a client), 2 copies of a nuid, 2 connections, 1 process that loses checksums |
| `lua_gc` | Nothing reachable is dead or freed, what was traversed refers to nothing white, all is white between two cycles, userdata is finalized first, weak references are cleared only if nothing else keeps the object, and garbage is freed. | 2 threads, a table, a closure, an upvalue, a string, 2 userdata; 2 objects on the stack, 3 references elsewhere |

Why the bounds are enough: the hazards need two of each. With four slots an entity can be doubled by one deletion
and overwritten, while another falls off; with two addresses the string of an entry can be freed and its address taken by
the other text. With two clients the loop has a turn before and a turn after a collection,
and "all but one" differs from "all" and from "one"; with three addresses a freed checksum can come back to its
address, move, or find its address taken by the other payload. Three connections let one client
reconnect while the other stays, and four guids let each of them be given a guid and one be replaced. Two saves let the
counter read a save later than the one loaded. Three entities in a chain have a parent beyond the parent, and a list in
which an index can point before, at and behind what it pointed to; two changes let an entity die or leave and the list
change again before the scan resumes. The bounded counters (`MaxMessageId`, `MaxConnections`,
`MaxCollections`, `MaxNuid`, `MaxSaves`, `MaxSize`,
`MaxChanges`, `MaxConnects`, `MaxGuids`, `MaxQueue`, `MaxId`) are constants and guards; where a run stops at one of them deadlock
is not checked; `entity_cache`, the scan and the collector run forever. `SessionMC` cuts the third connection where a checksum was freed
(`Explored`) and draws interchangeable guids in order (`InOrder`).
In `nuid_handshake` either client may be the first, so that answers reach who asked and who did not; the equal ids are
what a foreign answer could be mistaken for; two connections let a question, an answer and a cleared cache meet again. A
client the server knows (`Returning`) reports a known guid in its first connection already, so that a question under the old
guid, its answer and `newGuid` pass each other; a client it does not know needs a collection for that.
After a collection and after a `newGuid` `Explored` cuts the queues and copies, and it leaves out what another
`newGuid` leads to, and a first one after a collection.
In `death_sync` the two nuids let a death meet one of the other side, and a list hold both; two messages under way are an
announcement that passes, or is passed by, anything else; two copies let one outlive the global that named it. `Explored`
looks at the entity of the server with two connections and two copies, and at that of a client, at both, or at a
collection with one connection and one copy of each; at most one entity of a nuid is killed before its updater is told. `c1` connects first.
A behaviour that is cut off there is not judged by the liveness properties. In `lua_gc` two objects on the stack allow every store and every
resumption of a coroutine, three references elsewhere a chain from a coroutine or a closure to an upvalue to a third
object, or a weak table with a cycle behind it; `Explored` leaves out coroutines together with weak tables, strings or
userdata, strings together with userdata, and two userdata together with weak tables or with three references. It cuts steps of the program only, as collector steps add no
references, but for a finalizer that pushes its userdata on a full stack: a behaviour that is cut off there is not
judged by `GarbageFreed`. The proofs of the safety properties need none of these bounds.

Every property has a mutant of the code it speaks of, with which TLC finds it violated.

**Fairness.** `nuid_globals` assumes weak fairness of `syncDeadNuids`. The engine calls
`OnWorldPreUpdate` before each frame, and `Server.update` calls `syncDeadNuids` whenever a tick has passed, so that an
enabled synchronisation comes. An error in the scan that precedes it (`Server.lua:980`) or in the parsing of another
global could hold it up for ever; the first is assumed away, the second is what the key `deadNuids` does (see 4), which
`DeathAnnounced` excludes. A frame in which the local player is gone or has no components ends earlier: `FrameRuns` is in the guard
and in `Waiting`. The engine is not fair: it need not kill, save or reload.
`entity_scan` assumes weak fairness of `Scan` (`Server.update` calls the scan in each frame, and a turn
of its loop ends) and of `Elapse` (the clock goes on). A scan may be cut short after every turn for ever, and every tick
may fall due between two frames: nothing is assumed of either.
`nuid_handshake` and its violation assume weak fairness of both updates and of the question of each entity, all called in
every frame; connections need not be opened and may break at any time, and entities may die.
`death_sync` assumes weak fairness of both updates and of both synchronisations, which the updates call in each tick. The
updaters, the engine, the scan and the numbering of entities are not fair: only deaths whose updater ran are in a list. `lua_gc` assumes weak fairness of `gc_onestep`: `lj_gc_step` is called when as much was
allocated as the last step allowed (`lj_gc.c:672-701`), which a mod that runs in every frame does again and again. The
program, full collections and the order in which gray objects are taken are free.

## 4. Findings

1. `NetworkUtils.alreadySent` skips clients that were never sent a message, because all have one number. Of the
   clients that `connect2` should tell about a newcomer, one is told (`messaging_skip`).
2. The nuid of the local player has no global, so that after a reload it is handed out again (`MinaUtils.lua:112`,
   `nuid_globals_unique`).
3. A client that starts to connect while its world runs asks for the nuids of its player and its items before enet
   can transmit (`Client.lua:856`, `EntityUtils.lua:284-288`). The questions count as sent, in this connection
   and in later ones, so that these entities, the player among them, get no nuid (`nuid_handshake_unset`), until the
   collector frees the checksum or a `newGuid` changes the payload (which is sent to clients whose guid the server
   knew when they reported it).
4. The scan of the server takes the copy it loaded of a client's entity for a new entity, and announces it under the
   name of its owner with its own id of it (`EntityUtils.lua:391-411`). Ids mean something to their owner only, so that
   `spawnEntity` does not find the entity and the owner loads a copy of it (`nuid_handshake_additional`).

Observed while modelling, with no run of their own:

* `EntityCache.delete` and `deleteNuid` (`luaExtensions.c:165,184`) move the entries from the deleted one up instead
  of moving the later ones down: the entry is doubled and the last ones are lost (`OnlyNewestForgotten`).
  `EntityCache_test.lua:64-67` expects `nil` after a deletion; with one entry it is, which is why the test passes.
* The strings of an entry of the entity cache may be freed, and their memory used for others, while the entry lives
  (`StringsLive` is what is left of them). Nothing goes wrong today, as the program reads the numbers of an answer only.
* A client that played on a running server before, and was restarted, is given a new guid when it comes back. The
  answers to what it asked before `newGuid` came name the old one: `spawnEntity` takes its own living entity for a
  stranger's and loads a copy of it. The scan asks again under the new guid, and the entity gets a second nuid, with
  which the server loads a second copy (`OneNuid` and `AnsweredOnce` say how far this goes).
* Where the id of a copy on the server happens to be the id of an entity of its owner that has no nuid, the
  announcement of the copy (finding 4) gives that entity the nuid of the other. `OwnIds` says that this does not
  happen; `IsRegistry` and `AnsweredOnce` hold of such runs only.
* `newGuid`, "for a specific client" (`Client.lua:361`), is sent to all and reaches the first; if that one has the
  same guid it adopts the new one, while the server keeps it for the other.
* The checksum covers values only: that of `lostNuid` for a nuid is that of `deadNuids` with this nuid alone. A client
  that asked for an entity does not report its death later, and the entity of the server lives on. `sendDeadNuids`
  takes the nuids from the list all the same (`DeathReachesServer` leaves this case out). `Messaging` takes payloads
  of different events to differ.
* A client's report of a death takes the nuid from the server's list (`Server.lua:528`), also if the server has not
  announced it yet; then no client is told by that list (`DeathReachesFirst` leaves this case out).
* `Server.onDeadNuids` hands the list to `sendToAllBut`, which looks for a message id in its first value; with another client
  this raises. What reports a death to the others is the updater of the server's own copy, once it is removed.
* `Client.update` synchronises deaths while the connection is coming up: they count as sent and are lost.
* A global names one entity: of two copies of a nuid, and of one whose updater has not run, a death leaves one alive.
* Once the world was saved with the global `deadNuids`, `getEntityIdsByKillIndicator` raises in every tick and no death
  is announced (`NuidUtils.lua:74`): the key contains "nuid", but parses to no nuid.
* In a frame the first entity of the list takes the tick (`EntityUtils.lua:391`, `NetworkUtils.lua:262`). Where frames
  are shorter than ticks, and the scan reaches the end of its list, the entities behind it are never announced.
* Answers to `needNuid` reach the first client only (finding 1). A second client gets no nuids, and the first loads
  copies of its entities.
* An entity of the server for which `lostNuid` is answered is loaded whether or not a copy exists: the "double check, if
  there is already an entity with this NUID" (`EntityUtils.lua:480`) looks at the id of the owner, which is "unknown"
  or belongs to another entity here, and does not return.
* `lj_str.c:127` says that a dead string is found again "only with fixstring()"; any string that is made again between two
  steps of the string sweep is. The code handles it, and `NoDangling` would fail if it did not (`stillDead`).
* The assertion `state != GCSfinalize` of `lj_gc_barrierf` (`lj_gc.c:754`) does not hold for userdata that waits for its
  finalizer, is still black, and is given a metatable by the finalizer of another. It is harmless: such userdata is
  made white before it is finalized.

## 5. Proofs

`EntityCacheProofs` assumes `NoneAssumption` (nil is no entry and no answer), `FreedAssumption` (a freed address holds no text) and `MaxSizeAssumption`:

* `TypeCorrect`: `Spec => []TypeOK`.
* `ImplementsLossyStore`: `Spec => IsLossyStore`. The lemmas say what `get` answers after a write (`WrittenFacts`: the new
  entry for its entity, as before for others) and after the memmove (`RemovedFacts`: as before, or nothing). The
  reason is that all slots keep their order: the first slot of an entity stays its first slot, moves up by one, or
  falls off together with all later slots of that entity. That an entry keeps its slot or loses it also gives the
  strings: no call but a `set` changes the address of the entry `get` finds, and only a collection what a living address
  holds. No inductive invariant beyond `TypeOK` is needed.
* `ForgetsOnlyNewest`: `Spec => OnlyNewestForgotten`, since only two slots are lost in a step.

`NuidGlobalsProofs` assumes that the player is an entity and that the bounds are numbers; how many entities, nuids,
saves and reloads there are is left open:

* `TypeCorrect`: `Spec => []TypeOK`.
* `NuidsAreFresh`: `Spec => NuidFresh`. That property is not inductive: the counter says nothing of the loaded world until
  `getNextNuid` reads the save file, which may have been replaced in between. `FreshInv` adds that before the first
  draw nothing was handed out; that afterwards the counter is above all nuids handed out and all those loaded; and
  that the save file and the globals still name every loaded nuid, because no step clears a global (`GlobalsStay`).
* `OnlyTheDeadAreAnnounced`: `Spec => []ReportedReallyDied`. `DeadInv` adds that each mark of a death, in the globals, in
  the list and in the save file, stems from a dead entity that carried the nuid, and that the dead of the save file
  are dead in the world that was loaded from it, so that a reload cannot leave a mark without its dead.
* `OnlyThePlayerShares`: `ScriptsFirst /\ Spec => []OthersUnique`, the other side of finding 2: all entities but the player keep
  nuids of their own, through all saves and reloads. By `UniqueInv`: whoever carries a nuid has an updater, and once
  that has run a global names the nuid, in the running world and in the save file; so what is loaded from a save file
  was loaded with its global, from which the counter starts. `ScriptsFirst` (scripts of added entities run before
  a save) is needed: an entity saved before its updater ran is in the position of the player.

`SessionProofs` assumes what `GuidAssumption` and `ProcessAssumption` say of guids and processes, and that `uuid()` draws
no guid a machine comes with (`NewGuidAssumption`); how many clients,
connections and collections there are, and which guids are drawn or reported, is left open:

* `TypeCorrect`: `Spec => []TypeOK`. That every peer has a guid needs the invariant of the next theorem.
* `GuidsAreUnique`: `Spec => []ServerGuidsUnique`. Unique guids alone are not inductive. `GuidInv` adds that the guid of
  every peer, and with the first peer the one of the server, is among `cachedGuids`, so that a guid drawn or accepted
  as new differs from all of them. `Distinct` (a peer is in `self.clients` once) and the fact that `onDisconnect` removes
  the right one (`WithoutFacts`) rest on the order of the events of a connection, which `QueueInv` states: enet
  announces a connection once and first, and reports its end last (`Told`; `ToldSteps` is the lemma on what may become
  of a queue). Without it a peer could be appended twice, or be given a guid after it was removed.
* `OthersAreOthers`: `Spec => []OthersExcludeSelf`, and `AdoptedByOne`: `Spec => NoSharedByAdoption`, from `TellInv`. What a client
  lists and what it is called depend on messages that name each other's guids and are still on their way. `TellInv`
  says that a client is told of a drawn guid once (`ToldOnce`), by connect2 or by newGuid, and before that neither has it nor
  lists it (`ToldBefore`): a new guid differs from all that were used (`AllUsed`, `ToldUsed`), `sendToAllBut` leaves its peer out
  (`ButFacts`), and a client has one open connection (`OpenIsLink`), since `Client.connect` gives up the old one. As long as no checksum
  was freed, newGuid reaches one client (`RecipientsFacts`), so that a guid on its way by newGuid is so once (`GivenOnce`) and
  nobody's (`GivenBefore`).

`EntityScanProofs` assumes that entities are positive numbers and that the world changes a bounded number of times; the
entities, their parents and the bound are left open:

* `TypeCorrect`: `Spec => []TypeOK`.
* `ToldInOrder` and `ParentsAreNumbered`: `Spec => []AnnouncedFirst`, `Spec => []ParentsHaveNuids`. Both follow from `TellInv`,
  which adds `CachedAnnounced`: an entity in the cache was announced. It is what makes an update safe, since the scan
  looks for the entity in the cache and not for its nuid; forgetting keeps it. Nuids are never taken away
  (`NumberedType`, `AnnounceNumbers`).
* `TicksServeOne`: `Spec => []OnePerTick`, by `TickInv`: as long as a tick is due nothing was synced since it elapsed.

`NuidHandshakeProofs` assumes `HandshakeAssumption` (the server is no client, "unknown" no id, the player an entity of the server)
and that the bounds are numbers; clients, entities, ids, guids and how many messages wait are left open:

* `TypeCorrect`: `Spec => []TypeOK`.
* `GuidsAdvance`, which all others need: the guid of a client is its own and never older than one it asked under, and a
  `newGuid` on its way is of one client and newer than what it replaces. So an old guid never comes back.
* `ImplementsRegistry`: `OwnIds /\ Spec => IsRegistry`. The invariant it needs (`AllDrawn`) says of every message on
  its way that its nuid was drawn, and, if its id is one of the owner's entities, that it was drawn for that entity
  (with `OwnIds` the announcement of a copy names none), under the guid the message has (`DrawnForOwner`); that an entity
  carries what was drawn for it; and that nuids without a client's entity are carried already. Then taking an answer is a `Carry`, answering a
  question a `Draw`, the server's own drawing a `DrawAndCarry`, and everything else stutters (`RegistryStep`).
* `NuidsAreNames`: `OwnIds /\ Spec => []NoneShares /\ NuidsStay`: no two entities carry one nuid, and what is set stays. Both
  are shown of the registry (`RegistryPromise`) and hold of the handshake because it implements it.
* `NuidIsOne`: `Spec => []OneNuid`. One nuid per entity and guid is not inductive: a question on its way is a nuid to come.
  `Once` adds that, while no checksum was freed, a question on its way is the only one of that entity under that guid, and
  that no nuid was drawn for the two yet (`AskedOnce`).
* `AnswerEndsOnce`: `Spec => []AnsweredOnce`. `Answered` adds that, while the answer with the nuid of a client's entity is on its
  way, it is the only one, and the nuid is neither carried nor loaded with that id (`UnderWayOnce`); announcements
  of copies have other ids. That an owner does not load a copy of its living entity while it has the guid of the answer is
  the hard case: the entity would have to carry a nuid already. `CarriedLast` says that what it carries was drawn under the
  last guid it was asked for with; that is the guid of the answer, and by `OneNuid` the nuid of the answer, which
  `UnderWayOnce` excludes. And a guid that was replaced does not become the owner's again (`GuidsStayOld`).
* `LostQuestionsStayLost`: `OwnIds /\ Spec => NotAskedAgain`, the reason of finding 3: an entity that was asked for under its
  owner's guid and is left alone (`LeftAlone`: no nuid, no question, no answer under way) stays so in every connection to
  come, until a collector frees a checksum or the owner gets another guid. It needs `AllDrawn`: an answer to `lostNuid` or
  of the scan does not name it.

`DeathSyncProofs` assumes that the server is no client, that nuids are finitely many (a list of questions is finite) and that the bounds
are numbers; clients, nuids, copies, connections and collections are left open:

* `TypeCorrect`: `Spec => []TypeOK`.
* `DeathComesLast`: `Spec => []DeathIsLast`. The order in a queue is not inductive by itself: a message must not be sent after a
  death that left the list long ago. `DeathInv` adds that what is in the server's list, and what is announced in any
  queue, was removed at the server (`ListedAreBuried`, `ToldAreBuried`), that what was removed stays so, and that a nuid has one
  entity at the server (`OneAtServer`), so that no other one answers for it. Each step then shrinks the queues, or
  appends one message that is `Sayable`: of a living entity, or of deaths in the list (`QueuesStep`).
* `NoDeathWithoutCause`: `Spec => DeathsHaveCauses`. Where no engine kills, the global names the entity, and one of its nuid was removed
  before where the list comes from: at a client for the server, at the server or in the process itself for a client.
  So the first death of a nuid is always the engine's, and echoes, repeats and reconnects make none up. By `GoneInv`: what is in a
  list, or in a report on its way, was removed in that process, and what is removed stays so (`CauseStep`); for
  what the server announces `DeathInv` says it already.

`MessagingProofs` assumes that cacheable events are events, that the mark of a free address is no payload, and that the bounds are
numbers; clients, payloads, addresses, message ids and collections are left open:

* `TypeCorrect`: `Spec => []TypeOK`.
* `CacheLogs`: `Spec => []CacheIsLog`. `set` overwrites the first entry with the key; since each key has one entry, that is
  the right one, and the set of keys stays that of what was sent.
* `DuplicatesAreBounded`: `Spec => []TransmissionsBounded`. Not inductive: when a payload went out as often as it may, the next
  turn must find it. `AtLimitRemembered` says so: then an entry has the address of the payload's living string.
  It lasts because strings are interned (`Interned`: one address for a payload, so that a collection is what parts the two, and that raises the
  limit) and because one message id carries one payload (`IdsHaveOnePayload`), so that no other transmission writes over the entry.
* `IdsArriveInOrder`: `Spec => []IdsIncreaseOnWire`. A loop sends the newest id (`JobIsNewest`), no wire has a newer one (`IdsAreOld`),
  and a client is visited once (`Distinct`).
* `SkipsWhatWasSent`: `Spec => SkippedIsOld`, what finding 1 leaves of `alreadySent`: the payload that is skipped went out since the last
  clear, if to another client, or the checksum of another payload was collected. By `EntriesNameSent`: each entry stems from
  a transmission, and has the address of what was transmitted until that is collected. The second case is real: the
  C array keeps an address that a new checksum may be given, and then a payload nobody was sent counts as sent.

`LuaGCProofs` assumes `KindAssumption` only (the kinds of objects are disjoint); heaps are of any size.
One inductive invariant, `IInv`, carries all seven theorems. Its parts:

* `TypeOK` (`TypeCorrect`: `Spec => []TypeOK`), and `Freed`: what is free refers to nothing.
* `Lives`: the main thread lives, and what lives refers to what lives only. Then what lives is a closed set with the
  main thread in it, and what is dead is not reachable (`LiveIsClosed`), which is `NothingDangles`.
* `Slots`: what an open upvalue holds is in its thread's stack, too; open upvalues and threads are never black, closed
  upvalues and userdata never gray. It is why open upvalues and threads need no barrier.
* `Coloured`: `TriColour`, the lists hold gray objects only (`ListsAreGray`), only the sweep meets dead objects and what it
  came to is white (`Phases`), `BetweenCycles`, and what waits for its finalizer is on no other list (`Pending`).

The central steps: a barrier keeps `TriColour` (`BarrierKeeps`), one traversal moves the frontier (`FrontierMoves`), and the
set `Spread` from the second chance is closed under strong references (`SpreadCloses`, where `Allocated` itself is the
set that shows the intersection is not empty), so that what is white behind it can be called dead (`EndMarkLives`), and
weak references into it are all cleared (`gc_mayclear`); the sweep frees only the dead (`SweepIsSound`). `FrontierHolds`,
`AllWhiteBetweenCycles`, `FinalizersFirst` and `WeakTablesKeep` follow from the same invariant, the two last as action
properties of the sweep and of `atomic`. `CollectorUnseen` (`Spec => CollectorIsUnseen`) is the promise to the program: wherever
the collector steps, in small steps or at once, what can be reached refers to what it did (`CollectorTouches`), but for weak
entries and the userdata handed to a finalizer, and what is held by strong references still is (`HeldIsKept`: a set that
is closed afterwards was closed before, within what lives).

Six of these theorems state formulas that no run checks, defined next to their proofs
(`OthersUnique`, `NoneShares` and `NuidsStay`, `NotAskedAgain`, `CollectorIsUnseen`, `DeathsHaveCauses`, `SkippedIsOld`);
TLC finds no counterexample to them within the bounds of section 3.

Only model-checked: liveness (`DeathAnnounced`, `EventuallyNumbered`, `AnswerArrives`, `DeathReachesFirst`,
`DeathReachesServer`, `GarbageFreed`; out of reach of the
provers).

## 6. Not modelled

* The rest of LuaJIT: a compiler, an interpreter, a trace compiler for several processors and libraries. They are
  sequential, vendored, and need a semantics of Lua or of machine code to be specified at all; they make up nearly
  all of the lines under `src/` that no module maps.
* `LuaGC`: cdata, traces and prototypes, which are marked as userdata and functions are; fixed strings; `lua_close`; keys
  and values told apart; metatables as objects (a table that is given one with `__mode` may change its mode at any time);
  memory that runs out; sizes and thresholds, so that a step of the collector may come at any time. `gc_sweep` sweeps
  object by object in any order, the code forty at a time in the order of its list.
* `NuidHandshake`: what becomes of copies after the death of their entity (`DeathSync`); a second copy of the engine's updater; two
  clients with one guid (`Session`); restarts, but for what the server remembers of a client that was restarted before it
  first connects here; the guid in the network components of an entity, which the scan does not ask with; the entities a client's scan kills; errors in `setEntityData`.

* `DeathSync`: players, whose updaters never write a global; world saves and reloads (`NuidGlobals`); the order within a list, which
  only checksums depend on.
* User interface, settings page, logger, profiler, file utilities, mod list and mod content: no concurrent state of
  their own, or I/O. No session reaches the mod list: `Client.onConnect` raises when it asks for it.
* `EntityCache`: memory that the allocator gives back to the system, so that `get` would crash; the three strings of an
  entry one by one.
* `Messaging`: collections between the four cache calls of one `send`; time stamps; `removeOldest` (unreachable).
* `Session`: names, versions, the server's playerInfo, disconnect2 (a client only acknowledges it), acknowledgements,
  restarts of the server, two processes on one machine sharing the stored guid, a second `Client.connect` while the
  first is still being established.
* `EntityScan`: the branch of a client, which kills foreign entities and asks for nuids; the values of entityData and the
  threshold below which they count as unchanged (whether an entity changed is left open); polymorphism; entities with
  a nuid but without scripts, for which the scan raises (`EntityUtils.lua:384`); a server that stops and starts while
  its cache lives on; clients that connect after an entity was announced.
* `NuidGlobals`: polymorphism, which makes `MinaUtils` draw nuids it throws away; frames while the game is paused;
  parts of the world the engine unloads; the nuids of a process that is a connected client.

## 7. Plan

The order follows what a run of the game depends on.

1. Done: `EntityCache` with `LossyStore`; `NetworkCache` and `Messaging`; `NuidGlobals`; `Session`; `EntityScan`; `NuidHandshake` with
   `NuidRegistry`; `DeathSync`; `LuaGC`; the proofs above.
2. The branch of a client in the scan, and the values of entityData: what a slow movement does to the cache.
3. `ModSync`: the handlers of the mod list, once a session can reach them.
4. Operators of the table and string extensions against reference definitions, where the modules above rely on them.
