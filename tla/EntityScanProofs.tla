-------------------------- MODULE EntityScanProofs --------------------------
(***************************************************************************)
(* Theorems about EntityScan for every set of entities, every tree of      *)
(* parents and any number of changes of the world.                         *)
(***************************************************************************)
EXTENDS EntityScan, TLAPS
----------------------------------------------------------------------------
\* What is written to the cache keeps its type.
LEMMA PutType ==
  ASSUME cache \in [Entities -> {"cached", None}], NEW e \in Entities, Store!Put(e, "cached")
  PROVE  /\ cache' \in [Entities -> {"cached", None}]
         /\ \A f \in Entities : cache'[f] # None => f = e \/ cache[f] # None
BY DEF Store!Put

\* What is forgotten is not written.
LEMMA ForgetType ==
  ASSUME cache \in [Entities -> {"cached", None}], NEW forgotten, Store!Forget(forgotten)
  PROVE  /\ cache' \in [Entities -> {"cached", None}]
         /\ \A f \in Entities : cache'[f] # None => cache[f] # None
BY DEF Store!Forget

\* The next index is an index, whether the scan goes on or stops.
LEMMA IndexType ==
  ASSUME entityIndex \in Nat, prevEntityIndex \in Nat \ {0}, NextEntity \/ OutOfTime
  PROVE  entityIndex' \in Nat /\ prevEntityIndex' \in Nat \ {0}
BY DEF NextEntity, OutOfTime

\* A turn that numbers its entity takes no nuid away.
LEMMA NumberedType ==
  ASSUME component \in [Entities -> {"none", "empty", "nuid"}], NEW e \in Entities,
         component' = Numbered(e)
  PROVE  /\ component' \in [Entities -> {"none", "empty", "nuid"}]
         /\ \A f \in Entities : component[f] = "nuid" => component'[f] = "nuid"
BY DEF Numbered

\* Nor does an announcement, which gives nuids to the entity and its parents.
LEMMA AnnounceNumbers ==
  ASSUME TypeOK, NEW e \in Entities, Announce(e)
  PROVE  /\ component' \in [Entities -> {"none", "empty", "nuid"}]
         /\ \A f \in Entities : component[f] = "nuid" => component'[f] = "nuid"
         /\ component'[e] = "nuid"
         /\ \A p \in Ancestors(e) : component'[p] = "nuid"
         /\ announced' \subseteq Entities
         /\ announced \cup {e} \subseteq announced'
         /\ \A f \in announced' : f \in announced \/ component'[f] = "nuid"
BY DEF TypeOK, Announce, getParentsUntilRootEntity, Ancestors
----------------------------------------------------------------------------
(***************************************************************************)
(* The variables keep their types.                                         *)
(***************************************************************************)
THEOREM TypeCorrect == Spec => []TypeOK
<1>1. Init => TypeOK
  BY ChangeBoundAssumption DEF Init, TypeOK, Store!Init
<1>2. TypeOK /\ [Next]_vars => TypeOK'
  <2> SUFFICES ASSUME TypeOK, [Next]_vars
               PROVE  TypeOK'
    OBVIOUS
  <2>1. CASE StartScan
    BY <2>1 DEF TypeOK, StartScan, world, told
  <2>2. CASE EndScan
    BY <2>2 DEF TypeOK, EndScan, world, told
  <2>3. ASSUME NEW e \in Entities, DeleteDead(e)
        PROVE  TypeOK'
    <3>1. cache' \in [Entities -> {"cached", None}]
      BY <2>3, ForgetType DEF TypeOK, DeleteDead
    <3> QED
      BY <2>3, <3>1, IndexType DEF TypeOK, DeleteDead, world, told
  <2>4. ASSUME NEW e \in Entities, Exclude(e)
        PROVE  TypeOK'
    BY <2>4, IndexType DEF TypeOK, Exclude, world, told
  <2>5. ASSUME NEW e \in Entities, Pass(e)
        PROVE  TypeOK'
    <3>1. component' \in [Entities -> {"none", "empty", "nuid"}]
      BY <2>5, NumberedType DEF TypeOK, Pass
    <3> QED
      BY <2>5, <3>1, IndexType DEF TypeOK, Pass, world, told
  <2>6. ASSUME NEW e \in Entities, PassRemoteMina(e)
        PROVE  TypeOK'
    <3>1. component' \in [Entities -> {"none", "empty", "nuid"}]
      BY <2>6, NumberedType DEF TypeOK, PassRemoteMina
    <3> QED
      BY <2>6, <3>1, IndexType DEF TypeOK, PassRemoteMina, isTick, world, told
  <2>7. ASSUME NEW e \in Entities, Announce(e)
        PROVE  TypeOK'
    <3>1. cache' \in [Entities -> {"cached", None}]
      BY <2>7, PutType DEF TypeOK, Announce
    <3>2. /\ component' \in [Entities -> {"none", "empty", "nuid"}]
          /\ announced' \subseteq Entities
      BY <2>7, AnnounceNumbers
    <3>3. entityIndex' \in Nat /\ prevEntityIndex' \in Nat \ {0}
      BY <2>7, IndexType DEF TypeOK, Announce
    <3>4. synced' \in Nat
      BY <2>7 DEF TypeOK, Announce
    <3>5. tick' \in BOOLEAN
      BY <2>7 DEF Announce, isTick
    <3>6. UNCHANGED <<world, remoteMinae>> /\ updated' \subseteq Entities
      BY <2>7 DEF TypeOK, Announce
    <3> QED
      BY <3>1, <3>2, <3>3, <3>4, <3>5, <3>6 DEF TypeOK, world
  <2>8. ASSUME NEW e \in Entities, Update(e)
        PROVE  TypeOK'
    <3>1. cache' \in [Entities -> {"cached", None}]
      BY <2>8, PutType DEF TypeOK, Update
    <3>2. component' \in [Entities -> {"none", "empty", "nuid"}]
      BY <2>8, NumberedType DEF TypeOK, Update
    <3>3. entityIndex' \in Nat /\ prevEntityIndex' \in Nat \ {0}
      BY <2>8, IndexType DEF TypeOK, Update
    <3>4. synced' \in Nat
      BY <2>8 DEF TypeOK, Update
    <3>5. tick' \in BOOLEAN
      BY <2>8 DEF Update, isTick
    <3>6. UNCHANGED <<world, remoteMinae>> /\ updated' \subseteq Entities /\ UNCHANGED announced
      BY <2>8 DEF TypeOK, Update
    <3> QED
      BY <3>1, <3>2, <3>3, <3>4, <3>5, <3>6 DEF TypeOK, world
  <2>9. CASE Elapse
    BY <2>9 DEF TypeOK, Elapse, world
  <2>10. CASE Move
    BY <2>10, ChangeBoundAssumption DEF TypeOK, Move, Changes, told
  <2>11. CASE DeleteNuid
    <3>1. cache' \in [Entities -> {"cached", None}]
      BY <2>11, ForgetType DEF TypeOK, DeleteNuid
    <3> QED
      BY <2>11, <3>1, ChangeBoundAssumption DEF TypeOK, DeleteNuid, Changes, told
  <2>12. ASSUME NEW e \in Entities, Die(e)
         PROVE  TypeOK'
    BY <2>12, ChangeBoundAssumption DEF TypeOK, Die, Changes, told
  <2>13. ASSUME NEW e \in Entities, Recognise(e)
         PROVE  TypeOK'
    BY <2>13, ChangeBoundAssumption DEF TypeOK, Recognise, Changes, told
  <2>14. CASE UNCHANGED vars
    BY <2>14 DEF TypeOK, vars, world, told
  <2> QED
    BY <2>1, <2>2, <2>3, <2>4, <2>5, <2>6, <2>7, <2>8, <2>9, <2>10, <2>11, <2>12, <2>13,
       <2>14 DEF Next, Scan
<1> QED
  BY <1>1, <1>2, PTL DEF Spec
----------------------------------------------------------------------------
\* The part of the cache: an entity in it was announced, and so has a nuid.
CachedAnnounced == \A e \in Entities : cache[e] # None => e \in announced

\* The part of the tick: as long as it is due, nothing was synced since the last.
TickInv == (tick => synced = 0) /\ synced <= 1

TellInv == AnnouncedFirst /\ ParentsHaveNuids /\ CachedAnnounced

\* A step that takes no nuid away, announces and updates nothing and writes
\* nothing to the cache keeps the invariant.
LEMMA TellKept ==
  ASSUME TypeOK, TellInv, UNCHANGED announced, UNCHANGED updated,
         \A f \in Entities : component[f] = "nuid" => component'[f] = "nuid",
         \A f \in Entities : cache'[f] # None => cache[f] # None
  PROVE  TellInv'
<1>1. AnnouncedFirst'
  BY DEF TypeOK, TellInv, AnnouncedFirst
<1>2. ParentsHaveNuids'
  BY DEF TellInv, ParentsHaveNuids, Ancestors
<1>3. CachedAnnounced'
  BY DEF TellInv, CachedAnnounced
<1> QED
  BY <1>1, <1>2, <1>3 DEF TellInv

\* An announcement keeps it: the entity and its parents get their nuids first.
LEMMA TellAnnounce ==
  ASSUME TypeOK, TellInv, NEW e \in Entities, Announce(e)
  PROVE  TellInv'
<1>1. \A f \in Entities : cache'[f] # None => f = e \/ cache[f] # None
  BY PutType DEF TypeOK, Announce
<1>2. AnnouncedFirst'
  BY AnnounceNumbers DEF TypeOK, TellInv, AnnouncedFirst, Announce
<1>3. ParentsHaveNuids'
  BY <1>1, AnnounceNumbers DEF TellInv, ParentsHaveNuids, Ancestors
<1>4. CachedAnnounced'
  BY <1>1, AnnounceNumbers DEF TellInv, CachedAnnounced
<1> QED
  BY <1>2, <1>3, <1>4 DEF TellInv

\* So does an update, which tells only of an entity that is in the cache.
LEMMA TellUpdate ==
  ASSUME TypeOK, TellInv, NEW e \in Entities, Update(e)
  PROVE  TellInv'
<1>1. cache[e] # None
  BY DEF Update, IsNew
<1>2. \A f \in Entities : cache'[f] # None => cache[f] # None
  BY <1>1, PutType DEF TypeOK, Update
<1>3. \A f \in Entities : component[f] = "nuid" => component'[f] = "nuid"
  BY NumberedType DEF TypeOK, Update
<1>4. AnnouncedFirst'
  BY <1>1, <1>3 DEF TypeOK, TellInv, AnnouncedFirst, CachedAnnounced, Update
<1>5. ParentsHaveNuids'
  BY <1>2, <1>3 DEF TellInv, ParentsHaveNuids, Ancestors
<1>6. CachedAnnounced'
  BY <1>2 DEF TellInv, CachedAnnounced, Update
<1> QED
  BY <1>4, <1>5, <1>6 DEF TellInv

\* What clients were told, the cache and the nuids agree.
THEOREM TellCorrect == Spec => []TellInv
<1>1. Init => TellInv
  BY DEF Init, Store!Init, TellInv, AnnouncedFirst, ParentsHaveNuids, CachedAnnounced
<1>2. TypeOK /\ TellInv /\ [Next]_vars => TellInv'
  <2> SUFFICES ASSUME TypeOK, TellInv, [Next]_vars
               PROVE  TellInv'
    OBVIOUS
  <2>1. CASE StartScan
    BY <2>1, TellKept DEF StartScan, told
  <2>2. CASE EndScan
    BY <2>2, TellKept DEF EndScan, told
  <2>3. ASSUME NEW e \in Entities, DeleteDead(e)
        PROVE  TellInv'
    <3>1. \A f \in Entities : cache'[f] # None => cache[f] # None
      BY <2>3, ForgetType DEF TypeOK, DeleteDead
    <3> QED
      BY <2>3, <3>1, TellKept DEF DeleteDead, told
  <2>4. ASSUME NEW e \in Entities, Exclude(e)
        PROVE  TellInv'
    BY <2>4, TellKept DEF Exclude, told
  <2>5. ASSUME NEW e \in Entities, Pass(e)
        PROVE  TellInv'
    BY <2>5, NumberedType, TellKept DEF TypeOK, Pass, told
  <2>6. ASSUME NEW e \in Entities, PassRemoteMina(e)
        PROVE  TellInv'
    BY <2>6, NumberedType, TellKept DEF TypeOK, PassRemoteMina, told
  <2>7. ASSUME NEW e \in Entities, Announce(e)
        PROVE  TellInv'
    BY <2>7, TellAnnounce
  <2>8. ASSUME NEW e \in Entities, Update(e)
        PROVE  TellInv'
    BY <2>8, TellUpdate
  <2>9. CASE Elapse
    BY <2>9, TellKept DEF Elapse
  <2>10. CASE Move
    BY <2>10, TellKept DEF Move, Changes, told
  <2>11. CASE DeleteNuid
    <3>1. \A f \in Entities : cache'[f] # None => cache[f] # None
      BY <2>11, ForgetType DEF TypeOK, DeleteNuid
    <3> QED
      BY <2>11, <3>1, TellKept DEF DeleteNuid, Changes, told
  <2>12. ASSUME NEW e \in Entities, Die(e)
         PROVE  TellInv'
    BY <2>12, TellKept DEF Die, Changes, told
  <2>13. ASSUME NEW e \in Entities, Recognise(e)
         PROVE  TellInv'
    BY <2>13, TellKept DEF Recognise, Changes, told
  <2>14. CASE UNCHANGED vars
    BY <2>14, TellKept DEF vars, told
  <2> QED
    BY <2>1, <2>2, <2>3, <2>4, <2>5, <2>6, <2>7, <2>8, <2>9, <2>10, <2>11, <2>12, <2>13,
       <2>14 DEF Next, Scan
<1> QED
  BY <1>1, <1>2, TypeCorrect, PTL DEF Spec

(***************************************************************************)
(* Clients are told of an entity, with a nuid, before they are sent its    *)
(* data, for any entities and however the world changes.                   *)
(***************************************************************************)
THEOREM ToldInOrder == Spec => []AnnouncedFirst
<1>1. TellInv => AnnouncedFirst
  BY DEF TellInv
<1> QED
  BY <1>1, TellCorrect, PTL

(***************************************************************************)
(* The parents of a cached entity have nuids, for any tree of entities.    *)
(***************************************************************************)
THEOREM ParentsAreNumbered == Spec => []ParentsHaveNuids
<1>1. TellInv => ParentsHaveNuids
  BY DEF TellInv
<1> QED
  BY <1>1, TellCorrect, PTL

(***************************************************************************)
(* No tick serves two entities, whatever the order of turns and frames.    *)
(***************************************************************************)
THEOREM TicksServeOne == Spec => []OnePerTick
<1>1. Init => TickInv
  BY DEF Init, TickInv
<1>2. TypeOK /\ TickInv /\ [Next]_vars => TickInv'
  <2> SUFFICES ASSUME TypeOK, TickInv, [Next]_vars
               PROVE  TickInv'
    OBVIOUS
  <2>1. CASE UNCHANGED <<tick, synced>>
    BY <2>1 DEF TickInv
  <2>2. ASSUME NEW e \in Entities, PassRemoteMina(e)
        PROVE  TickInv'
    BY <2>2 DEF TickInv, PassRemoteMina, isTick, told
  <2>3. ASSUME NEW e \in Entities, Announce(e)
        PROVE  TickInv'
    BY <2>3 DEF TypeOK, TickInv, Announce, isTick
  <2>4. ASSUME NEW e \in Entities, Update(e)
        PROVE  TickInv'
    BY <2>4 DEF TypeOK, TickInv, Update, isTick
  <2>5. CASE Elapse
    BY <2>5 DEF TickInv, Elapse
  <2> QED
    BY <2>1, <2>2, <2>3, <2>4, <2>5
    DEF Next, Scan, StartScan, EndScan, DeleteDead, Exclude, Pass, Move, DeleteNuid, Die,
        Recognise, Changes, told, vars
<1>3. TickInv => OnePerTick
  BY DEF TickInv, OnePerTick
<1> QED
  BY <1>1, <1>2, <1>3, TypeCorrect, PTL DEF Spec
=============================================================================
