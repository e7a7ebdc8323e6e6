------------------------- MODULE NuidGlobalsProofs -------------------------
(***************************************************************************)
(* Proofs about NuidGlobals: its types, that getNextNuid hands out fresh   *)
(* nuids, that only what has died is announced as dead, and that only the  *)
(* player may share its nuid.                                              *)
(***************************************************************************)
EXTENDS NuidGlobals, SequenceTheorems, TLAPS

USE DEF Lives, Signs, NoGlobal, Living, Killed, NoNuid, NilNuid

----------------------------------------------------------------------------
\* Short and longer sequences over a set.
LEMMA SequencesOver ==
  ASSUME NEW S, NEW x \in S, NEW s \in Seq(S)
  PROVE  <<x>> \in Seq(S) /\ << >> \in Seq(S) /\ Append(s, x) \in Seq(S)
<1>1. <<x>> \in Seq(S) /\ << >> \in Seq(S)
  OBVIOUS
<1>2. Append(s, x) \in Seq(S)
  OBVIOUS
<1> QED BY <1>1, <1>2

\* The rest of a list of dead nuids is a list of nuids, and holds nothing that
\* was not listed.
LEMMA RemainingFacts ==
  ASSUME deadNuids \in Seq(Nuids \cup {NilNuid}),
         NEW stop \in 1 .. Len(deadNuids) + 1
  PROVE  /\ Remaining(stop) \in Seq(Nuids \cup {NilNuid})
         /\ \A i \in DOMAIN Remaining(stop) :
              \/ Remaining(stop)[i] = NilNuid
              \/ \E j \in DOMAIN deadNuids : deadNuids[j] = Remaining(stop)[i]
<1> DEFINE S == Nuids \cup {NilNuid}
           rest == SubSeq(deadNuids, stop, Len(deadNuids))
           nil == IF \E i \in Nils : i < stop THEN <<NilNuid>> ELSE << >>
<1>1. /\ rest \in Seq(S)
      /\ \A i \in 1 .. Len(rest) :
           rest[i] = deadNuids[stop + i - 1] /\ stop + i - 1 \in 1 .. Len(deadNuids)
  OBVIOUS
<1>2. nil \in Seq(S) /\ \A i \in 1 .. Len(nil) : nil[i] = NilNuid
  <2>1. << >> \in Seq(S) /\ <<NilNuid>> \in Seq(S)
    <3>1. NilNuid \in S
      OBVIOUS
    <3> HIDE DEF S
    <3> QED BY <3>1, SequencesOver
  <2>2. CASE \E i \in Nils : i < stop
    <3>1. nil = <<NilNuid>>
      BY <2>2
    <3> HIDE DEF nil, S
    <3> QED BY <2>1, <3>1
  <2>3. CASE ~ \E i \in Nils : i < stop
    <3>1. nil = << >>
      BY <2>3
    <3> HIDE DEF nil, S
    <3> QED BY <2>1, <3>1
  <2> QED BY <2>2, <2>3
<1>3. Remaining(stop) = nil \o rest
  BY DEF Remaining
<1> HIDE DEF rest, nil, S
<1>4. /\ nil \o rest \in Seq(S)
      /\ Len(nil \o rest) = Len(nil) + Len(rest)
      /\ \A i \in 1 .. Len(nil) + Len(rest) :
           (nil \o rest)[i] = IF i <= Len(nil) THEN nil[i] ELSE rest[i - Len(nil)]
  BY <1>1, <1>2
<1>5. ASSUME NEW i \in DOMAIN (nil \o rest)
      PROVE  \/ (nil \o rest)[i] = NilNuid
             \/ \E j \in DOMAIN deadNuids : deadNuids[j] = (nil \o rest)[i]
  <2>0. i \in 1 .. Len(nil) + Len(rest) /\ Len(nil) \in Nat /\ Len(rest) \in Nat
    BY <1>1, <1>2, <1>4
  <2>1. CASE i <= Len(nil)
    BY <2>0, <2>1, <1>2, <1>4
  <2>2. CASE ~ (i <= Len(nil))
    <3>1. i - Len(nil) \in 1 .. Len(rest)
      BY <2>0, <2>2
    <3>2. (nil \o rest)[i] = deadNuids[stop + (i - Len(nil)) - 1]
      BY <2>0, <2>2, <3>1, <1>1, <1>4
    <3>3. stop + (i - Len(nil)) - 1 \in DOMAIN deadNuids
      BY <3>1, <1>1
    <3> QED BY <3>2, <3>3
  <2> QED BY <2>1, <2>2
<1> QED BY <1>3, <1>4, <1>5 DEF S

----------------------------------------------------------------------------
\* The variables have their types.  Code: all handlers of NuidGlobals.
LEMMA InitTypeOK == Init => TypeOK
<1> SUFFICES ASSUME Init PROVE TypeOK
  OBVIOUS
<1>1. World \in Worlds
  <2>1. /\ life \in [Entities -> Lives]
        /\ nuid \in [Entities -> Nuids \cup {NoNuid}]
        /\ updater \in [Entities -> {"none", "added", "ran"}]
        /\ mapping \in [Nuids -> Signs]
    BY DEF Init
  <2>2. deadNuids \in Seq(Nuids \cup {NilNuid})
    BY DEF Init
  <2>3. deadKey \in BOOLEAN
    BY DEF Init
  <2> HIDE DEF Signs, Lives, NoNuid, NilNuid
  <2> QED BY <2>1, <2>2, <2>3, Zenon DEF World, Worlds
<1>2. saved = World
  BY DEF Init
<1>3. counter \in 0 .. MaxNuid /\ saves \in 0 .. MaxSaves
  BY NuidBoundAssumption DEF Init
<1>4. role \in {"client", "server"} /\ xmlParsed \in BOOLEAN
  BY DEF Init
<1>5. issued \subseteq Nuids /\ loaded \subseteq Nuids /\ reported \subseteq Nuids
  BY DEF Init
<1> QED BY <1>1, <1>2, <1>3, <1>4, <1>5 DEF TypeOK

LEMMA StepTypeOK == TypeOK /\ [Next]_vars => TypeOK'
<1> SUFFICES ASSUME TypeOK, [Next]_vars PROVE TypeOK'
  OBVIOUS
<1> USE MinaAssumption, NuidBoundAssumption
<1> DEFINE WorldOK ==
      /\ life \in [Entities -> Lives]
      /\ nuid \in [Entities -> Nuids \cup {NoNuid}]
      /\ updater \in [Entities -> {"none", "added", "ran"}]
      /\ mapping \in [Nuids -> Signs]
      /\ deadNuids \in Seq(Nuids \cup {NilNuid})
      /\ deadKey \in BOOLEAN
<1>0. WorldOK
  BY DEF TypeOK, World, Worlds
<1>01. WorldOK' => World' \in Worlds
  BY DEF World, Worlds
<1>02. WorldOK' /\ UNCHANGED <<role, lua, saved, history>> => TypeOK'
  BY <1>01 DEF TypeOK, lua, history
<1>03. ASSUME NEW n \in Nuids, getNextNuid(n)
       PROVE  counter' \in 0 .. MaxNuid /\ xmlParsed' \in BOOLEAN /\ issued' \subseteq Nuids
  BY <1>03 DEF getNextNuid, TypeOK, Nuids
<1>04. ASSUME NEW n \in Nuids \cup {NoNuid}, NEW s \in Signs, setNuid(n, s)
       PROVE  mapping' \in [Nuids -> Signs]
  BY <1>0, <1>04 DEF setNuid
<1>05. ASSUME NEW n \in Nuids \cup {NoNuid}, setDeadNuid(n)
       PROVE  deadNuids' \in Seq(Nuids \cup {NilNuid}) /\ deadKey' \in BOOLEAN
  <2>1. CASE n = NoNuid /\ deadNuids = << >>
    <3>1. deadNuids' = deadNuids /\ deadKey' \in {deadKey, TRUE}
      BY <1>05, <2>1 DEF setDeadNuid
    <3>2. deadKey' \in BOOLEAN
      BY <1>0, <3>1, Zenon
    <3> QED BY <1>0, <3>1, <3>2
  <2>2. CASE ~ (n = NoNuid /\ deadNuids = << >>)
    <3>1. deadNuids' = Append(deadNuids, n) /\ deadKey' = TRUE
      BY <1>05, <2>2 DEF setDeadNuid
    <3>2. Append(deadNuids, n) \in Seq(Nuids \cup {NilNuid})
      <4> DEFINE S == Nuids \cup {NilNuid}
      <4>1. n \in S /\ deadNuids \in Seq(S)
        BY <1>0
      <4> HIDE DEF S
      <4>2. Append(deadNuids, n) \in Seq(S)
        BY <4>1, SequencesOver
      <4> QED BY <4>2 DEF S
    <3> QED BY <3>1, <3>2
  <2> QED BY <2>1, <2>2
<1>06. ASSUME NEW e \in Entities, NEW n \in Nuids \cup {NoNuid}, addOrUpdateAllVscs(e, n)
       PROVE  /\ nuid' \in [Entities -> Nuids \cup {NoNuid}]
              /\ updater' \in [Entities -> {"none", "added", "ran"}]
  BY <1>0, <1>06 DEF addOrUpdateAllVscs, addOrUpdateVscForNuid, addNuidUpdater
<1> HIDE DEF WorldOK
<1>1. CASE Start \/ Stop
  BY <1>1, <1>0, <1>01 DEF Start, Stop, TypeOK, WorldOK, lua, components, globals, history
<1>2. CASE AddEmptyVscs
  <2>1. WorldOK'
    BY <1>2, <1>0, <1>06 DEF AddEmptyVscs, WorldOK, globals
  <2> QED BY <1>2, <2>1, <1>02 DEF AddEmptyVscs
<1>3. CASE syncDeadNuids
  <2>1. WorldOK'
    BY <1>3, <1>0, RemainingFacts DEF syncDeadNuids, WorldOK, components
  <2>2. reported' \subseteq Nuids
    <3>1. KilledInSave \subseteq Nuids
      BY DEF KilledInSave
    <3>2. {deadNuids[i] : i \in DOMAIN deadNuids} \subseteq Nuids \cup {NilNuid}
      <4> DEFINE S == Nuids \cup {NilNuid}
      <4>1. deadNuids \in Seq(S)
        BY <1>0 DEF WorldOK
      <4> HIDE DEF S
      <4>2. \A i \in DOMAIN deadNuids : deadNuids[i] \in S
        BY <4>1
      <4> QED BY <4>2 DEF S
    <3>3. reported' = reported \cup Announced
      BY <1>3 DEF syncDeadNuids
    <3> QED BY <3>1, <3>2, <3>3 DEF TypeOK, Announced, Listed
  <2>3. UNCHANGED <<role, counter, xmlParsed, saved, saves, issued, loaded>>
    BY <1>3 DEF syncDeadNuids, lua
  <2> QED BY <2>1, <2>2, <2>3, <1>01 DEF TypeOK
<1>4. CASE Save
  <2>1. World \in Worlds /\ World' = World
    BY <1>4 DEF Save, TypeOK, World, components, globals
  <2> QED BY <1>4, <2>1 DEF Save, TypeOK, lua
<1>5. CASE Reload
  <2>1. saved \in Worlds
    BY DEF TypeOK
  <2>2. WorldOK'
    BY <1>5, <2>1 DEF Reload, Worlds, WorldOK
  <2>3. loaded' \subseteq Nuids
    BY <1>5 DEF Reload, Keys
  <2>4. World' \in Worlds
    BY <2>2, <1>01
  <2>5. UNCHANGED <<saved, saves>> /\ issued' = {} /\ reported' = {}
    BY <1>5 DEF Reload
  <2>6. role' \in {"client", "server"} /\ counter' = 0 /\ xmlParsed' = FALSE
    BY <1>5 DEF Reload
  <2>7. counter' \in 0 .. MaxNuid
    BY <2>6
  <2>8. xmlParsed' \in BOOLEAN
    BY <2>6
  <2> QED BY <2>3, <2>4, <2>5, <2>6, <2>7, <2>8 DEF TypeOK
<1>6. ASSUME NEW e \in Entities, Spawn(e) PROVE TypeOK'
  <2>1. WorldOK'
    BY <1>6, <1>0 DEF Spawn, WorldOK, globals
  <2> QED BY <1>6, <2>1, <1>02 DEF Spawn
<1>7. ASSUME NEW e \in Entities, AssignNuid(e) PROVE TypeOK'
  <2>1. WorldOK'
    BY <1>7, <1>0, <1>06 DEF AssignNuid, WorldOK, globals
  <2> QED BY <1>7, <2>1, <1>01, <1>03 DEF AssignNuid, TypeOK
<1>8. ASSUME NEW e \in Entities, SpawnForClient(e) PROVE TypeOK'
  <2>1. WorldOK'
    BY <1>8, <1>0, <1>06 DEF SpawnForClient, WorldOK, globals
  <2> QED BY <1>8, <2>1, <1>01, <1>03 DEF SpawnForClient, TypeOK
<1>9. ASSUME NEW e \in Entities, UpdaterAdded(e) PROVE TypeOK'
  <2>1. nuid[e] \in Nuids \cup {NoNuid}
    BY <1>0 DEF WorldOK
  <2>2. WorldOK'
    BY <1>9, <1>0, <1>04, <2>1 DEF UpdaterAdded, WorldOK
  <2> QED BY <1>9, <2>2, <1>02 DEF UpdaterAdded
<1>10. ASSUME NEW e \in Entities, UpdaterRemoved(e) PROVE TypeOK'
  <2>1. nuid[e] \in Nuids \cup {NoNuid}
    BY <1>0 DEF WorldOK
  <2>2. WorldOK'
    BY <1>10, <1>0, <1>04, <1>05, <2>1 DEF UpdaterRemoved, WorldOK
  <2> QED BY <1>10, <2>2, <1>02 DEF UpdaterRemoved
<1>11. ASSUME NEW e \in Entities, UpdaterRemovedEarly(e) PROVE TypeOK'
  <2>1. nuid[e] \in Nuids \cup {NoNuid}
    BY <1>0 DEF WorldOK
  <2>2. WorldOK'
    BY <1>11, <1>0, <1>04, <2>1 DEF UpdaterRemovedEarly, WorldOK
  <2> QED BY <1>11, <2>2, <1>02 DEF UpdaterRemovedEarly
<1>12. ASSUME NEW e \in Entities, DieUnnoticed(e) PROVE TypeOK'
  <2>1. WorldOK'
    BY <1>12, <1>0 DEF DieUnnoticed, WorldOK, globals
  <2> QED BY <1>12, <2>1, <1>02 DEF DieUnnoticed
<1>13. CASE UNCHANGED vars
  BY <1>13, <1>0, <1>01 DEF vars, TypeOK, WorldOK, lua, components, globals, history
<1> QED BY <1>1, <1>2, <1>3, <1>4, <1>5, <1>6, <1>7, <1>8, <1>9, <1>10, <1>11, <1>12, <1>13 DEF Next

\* Every variable of NuidGlobals has its type in every state.
THEOREM TypeCorrect == Spec => []TypeOK
  BY InitTypeOK, StepTypeOK, PTL DEF Spec

----------------------------------------------------------------------------
\* Why nuids are fresh: the counter is above every nuid handed out, and, once
\* the save file was read, above every nuid that had a global when the world
\* was loaded.  Before, the save file still names all of these: no later save
\* can have lost one, since no global of a nuid is ever cleared.
FreshInv ==
  /\ ~ xmlParsed => issued = {}
  /\ \A m \in issued : m <= counter
  /\ xmlParsed => \A m \in loaded : m <= counter
  /\ loaded \subseteq Keys(saved.mapping)
  /\ loaded \subseteq Keys(mapping)

NextIsFresh ==
  \/ Reload
  \/ \A n \in issued' \ issued : n \notin loaded /\ \A m \in issued : m < n

LEMMA InitFreshInv == Init => FreshInv
  BY DEF Init, FreshInv

\* What getNextNuid draws is above everything drawn before or loaded.
LEMMA DrawIsFresh ==
  ASSUME TypeOK, FreshInv, NEW n \in Nuids, getNextNuid(n)
  PROVE  /\ n \notin loaded
         /\ \A m \in issued : m < n
         /\ xmlParsed' = TRUE
         /\ issued' = issued \cup {n}
         /\ \A m \in issued' : m <= counter'
         /\ \A m \in loaded : m <= counter'
<1>0. counter \in Nat /\ issued \subseteq Nat /\ loaded \subseteq Nat /\ n \in Nat
  BY NuidBoundAssumption DEF TypeOK, Nuids
<1>1. xmlParsed' = TRUE /\ issued' = issued \cup {n} /\ counter' = n
  BY DEF getNextNuid
<1>2. PICK highest \in {counter} \cup (IF xmlParsed THEN {} ELSE Keys(saved.mapping)) :
        /\ \A k \in Keys(saved.mapping) : xmlParsed \/ k <= highest
        /\ counter <= highest
        /\ n = highest + 1
  BY DEF getNextNuid
<1>3. highest \in Nat
  BY <1>0, <1>2, NuidBoundAssumption DEF Keys, Nuids
<1>4. \A m \in loaded : m <= highest
  <2>1. CASE xmlParsed
    BY <2>1, <1>0, <1>2, <1>3 DEF FreshInv
  <2>2. CASE ~ xmlParsed
    BY <2>2, <1>2 DEF FreshInv
  <2> QED BY <2>1, <2>2
<1>5. \A m \in issued : m <= highest
  BY <1>0, <1>2, <1>3 DEF FreshInv
<1> QED BY <1>0, <1>1, <1>2, <1>3, <1>4, <1>5

\* No step clears the global of a nuid, except a reload.
LEMMA GlobalsStay ==
  ASSUME TypeOK, [Next]_vars, ~ Reload
  PROVE  Keys(mapping) \subseteq Keys(mapping')
<1>0. mapping \in [Nuids -> Signs]
  BY DEF TypeOK, World, Worlds
<1>1. ASSUME NEW n, NEW s \in {Living, Killed}, setNuid(n, s)
      PROVE  Keys(mapping) \subseteq Keys(mapping')
  BY <1>0, <1>1 DEF setNuid, Keys
<1>2. \/ mapping' = mapping
      \/ \E n \in Nuids \cup {NoNuid}, s \in {Living, Killed} : setNuid(n, s)
  <2>0. \A e \in Entities : nuid[e] \in Nuids \cup {NoNuid}
    BY DEF TypeOK, World, Worlds
  <2>1. ASSUME NEW e \in Entities, UpdaterAdded(e)
        PROVE  setNuid(nuid[e], Living)
    BY <2>1 DEF UpdaterAdded
  <2>2. ASSUME NEW e \in Entities, UpdaterRemoved(e)
        PROVE  \E n \in {nuid[e], NoNuid} : setNuid(n, Killed)
    BY <2>2 DEF UpdaterRemoved
  <2>3. ASSUME NEW e \in Entities, UpdaterRemovedEarly(e)
        PROVE  \E n \in {nuid[e], NoNuid} : setNuid(n, Living)
    BY <2>3 DEF UpdaterRemovedEarly
  <2>4. CASE \/ Start \/ Stop \/ AddEmptyVscs \/ syncDeadNuids \/ Save \/ UNCHANGED vars
             \/ \E e \in Entities : Spawn(e) \/ AssignNuid(e) \/ SpawnForClient(e) \/ DieUnnoticed(e)
    BY <2>4 DEF Start, Stop, AddEmptyVscs, syncDeadNuids, Save, vars, Spawn,
                AssignNuid, SpawnForClient, DieUnnoticed, globals
  <2> QED BY <2>0, <2>1, <2>2, <2>3, <2>4 DEF Next
<1> QED BY <1>1, <1>2

LEMMA StepFreshInv ==
  ASSUME TypeOK, FreshInv, [Next]_vars
  PROVE  FreshInv' /\ (NextIsFresh \/ UNCHANGED vars)
<1>1. CASE Reload
  <2>1. /\ xmlParsed' = FALSE /\ issued' = {} /\ saved' = saved
        /\ mapping' = saved.mapping /\ loaded' = Keys(saved.mapping)
    BY <1>1 DEF Reload
  <2> QED BY <1>1, <2>1 DEF FreshInv, NextIsFresh
<1>2. CASE ~ Reload
  <2>1. loaded' = loaded
    BY <1>2 DEF Next, Start, Stop, AddEmptyVscs, syncDeadNuids, Save, vars, Spawn,
                AssignNuid, SpawnForClient, DieUnnoticed, UpdaterAdded,
                UpdaterRemoved, UpdaterRemovedEarly, history
  <2>2. saved' = saved \/ saved'.mapping = mapping
    <3>1. CASE Save
      BY <3>1 DEF Save, World
    <3>2. CASE ~ Save
      BY <3>2, <1>2 DEF Next, Start, Stop, AddEmptyVscs, syncDeadNuids, vars, Spawn,
                AssignNuid, SpawnForClient, DieUnnoticed, UpdaterAdded,
                UpdaterRemoved, UpdaterRemovedEarly
    <3> QED BY <3>1, <3>2
  <2>3. loaded' \subseteq Keys(mapping') /\ loaded' \subseteq Keys(saved'.mapping)
    BY <2>1, <2>2, <1>2, GlobalsStay DEF FreshInv
  <2>4. CASE UNCHANGED <<lua, issued>>
    BY <2>1, <2>3, <2>4 DEF FreshInv, NextIsFresh, lua
  <2>5. ASSUME NEW n \in Nuids, getNextNuid(n)
        PROVE  FreshInv' /\ NextIsFresh
    <3> HIDE DEF FreshInv
    <3>1. /\ n \notin loaded /\ (\A m \in issued : m < n)
          /\ xmlParsed' = TRUE /\ issued' = issued \cup {n}
          /\ (\A m \in issued' : m <= counter') /\ (\A m \in loaded : m <= counter')
      BY <2>5, DrawIsFresh
    <3>2. NextIsFresh
      BY <3>1 DEF NextIsFresh
    <3>3. FreshInv'
      BY <3>1, <2>1, <2>3 DEF FreshInv
    <3> QED BY <3>2, <3>3
  <2>6. \/ UNCHANGED <<lua, issued>>
        \/ \E n \in Nuids : getNextNuid(n)
    BY <1>2 DEF Next, Start, Stop, AddEmptyVscs, syncDeadNuids, Save, vars, Spawn,
                AssignNuid, SpawnForClient, DieUnnoticed, UpdaterAdded,
                UpdaterRemoved, UpdaterRemovedEarly, history
  <2> QED BY <2>4, <2>5, <2>6
<1> QED BY <1>1, <1>2

\* getNextNuid never repeats itself after the world was loaded, and never hands
\* out a nuid that had a global then.
THEOREM NuidsAreFresh == Spec => NuidFresh
<1>1. TypeOK /\ FreshInv /\ [Next]_vars => FreshInv' /\ [NextIsFresh]_vars
  BY StepFreshInv
<1>2. Spec => [][NextIsFresh]_vars
  BY <1>1, InitFreshInv, TypeCorrect, PTL DEF Spec
<1> QED BY <1>2 DEF NuidFresh, NextIsFresh

----------------------------------------------------------------------------
\* Why only the dead are announced: every mark of a death, in the globals, in
\* the list and in the save file, stems from a dead entity with that nuid; and
\* what was dead when the game was saved is dead still.
Marked(w, n) == w.mapping[n] = Killed \/ \E i \in DOMAIN w.deadNuids : w.deadNuids[i] = n
Died(w, n) == \E e \in Entities : w.life[e] = "dead" /\ w.nuid[e] = n

DeadInv ==
  /\ \A n \in Nuids : Marked(World, n) => Died(World, n)
  /\ \A n \in Nuids : Marked(saved, n) => Died(saved, n)
  /\ \A e \in Entities :
       saved.life[e] = "dead" => life[e] = "dead" /\ nuid[e] = saved.nuid[e]
  /\ ReportedReallyDied

LEMMA InitDeadInv == Init => DeadInv
<1> SUFFICES ASSUME Init PROVE DeadInv
  OBVIOUS
<1>1. \A n \in Nuids : ~ Marked(World, n)
  BY DEF Init, Marked, World
<1>2. saved = World /\ reported = {}
  BY DEF Init
<1>3. \A e \in Entities : life[e] # "dead"
  BY DEF Init
<1> QED BY <1>1, <1>2, <1>3 DEF DeadInv, ReportedReallyDied, World

\* Nothing but a reload revives an entity or changes the nuid of a dead one.
LEMMA DeathsStay ==
  ASSUME TypeOK, [Next]_vars, ~ Reload, NEW e \in Entities, life[e] = "dead"
  PROVE  life'[e] = "dead" /\ nuid'[e] = nuid[e]
<1>0. life \in [Entities -> Lives] /\ nuid \in [Entities -> Nuids \cup {NoNuid}]
  BY DEF TypeOK, World, Worlds
<1>1. \/ life' = life
      \/ \E d \in Entities : life[d] # "dead" /\ \E l \in Lives : life' = [life EXCEPT ![d] = l]
  BY DEF Next, Start, Stop, AddEmptyVscs, syncDeadNuids, Save, vars, Spawn, AssignNuid,
         SpawnForClient, DieUnnoticed, UpdaterAdded, UpdaterRemoved, UpdaterRemovedEarly,
         components
<1>2. \/ nuid' = nuid
      \/ \E d \in Entities, n \in Nuids \cup {NoNuid} :
           life[d] # "dead" /\ nuid' = [nuid EXCEPT ![d] = n]
  BY MinaAssumption
     DEF Next, Start, Stop, AddEmptyVscs, syncDeadNuids, Save, vars, Spawn, AssignNuid,
         SpawnForClient, DieUnnoticed, UpdaterAdded, UpdaterRemoved, UpdaterRemovedEarly,
         components, addOrUpdateAllVscs, addOrUpdateVscForNuid
<1> QED BY <1>0, <1>1, <1>2

\* A mark that a step leaves was there before, or its entity dies in this step.
LEMMA NewMarks ==
  ASSUME TypeOK, [Next]_vars, ~ Reload, NEW n \in Nuids, Marked(World, n)'
  PROVE  \/ Marked(World, n)
         \/ \E e \in Entities : life'[e] = "dead" /\ nuid'[e] = n
<1>0. /\ mapping \in [Nuids -> Signs]
      /\ deadNuids \in Seq(Nuids \cup {NilNuid})
      /\ life \in [Entities -> Lives]
      /\ nuid \in [Entities -> Nuids \cup {NoNuid}]
  BY DEF TypeOK, World, Worlds
<1>1. CASE UNCHANGED globals
  BY <1>1 DEF globals, Marked, World
<1>2. CASE syncDeadNuids
  <2>1. mapping' = mapping
    BY <1>2 DEF syncDeadNuids
  <2>2. PICK stop \in 1 .. Len(deadNuids) + 1 : deadNuids' = Remaining(stop)
    BY <1>2 DEF syncDeadNuids
  <2>3. \A i \in DOMAIN deadNuids' :
          \/ deadNuids'[i] = NilNuid
          \/ \E j \in DOMAIN deadNuids : deadNuids[j] = deadNuids'[i]
    BY <1>0, <2>2, RemainingFacts
  <2>4. n # NilNuid
    BY DEF Nuids
  <2> QED BY <2>1, <2>3, <2>4 DEF Marked, World
<1>3. ASSUME NEW e \in Entities, UpdaterAdded(e) PROVE Marked(World, n)
  BY <1>0, <1>3 DEF UpdaterAdded, setNuid, Marked, World
<1>4. ASSUME NEW e \in Entities, UpdaterRemovedEarly(e) PROVE Marked(World, n)
  BY <1>0, <1>4 DEF UpdaterRemovedEarly, setNuid, Marked, World
<1>5. ASSUME NEW e \in Entities, UpdaterRemoved(e)
      PROVE  Marked(World, n) \/ (life'[e] = "dead" /\ nuid'[e] = n)
  <2>1. PICK m \in {nuid[e], NoNuid} : setNuid(m, Killed) /\ setDeadNuid(m)
    BY <1>5 DEF UpdaterRemoved
  <2>2. life'[e] = "dead" /\ nuid' = nuid
    BY <1>0, <1>5 DEF UpdaterRemoved
  <2>3. CASE n = m
    <3>1. n # NoNuid
      BY DEF Nuids
    <3> QED BY <2>1, <2>2, <2>3, <3>1
  <2>4. CASE n # m
    <3>1. mapping'[n] = mapping[n]
      BY <1>0, <2>1, <2>4 DEF setNuid
    <3>2. m \in Nuids \cup {NilNuid}
      BY <1>0, <2>1
    <3>3. ASSUME NEW i \in DOMAIN deadNuids', deadNuids'[i] = n
          PROVE  \E j \in DOMAIN deadNuids : deadNuids[j] = n
      <4>1. CASE deadNuids' = deadNuids
        BY <3>3, <4>1
      <4>2. CASE deadNuids' = Append(deadNuids, m)
        <5>1. /\ DOMAIN deadNuids' = 1 .. Len(deadNuids) + 1
              /\ Len(deadNuids) \in Nat
              /\ DOMAIN deadNuids = 1 .. Len(deadNuids)
              /\ \A j \in 1 .. Len(deadNuids) : deadNuids'[j] = deadNuids[j]
              /\ deadNuids'[Len(deadNuids) + 1] = m
          <6> DEFINE S == Nuids \cup {NilNuid}
          <6>1. deadNuids \in Seq(S) /\ m \in S
            BY <1>0, <3>2
          <6> HIDE DEF S
          <6> QED BY <6>1, <4>2, AppendProperties
        <5>2. i # Len(deadNuids) + 1
          BY <3>3, <5>1, <2>4
        <5> QED BY <3>3, <5>1, <5>2
      <4> QED BY <2>1, <4>1, <4>2 DEF setDeadNuid
    <3> QED BY <3>1, <3>3 DEF Marked, World
  <2> QED BY <2>3, <2>4
<1> QED BY <1>1, <1>2, <1>3, <1>4, <1>5
        DEF Next, Start, Stop, AddEmptyVscs, Save, vars, Spawn, AssignNuid,
            SpawnForClient, DieUnnoticed

LEMMA StepDeadInv ==
  ASSUME TypeOK, DeadInv, [Next]_vars
  PROVE  DeadInv'
<1>1. CASE Reload
  <2>1. /\ saved' = saved /\ life' = saved.life /\ nuid' = saved.nuid
        /\ mapping' = saved.mapping /\ deadNuids' = saved.deadNuids /\ reported' = {}
    BY <1>1 DEF Reload
  <2>2. \A n \in Nuids : /\ Marked(World, n)' = Marked(saved, n)
                         /\ Died(World, n)' = Died(saved, n)
    BY <2>1 DEF Marked, Died, World
  <2>3. \A n \in Nuids : /\ Marked(saved, n)' = Marked(saved, n)
                         /\ Died(saved, n)' = Died(saved, n)
    BY <2>1 DEF Marked, Died
  <2>4. ReportedReallyDied'
    BY <2>1 DEF ReportedReallyDied
  <2> QED BY <2>1, <2>2, <2>3, <2>4 DEF DeadInv
<1>2. CASE ~ Reload
  <2>1. \A n \in Nuids : Marked(World, n)' => Died(World, n)'
    <3> SUFFICES ASSUME NEW n \in Nuids, Marked(World, n)' PROVE Died(World, n)'
      OBVIOUS
    <3>1. CASE Marked(World, n)
      <4>1. PICK e \in Entities : life[e] = "dead" /\ nuid[e] = n
        BY <3>1 DEF DeadInv, Died, World
      <4>2. life'[e] = "dead" /\ nuid'[e] = n
        BY <4>1, <1>2, DeathsStay
      <4> QED BY <4>2 DEF Died, World
    <3>2. CASE \E e \in Entities : life'[e] = "dead" /\ nuid'[e] = n
      BY <3>2 DEF Died, World
    <3> QED BY <1>2, <3>1, <3>2, NewMarks
  <2>2. CASE saved' = saved
    <3>1. \A n \in Nuids : Marked(saved, n)' => Died(saved, n)'
      BY <2>2 DEF DeadInv, Marked, Died
    <3>2. \A e \in Entities :
            saved'.life[e] = "dead" => life'[e] = "dead" /\ nuid'[e] = saved'.nuid[e]
      BY <2>2, <1>2, DeathsStay DEF DeadInv
    <3>3. ReportedReallyDied'
      <4>1. \A n \in reported : DiedWith(n)'
        <5>1. \A e \in Entities :
                life[e] = "dead" => life'[e] = "dead" /\ nuid'[e] = nuid[e]
          BY <1>2, DeathsStay
        <5>2. \A n \in reported : \E e \in Entities : life[e] = "dead" /\ nuid[e] = n
          BY DEF DeadInv, ReportedReallyDied, DiedWith
        <5>3. \A n \in reported : \E e \in Entities : life'[e] = "dead" /\ nuid'[e] = n
          BY <5>1, <5>2
        <5> QED BY <5>3 DEF DiedWith
      <4>2. CASE UNCHANGED reported
        BY <4>1, <4>2 DEF ReportedReallyDied
      <4>3. CASE syncDeadNuids
        <5>1. \A n \in KilledInSave : DiedWith(n)
          <6>1. \A n \in KilledInSave :
                  \E e \in Entities : saved.life[e] = "dead" /\ saved.nuid[e] = n
            BY DEF KilledInSave, DeadInv, Marked, Died
          <6>2. \A e \in Entities :
                  saved.life[e] = "dead" => life[e] = "dead" /\ nuid[e] = saved.nuid[e]
            BY DEF DeadInv
          <6> QED BY <6>1, <6>2 DEF DiedWith
        <5>2. \A n \in Nuids : (\E i \in DOMAIN deadNuids : deadNuids[i] = n) => DiedWith(n)
          BY DEF DeadInv, Marked, Died, DiedWith, World
        <5>3. deadNuids \in Seq(Nuids \cup {NilNuid})
          BY DEF TypeOK, World, Worlds
        <5>4. \A i \in DOMAIN deadNuids : deadNuids[i] \in Nuids \cup {NilNuid}
          <6> DEFINE S == Nuids \cup {NilNuid}
          <6>1. deadNuids \in Seq(S)
            BY <5>3
          <6> HIDE DEF S
          <6>2. \A i \in DOMAIN deadNuids : deadNuids[i] \in S
            BY <6>1
          <6> QED BY <6>2 DEF S
        <5>5. reported' = reported \cup Announced
          BY <4>3 DEF syncDeadNuids
        <5>6. UNCHANGED <<life, nuid>>
          BY <4>3 DEF syncDeadNuids, components
        <5>7. \A n \in reported' : DiedWith(n)
          BY <5>1, <5>2, <5>4, <5>5 DEF DeadInv, ReportedReallyDied, Announced, Listed
        <5> QED BY <5>6, <5>7 DEF ReportedReallyDied, DiedWith
      <4> QED BY <1>2, <4>2, <4>3
              DEF Next, Start, Stop, AddEmptyVscs, Save, vars, Spawn, AssignNuid,
                  SpawnForClient, DieUnnoticed, UpdaterAdded, UpdaterRemoved,
                  UpdaterRemovedEarly, history
    <3> QED BY <2>1, <3>1, <3>2, <3>3 DEF DeadInv
  <2>3. CASE Save
    <3>1. saved' = World /\ UNCHANGED <<life, nuid, mapping, deadNuids, reported>>
      BY <2>3 DEF Save, components, globals
    <3>2. \A n \in Nuids : /\ Marked(saved, n)' = Marked(World, n)
                           /\ Died(saved, n)' = Died(World, n)
      BY <3>1 DEF Marked, Died, World
    <3>3. ReportedReallyDied'
      BY <3>1 DEF DeadInv, ReportedReallyDied, DiedWith
    <3>4. \A e \in Entities :
            saved'.life[e] = "dead" => life'[e] = "dead" /\ nuid'[e] = saved'.nuid[e]
      BY <3>1 DEF World
    <3> QED BY <2>1, <3>2, <3>3, <3>4 DEF DeadInv
  <2> QED BY <1>2, <2>2, <2>3
          DEF Next, Start, Stop, AddEmptyVscs, syncDeadNuids, vars, Spawn, AssignNuid,
              SpawnForClient, DieUnnoticed, UpdaterAdded, UpdaterRemoved,
              UpdaterRemovedEarly
<1> QED BY <1>1, <1>2

\* Whatever a server announces as dead has died.
THEOREM OnlyTheDeadAreAnnounced == Spec => []ReportedReallyDied
<1>1. TypeOK /\ DeadInv /\ [Next]_vars => DeadInv'
  BY StepDeadInv
<1>2. DeadInv => ReportedReallyDied
  BY DEF DeadInv
<1> QED BY <1>1, <1>2, InitDeadInv, TypeCorrect, PTL DEF Spec
----------------------------------------------------------------------------
\* Why nuids are shared by the player only: an entity has a nuid as long as it
\* has an updater, and once that has run a global names the nuid.
Others == Entities \ {Mina}

Named(life_, nuid_, updater_, mapping_) ==
  \A e \in Others :
    /\ life_[e] = "unborn" => nuid_[e] = NoNuid
    /\ nuid_[e] = NoNuid <=> updater_[e] = "none"
    /\ updater_[e] = "ran" => mapping_[nuid_[e]] # NoGlobal

Alone(life_, nuid_) ==
  \A d, e \in Others :
    life_[d] = "alive" /\ life_[e] = "alive" /\ nuid_[d] = nuid_[e] /\ nuid_[d] # NoNuid
      => d = e

OthersUnique == Alone(life, nuid)

\* So the save file names the nuids of all who live in it, and what lives now
\* was numbered since it was loaded, or is named by a global of then.
UniqueInv ==
  /\ Named(life, nuid, updater, mapping)
  /\ Alone(life, nuid)
  /\ Named(saved.life, saved.nuid, saved.updater, saved.mapping)
  /\ Alone(saved.life, saved.nuid)
  /\ \A e \in Others : saved.life[e] = "alive" => saved.updater[e] # "added"
  /\ \A e \in Others :
       life[e] = "alive" /\ nuid[e] # NoNuid => nuid[e] \in issued \cup loaded

LEMMA InitUniqueInv == Init => UniqueInv
<1> SUFFICES ASSUME Init PROVE UniqueInv
  OBVIOUS
<1>1. /\ \A e \in Others : life[e] = "unborn" /\ nuid[e] = NoNuid /\ updater[e] = "none"
      /\ saved.life = life /\ saved.nuid = nuid
      /\ saved.updater = updater /\ saved.mapping = mapping
  BY DEF Init, World, Others
<1> QED BY <1>1 DEF UniqueInv, Named, Alone

\* An entity is numbered: its nuid is nobody else's.
LEMMA NumberedUnique ==
  ASSUME TypeOK, FreshInv, UniqueInv, NEW e \in Entities, NEW n \in Nuids,
         getNextNuid(n), addOrUpdateAllVscs(e, n), life'[e] = "alive",
         \A d \in Entities : d # e => life'[d] = life[d],
         UNCHANGED <<mapping, saved, loaded>>
  PROVE  UniqueInv'
<1>0. /\ nuid \in [Entities -> Nuids \cup {NoNuid}]
      /\ updater \in [Entities -> {"none", "added", "ran"}]
  BY DEF TypeOK, World, Worlds
<1>1. n \notin loaded /\ n \notin issued /\ issued' = issued \cup {n} /\ n # NoNuid
  <2>1. n \notin loaded /\ (\A m \in issued : m < n) /\ issued' = issued \cup {n}
    BY DrawIsFresh
  <2>2. n \in Nat /\ n # NoNuid
    BY NuidBoundAssumption DEF Nuids
  <2> QED BY <2>1, <2>2
<1>2. /\ nuid[e] = NoNuid /\ nuid'[e] = n
      /\ updater'[e] = IF updater[e] = "none" THEN "added" ELSE updater[e]
      /\ \A d \in Entities : d # e => nuid'[d] = nuid[d] /\ updater'[d] = updater[d]
  BY <1>0 DEF addOrUpdateAllVscs, addOrUpdateVscForNuid, addNuidUpdater
<1>3. e \in Others => updater'[e] = "added"
  BY <1>2 DEF UniqueInv, Named
<1>4. \A d \in Others : d \in Entities
  BY DEF Others
<1>5. Named(life, nuid, updater, mapping)'
  <2> SUFFICES ASSUME NEW d \in Others
               PROVE  /\ life'[d] = "unborn" => nuid'[d] = NoNuid
                      /\ nuid'[d] = NoNuid <=> updater'[d] = "none"
                      /\ updater'[d] = "ran" => mapping'[nuid'[d]] # NoGlobal
    BY DEF Named
  <2>1. CASE d = e
    BY <2>1, <1>1, <1>2, <1>3
  <2>2. CASE d # e
    BY <2>2, <1>2, <1>4 DEF UniqueInv, Named
  <2> QED BY <2>1, <2>2
<1>6. \A d \in Others : d # e /\ life'[d] = "alive" /\ nuid'[d] # NoNuid =>
        nuid'[d] \in issued \cup loaded /\ nuid'[d] # n
  BY <1>1, <1>2, <1>4 DEF UniqueInv
<1>7. Alone(life, nuid)'
  <2> SUFFICES ASSUME NEW c \in Others, NEW d \in Others, life'[c] = "alive",
                      life'[d] = "alive", nuid'[c] = nuid'[d], nuid'[c] # NoNuid
               PROVE  c = d
    BY DEF Alone
  <2>1. CASE c # e /\ d # e
    BY <2>1, <1>2, <1>4 DEF UniqueInv, Alone
  <2>2. CASE c = e \/ d = e
    BY <2>2, <1>2, <1>6
  <2> QED BY <2>1, <2>2
<1>8. \A d \in Others :
        life'[d] = "alive" /\ nuid'[d] # NoNuid => nuid'[d] \in issued' \cup loaded'
  BY <1>1, <1>2, <1>6
<1> QED BY <1>5, <1>7, <1>8 DEF UniqueInv

\* The world changes, but nobody is born with a nuid or given one.
LEMMA UnnumberedUnique ==
  ASSUME UniqueInv, UNCHANGED <<saved, loaded>>, issued \subseteq issued',
         Named(life, nuid, updater, mapping)',
         \A e \in Others : nuid'[e] = nuid[e],
         \A e \in Others : life'[e] = "alive" => life[e] = "alive" \/ nuid[e] = NoNuid
  PROVE  UniqueInv'
<1>1. Alone(life, nuid)'
  BY DEF UniqueInv, Alone
<1> QED BY <1>1 DEF UniqueInv

LEMMA StepUniqueInv ==
  ASSUME ScriptsFirst, TypeOK, FreshInv, UniqueInv, [Next]_vars
  PROVE  UniqueInv'
<1>0. /\ life \in [Entities -> Lives]
      /\ nuid \in [Entities -> Nuids \cup {NoNuid}]
      /\ updater \in [Entities -> {"none", "added", "ran"}]
      /\ mapping \in [Nuids -> Signs]
  BY DEF TypeOK, World, Worlds
<1>a. \A d \in Others : d \in Entities /\ d # Mina
  BY DEF Others
<1>b. \A k \in Nuids : k # NoNuid
  BY DEF Nuids
<1>c. ASSUME NEW n, NEW s \in {Living, Killed}, setNuid(n, s)
      PROVE  /\ \A k \in Nuids : mapping[k] # NoGlobal => mapping'[k] # NoGlobal
             /\ n \in Nuids => mapping'[n] # NoGlobal
  <2>1. (mapping' = mapping /\ n \notin Nuids) \/ mapping' = [mapping EXCEPT ![n] = s]
    <3>1. mapping' = IF n = NoNuid THEN mapping ELSE [mapping EXCEPT ![n] = s]
      BY <1>c DEF setNuid
    <3>2. CASE n = NoNuid
      BY <1>b, <3>1, <3>2
    <3>3. CASE n # NoNuid
      BY <3>1, <3>3
    <3> QED BY <3>2, <3>3
  <2>2. mapping' = [mapping EXCEPT ![n] = s] =>
          \A k \in Nuids : mapping'[k] = IF k = n THEN s ELSE mapping[k]
    BY <1>0
  <2>3. s # NoGlobal
    OBVIOUS
  <2> QED BY <2>1, <2>2, <2>3
<1>1. CASE Start \/ Stop \/ syncDeadNuids \/ UNCHANGED vars
  <2>1. UNCHANGED <<life, nuid, updater, mapping, saved, issued, loaded>>
    BY <1>1 DEF Start, Stop, syncDeadNuids, vars, components, globals, history
  <2> QED BY <2>1 DEF UniqueInv
<1>2. CASE AddEmptyVscs
  <2>1. /\ \A d \in Others : nuid'[d] = nuid[d] /\ updater'[d] = updater[d]
        /\ UNCHANGED <<life, mapping, saved, issued, loaded>>
    BY <1>0, <1>a, <1>2 DEF AddEmptyVscs, addOrUpdateAllVscs, addOrUpdateVscForNuid,
       addNuidUpdater, globals, history
  <2>2. Named(life, nuid, updater, mapping)'
    BY <2>1 DEF UniqueInv, Named
  <2> QED BY <2>1, <2>2, UnnumberedUnique
<1>3. ASSUME NEW e \in Entities, Spawn(e) PROVE UniqueInv'
  <2>1. /\ life[e] = "unborn" /\ \A d \in Entities : d # e => life'[d] = life[d]
        /\ UNCHANGED <<nuid, updater, mapping, saved, issued, loaded>>
    BY <1>0, <1>3 DEF Spawn, globals, history
  <2>2. e \in Others => nuid[e] = NoNuid
    BY <2>1 DEF UniqueInv, Named
  <2>3. Named(life, nuid, updater, mapping)'
    BY <1>a, <2>1, <2>2 DEF UniqueInv, Named
  <2> QED BY <1>a, <2>1, <2>2, <2>3, UnnumberedUnique
<1>4. ASSUME NEW e \in Entities, AssignNuid(e) PROVE UniqueInv'
  <2>1. PICK n \in Nuids : getNextNuid(n) /\ addOrUpdateAllVscs(e, n)
    BY <1>4 DEF AssignNuid
  <2>2. life[e] = "alive" /\ UNCHANGED <<life, mapping, saved, loaded>>
    BY <1>4 DEF AssignNuid, globals
  <2> QED BY <2>1, <2>2, NumberedUnique
<1>5. ASSUME NEW e \in Entities, SpawnForClient(e) PROVE UniqueInv'
  <2>1. PICK n \in Nuids : getNextNuid(n) /\ addOrUpdateAllVscs(e, n)
    BY <1>5 DEF SpawnForClient
  <2>2. life' = [life EXCEPT ![e] = "alive"] /\ UNCHANGED <<mapping, saved, loaded>>
    BY <1>5 DEF SpawnForClient, globals
  <2>3. life'[e] = "alive" /\ \A d \in Entities : d # e => life'[d] = life[d]
    BY <1>0, <2>2
  <2> QED BY <2>1, <2>2, <2>3, NumberedUnique
<1>6. ASSUME NEW e \in Entities, UpdaterAdded(e) PROVE UniqueInv'
  <2>1. /\ updater[e] = "added" /\ updater'[e] = "ran" /\ setNuid(nuid[e], Living)
        /\ \A d \in Entities : d # e => updater'[d] = updater[d]
        /\ UNCHANGED <<life, nuid, saved, issued, loaded>>
    BY <1>0, <1>6 DEF UpdaterAdded, history
  <2>2. nuid[e] \in Nuids \cup {NoNuid}
    BY <1>0
  <2>3. e \in Others => nuid[e] # NoNuid
    BY <2>1 DEF UniqueInv, Named
  <2>4. /\ \A k \in Nuids : mapping[k] # NoGlobal => mapping'[k] # NoGlobal
        /\ nuid[e] \in Nuids => mapping'[nuid[e]] # NoGlobal
    BY <1>c, <2>1
  <2>5. ASSUME NEW d \in Others, updater'[d] = "ran" PROVE mapping'[nuid'[d]] # NoGlobal
    <3>1. CASE d = e
      BY <3>1, <2>1, <2>2, <2>3, <2>4
    <3>2. CASE d # e
      <4>1. updater[d] = "ran"
        BY <2>1, <2>5, <3>2, <1>a
      <4>2. mapping[nuid[d]] # NoGlobal /\ nuid[d] # NoNuid
        BY <4>1 DEF UniqueInv, Named
      <4>3. nuid[d] \in Nuids
        BY <1>0, <1>a, <4>2
      <4> QED BY <4>2, <4>3, <2>1, <2>4
    <3> QED BY <3>1, <3>2
  <2>6. Named(life, nuid, updater, mapping)'
    <3>1. ASSUME NEW d \in Others
          PROVE  /\ life[d] = "unborn" => nuid[d] = NoNuid
                 /\ nuid[d] = NoNuid <=> updater[d] = "none"
      BY DEF UniqueInv, Named
    <3>2. \A d \in Others : nuid[d] = NoNuid <=> updater'[d] = "none"
      <4>1. ASSUME NEW d \in Others PROVE nuid[d] = NoNuid <=> updater'[d] = "none"
        <5>1. CASE d = e
          BY <2>1, <2>3, <5>1
        <5>2. CASE d # e
          BY <1>a, <2>1, <3>1, <5>2
        <5> QED BY <5>1, <5>2
      <4> QED BY <4>1
    <3>3. life' = life /\ nuid' = nuid
      BY <2>1
    <3> QED BY <2>5, <3>1, <3>2, <3>3 DEF Named
  <2> QED BY <2>1, <2>6, UnnumberedUnique
<1>7. ASSUME NEW e \in Entities,
             UpdaterRemoved(e) \/ UpdaterRemovedEarly(e) \/ DieUnnoticed(e)
      PROVE  UniqueInv'
  <2>1. /\ life'[e] = "dead" /\ \A d \in Entities : d # e => life'[d] = life[d]
        /\ UNCHANGED <<nuid, updater, saved, issued, loaded>>
    BY <1>0, <1>7 DEF UpdaterRemoved, UpdaterRemovedEarly, DieUnnoticed, history
  <2>2. mapping' = mapping \/ \E n : setNuid(n, Living) \/ setNuid(n, Killed)
    BY <1>7 DEF UpdaterRemoved, UpdaterRemovedEarly, DieUnnoticed, globals
  <2>3. \A k \in Nuids : mapping[k] # NoGlobal => mapping'[k] # NoGlobal
    BY <1>c, <2>2
  <2>4. ASSUME NEW d \in Others, updater[d] = "ran"
        PROVE  nuid[d] \in Nuids /\ mapping[nuid[d]] # NoGlobal
    <3>1. nuid[d] # NoNuid /\ mapping[nuid[d]] # NoGlobal
      BY <2>4 DEF UniqueInv, Named
    <3> QED BY <1>0, <1>a, <3>1
  <2>5. Named(life, nuid, updater, mapping)'
    BY <1>a, <2>1, <2>3, <2>4 DEF UniqueInv, Named
  <2> QED BY <1>a, <2>1, <2>5, UnnumberedUnique
<1>8. CASE Save
  <2>1. /\ saved'.life = life /\ saved'.nuid = nuid /\ saved'.updater = updater
        /\ saved'.mapping = mapping
        /\ \A e \in Entities : life[e] = "alive" => updater[e] # "added"
        /\ UNCHANGED <<life, nuid, updater, mapping, issued, loaded>>
    BY <1>8 DEF Save, World, components, globals
  <2> QED BY <1>a, <2>1 DEF UniqueInv
<1>9. CASE Reload
  <2>1. /\ life' = saved.life /\ nuid' = saved.nuid /\ mapping' = saved.mapping
        /\ updater' = [e \in Entities |-> IF saved.updater[e] = "none" THEN "none" ELSE "added"]
        /\ loaded' = Keys(saved.mapping) /\ saved' = saved
    BY <1>9 DEF Reload
  <2>2. /\ saved.nuid \in [Entities -> Nuids \cup {NoNuid}]
        /\ saved.updater \in [Entities -> {"none", "added", "ran"}]
    BY DEF TypeOK, Worlds
  <2>3. Named(life, nuid, updater, mapping)'
    BY <1>a, <2>1 DEF UniqueInv, Named
  <2>4. ASSUME NEW e \in Others, life'[e] = "alive", nuid'[e] # NoNuid
        PROVE  nuid'[e] \in loaded'
    <3>1. saved.updater[e] = "ran" /\ saved.nuid[e] \in Nuids
      BY <1>a, <2>1, <2>2, <2>4 DEF UniqueInv, Named
    <3>2. saved.mapping[saved.nuid[e]] # NoGlobal
      BY <3>1 DEF UniqueInv, Named
    <3> QED BY <2>1, <3>1, <3>2 DEF Keys
  <2>5. Alone(life, nuid)'
    BY <2>1 DEF UniqueInv
  <2> QED BY <2>1, <2>3, <2>4, <2>5 DEF UniqueInv
<1> QED BY <1>1, <1>2, <1>3, <1>4, <1>5, <1>6, <1>7, <1>8, <1>9 DEF Next

\* If the engine runs added scripts before it saves, no two living entities but
\* the player share a nuid, however often the world is saved and reloaded.  The
\* player is numbered when its updater has run already, so that no global and no
\* save names its nuid (MinaUtils.lua:112).
THEOREM OnlyThePlayerShares == ScriptsFirst /\ Spec => []OthersUnique
<1> SUFFICES ASSUME ScriptsFirst PROVE Spec => []OthersUnique
  OBVIOUS
<1>1. TypeOK /\ FreshInv /\ UniqueInv /\ [Next]_vars => UniqueInv'
  BY StepUniqueInv
<1>2. TypeOK /\ FreshInv /\ [Next]_vars => FreshInv'
  BY StepFreshInv
<1>3. UniqueInv => OthersUnique
  BY DEF UniqueInv, OthersUnique
<1>4. Init => FreshInv /\ UniqueInv
  BY InitFreshInv, InitUniqueInv
<1> QED BY <1>1, <1>2, <1>3, <1>4, TypeCorrect, PTL DEF Spec
=============================================================================
