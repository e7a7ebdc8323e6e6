---------------------------- MODULE LuaGCProofs ----------------------------
(***************************************************************************)
(* Theorems about the collector of LuaJIT, for any sets of objects.        *)
(***************************************************************************)
EXTENDS LuaGC, TLAPS

Sweeping == state \in {"sweepstring", "sweep"}

\* What lives refers to what lives, and the main thread lives.
Lives ==
  /\ Main \notin Dead
  /\ \A o \in Objects \ Dead : \A p \in refs[o] : p \notin Dead

\* Freed objects refer to nothing.
Freed == \A o \in Objects : colour[o] = "free" => refs[o] = {}

\* An open upvalue is the slot of a thread, and like threads never black; a closed
\* one and userdata are never gray.
Slots ==
  /\ \A u \in Upvals : home[u] # NoThread =>
       /\ colour[u] \notin {"free", "black"} /\ colour[home[u]] # "free"
       /\ refs[u] \subseteq refs[home[u]]
  /\ \A u \in Upvals : home[u] = NoThread => colour[u] # "gray"
  /\ \A d \in Udatas : colour[d] # "gray"
  /\ \A th \in Threads : colour[th] # "black"

\* The lists of the marking hold gray objects.
ListsAreGray == Marking => \A o \in gray \cup grayagain \cup weak : colour[o] = "gray"

\* Only the sweep meets dead objects, and what it came to is white.
Phases ==
  /\ ~ Sweeping => unswept = {} /\ \A o \in Objects : colour[o] # "dead"
  /\ Sweeping => \A o \in Allocated \ mmudata : colour[o] = "white" \/ o \in unswept

\* Userdata waits for its finalizer off all other lists; what is dead was there.
Pending ==
  /\ \A d \in mmudata : colour[d] \in {"white", "black"} /\ d \notin unswept
  /\ \A d \in Udatas : colour[d] = "dead" => d \in finalized

Sound == Lives /\ Freed /\ Slots
Coloured == TriColour /\ ListsAreGray /\ Phases /\ BetweenCycles /\ Pending

IInv == TypeOK /\ Sound /\ Coloured

LEMMA InitHolds == Init => IInv
<1> SUFFICES ASSUME Init PROVE IInv
  OBVIOUS
<1> USE KindAssumption
<1>1. TypeOK
  BY DEF Init, TypeOK, Objects, Allocated, Listed
<1>2. Sound
  BY DEF Init, Sound, Lives, Freed, Slots, Dead, Objects
<1>3. Coloured
  BY DEF Init, Coloured, TriColour, ListsAreGray, Phases, BetweenCycles, Pending, Marking,
         Sweeping, Allocated, Objects
<1>4. QED
  BY <1>1, <1>2, <1>3 DEF IInv
-----------------------------------------------------------------------------
\* Objects and their types.
LEMMA Kinds ==
  /\ Main \in Objects
  /\ Threads \subseteq Objects /\ Tables \subseteq Objects /\ Functions \subseteq Objects
  /\ Upvals \subseteq Objects /\ Strings \subseteq Objects /\ Udatas \subseteq Objects
  /\ Listed \subseteq Objects
  /\ Main \in Threads /\ Main \notin Tables \cup Functions \cup Upvals \cup Strings \cup Udatas
  BY KindAssumption DEF Objects, Listed

\* What was not freed and will not be: the program's stack, what its closures
\* give access to, and what these refer to.
LEMMA StackLives ==
  ASSUME TypeOK, Sound
  PROVE  /\ Stack \subseteq Objects \ Dead
         /\ Cells \subseteq Upvals \ Dead
         /\ \A o \in {Main} \cup Stack \cup Cells : refs[o] \subseteq Objects \ Dead
<1> USE KindAssumption, Kinds
<1>1. Stack \subseteq Objects \ Dead
  BY DEF TypeOK, Sound, Lives, Stack
<1>2. Cells \subseteq Upvals \ Dead
  BY <1>1 DEF TypeOK, Sound, Lives, Cells
<1>3. QED
  BY <1>1, <1>2 DEF TypeOK, Sound, Lives
-----------------------------------------------------------------------------
(***************************************************************************)
(* The program's steps.                                                    *)
(***************************************************************************)
\* Such steps store nothing into a black object, and what they make or find dead
\* becomes white: they do not concern the collector.
LEMMA QuietSteps ==
  ASSUME TypeOK, Sound, Coloured,
         UNCHANGED <<gray, grayagain, unswept, finalized, state, weak, mmudata>>,
         \A x \in Objects : colour'[x] = colour[x] \/ (x \in Dead /\ colour'[x] = "white"),
         \A x \in Objects : colour[x] = "black" => refs'[x] \subseteq refs[x]
  PROVE  Coloured'
<1>1. TriColour'
  <2>1. \A x \in Objects : colour'[x] = "black" => colour[x] = "black" /\ refs'[x] \subseteq refs[x]
    OBVIOUS
  <2>2. \A x \in Objects : colour[x] = "black" => \A p \in refs[x] : p \in Objects \ Dead
    BY DEF TypeOK, Sound, Lives, Dead
  <2>3. \A p \in Objects \ Dead : p \in White' => p \in White
    BY DEF White
  <2>4. \A x \in Objects : colour'[x] = "gray" => colour[x] = "gray"
    OBVIOUS
  <2>5. QED
    BY <2>1, <2>2, <2>3, <2>4, Kinds DEF Coloured, TriColour, Marking
<1>2. ListsAreGray'
  BY Kinds DEF TypeOK, Coloured, ListsAreGray, Marking, Dead
<1>3. Phases'
  BY DEF Coloured, Phases, Sweeping, Allocated, Dead
<1>4. BetweenCycles'
  BY DEF Coloured, BetweenCycles, Allocated, Phases, Sweeping, Dead
<1>5. Pending'
  BY Kinds DEF TypeOK, Coloured, Pending, Dead
<1>6. QED
  BY <1>1, <1>2, <1>3, <1>4, <1>5 DEF Coloured

LEMMA NewKeeps == ASSUME IInv, NEW o, New(o) PROVE IInv'
<1> USE DEF IInv
<1>0. /\ o \in Objects /\ colour[o] = "free" /\ o \notin Upvals
      /\ o # Main /\ refs[o] = {}
      /\ UNCHANGED <<weakMode, home, gray, grayagain, unswept, finalized, state, weak, mmudata, full>>
  BY KindAssumption, Kinds DEF New, Runs, Sound, Lives, Freed, Dead
<1>1. \A x \in Objects : colour'[x] = IF x = o THEN "white" ELSE colour[x]
  BY DEF New, TypeOK
<1>2. \A x \in Objects : refs'[x] = IF x = Main THEN refs[x] \cup {o} ELSE refs[x]
  BY DEF New, TypeOK
<1>3. TypeOK'
  <2>1. Allocated \subseteq Allocated'
    BY <1>1, <1>0 DEF Allocated
  <2>2. /\ refs' \in [Objects -> SUBSET Objects]
        /\ colour' \in [Objects -> {"white", "dead", "free", "gray", "black"}]
    BY <1>0 DEF New, TypeOK
  <2>3. /\ \A s \in Strings : refs'[s] = {}
        /\ \A d \in Udatas : refs'[d] \subseteq Tables
        /\ \A f \in Functions : refs'[f] \subseteq Upvals
        /\ \A x \in Objects \ Functions : refs'[x] \subseteq Objects \ Upvals
    <3>1. \A x \in Objects : x # Main => refs'[x] = refs[x]
      BY <1>2
    <3>2. refs'[Main] = refs[Main] \cup {o}
      BY <1>2, Kinds
    <3> QED
      BY <1>0, <3>1, <3>2, Kinds DEF TypeOK
  <2>4. /\ weakMode' \subseteq Tables /\ finalized' \subseteq Udatas \cap Allocated'
        /\ mmudata' \subseteq finalized' /\ unswept' \subseteq Allocated'
        /\ gray' \subseteq Listed' /\ grayagain' \subseteq Threads \cup Tables
        /\ weak' \subseteq Tables
    BY <1>0, <2>1 DEF TypeOK, Listed
  <2>5. home' \in [Upvals -> Threads \cup {NoThread}]
    BY <1>0 DEF TypeOK
  <2>6. QED
    BY <1>0, <2>2, <2>3, <2>4, <2>5 DEF TypeOK
<1>4. Sound'
  <2>1. Lives'
    <3>1. Dead' = Dead \ {o}
      BY <1>0, <1>1 DEF Dead
    <3>2. Main \notin Dead'
      BY <3>1 DEF Sound, Lives
    <3>3. \A p \in refs'[o] : p \notin Dead'
      BY <1>0, <1>2
    <3>4. \A x \in Objects \ Dead : \A p \in refs'[x] : p \notin Dead'
      BY <1>2, <3>1 DEF Sound, Lives
    <3> QED
      BY <3>1, <3>2, <3>3, <3>4 DEF Lives
  <2>2. Freed'
    BY <1>0, <1>1, <1>2, Kinds DEF Sound, Freed, Lives, Dead
  <2>3. Slots'
    <3>1. \A u \in Upvals : colour'[u] = colour[u] /\ refs'[u] = refs[u] /\ home'[u] = home[u]
      BY <1>0, <1>1, <1>2, KindAssumption, Kinds
    <3>2. \A x \in Objects : refs[x] \subseteq refs'[x] /\ (colour[x] # "free" => colour'[x] # "free")
      BY <1>0, <1>1, <1>2
    <3>3. \A x \in Objects : colour'[x] \in {"gray", "black"} => colour'[x] = colour[x]
      BY <1>1
    <3>4. QED
      BY <3>1, <3>2, <3>3, Kinds DEF TypeOK, Sound, Slots
  <2>4. QED
    BY <2>1, <2>2, <2>3 DEF Sound
<1>5. Coloured'
  BY <1>0, <1>1, <1>2, Kinds, QuietSteps DEF Dead, Sound, Slots
<1>6. QED
  BY <1>3, <1>4, <1>5

LEMMA InternKeeps == ASSUME IInv, NEW s, Intern(s) PROVE IInv'
<1> USE DEF IInv
<1>0. /\ s \in Objects /\ s \in Strings /\ s \notin Upvals
      /\ s # Main /\ refs[s] = {}
      /\ UNCHANGED <<weakMode, home, gray, grayagain, unswept, finalized, state, weak, mmudata, full>>
  BY KindAssumption, Kinds DEF Intern, Runs, TypeOK
<1>1. \A x \in Objects : colour'[x] = colour[x] \/ (x = s /\ colour[x] \in {"free", "dead"} /\ colour'[x] = "white")
  BY DEF Intern, TypeOK, resurrected
<1>b. colour'[s] \notin {"free", "dead"}
  BY <1>0 DEF Intern, TypeOK, resurrected
<1>2. \A x \in Objects : refs'[x] = IF x = Main THEN refs[x] \cup {s} ELSE refs[x]
  BY DEF Intern, TypeOK
<1>3. TypeOK'
  <2>1. Allocated \subseteq Allocated'
    BY <1>1, <1>0 DEF Allocated
  <2>2. /\ refs' \in [Objects -> SUBSET Objects]
        /\ colour' \in [Objects -> {"white", "dead", "free", "gray", "black"}]
    BY <1>0 DEF Intern, TypeOK, resurrected
  <2>3. /\ \A t \in Strings : refs'[t] = {}
        /\ \A d \in Udatas : refs'[d] \subseteq Tables
        /\ \A f \in Functions : refs'[f] \subseteq Upvals
        /\ \A x \in Objects \ Functions : refs'[x] \subseteq Objects \ Upvals
    <3>1. \A x \in Objects : x # Main => refs'[x] = refs[x]
      BY <1>2
    <3>2. refs'[Main] = refs[Main] \cup {s}
      BY <1>2, Kinds
    <3> QED
      BY <1>0, <3>1, <3>2, Kinds DEF TypeOK
  <2>4. /\ weakMode' \subseteq Tables /\ finalized' \subseteq Udatas \cap Allocated'
        /\ mmudata' \subseteq finalized' /\ unswept' \subseteq Allocated'
        /\ gray' \subseteq Listed' /\ grayagain' \subseteq Threads \cup Tables
        /\ weak' \subseteq Tables
    BY <1>0, <2>1 DEF TypeOK, Listed
  <2>5. home' \in [Upvals -> Threads \cup {NoThread}]
    BY <1>0 DEF TypeOK
  <2>6. QED
    BY <1>0, <2>2, <2>3, <2>4, <2>5 DEF TypeOK
<1>4. Sound'
  <2>1. Lives'
    <3>1. Dead' \subseteq Dead /\ s \notin Dead' /\ Dead \subseteq Dead' \cup {s}
      BY <1>0, <1>1, <1>b DEF Dead
    <3>2. Main \notin Dead'
      BY <3>1 DEF Sound, Lives
    <3>3. \A p \in refs'[s] : p \notin Dead'
      BY <1>0, <1>2
    <3>4. \A x \in Objects \ Dead : \A p \in refs'[x] : p \notin Dead'
      BY <1>2, <3>1 DEF Sound, Lives
    <3> QED
      BY <3>1, <3>2, <3>3, <3>4 DEF Lives
  <2>2. Freed'
    BY <1>0, <1>1, <1>2, Kinds DEF Sound, Freed, Lives, Dead
  <2>3. Slots'
    <3>1. \A u \in Upvals : colour'[u] = colour[u] /\ refs'[u] = refs[u] /\ home'[u] = home[u]
      BY <1>0, <1>1, <1>2, KindAssumption, Kinds
    <3>2. \A x \in Objects : refs[x] \subseteq refs'[x] /\ (colour[x] # "free" => colour'[x] # "free")
      BY <1>0, <1>1, <1>2
    <3>3. \A x \in Objects : colour'[x] \in {"gray", "black"} => colour'[x] = colour[x]
      BY <1>1
    <3>4. QED
      BY <3>1, <3>2, <3>3, Kinds DEF TypeOK, Sound, Slots
  <2>4. QED
    BY <2>1, <2>2, <2>3 DEF Sound
<1>5. Coloured'
  BY <1>0, <1>1, <1>2, Kinds, QuietSteps DEF Dead, Sound, Slots
<1>6. QED
  BY <1>3, <1>4, <1>5

LEMMA NewClosureKeeps == ASSUME IInv, NEW f, NEW u \in Upvals, NewClosure(f, u) PROVE IInv'
<1> USE DEF IInv
<1>0. /\ f \in Functions /\ f \in Objects /\ f \notin Upvals /\ u # f /\ u \in Objects
      /\ colour[f] = "free" /\ refs[f] = {} /\ f # Main /\ u # Main
      /\ UNCHANGED <<weakMode, gray, grayagain, unswept, finalized, state, weak, mmudata, full>>
  BY KindAssumption, Kinds DEF NewClosure, Runs, TypeOK, Sound, Freed
<1>1. \A x \in Objects : colour'[x] =
        IF x = f THEN "white" ELSE IF x = u THEN resurrected(colour[u]) ELSE colour[x]
  BY <1>0 DEF NewClosure, TypeOK
<1>2. \A x \in Objects : refs'[x] =
        IF x = f THEN {u} ELSE IF x = Main THEN refs[x] \cup {f} ELSE refs[x]
  BY <1>0, Kinds DEF NewClosure, TypeOK
<1>3. \/ u \in Cells /\ UNCHANGED home
      \/ home[u] \in Running /\ UNCHANGED home
      \/ colour[u] = "free" /\ \E th \in Running : home' = [home EXCEPT ![u] = th]
  BY DEF NewClosure
<1>4. Running \subseteq Threads \ Dead
  BY StackLives, Kinds DEF Running, Sound, Lives
<1>5. \A p \in refs[u] : p \notin Dead
  <2>1. CASE u \in Cells
    BY <2>1, StackLives
  <2>2. CASE home[u] \in Running
    <3>1. home[u] # NoThread
      BY <2>2, <1>4, KindAssumption
    <3>2. refs[u] \subseteq refs[home[u]] /\ home[u] \in Objects \ Dead
      BY <2>2, <3>1, <1>4, Kinds DEF Sound, Slots
    <3>3. QED
      BY <3>2 DEF Sound, Lives
  <2>3. CASE colour[u] = "free"
    BY <2>3, <1>0 DEF Sound, Freed
  <2>4. QED
    BY <1>3, <2>1, <2>2, <2>3
<1>6. TypeOK'
  <2>1. Allocated \subseteq Allocated'
    BY <1>1, <1>0 DEF Allocated, resurrected
  <2>2. refs' \in [Objects -> SUBSET Objects]
    BY <1>0 DEF NewClosure, TypeOK
  <2>3. colour' \in [Objects -> {"white", "dead", "free", "gray", "black"}]
    <3>1. resurrected(colour[u]) \in {"white", "dead", "free", "gray", "black"}
      BY <1>0 DEF TypeOK, resurrected
    <3>2. QED
      BY <3>1, <1>0 DEF NewClosure, TypeOK
  <2>4. /\ \A s \in Strings : refs'[s] = {}
        /\ \A d \in Udatas : refs'[d] \subseteq Tables
        /\ \A x \in Functions : refs'[x] \subseteq Upvals
        /\ \A x \in Objects \ Functions : refs'[x] \subseteq Objects \ Upvals
    <3>1. f \notin Strings /\ f \notin Udatas
      BY <1>0, KindAssumption
    <3>2. \A x \in Objects : x # f /\ x # Main => refs'[x] = refs[x]
      BY <1>2
    <3>3. refs'[f] = {u} /\ refs'[Main] = refs[Main] \cup {f}
      BY <1>0, <1>2, Kinds
    <3>4. QED
      BY <1>0, <3>1, <3>2, <3>3, Kinds DEF TypeOK
  <2>5. home' \in [Upvals -> Threads \cup {NoThread}]
    BY <1>3, <1>4 DEF TypeOK
  <2>6. /\ weakMode' \subseteq Tables /\ finalized' \subseteq Udatas \cap Allocated'
        /\ mmudata' \subseteq finalized' /\ unswept' \subseteq Allocated'
        /\ gray' \subseteq Listed' /\ grayagain' \subseteq Threads \cup Tables
        /\ weak' \subseteq Tables
    BY <1>0, <2>1 DEF TypeOK, Listed
  <2>7. QED
    BY <1>0, <2>2, <2>3, <2>4, <2>5, <2>6 DEF TypeOK
<1>7. Sound'
  <2>1. Dead' \subseteq Dead /\ f \notin Dead' /\ u \notin Dead' /\ Dead \subseteq Dead' \cup {f, u}
    BY <1>0, <1>1 DEF Dead, resurrected
  <2>2. Lives'
    <3>1. Main \notin Dead'
      BY <2>1 DEF Sound, Lives
    <3>2. \A p \in refs'[f] : p \notin Dead'
      BY <1>0, <1>2, <2>1
    <3>3. \A p \in refs'[u] : p \notin Dead'
      BY <1>0, <1>2, <1>5, <2>1
    <3>4. \A x \in Objects \ Dead : \A p \in refs'[x] : p \notin Dead'
      <4>1. TAKE x \in Objects \ Dead
      <4>2. CASE x = f
        BY <4>2, <3>2
      <4>3. CASE x # f
        <5>1. refs'[x] \subseteq refs[x] \cup {f}
          BY <1>2, <4>3
        <5> QED BY <5>1, <2>1 DEF Sound, Lives
      <4> QED BY <4>2, <4>3
    <3> QED
      BY <2>1, <3>1, <3>2, <3>3, <3>4 DEF Lives
  <2>3. Freed'
    <3>1. \A x \in Objects : colour'[x] = "free" => colour[x] = "free" /\ x # f /\ x # Main
      BY <1>0, <1>1 DEF resurrected, Sound, Lives, Dead
    <3>2. QED
      BY <1>2, <3>1 DEF Sound, Freed
  <2>4. Slots'
    <3>1. \A x \in Upvals : x # u => colour'[x] = colour[x] /\ home'[x] = home[x]
      BY <1>0, <1>1, <1>3, Kinds DEF TypeOK
    <3>2. \A x \in Objects : colour[x] # "free" => colour'[x] # "free"
      BY <1>0, <1>1 DEF resurrected
    <3>3. \A x \in Objects : colour'[x] \in {"gray", "black"} => colour'[x] = colour[x]
      BY <1>1 DEF resurrected
    <3>4. \A x \in Upvals : refs'[x] = refs[x]
      BY <1>0, <1>2, KindAssumption, Kinds
    <3>5. \A th \in Threads : refs[th] \subseteq refs'[th]
      BY <1>0, <1>2, KindAssumption, Kinds
    <3>6. /\ home'[u] # NoThread =>
               /\ colour'[u] \notin {"free", "black"} /\ colour'[home'[u]] # "free"
               /\ refs'[u] \subseteq refs'[home'[u]]
          /\ home'[u] = NoThread => colour'[u] # "gray"
      <4>1. CASE UNCHANGED home
        BY <4>1, <3>2, <3>3, <3>4, <3>5, Kinds DEF TypeOK, Sound, Slots
      <4>2. CASE colour[u] = "free" /\ \E th \in Running : home' = [home EXCEPT ![u] = th]
        <5>1. PICK th \in Running : home' = [home EXCEPT ![u] = th]
          BY <4>2
        <5>2. home'[u] = th /\ th \in Threads /\ th \in Objects \ Dead /\ th # NoThread
          BY <5>1, <1>4, Kinds, KindAssumption DEF TypeOK
        <5>3. colour'[u] = "white" /\ refs'[u] = {} /\ colour'[th] # "free"
          BY <4>2, <5>2, <3>2, <3>4, <1>0, <1>1 DEF resurrected, Sound, Freed, Dead
        <5>4. QED
          BY <5>2, <5>3
      <4>3. QED
        BY <4>1, <4>2, <1>3
    <3>7. \A x \in Upvals : x # u =>
            /\ home'[x] # NoThread =>
                 /\ colour'[x] \notin {"free", "black"} /\ colour'[home'[x]] # "free"
                 /\ refs'[x] \subseteq refs'[home'[x]]
            /\ home'[x] = NoThread => colour'[x] # "gray"
      BY <3>1, <3>2, <3>4, <3>5, Kinds DEF TypeOK, Sound, Slots
    <3>8. /\ \A d \in Udatas : colour'[d] # "gray"
          /\ \A th \in Threads : colour'[th] # "black"
      BY <3>3, Kinds DEF Sound, Slots
    <3>9. QED
      BY <3>6, <3>7, <3>8 DEF Slots
  <2>5. QED
    BY <2>2, <2>3, <2>4 DEF Sound
<1>8. Coloured'
  <2>1. \A x \in Objects : colour'[x] = colour[x] \/ (x \in Dead /\ colour'[x] = "white")
    BY <1>0, <1>1 DEF Dead, resurrected
  <2>2. \A x \in Objects : colour[x] = "black" => refs'[x] \subseteq refs[x]
    BY <1>0, <1>2, Kinds DEF Sound, Slots
  <2>3. QED
    BY <1>0, <2>1, <2>2, QuietSteps
<1>9. QED
  BY <1>6, <1>7, <1>8

\* A value is put on the stack of a thread.
LEMMA StackGrows ==
  ASSUME IInv, NEW th \in Threads \ Dead, NEW v \in Objects \ (Dead \cup Upvals), Runs,
         refs' = [refs EXCEPT ![th] = @ \cup {v}],
         UNCHANGED <<weakMode, home, colour, gray, grayagain, unswept>>
  PROVE  IInv'
<1> USE DEF IInv
<1>0. /\ th \in Objects /\ th \notin Tables \cup Functions \cup Upvals \cup Strings \cup Udatas
      /\ UNCHANGED <<weakMode, home, colour, gray, grayagain, unswept, finalized, state, weak, mmudata, full>>
  BY KindAssumption, Kinds DEF Runs
<1>1. \A x \in Objects : refs'[x] = IF x = th THEN refs[x] \cup {v} ELSE refs[x]
  BY DEF TypeOK
<1>2. TypeOK'
  <2>1. refs' \in [Objects -> SUBSET Objects]
    BY <1>0 DEF TypeOK
  <2>2. /\ \A s \in Strings : refs'[s] = {}
        /\ \A d \in Udatas : refs'[d] \subseteq Tables
        /\ \A x \in Functions : refs'[x] \subseteq Upvals
        /\ \A x \in Objects \ Functions : refs'[x] \subseteq Objects \ Upvals
    BY <1>0, <1>1, Kinds DEF TypeOK
  <2>3. QED
    BY <1>0, <2>1, <2>2 DEF TypeOK, Allocated, Listed
<1>3. Sound'
  <2>1. Lives'
    BY <1>0, <1>1 DEF Sound, Lives, Dead
  <2>2. Freed'
    BY <1>0, <1>1 DEF Sound, Freed, Dead
  <2>3. Slots'
    <3>1. \A x \in Upvals : refs'[x] = refs[x]
      BY <1>0, <1>1, Kinds
    <3>2. \A x \in Threads : refs[x] \subseteq refs'[x]
      BY <1>0, <1>1, Kinds
    <3>3. QED
      BY <1>0, <3>1, <3>2 DEF TypeOK, Sound, Slots
  <2>4. QED
    BY <2>1, <2>2, <2>3 DEF Sound
<1>4. Coloured'
  <2>1. \A x \in Objects : colour[x] = "black" => refs'[x] \subseteq refs[x]
    BY <1>0, <1>1 DEF Sound, Slots
  <2>2. QED
    BY <1>0, <2>1, QuietSteps
<1>5. QED
  BY <1>2, <1>3, <1>4

LEMMA LoadKeeps == ASSUME IInv, NEW o, NEW v, Load(o, v) PROVE IInv'
<1>1. /\ o \in Objects \ Functions /\ v \in refs[o] /\ refs[o] \subseteq Objects \ Dead
      /\ Main \in Threads \ Dead
  BY StackLives, KindAssumption, Kinds DEF Load, IInv, Sound, Lives
<1>2. v \in Objects \ (Dead \cup Upvals)
  BY <1>1 DEF IInv, TypeOK
<1>3. QED
  BY <1>1, <1>2, StackGrows DEF Load

LEMMA StoreInThreadKeeps == ASSUME IInv, NEW th, NEW v, StoreInThread(th, v) PROVE IInv'
<1>1. th \in Threads \ Dead /\ v \in Objects \ Dead /\ v \in refs[Main]
  BY StackLives DEF StoreInThread, IInv, Stack
<1>2. v \in Objects \ (Dead \cup Upvals)
  BY <1>1, Kinds DEF IInv, TypeOK
<1>3. QED
  BY <1>1, <1>2, StackGrows DEF StoreInThread

LEMMA DropKeeps == ASSUME IInv, NEW o, NEW v, Drop(o, v) PROVE IInv'
<1> USE DEF IInv
<1>0. /\ o \in Objects \ Functions
      /\ \A u \in Upvals : home[u] = o => v \notin refs[u]
      /\ UNCHANGED <<weakMode, home, colour, gray, grayagain, unswept, finalized, state, weak, mmudata, full>>
  BY StackLives, KindAssumption, Kinds DEF Drop, Runs
<1>1. \A x \in Objects : refs'[x] = IF x = o THEN refs[x] \ {v} ELSE refs[x]
  BY DEF Drop, TypeOK
<1>2. TypeOK'
  <2>1. refs' \in [Objects -> SUBSET Objects]
    BY <1>0 DEF TypeOK, Drop
  <2>2. \A x \in Objects : refs'[x] \subseteq refs[x]
    BY <1>1
  <2>3. QED
    BY <1>0, <2>1, <2>2, Kinds DEF TypeOK, Allocated, Listed
<1>3. Sound'
  <2>1. Lives'
    BY <1>0, <1>1 DEF Sound, Lives, Dead
  <2>2. Freed'
    BY <1>0, <1>1 DEF Sound, Freed, Dead
  <2>3. Slots'
    <3>1. \A u \in Upvals : home[u] # NoThread => refs'[u] \subseteq refs'[home[u]]
      <4> SUFFICES ASSUME NEW u \in Upvals, home[u] # NoThread
                   PROVE  refs'[u] \subseteq refs'[home[u]]
        OBVIOUS
      <4>1. home[u] \in Objects /\ u \in Objects /\ refs[u] \subseteq refs[home[u]]
        BY Kinds DEF TypeOK, Sound, Slots
      <4>2. home[u] = o => v \notin refs[u]
        BY <1>0
      <4>3. QED
        BY <1>1, <4>1, <4>2
    <3>2. QED
      BY <1>0, <3>1 DEF TypeOK, Sound, Slots
  <2>4. QED
    BY <2>1, <2>2, <2>3 DEF Sound
<1>4. Coloured'
  <2>1. \A x \in Objects : colour[x] = "black" => refs'[x] \subseteq refs[x]
    BY <1>1
  <2>2. QED
    BY <1>0, <2>1, QuietSteps
<1>5. QED
  BY <1>2, <1>3, <1>4
-----------------------------------------------------------------------------
(***************************************************************************)
(* Marking and the barriers.                                               *)
(***************************************************************************)
\* gc_mark marks what is white, and passes the mark on where it turns black.
LEMMA MarksClosed ==
  ASSUME TypeOK, NEW S \in SUBSET Objects
  PROVE  /\ Marks(S) \subseteq White /\ S \cap White \subseteq Marks(S)
         /\ \A m \in Marks(S) : m \in Udatas \cup Upvals =>
              \A p \in refs[m] : p \in White => p \in Marks(S)
         /\ \A m \in Marks(S) : m \in Upvals => m \in S
<1> DEFINE first  == S \cap White
           second == {p \in White : \E u \in first \cap Upvals : p \in refs[u]}
           third  == {p \in White : \E d \in (first \cup second) \cap Udatas : p \in refs[d]}
<1>1. Marks(S) = first \cup second \cup third
  BY DEF Marks
<1>2. White \subseteq Objects
  BY DEF White
<1>3. second \cap Upvals = {} /\ third \subseteq Tables
  BY KindAssumption, Kinds DEF TypeOK
<1>4. third \cap (Udatas \cup Upvals) = {}
  BY <1>3, KindAssumption
<1>2a. first \subseteq White /\ second \subseteq White /\ third \subseteq White
  OBVIOUS
<1>2b. \A m \in first, p \in White : m \in Upvals /\ p \in refs[m] => p \in second
  OBVIOUS
<1>2c. \A m \in first \cup second, p \in White : m \in Udatas /\ p \in refs[m] => p \in third
  OBVIOUS
<1>2d. first = S \cap White
  OBVIOUS
<1> HIDE DEF first, second, third
<1>5. Marks(S) \subseteq White /\ S \cap White \subseteq Marks(S)
  BY <1>1, <1>2a, <1>2d
<1>6. ASSUME NEW m \in Marks(S), m \in Upvals, NEW p \in refs[m], p \in White
      PROVE  p \in Marks(S)
  <2>1. m \in first
    BY <1>6, <1>1, <1>3, <1>4
  <2>2. QED
    BY <1>6, <2>1, <1>1, <1>2b
<1>7. ASSUME NEW m \in Marks(S), m \in Udatas, NEW p \in refs[m], p \in White
      PROVE  p \in Marks(S)
  <2>1. m \in first \cup second
    BY <1>7, <1>1, <1>4
  <2>2. QED
    BY <1>7, <2>1, <1>1, <1>2c
<1>8. \A m \in Marks(S) : m \in Upvals => m \in S
  BY <1>1, <1>3, <1>4, <1>2d
<1>9. QED
  BY <1>5, <1>6, <1>7, <1>8

LEMMA MarkedColours ==
  /\ \A x : MarkedColour(x) \in {"gray", "black"}
  /\ \A x \in Listed \cup Strings : MarkedColour(x) = "gray"
  /\ \A x \in Udatas : MarkedColour(x) = "black"
  /\ \A u \in Upvals : MarkedColour(u) = IF Closed(u) THEN "black" ELSE "gray"
  BY KindAssumption DEF MarkedColour, Listed

\* These objects are marked in the mark phase, and one that is on no list may
\* turn black: what is black by then still refers to nothing white.
LEMMA FrontierMoves ==
  ASSUME TypeOK, Sound, Coloured, Marking,
         UNCHANGED <<state, grayagain, weak, mmudata, finalized>>, unswept' \subseteq unswept,
         NEW M \in SUBSET White, NEW o \in Objects \ M,
         gray' = gray \cup (M \cap Listed),
         \A x \in Objects : x \notin M /\ x # o => colour'[x] = colour[x],
         \A x \in M : colour'[x] = MarkedColour(x),
         colour'[o] = colour[o] \/ (o \in Upvals /\ colour[o] = "gray" /\ colour'[o] = "black"),
         \A x \in Objects \ mmudata : colour'[x] = "black" =>
            \A p \in refs'[x] : p \in White => p \in M
  PROVE  Coloured'
<1>0. /\ M \subseteq Objects /\ \A x \in M : colour[x] = "white" /\ colour'[x] \in {"gray", "black"}
      /\ (\A x \in Listed : x \notin Upvals) /\ Marking'
      /\ (o \notin mmudata \/ colour'[o] = colour[o])
  <2>1. M \subseteq Objects /\ \A x \in M : colour[x] = "white" /\ colour'[x] \in {"gray", "black"}
    BY MarkedColours DEF White
  <2>2. \A x \in Listed : x \notin Upvals
    BY KindAssumption DEF Listed
  <2>3. Marking'
    BY DEF Marking
  <2>4. o \notin mmudata \/ colour'[o] = colour[o]
    BY KindAssumption DEF TypeOK
  <2>5. QED
    BY <2>1, <2>2, <2>3, <2>4
<1>1. TriColour'
  <2>1. White' \subseteq White \ M
    BY <1>0 DEF White
  <2>2. \A x \in Listed : colour'[x] = "gray" => x \in gray' \cup grayagain' \cup weak'
    <3> SUFFICES ASSUME NEW x \in Listed, colour'[x] = "gray"
                 PROVE  x \in gray' \cup grayagain' \cup weak'
      OBVIOUS
    <3>1. CASE x \in M
      BY <3>1
    <3>2. CASE x \notin M
      BY <3>2, <1>0, Kinds DEF Coloured, TriColour
    <3>3. QED
      BY <3>1, <3>2
  <2>3. \A x \in M : x \notin grayagain /\ x \notin weak
    BY <1>0 DEF Coloured, ListsAreGray
  <2>4. gray' \cap grayagain' = {} /\ gray' \cap weak' = {} /\ grayagain' \cap weak' = {}
    BY <2>3 DEF Coloured, TriColour
  <2>5. \A x \in Objects \ mmudata' : colour'[x] = "black" => \A p \in refs'[x] : p \notin White'
    BY <2>1
  <2>6. QED
    BY <2>2, <2>4, <2>5 DEF TriColour
<1>2. ListsAreGray'
  <2> SUFFICES ASSUME NEW x \in gray' \cup grayagain' \cup weak'
               PROVE  colour'[x] = "gray"
    BY DEF ListsAreGray
  <2>1. CASE x \in M \cap Listed
    BY <2>1, MarkedColours
  <2>2. CASE x \in gray \cup grayagain \cup weak
    <3>1. x \in Listed /\ colour[x] = "gray"
      BY <2>2 DEF Coloured, ListsAreGray, TypeOK, Listed
    <3>2. x \in Objects /\ x \notin M
      BY <3>1, <1>0, Kinds
    <3>3. x \notin Upvals
      BY <3>1, <1>0
    <3>4. QED
      BY <3>1, <3>2, <3>3
  <2>3. QED
    BY <2>1, <2>2
<1>3. Phases'
  BY <1>0, MarkedColours DEF Coloured, Phases, Sweeping, Marking
<1>4. BetweenCycles'
  BY DEF BetweenCycles, Marking
<1>5. Pending'
  <2>1. \A d \in mmudata : d \in Objects /\ colour'[d] \in {"white", "black"}
    BY <1>0, Kinds, MarkedColours DEF TypeOK, Coloured, Pending
  <2>2. QED
    BY <1>0, <2>1, Kinds DEF TypeOK, Coloured, Pending, Phases, Sweeping, Marking
<1>6. QED
  BY <1>1, <1>2, <1>3, <1>4, <1>5 DEF Coloured

\* Outside of the mark phase an object that lives may turn white.
LEMMA TurnsWhite ==
  ASSUME TypeOK, Sound, Coloured, ~ Marking,
         UNCHANGED <<state, mmudata, finalized>>, NEW o \in Objects, unswept \ {o} \subseteq unswept',
         unswept' \subseteq unswept,
         \A x \in Objects : x # o => colour'[x] = colour[x],
         colour'[o] = "white"
  PROVE  Coloured'
<1>1. TriColour' /\ ListsAreGray'
  BY DEF TriColour, ListsAreGray, Marking
<1>2. Phases'
  BY DEF Coloured, Phases, Sweeping, Allocated
<1>3. BetweenCycles'
  BY DEF Coloured, BetweenCycles, Allocated
<1>4. Pending'
  BY Kinds DEF TypeOK, Coloured, Pending
<1>5. QED
  BY <1>1, <1>2, <1>3, <1>4 DEF Coloured

\* No barrier is needed for these stores.
LEMMA StoreSeen ==
  ASSUME TypeOK, Coloured,
         UNCHANGED <<state, colour, gray, grayagain, weak, mmudata, finalized, unswept>>,
         Marking => \A x \in Objects \ mmudata : colour[x] = "black" =>
            \A p \in refs'[x] : p \notin White
  PROVE  Coloured'
  BY DEF Coloured, TriColour, ListsAreGray, Phases, BetweenCycles, Pending, Marking, Sweeping,
         White, Allocated

\* lj_gc_barrierback, whatever is stored in the table.
LEMMA TableTurnsGray ==
  ASSUME TypeOK, Sound, Coloured, NEW t \in Tables, colour[t] = "black",
         barrierback(t), UNCHANGED <<state, weak, mmudata, finalized, unswept>>,
         \A x \in Objects : x # t => refs'[x] = refs[x]
  PROVE  Coloured'
<1>0. /\ (t \notin gray \cup grayagain \cup weak \/ ~ Marking)
      /\ \A x \in Objects : colour'[x] = IF x = t THEN "gray" ELSE colour[x]
      /\ gray' = gray /\ grayagain' = grayagain \cup {t}
  BY Kinds, KindAssumption DEF TypeOK, Coloured, ListsAreGray, barrierback
<1>1. t \notin mmudata /\ t \in Objects /\ t \in Listed
  BY Kinds, KindAssumption DEF TypeOK, Listed
<1>2. TriColour'
  <2>1. White' = White
    BY <1>0 DEF White
  <2>2. QED
    BY <1>0, <1>1, <2>1, Kinds DEF Coloured, TriColour, Marking
<1>3. ListsAreGray'
  BY <1>0, Kinds DEF TypeOK, Coloured, ListsAreGray, Marking
<1>4. Phases'
  BY <1>0, <1>1 DEF Coloured, Phases, Sweeping, Allocated
<1>5. BetweenCycles'
  BY <1>0, <1>1 DEF Coloured, BetweenCycles, Allocated
<1>6. Pending'
  BY <1>0, <1>1, Kinds DEF TypeOK, Coloured, Pending
<1>7. QED
  BY <1>2, <1>3, <1>4, <1>5, <1>6 DEF Coloured

\* What a barrier does to the colours: some white objects are marked, or the
\* object itself turns white.
Recoloured(o) ==
  \A x \in Objects :
    \/ colour'[x] = colour[x]
    \/ x \in White /\ colour'[x] = MarkedColour(x)
    \/ x = o /\ colour[x] \notin {"free", "dead"} /\ colour'[x] = "white"

LEMMA MarkIsFunction ==
  ASSUME TypeOK, NEW S \in SUBSET Objects, NEW others, Mark(S, others)
  PROVE  /\ \A x \in Objects : colour'[x] = IF x \in Marks(S) THEN MarkedColour(x) ELSE others[x]
         /\ others \in [Objects -> {"white", "dead", "free", "gray", "black"}] =>
              colour' \in [Objects -> {"white", "dead", "free", "gray", "black"}]
         /\ gray' = gray \cup (Marks(S) \cap Listed)
<1>1. \A x \in Objects : MarkedColour(x) \in {"white", "dead", "free", "gray", "black"}
  BY MarkedColours
<1>2. QED
  BY <1>1 DEF Mark

\* A store into userdata or a closed upvalue, with lj_gc_barrier.
LEMMA BarrierKeeps ==
  ASSUME TypeOK, Sound, Coloured, NEW o \in (Udatas \cup Upvals) \ Dead, NEW v \in Objects,
         barrier(o, v), UNCHANGED <<state, weak, mmudata, finalized, unswept>>,
         \A x \in Objects : x # o => refs'[x] = refs[x],
         \A p \in refs'[o] : p \in refs[o] \/ p = v
  PROVE  /\ Coloured' /\ Recoloured(o)
         /\ colour' \in [Objects -> {"white", "dead", "free", "gray", "black"}]
         /\ gray' \subseteq Listed /\ grayagain' = grayagain
<1>0. o \in Objects /\ grayagain' = grayagain /\ colour[o] \notin {"free", "dead"}
  BY Kinds DEF barrier, Dead
<1>1. CASE colour[o] = "black" /\ v \in White /\ Marking
  <2> DEFINE M == Marks({v})
  <2>1. Mark({v}, colour)
    BY <1>1 DEF barrier, barrierf
  <2>2. M \in SUBSET White /\ v \in M
    BY <1>1, MarksClosed
  <2>3. \A m \in M : m \in Udatas \cup Upvals => \A p \in refs[m] : p \in White => p \in M
    BY MarksClosed
  <2>4. /\ \A x \in Objects : colour'[x] = IF x \in M THEN MarkedColour(x) ELSE colour[x]
        /\ colour' \in [Objects -> {"white", "dead", "free", "gray", "black"}]
        /\ gray' = gray \cup (M \cap Listed)
    <3>1. colour \in [Objects -> {"white", "dead", "free", "gray", "black"}] /\ {v} \in SUBSET Objects
      BY DEF TypeOK
    <3>2. QED
      BY <2>1, <3>1, MarkIsFunction
  <2> HIDE DEF M
  <2>5. o \in Objects \ M /\ \A x \in M : x \in Objects /\ x # o /\ colour[x] = "white"
    BY <1>0, <1>1, <2>2 DEF White
  <2>6. ASSUME NEW x \in Objects \ mmudata, colour'[x] = "black", NEW p \in refs'[x], p \in White
        PROVE  p \in M
    <3>1. CASE x \in M
      <4>1. x \in Udatas \cup Upvals
        BY <2>4, <2>6, <3>1, MarkedColours DEF Objects, Listed
      <4>2. refs'[x] = refs[x]
        BY <2>5, <3>1
      <4>3. QED
        BY <2>3, <2>6, <3>1, <4>1, <4>2
    <3>2. CASE x \notin M
      <4>1. colour[x] = "black" /\ p \notin refs[x]
        BY <1>1, <2>4, <2>6, <3>2 DEF Coloured, TriColour
      <4>2. x = o /\ p = v
        BY <4>1, <2>6
      <4>3. QED
        BY <4>2, <2>2
    <3>3. QED
      BY <3>1, <3>2
  <2>7. Coloured'
    BY <1>0, <1>1, <2>2, <2>4, <2>5, <2>6, FrontierMoves
  <2>8. Recoloured(o)
    BY <2>2, <2>4 DEF Recoloured
  <2>9. QED
    BY <1>0, <2>4, <2>7, <2>8 DEF TypeOK
<1>2. CASE colour[o] = "black" /\ v \in White /\ ~ Marking
  <2>1. colour' = [colour EXCEPT ![o] = "white"] /\ gray' = gray
    BY <1>2 DEF barrier, barrierf
  <2>2. /\ \A x \in Objects : x # o => colour'[x] = colour[x]
        /\ colour'[o] = "white"
        /\ colour' \in [Objects -> {"white", "dead", "free", "gray", "black"}]
    BY <1>0, <2>1 DEF TypeOK
  <2>3. Coloured'
    BY <1>0, <1>2, <2>2, TurnsWhite
  <2>4. Recoloured(o)
    BY <1>0, <1>2, <2>2 DEF Recoloured
  <2>5. QED
    BY <1>0, <2>1, <2>2, <2>3, <2>4 DEF TypeOK
<1>3. CASE ~ (colour[o] = "black" /\ v \in White)
  <2>1. UNCHANGED <<colour, gray, grayagain>>
    BY <1>3 DEF barrier
  <2>2. Marking => \A x \in Objects \ mmudata : colour[x] = "black" => \A p \in refs'[x] : p \notin White
    BY <1>3 DEF Coloured, TriColour
  <2>3. Coloured'
    BY <2>1, <2>2, StoreSeen
  <2>4. QED
    BY <1>0, <2>1, <2>3 DEF TypeOK, Recoloured
<1>4. QED
  BY <1>1, <1>2, <1>3

\* After a barrier the same objects live, and open upvalues, threads and userdata
\* have colours they may have.
LEMMA RecolouredIsSound ==
  ASSUME TypeOK, Sound, NEW o \in Objects, Recoloured(o)
  PROVE  /\ Dead' = Dead /\ Allocated' = Allocated
         /\ \A x \in Objects : colour'[x] = "free" <=> colour[x] = "free"
         /\ \A u \in Upvals : home[u] # NoThread => colour'[u] # "black"
         /\ \A u \in Upvals : home[u] = NoThread => colour'[u] # "gray"
         /\ \A d \in Udatas : colour'[d] # "gray"
         /\ \A th \in Threads : colour'[th] # "black"
<1>1. \A x \in Objects : (colour'[x] = "free" <=> colour[x] = "free") /\ (colour'[x] = "dead" <=> colour[x] = "dead")
  BY MarkedColours DEF Recoloured, White
<1>2. \A u \in Upvals : u \in Objects /\ (home[u] # NoThread => colour[u] # "black") /\ (home[u] = NoThread => colour[u] # "gray")
  BY Kinds DEF Sound, Slots
<1>3. \A u \in Upvals : home[u] # NoThread => colour'[u] # "black"
  BY <1>2, MarkedColours DEF Recoloured, Closed
<1>4. \A u \in Upvals : home[u] = NoThread => colour'[u] # "gray"
  BY <1>2, MarkedColours DEF Recoloured, Closed
<1>5. \A d \in Udatas : colour'[d] # "gray"
  BY Kinds, MarkedColours DEF Recoloured, Sound, Slots
<1>6. \A th \in Threads : colour'[th] # "black"
  BY Kinds, MarkedColours DEF Recoloured, Sound, Slots, Listed
<1>7. Dead' = Dead /\ Allocated' = Allocated
  BY <1>1 DEF Dead, Allocated
<1>8. QED
  BY <1>1, <1>3, <1>4, <1>5, <1>6, <1>7

\* A store into a table, with the barrier for tables or without need of it.
LEMMA StoreInTableKeeps == ASSUME IInv, NEW t, NEW v, StoreInTable(t, v) PROVE IInv'
<1> USE DEF IInv
<1>0. /\ t \in Tables /\ t \in Objects \ Dead /\ v \in Objects \ (Dead \cup Upvals)
      /\ t \notin Threads \cup Functions \cup Upvals \cup Strings \cup Udatas
      /\ UNCHANGED <<weakMode, home, unswept, finalized, state, weak, mmudata, full>>
      /\ gray' = gray /\ barriert(t, v)
  <2>1. t \in Tables /\ t \in Objects \ Dead /\ v \in Objects \ Dead /\ v \in refs[Main]
    BY StackLives DEF StoreInTable, Stack
  <2>2. v \notin Upvals
    BY <2>1, Kinds DEF TypeOK
  <2>3. gray' = gray
    BY DEF StoreInTable, barriert, barrierback
  <2>4. QED
    BY <2>1, <2>2, <2>3, KindAssumption DEF StoreInTable, Runs
<1>1. \A x \in Objects : refs'[x] = IF x = t THEN refs[x] \cup {v} ELSE refs[x]
  BY DEF StoreInTable, TypeOK
<1>2. /\ \A x \in Objects : colour'[x] = colour[x] \/ (x = t /\ colour[x] = "black" /\ colour'[x] = "gray")
      /\ colour' \in [Objects -> {"white", "dead", "free", "gray", "black"}]
      /\ grayagain' \subseteq grayagain \cup {t}
  BY <1>0 DEF barriert, barrierback, TypeOK
<1>3. Dead' = Dead /\ Allocated' = Allocated
  BY <1>2 DEF Dead, Allocated
<1>4. TypeOK'
  <2>1. refs' \in [Objects -> SUBSET Objects]
    BY <1>0 DEF TypeOK, StoreInTable
  <2>2. /\ \A s \in Strings : refs'[s] = {}
        /\ \A d \in Udatas : refs'[d] \subseteq Tables
        /\ \A x \in Functions : refs'[x] \subseteq Upvals
        /\ \A x \in Objects \ Functions : refs'[x] \subseteq Objects \ Upvals
    <3>1. \A x \in Objects : x # t => refs'[x] = refs[x]
      BY <1>1
    <3>2. refs'[t] = refs[t] \cup {v}
      BY <1>0, <1>1
    <3>3. t \notin Strings /\ t \notin Functions
      BY <1>0
    <3>4. QED
      BY <1>0, <3>1, <3>2, <3>3, Kinds DEF TypeOK
  <2>3. QED
    BY <1>0, <1>2, <1>3, <2>1, <2>2 DEF TypeOK, Listed
<1>5. Sound'
  <2>1. Lives'
    BY <1>0, <1>1, <1>3 DEF Sound, Lives
  <2>2. Freed'
    BY <1>0, <1>1, <1>2 DEF Sound, Freed, Dead
  <2>3. Slots'
    <3>1. \A x \in Upvals \cup Threads : x \in Objects /\ refs'[x] = refs[x] /\ colour'[x] = colour[x]
      BY <1>0, <1>1, <1>2, Kinds
    <3>2. \A d \in Udatas : colour'[d] = colour[d]
      BY <1>0, <1>2, Kinds
    <3>3. QED
      BY <1>0, <3>1, <3>2 DEF TypeOK, Sound, Slots
  <2>4. QED
    BY <2>1, <2>2, <2>3 DEF Sound
<1>6. Coloured'
  <2>1. \A x \in Objects : x # t => refs'[x] = refs[x]
    BY <1>1
  <2>2. CASE colour[t] = "black" /\ barrierback(t)
    BY <1>0, <2>1, <2>2, TableTurnsGray
  <2>3. CASE ~ (colour[t] = "black" /\ v \in White) /\ UNCHANGED <<colour, gray, grayagain>>
    <3>1. Marking => \A x \in Objects \ mmudata : colour[x] = "black" => \A p \in refs'[x] : p \notin White
      BY <1>1, <2>3 DEF Coloured, TriColour
    <3>2. QED
      BY <1>0, <2>3, <3>1, StoreSeen
  <2>4. QED
    BY <1>0, <2>2, <2>3 DEF barriert
<1>7. QED
  BY <1>4, <1>5, <1>6

LEMMA SetModeKeeps == ASSUME IInv, NEW t, SetMode(t) PROVE IInv'
<1> USE DEF IInv
<1>0. /\ t \in Tables /\ t \in Objects
      /\ t \notin Threads \cup Functions \cup Upvals \cup Strings \cup Udatas
      /\ UNCHANGED <<refs, home, unswept, finalized, state, weak, mmudata, full>>
      /\ gray' = gray /\ weakMode' \subseteq Tables
      /\ \/ colour[t] = "black" /\ barrierback(t)
         \/ UNCHANGED <<colour, gray, grayagain>>
  BY KindAssumption, Kinds DEF SetMode, Runs, barrierback, TypeOK
<1>1. /\ \A x \in Objects : colour'[x] = colour[x] \/ (x = t /\ colour[x] = "black" /\ colour'[x] = "gray")
      /\ colour' \in [Objects -> {"white", "dead", "free", "gray", "black"}]
      /\ grayagain' \subseteq grayagain \cup {t}
  BY <1>0 DEF barrierback, TypeOK
<1>2. Dead' = Dead /\ Allocated' = Allocated
  BY <1>1 DEF Dead, Allocated
<1>3. TypeOK'
  BY <1>0, <1>1, <1>2 DEF TypeOK, Listed
<1>4. Sound'
  <2>1. Lives' /\ Freed'
    BY <1>0, <1>1, <1>2 DEF Sound, Lives, Freed
  <2>2. Slots'
    <3>1. \A x \in Upvals \cup Threads \cup Udatas : x \in Objects /\ colour'[x] = colour[x]
      BY <1>0, <1>1, Kinds
    <3>2. QED
      BY <1>0, <3>1 DEF TypeOK, Sound, Slots
  <2>3. QED
    BY <2>1, <2>2 DEF Sound
<1>5. Coloured'
  <2>1. CASE colour[t] = "black" /\ barrierback(t)
    BY <1>0, <2>1, TableTurnsGray
  <2>2. CASE UNCHANGED <<colour, gray, grayagain>>
    <3>1. Marking => \A x \in Objects \ mmudata : colour[x] = "black" => \A p \in refs'[x] : p \notin White
      BY <1>0 DEF Coloured, TriColour
    <3>2. QED
      BY <1>0, <2>2, <3>1, StoreSeen
  <2>3. QED
    BY <1>0, <2>1, <2>2
<1>6. QED
  BY <1>3, <1>4, <1>5

LEMMA StoreInUdataKeeps == ASSUME IInv, NEW d, NEW t, StoreInUdata(d, t) PROVE IInv'
<1> USE DEF IInv
<1>0. /\ d \in Udatas /\ d \in Objects \ Dead /\ t \in Tables /\ t \in Objects \ (Dead \cup Upvals)
      /\ d \notin Threads \cup Functions \cup Upvals \cup Strings
      /\ UNCHANGED <<weakMode, home, unswept, finalized, state, weak, mmudata, full>>
      /\ barrier(d, t)
  BY StackLives, KindAssumption, Kinds DEF StoreInUdata, Runs
<1>1. \A x \in Objects : refs'[x] = IF x = d THEN refs[x] \cup {t} ELSE refs[x]
  BY DEF StoreInUdata, TypeOK
<1>2. /\ Coloured' /\ Recoloured(d)
      /\ colour' \in [Objects -> {"white", "dead", "free", "gray", "black"}]
      /\ gray' \subseteq Listed /\ grayagain' = grayagain
  <2>1. /\ \A x \in Objects : x # d => refs'[x] = refs[x]
        /\ \A p \in refs'[d] : p \in refs[d] \/ p = t
    BY <1>0, <1>1
  <2>2. d \in (Udatas \cup Upvals) \ Dead /\ t \in Objects
    BY <1>0
  <2>3. QED
    BY <1>0, <2>1, <2>2, BarrierKeeps
<1>3. /\ Dead' = Dead /\ Allocated' = Allocated
      /\ \A x \in Objects : colour'[x] = "free" <=> colour[x] = "free"
      /\ \A u \in Upvals : home[u] # NoThread => colour'[u] # "black"
      /\ \A u \in Upvals : home[u] = NoThread => colour'[u] # "gray"
      /\ \A x \in Udatas : colour'[x] # "gray"
      /\ \A th \in Threads : colour'[th] # "black"
  BY <1>0, <1>2, RecolouredIsSound
<1>4. TypeOK'
  <2>1. refs' \in [Objects -> SUBSET Objects]
    BY <1>0 DEF TypeOK, StoreInUdata
  <2>2. /\ \A s \in Strings : refs'[s] = {}
        /\ \A x \in Udatas : refs'[x] \subseteq Tables
        /\ \A x \in Functions : refs'[x] \subseteq Upvals
        /\ \A x \in Objects \ Functions : refs'[x] \subseteq Objects \ Upvals
    <3>1. \A x \in Objects : x # d => refs'[x] = refs[x]
      BY <1>1
    <3>2. refs'[d] = refs[d] \cup {t}
      BY <1>0, <1>1
    <3>3. d \notin Strings /\ d \notin Functions
      BY <1>0
    <3>4. QED
      BY <1>0, <3>1, <3>2, <3>3, Kinds DEF TypeOK
  <2>3. QED
    BY <1>0, <1>2, <1>3, <2>1, <2>2 DEF TypeOK, Listed
<1>5. Sound'
  <2>1. Lives'
    <3>1. \A x \in Objects \ Dead : \A p \in refs'[x] : p \in refs[x] \/ p = t
      BY <1>1
    <3>2. t \notin Dead
      BY <1>0
    <3>3. QED
      BY <1>3, <3>1, <3>2 DEF Sound, Lives
  <2>2. Freed'
    BY <1>0, <1>1, <1>3 DEF Sound, Freed, Dead
  <2>3. Slots'
    <3>1. \A x \in Upvals \cup Threads : x \in Objects /\ refs'[x] = refs[x]
      BY <1>0, <1>1, Kinds
    <3>2. QED
      BY <1>0, <1>3, <3>1 DEF TypeOK, Sound, Slots
  <2>4. QED
    BY <2>1, <2>2, <2>3 DEF Sound
<1>6. QED
  BY <1>2, <1>4, <1>5

\* The value of a closed upvalue changes, or that of an open one and of its slot.
LEMMA SetUpvalueKeeps == ASSUME IInv, NEW u \in Upvals, NEW v, SetUpvalue(u, v) PROVE IInv'
<1> USE DEF IInv
<1>0. /\ u \in Objects \ Dead /\ v \in Objects \ (Dead \cup Upvals)
      /\ u \notin Threads \cup Functions \cup Udatas \cup Strings
      /\ UNCHANGED <<weakMode, home, unswept, finalized, state, weak, mmudata, full>>
  <2>1. u \in Objects \ Dead /\ v \in Objects \ Dead /\ v \in refs[Main]
    BY StackLives, Kinds DEF SetUpvalue, Stack
  <2>2. v \notin Upvals
    BY <2>1, Kinds DEF TypeOK
  <2>3. QED
    BY <2>1, <2>2, KindAssumption DEF SetUpvalue, Runs
<1>1. CASE Closed(u)
  <2>0. refs' = [refs EXCEPT ![u] = {v}] /\ barrier(u, v)
    BY <1>1 DEF SetUpvalue
  <2>1. \A x \in Objects : refs'[x] = IF x = u THEN {v} ELSE refs[x]
    BY <2>0 DEF TypeOK
  <2>2. /\ Coloured' /\ Recoloured(u)
        /\ colour' \in [Objects -> {"white", "dead", "free", "gray", "black"}]
        /\ gray' \subseteq Listed /\ grayagain' = grayagain
    <3>1. /\ \A x \in Objects : x # u => refs'[x] = refs[x]
          /\ \A p \in refs'[u] : p \in refs[u] \/ p = v
      BY <1>0, <2>1
    <3>2. u \in (Udatas \cup Upvals) \ Dead /\ v \in Objects
      BY <1>0
    <3>3. QED
      BY <1>0, <2>0, <3>1, <3>2, BarrierKeeps
  <2>3. /\ Dead' = Dead /\ Allocated' = Allocated
        /\ \A x \in Objects : colour'[x] = "free" <=> colour[x] = "free"
        /\ \A x \in Upvals : home[x] # NoThread => colour'[x] # "black"
        /\ \A x \in Upvals : home[x] = NoThread => colour'[x] # "gray"
        /\ \A x \in Udatas : colour'[x] # "gray"
        /\ \A th \in Threads : colour'[th] # "black"
    BY <1>0, <2>2, RecolouredIsSound
  <2>4. TypeOK'
    <3>1. refs' \in [Objects -> SUBSET Objects]
      BY <1>0, <2>0 DEF TypeOK
    <3>2. \A x \in Objects : x # u => refs'[x] = refs[x]
      BY <2>1
    <3>3. refs'[u] \subseteq Objects \ Upvals
      BY <1>0, <2>1
    <3>4. /\ \A s \in Strings : refs'[s] = {}
          /\ \A x \in Udatas : refs'[x] \subseteq Tables
          /\ \A x \in Functions : refs'[x] \subseteq Upvals
          /\ \A x \in Objects \ Functions : refs'[x] \subseteq Objects \ Upvals
      BY <1>0, <3>2, <3>3, Kinds DEF TypeOK
    <3>5. QED
      BY <1>0, <2>2, <2>3, <3>1, <3>4 DEF TypeOK, Listed
  <2>5. Sound'
    <3>1. Lives'
      BY <1>0, <2>1, <2>3 DEF Sound, Lives
    <3>2. Freed'
      BY <1>0, <2>1, <2>3 DEF Sound, Freed, Dead
    <3>3. Slots'
      <4>1. \A x \in Threads : refs'[x] = refs[x]
        BY <1>0, <2>1, Kinds
      <4>2. \A x \in Upvals : home[x] # NoThread => x \in Objects /\ x # u /\ refs'[x] = refs[x]
        BY <1>0, <1>1, <2>1, Kinds DEF Closed
      <4>3. QED
        BY <1>0, <2>3, <4>1, <4>2, Kinds DEF TypeOK, Sound, Slots
    <3>4. QED
      BY <3>1, <3>2, <3>3 DEF Sound
  <2>6. QED
    BY <2>2, <2>4, <2>5
<1>2. CASE ~ Closed(u)
  <2> DEFINE th == home[u]
  <2>0. /\ refs' = [[refs EXCEPT ![u] = {v}] EXCEPT ![th] = @ \cup {v}]
        /\ UNCHANGED <<colour, gray, grayagain>>
        /\ th \in Threads /\ th \in Objects /\ colour[th] # "free" /\ th # u
        /\ th \notin Strings \cup Functions \cup Udatas \cup Upvals
    <3>1. th \in Threads /\ colour[th] # "free"
      BY <1>2 DEF TypeOK, Closed, Sound, Slots
    <3>2. QED
      BY <1>0, <1>2, <3>1, Kinds, KindAssumption DEF SetUpvalue
  <2> HIDE DEF th
  <2>1. /\ \A x \in Objects : x # u /\ x # th => refs'[x] = refs[x]
        /\ refs'[u] = {v} /\ refs'[th] = refs[th] \cup {v}
    BY <1>0, <2>0 DEF TypeOK
  <2>2. TypeOK'
    <3>1. refs' \in [Objects -> SUBSET Objects]
      BY <1>0, <2>0 DEF TypeOK
    <3>2. /\ \A s \in Strings : refs'[s] = {}
          /\ \A x \in Udatas : refs'[x] \subseteq Tables
          /\ \A x \in Functions : refs'[x] \subseteq Upvals
          /\ \A x \in Objects \ Functions : refs'[x] \subseteq Objects \ Upvals
      BY <1>0, <2>0, <2>1, Kinds DEF TypeOK
    <3>3. QED
      BY <1>0, <2>0, <3>1, <3>2 DEF TypeOK, Listed, Allocated
  <2>3. Sound'
    <3>1. Lives'
      BY <1>0, <2>0, <2>1 DEF Sound, Lives, Dead
    <3>2. Freed'
      <4>1. colour[u] # "free"
        BY <1>0 DEF Dead
      <4>2. QED
        BY <2>0, <2>1, <4>1 DEF Sound, Freed
    <3>3. Slots'
      <4>1. \A x \in Upvals : x \in Objects /\ (x # u => refs'[x] = refs[x])
        BY <2>0, <2>1, Kinds
      <4>2. \A x \in Threads : refs[x] \subseteq refs'[x]
        BY <1>0, <2>0, <2>1, Kinds
      <4>3. refs'[u] \subseteq refs'[home[u]]
        BY <2>1 DEF th
      <4>4. \A x \in Upvals : home[x] # NoThread => refs'[x] \subseteq refs'[home[x]]
        BY <4>1, <4>2, <4>3 DEF TypeOK, Sound, Slots
      <4>5. QED
        BY <1>0, <2>0, <4>4 DEF Sound, Slots
    <3>4. QED
      BY <3>1, <3>2, <3>3 DEF Sound
  <2>4. Coloured'
    <3>1. colour[u] # "black" /\ colour[th] # "black"
      BY <1>2, <2>0 DEF Sound, Slots, Closed
    <3>2. \A x \in Objects : colour[x] = "black" => refs'[x] \subseteq refs[x]
      BY <2>1, <3>1
    <3>3. QED
      BY <1>0, <2>0, <3>2, QuietSteps
  <2>5. QED
    BY <2>2, <2>3, <2>4
<1>3. QED
  BY <1>1, <1>2

\* A closed upvalue is freed, if the sweep has left it so long, or is black or
\* white from then on; black only after what it refers to was marked.
LEMMA CloseUpvalueKeeps == ASSUME IInv, NEW u \in Upvals, CloseUpvalue(u) PROVE IInv'
<1> USE DEF IInv
<1> DEFINE M == Marks(refs[u])
<1>0. /\ u \in Objects /\ u \notin Threads \cup Tables \cup Functions \cup Udatas \cup Strings
      /\ home[u] # NoThread /\ refs[u] \subseteq Objects \ Upvals
      /\ colour[u] \notin {"free", "black"}
      /\ UNCHANGED <<weakMode, grayagain, finalized, state, weak, mmudata, full>>
      /\ unswept' = unswept \ {u}
  <2>1. home[u] \in Threads
    BY KindAssumption, StackLives, Kinds DEF CloseUpvalue, Running
  <2>2. home[u] # NoThread /\ u \notin Threads \cup Tables \cup Functions \cup Udatas \cup Strings
    BY <2>1, KindAssumption
  <2>3. refs[u] \subseteq Objects \ Upvals
    BY <2>2, Kinds DEF TypeOK
  <2>4. colour[u] \notin {"free", "black"}
    BY <2>2 DEF Sound, Slots
  <2>5. QED
    BY <2>2, <2>3, <2>4, Kinds DEF CloseUpvalue, Runs
<1>1. \A x \in Objects : refs'[x] = IF x = u /\ colour[u] = "dead" THEN {} ELSE refs[x]
  BY <1>0 DEF CloseUpvalue, TypeOK
<1>2. \A x \in Upvals : home'[x] = IF x = u THEN NoThread ELSE home[x]
  BY DEF CloseUpvalue, TypeOK
<1>3. \/ /\ colour[u] = "dead"
         /\ colour' = [colour EXCEPT ![u] = "free"] /\ UNCHANGED gray
      \/ /\ colour[u] = "gray" /\ Marking
         /\ Mark(refs[u], [colour EXCEPT ![u] = "black"])
      \/ /\ colour[u] = "gray" /\ ~ Marking
         /\ colour' = [colour EXCEPT ![u] = "white"] /\ UNCHANGED gray
      \/ /\ colour[u] \notin {"dead", "gray"}
         /\ UNCHANGED <<colour, gray>>
  BY DEF CloseUpvalue
<1>4. /\ u \notin M \/ colour[u] # "gray"
      /\ M \subseteq White /\ \A x \in M : x \notin Upvals
      /\ \A m \in M : m \in Udatas \cup Upvals => \A p \in refs[m] : p \in White => p \in M
      /\ refs[u] \cap White \subseteq M
  <2>1. refs[u] \in SUBSET Objects
    BY <1>0
  <2>2. /\ M \subseteq White /\ refs[u] \cap White \subseteq M
        /\ \A m \in M : m \in Udatas \cup Upvals => \A p \in refs[m] : p \in White => p \in M
        /\ \A m \in M : m \in Upvals => m \in refs[u]
    BY <2>1, MarksClosed
  <2>3. QED
    BY <1>0, <2>2 DEF White
<1>5. Mark(refs[u], [colour EXCEPT ![u] = "black"]) =>
        /\ \A x \in Objects : colour'[x] = IF x \in M THEN MarkedColour(x) ELSE IF x = u THEN "black" ELSE colour[x]
        /\ colour' \in [Objects -> {"white", "dead", "free", "gray", "black"}]
        /\ gray' = gray \cup (M \cap Listed)
  <2>1. [colour EXCEPT ![u] = "black"] \in [Objects -> {"white", "dead", "free", "gray", "black"}]
    BY <1>0 DEF TypeOK
  <2>2. \A x \in Objects : [colour EXCEPT ![u] = "black"][x] = IF x = u THEN "black" ELSE colour[x]
    BY <1>0 DEF TypeOK
  <2>3. refs[u] \in SUBSET Objects
    BY <1>0
  <2>4. QED
    BY <2>1, <2>2, <2>3, MarkIsFunction
<1> HIDE DEF M
<1>6. /\ \A x \in Objects : x # u =>
           colour'[x] = colour[x] \/ (x \in White /\ x \notin Upvals /\ colour'[x] = MarkedColour(x))
      /\ colour'[u] = IF colour[u] = "dead" THEN "free"
                      ELSE IF colour[u] = "gray" /\ Marking THEN "black" ELSE "white"
      /\ colour' \in [Objects -> {"white", "dead", "free", "gray", "black"}]
      /\ gray' \subseteq Listed
  <2>1. CASE colour[u] = "gray" /\ Marking
    BY <1>0, <1>3, <1>4, <1>5, <2>1 DEF TypeOK
  <2>2. CASE ~ (colour[u] = "gray" /\ Marking)
    BY <1>0, <1>3, <2>2 DEF TypeOK
  <2>3. QED
    BY <2>1, <2>2
<1>7. Dead' = Dead /\ \A x \in Objects : x # u => (colour'[x] = "free" <=> colour[x] = "free")
  <2>1. \A x \in Objects : x # u =>
          /\ colour'[x] = "free" <=> colour[x] = "free"
          /\ colour'[x] = "dead" <=> colour[x] = "dead"
    BY <1>6, MarkedColours DEF White
  <2>2. QED
    BY <1>0, <1>6, <2>1 DEF Dead
<1>8. TypeOK'
  <2>1. refs' \in [Objects -> SUBSET Objects]
    BY <1>0 DEF CloseUpvalue, TypeOK
  <2>2. \A x \in Objects : refs'[x] \subseteq refs[x]
    BY <1>1
  <2>3. /\ \A s \in Strings : refs'[s] = {}
        /\ \A x \in Udatas : refs'[x] \subseteq Tables
        /\ \A x \in Functions : refs'[x] \subseteq Upvals
        /\ \A x \in Objects \ Functions : refs'[x] \subseteq Objects \ Upvals
    BY <2>2, Kinds DEF TypeOK
  <2>4. home' \in [Upvals -> Threads \cup {NoThread}]
    BY DEF CloseUpvalue, TypeOK
  <2>5. unswept' \subseteq Allocated' /\ finalized' \subseteq Udatas \cap Allocated'
    BY <1>0, <1>7 DEF TypeOK, Allocated
  <2>6. QED
    BY <1>0, <1>6, <2>1, <2>3, <2>4, <2>5 DEF TypeOK
<1>9. Sound'
  <2>1. Lives'
    BY <1>1, <1>7 DEF Sound, Lives
  <2>2. Freed'
    BY <1>0, <1>1, <1>6, <1>7 DEF Sound, Freed
  <2>3. Slots'
    <3>1. /\ \A x \in Upvals : x # u => x \in Objects /\ colour'[x] = colour[x]
          /\ \A x \in Upvals : x # u => home'[x] = home[x] /\ refs'[x] = refs[x]
      BY <1>1, <1>2, <1>6, Kinds
    <3>2. \A th \in Threads : th \in Objects /\ th # u /\ refs'[th] = refs[th]
      BY <1>0, <1>1, Kinds
    <3>3. \A th \in Threads : colour[th] # "free" => colour'[th] # "free"
      BY <1>7, <3>2
    <3>4. home'[u] = NoThread /\ colour'[u] # "gray"
      BY <1>2, <1>6
    <3>5. \A d \in Udatas : colour'[d] # "gray"
      BY <1>0, <1>6, Kinds, MarkedColours DEF Sound, Slots
    <3>6. \A th \in Threads : colour'[th] # "black"
      BY <1>6, <3>2, MarkedColours DEF Sound, Slots, Listed
    <3>7. QED
      BY <3>1, <3>2, <3>3, <3>4, <3>5, <3>6 DEF TypeOK, Sound, Slots
  <2>4. QED
    BY <2>1, <2>2, <2>3 DEF Sound
<1>10. Coloured'
  <2>1. CASE colour[u] = "gray" /\ Marking
    <3>1. /\ \A x \in Objects : colour'[x] = IF x \in M THEN MarkedColour(x) ELSE IF x = u THEN "black" ELSE colour[x]
          /\ gray' = gray \cup (M \cap Listed)
      BY <1>3, <1>5, <2>1
    <3>2. u \in Objects \ M /\ M \in SUBSET White
      BY <1>0, <1>4, <2>1
    <3>3. \A x \in Objects : refs'[x] = refs[x]
      BY <1>1, <2>1
    <3>4. ASSUME NEW x \in Objects \ mmudata, colour'[x] = "black", NEW p \in refs'[x], p \in White
          PROVE  p \in M
      <4>1. CASE x \in M
        <5>1. x \in Udatas \cup Upvals
          BY <3>1, <3>4, <4>1, MarkedColours DEF Objects, Listed
        <5>2. QED
          BY <1>4, <3>3, <3>4, <4>1, <5>1
      <4>2. CASE x = u
        BY <1>4, <3>3, <3>4, <4>2
      <4>3. CASE x \notin M /\ x # u
        BY <2>1, <3>1, <3>3, <3>4, <4>3 DEF Coloured, TriColour
      <4>4. QED
        BY <4>1, <4>2, <4>3
    <3>5. /\ \A x \in Objects : x \notin M /\ x # u => colour'[x] = colour[x]
          /\ \A x \in M : colour'[x] = MarkedColour(x)
          /\ colour'[u] = "black"
      BY <1>0, <3>1, <3>2 DEF White
    <3>6. QED
      BY <1>0, <2>1, <3>1, <3>2, <3>4, <3>5, FrontierMoves
  <2>2. CASE colour[u] = "dead"
    <3>1. Sweeping /\ \A x \in Objects : x # u => colour'[x] = colour[x]
      BY <1>0, <1>3, <2>2 DEF Coloured, Phases, TypeOK
    <3>2. TriColour' /\ ListsAreGray' /\ BetweenCycles'
      BY <1>0, <3>1 DEF Sweeping, TriColour, ListsAreGray, BetweenCycles, Marking
    <3>3. Phases' /\ Pending'
      BY <1>0, <1>6, <2>2, <3>1, Kinds DEF TypeOK, Coloured, Phases, Pending, Sweeping, Allocated
    <3>4. QED
      BY <3>2, <3>3 DEF Coloured
  <2>3. CASE Marking /\ colour[u] \notin {"gray", "dead"}
    <3>1. unswept' = unswept /\ UNCHANGED <<colour, gray>>
      BY <1>0, <1>3, <2>3 DEF Coloured, Phases, Marking, Sweeping
    <3>2. \A x \in Objects \ mmudata : colour[x] = "black" => \A p \in refs'[x] : p \notin White
      BY <1>1, <2>3 DEF Coloured, TriColour
    <3>3. QED
      BY <1>0, <3>1, <3>2, StoreSeen
  <2>4. CASE ~ Marking /\ colour[u] # "dead"
    <3>1. colour'[u] = "white" /\ \A x \in Objects : x # u => colour'[x] = colour[x]
      BY <1>0, <1>3, <1>6, <2>4
    <3>2. unswept \ {u} \subseteq unswept' /\ unswept' \subseteq unswept
      BY <1>0
    <3>3. QED
      BY <1>0, <2>4, <3>1, <3>2, TurnsWhite
  <2>5. QED
    BY <2>1, <2>2, <2>3, <2>4
<1>11. QED
  BY <1>8, <1>9, <1>10
-----------------------------------------------------------------------------
(***************************************************************************)
(* The collector's steps.                                                  *)
(***************************************************************************)
LEMMA StartCycleKeeps == ASSUME IInv, StartCycle PROVE IInv'
<1> USE DEF IInv
<1>0. /\ UNCHANGED <<refs, weakMode, home, finalized, mmudata, unswept, full>>
      /\ grayagain' = {} /\ weak' = {} /\ state' = "propagate"
  BY DEF StartCycle, KeepsHeap
<1>1. /\ \A x \in Objects \ mmudata : colour[x] \in {"white", "free"}
      /\ unswept = {} /\ Main \in Threads /\ Main \in Objects /\ Main \notin mmudata /\ Main \in White
      /\ \A x \in Objects : colour[x] # "dead"
  BY Kinds DEF StartCycle, TypeOK, Sound, Lives, Dead, Coloured, BetweenCycles, Phases, Sweeping, Allocated, White
<1>2. /\ \A x \in Objects : colour'[x] = IF x = Main THEN "gray" ELSE colour[x]
      /\ colour' \in [Objects -> {"white", "dead", "free", "gray", "black"}]
      /\ gray' = {Main}
  BY <1>1 DEF StartCycle, TypeOK, White
<1>3. Dead' = Dead /\ Allocated' = Allocated
  BY <1>1, <1>2 DEF Dead, Allocated, White
<1>4. TypeOK'
  BY <1>0, <1>1, <1>2, <1>3 DEF TypeOK, Listed
<1>5. Sound'
  <2>1. Lives' /\ Freed'
    BY <1>0, <1>1, <1>2, <1>3 DEF Sound, Lives, Freed
  <2>2. Slots'
    BY <1>0, <1>1, <1>2, Kinds DEF TypeOK, Sound, Slots
  <2>3. QED
    BY <2>1, <2>2 DEF Sound
<1>6. Coloured'
  <2>1. TriColour'
    <3>1. \A x \in Listed : x \notin mmudata /\ x \in Objects
      BY Kinds, KindAssumption DEF TypeOK, Listed
    <3>2. \A x \in Objects \ mmudata : colour'[x] # "black"
      BY <1>1, <1>2
    <3>3. \A x \in Listed : colour'[x] = "gray" => x \in gray'
      BY <1>1, <1>2, <3>1
    <3>4. QED
      BY <1>0, <3>2, <3>3 DEF TriColour
  <2>2. ListsAreGray'
    BY <1>0, <1>1, <1>2 DEF ListsAreGray
  <2>3. Phases' /\ BetweenCycles'
    BY <1>0, <1>1, <1>2 DEF Phases, BetweenCycles, Sweeping
  <2>4. Pending'
    BY <1>0, <1>1, <1>2, Kinds DEF TypeOK, Coloured, Pending
  <2>5. QED
    BY <2>1, <2>2, <2>3, <2>4 DEF Coloured
<1>7. QED
  BY <1>4, <1>5, <1>6

\* An object is taken from the list and traversed.
LEMMA propagatemarkKeeps == ASSUME IInv, NEW o, propagatemark(o) PROVE IInv'
<1> USE DEF IInv
<1> DEFINE M == Marks(Traversed(o))
<1>0. /\ UNCHANGED <<refs, weakMode, home, finalized, state, mmudata, unswept, full>>
      /\ Marking /\ state = "propagate"
      /\ o \in gray /\ o \in Listed /\ o \in Objects /\ colour[o] = "gray"
      /\ o \notin Strings \cup Upvals \cup Udatas
      /\ o \notin grayagain /\ o \notin weak
  BY Kinds, KindAssumption DEF propagatemark, KeepsHeap, Marking, TypeOK, Listed, Coloured, ListsAreGray, TriColour
<1>1. Traversed(o) \in SUBSET Objects /\ Traversed(o) \subseteq refs[o] /\ (o \notin weakMode => Traversed(o) = refs[o])
  BY <1>0 DEF TypeOK, Traversed
<1>2. /\ M \subseteq White /\ Traversed(o) \cap White \subseteq M
      /\ \A m \in M : m \in Udatas \cup Upvals => \A p \in refs[m] : p \in White => p \in M
  BY <1>1, MarksClosed
<1>3. /\ \A x \in Objects : colour'[x] =
           IF x \in M THEN MarkedColour(x) ELSE IF x = o THEN TraversedColour(o) ELSE colour[x]
      /\ gray' = (gray \ {o}) \cup (M \cap Listed)
      /\ grayagain' = grayagain \cup ({o} \cap Threads)
      /\ weak' = weak \cup ({o} \cap weakMode)
  BY DEF propagatemark
<1>4. colour' = [x \in Objects |-> colour'[x]]
  BY DEF propagatemark
<1> HIDE DEF M
<1>5. /\ o \notin M /\ \A x \in M : x \in Objects /\ colour[x] = "white"
      /\ TraversedColour(o) \in {"gray", "black"}
      /\ (TraversedColour(o) = "gray" <=> o \in Threads \cup weakMode)
  BY <1>0, <1>2 DEF White, TraversedColour
<1>6. \A x \in Objects :
        \/ x \notin M /\ x # o /\ colour'[x] = colour[x]
        \/ x \in M /\ colour[x] = "white" /\ colour'[x] = MarkedColour(x)
        \/ x = o /\ x \notin M /\ colour[x] = "gray" /\ colour'[x] = TraversedColour(o)
  BY <1>0, <1>3, <1>5
<1>7. \A x \in Objects :
        (colour'[x] = "free" <=> colour[x] = "free") /\ (colour'[x] = "dead" <=> colour[x] = "dead")
  BY <1>5, <1>6, MarkedColours
<1>8. Dead' = Dead /\ Allocated' = Allocated
  BY <1>7 DEF Dead, Allocated
<1>9. TypeOK'
  <2>1. colour' \in [Objects -> {"white", "dead", "free", "gray", "black"}]
    <3>1. \A x \in Objects : colour'[x] \in {"white", "dead", "free", "gray", "black"}
      BY <1>5, <1>6, MarkedColours DEF TypeOK
    <3>2. QED
      BY <1>4, <3>1
  <2>2. QED
    BY <1>0, <1>3, <1>8, <2>1 DEF TypeOK
<1>10. Sound'
  <2>1. Lives' /\ Freed'
    BY <1>0, <1>7, <1>8 DEF Sound, Lives, Freed
  <2>2. \A u \in Upvals : /\ home[u] # NoThread => colour'[u] # "black"
                          /\ home[u] = NoThread => colour'[u] # "gray"
    <3>1. \A u \in Upvals : u \in Objects /\ u # o
      BY <1>0, Kinds
    <3>2. QED
      BY <1>6, <3>1, MarkedColours DEF Sound, Slots, Closed
  <2>3. \A d \in Udatas : colour'[d] # "gray"
    BY <1>0, <1>6, Kinds, MarkedColours DEF Sound, Slots
  <2>4. \A th \in Threads : colour'[th] # "black"
    BY <1>5, <1>6, Kinds, MarkedColours DEF Sound, Slots, Listed
  <2>5. Slots'
    BY <1>0, <1>7, <2>2, <2>3, <2>4, Kinds DEF TypeOK, Sound, Slots
  <2>6. QED
    BY <2>1, <2>5 DEF Sound
<1>11. Coloured'
  <2>1. TriColour'
    <3>1. White' \subseteq White \ M
      BY <1>5, <1>6, MarkedColours DEF White
    <3>2. ASSUME NEW x \in Objects \ mmudata, colour'[x] = "black", NEW p \in refs[x], p \in White
          PROVE  p \in M
      <4>1. CASE x \in M
        <5>1. x \in Udatas \cup Upvals
          BY <1>6, <3>2, <4>1, MarkedColours DEF Objects, Listed
        <5>2. QED
          BY <1>2, <3>2, <4>1, <5>1
      <4>2. CASE x = o
        <5>1. o \notin weakMode
          BY <1>5, <1>6, <3>2, <4>2
        <5>2. QED
          BY <1>1, <1>2, <3>2, <4>2, <5>1
      <4>3. CASE x \notin M /\ x # o
        BY <1>0, <1>6, <3>2, <4>3 DEF Coloured, TriColour
      <4>4. QED
        BY <4>1, <4>2, <4>3
    <3>3. \A x \in Listed : colour'[x] = "gray" => x \in gray' \cup grayagain' \cup weak'
      <4> SUFFICES ASSUME NEW x \in Listed, colour'[x] = "gray"
                   PROVE  x \in gray' \cup grayagain' \cup weak'
        OBVIOUS
      <4>1. CASE x \in M
        BY <1>3, <4>1
      <4>2. CASE x = o
        BY <1>3, <1>5, <1>6, <4>2, <1>0
      <4>3. CASE x \notin M /\ x # o
        BY <1>0, <1>3, <1>6, <4>3, Kinds DEF Coloured, TriColour
      <4>4. QED
        BY <4>1, <4>2, <4>3
    <3>4. \A x \in M : x \notin grayagain /\ x \notin weak
      BY <1>0, <1>5 DEF Coloured, ListsAreGray
    <3>5. {o} \cap Threads \cap weakMode = {}
      BY KindAssumption DEF TypeOK
    <3>6. gray' \cap grayagain' = {} /\ gray' \cap weak' = {} /\ grayagain' \cap weak' = {}
      BY <1>0, <1>3, <1>5, <3>4, <3>5 DEF Coloured, TriColour
    <3>7. QED
      BY <1>0, <3>1, <3>2, <3>3, <3>6 DEF TriColour
  <2>2. ListsAreGray'
    <3> SUFFICES ASSUME NEW x \in gray' \cup grayagain' \cup weak'
                 PROVE  colour'[x] = "gray"
      BY DEF ListsAreGray
    <3>1. CASE x \in M \cap Listed
      BY <1>5, <1>6, <3>1, MarkedColours
    <3>2. CASE x = o
      BY <1>0, <1>3, <1>5, <1>6, <3>2
    <3>3. CASE x \in gray \cup grayagain \cup weak /\ x # o
      <4>1. x \in Objects /\ colour[x] = "gray"
        BY <1>0, <3>3, Kinds DEF Coloured, ListsAreGray, TypeOK
      <4>2. QED
        BY <1>6, <3>3, <4>1
    <3>4. QED
      BY <1>3, <3>1, <3>2, <3>3
  <2>3. Phases' /\ BetweenCycles'
    BY <1>0, <1>7 DEF Coloured, Phases, BetweenCycles, Sweeping, Marking
  <2>4. Pending'
    <3>1. \A d \in mmudata : d \in Objects /\ d # o /\ colour'[d] \in {"white", "black"}
      BY <1>0, <1>6, Kinds, MarkedColours DEF TypeOK, Coloured, Pending
    <3>2. QED
      BY <1>0, <1>7, <3>1, Kinds DEF Coloured, Pending
  <2>5. QED
    BY <2>1, <2>2, <2>3, <2>4 DEF Coloured
<1>12. QED
  BY <1>9, <1>10, <1>11

LEMMA EndPropagateKeeps == ASSUME IInv, EndPropagate PROVE IInv'
<1> USE DEF IInv
<1>1. TypeOK'
  BY DEF EndPropagate, TypeOK, heap, lists, Allocated
<1>2. Sound'
  BY DEF EndPropagate, Sound, Lives, Freed, Slots, Dead, heap, lists
<1>3. Coloured'
  BY DEF EndPropagate, Coloured, TriColour, ListsAreGray, Phases, BetweenCycles, Pending,
         Marking, Sweeping, White, Allocated, heap, lists
<1>4. QED
  BY <1>1, <1>2, <1>3

\* The sweep of a part of the heap frees what is dead, no more, and closes the
\* upvalues of a coroutine that it frees.
LEMMA SweepIsSound ==
  ASSUME TypeOK, Sound, Pending, NEW S \in SUBSET (Allocated \ mmudata), gc_sweep(S),
         \A u \in Upvals : home[u] \in S => u \in S
  PROVE  /\ Sound'
         /\ \A x \in Objects :
              \/ x \notin S /\ colour'[x] = colour[x]
              \/ x \in S /\ colour[x] = "dead" /\ colour'[x] = "free"
              \/ x \in S /\ colour[x] # "dead" /\ colour'[x] = "white"
         /\ \A x \in Allocated' : x \in Allocated
         /\ \A x \in Allocated : x \notin S => x \in Allocated'
         /\ refs' \in [Objects -> SUBSET Objects]
         /\ \A x \in Objects : refs'[x] \subseteq refs[x]
         /\ weakMode' \subseteq weakMode
         /\ home' \in [Upvals -> Threads \cup {NoThread}]
         /\ finalized' \subseteq Udatas \cap Allocated'
         /\ \A d \in finalized : d \notin finalized' => colour[d] = "dead" /\ d \in S
         /\ colour' \in [Objects -> {"white", "dead", "free", "gray", "black"}]
<1> DEFINE gone == {o \in S : colour[o] = "dead"}
<1>0. S \subseteq Objects /\ \A x \in S : x \in Objects /\ colour[x] # "free" /\ x \notin mmudata
  BY DEF Allocated
<1>1. /\ colour' = [o \in Objects |->
           IF o \in gone THEN "free" ELSE IF o \in S THEN "white" ELSE colour[o]]
      /\ refs' = [o \in Objects |-> IF o \in gone THEN {} ELSE refs[o]]
      /\ home' = [u \in Upvals |-> IF u \in gone \/ home[u] \in gone THEN NoThread ELSE home[u]]
      /\ weakMode' = weakMode \ gone
      /\ finalized' = finalized \ gone
  BY DEF gc_sweep
<1>2. \A x \in Objects : x \in gone <=> x \in S /\ colour[x] = "dead"
  OBVIOUS
<1> HIDE DEF gone
<1>3. \A x \in Objects :
        \/ x \notin S /\ colour'[x] = colour[x]
        \/ x \in S /\ colour[x] = "dead" /\ colour'[x] = "free"
        \/ x \in S /\ colour[x] # "dead" /\ colour'[x] = "white"
  BY <1>1, <1>2
<1>4. colour' \in [Objects -> {"white", "dead", "free", "gray", "black"}]
  <2>1. \A x \in Objects : colour'[x] \in {"white", "dead", "free", "gray", "black"}
    BY <1>3 DEF TypeOK
  <2>2. colour' = [x \in Objects |-> colour'[x]]
    BY <1>1
  <2>3. QED
    BY <2>1, <2>2
<1>5. /\ \A x \in Objects : refs'[x] = IF x \in gone THEN {} ELSE refs[x]
      /\ \A u \in Upvals : home'[u] = IF u \in gone \/ home[u] \in gone THEN NoThread ELSE home[u]
  BY <1>1
<1>6. refs' \in [Objects -> SUBSET Objects] /\ home' \in [Upvals -> Threads \cup {NoThread}]
  BY <1>1 DEF TypeOK
<1>7. Dead' = Dead
  BY <1>0, <1>3 DEF Dead
<1>8. /\ \A x \in Allocated' : x \in Allocated
      /\ \A x \in Allocated : x \notin S => x \in Allocated'
      /\ \A x \in Allocated : x \notin gone => x \in Allocated'
  BY <1>0, <1>2, <1>3 DEF Allocated
<1>9. finalized' \subseteq Udatas \cap Allocated' /\ weakMode' \subseteq weakMode
  BY <1>1, <1>8 DEF TypeOK
<1>10. \A d \in finalized : d \notin finalized' => colour[d] = "dead" /\ d \in S
  BY <1>1, <1>2, Kinds DEF TypeOK
<1>11. Sound'
  <2>1. Lives'
    BY <1>5, <1>7 DEF Sound, Lives
  <2>2. Freed'
    <3> SUFFICES ASSUME NEW x \in Objects, colour'[x] = "free"
                 PROVE  refs'[x] = {}
      BY DEF Freed
    <3>1. CASE x \in gone
      BY <1>5, <3>1
    <3>2. CASE x \notin gone
      BY <1>0, <1>2, <1>3, <1>5, <3>2 DEF Sound, Freed
    <3>3. QED
      BY <3>1, <3>2
  <2>3. Slots'
    <3>1. ASSUME NEW u \in Upvals, home'[u] # NoThread
          PROVE  /\ colour'[u] \notin {"free", "black"} /\ colour'[home'[u]] # "free"
                 /\ refs'[u] \subseteq refs'[home'[u]]
      <4>1. home'[u] = home[u] /\ home[u] # NoThread /\ u \notin gone /\ home[u] \notin gone
        BY <1>5, <3>1
      <4>2. /\ colour[u] \notin {"free", "black"} /\ colour[home[u]] # "free"
            /\ refs[u] \subseteq refs[home[u]] /\ home[u] \in Objects /\ u \in Objects
        BY <4>1, Kinds DEF TypeOK, Sound, Slots
      <4>3. QED
        BY <1>2, <1>3, <1>5, <4>1, <4>2
    <3>2. ASSUME NEW u \in Upvals, home'[u] = NoThread
          PROVE  colour'[u] # "gray"
      <4>1. CASE home[u] = NoThread
        BY <1>3, <4>1, Kinds DEF Sound, Slots
      <4>2. CASE u \in gone \/ home[u] \in gone
        <5>1. u \in S
          BY <1>0, <1>2, <4>2, Kinds DEF gone
        <5>2. QED
          BY <1>3, <5>1, Kinds
      <4>3. QED
        BY <1>5, <3>2, <4>1, <4>2
    <3>3. \A d \in Udatas : colour'[d] # "gray"
      BY <1>3, Kinds DEF Sound, Slots
    <3>4. \A th \in Threads : colour'[th] # "black"
      BY <1>3, Kinds DEF Sound, Slots
    <3>5. QED
      BY <3>1, <3>2, <3>3, <3>4 DEF Slots
  <2>4. QED
    BY <2>1, <2>2, <2>3 DEF Sound
<1>12. \A x \in Objects : refs'[x] \subseteq refs[x]
  BY <1>5
<1>13. QED
  BY <1>3, <1>4, <1>6, <1>8, <1>9, <1>10, <1>11, <1>12

\* As long as the sweep goes on, it keeps the rest as well.
LEMMA SweepStepKeeps ==
  ASSUME IInv, Sweeping, NEW S \in SUBSET (Allocated \ mmudata), gc_sweep(S),
         \A u \in Upvals : home[u] \in S => u \in S,
         unswept' = unswept \ S, UNCHANGED <<state, gray, grayagain, weak, mmudata, full>>
  PROVE  IInv'
<1> USE DEF IInv
<1>1. /\ Sound'
      /\ \A x \in Objects :
           \/ x \notin S /\ colour'[x] = colour[x]
           \/ x \in S /\ colour[x] = "dead" /\ colour'[x] = "free"
           \/ x \in S /\ colour[x] # "dead" /\ colour'[x] = "white"
      /\ \A x \in Allocated' : x \in Allocated
      /\ \A x \in Allocated : x \notin S => x \in Allocated'
      /\ refs' \in [Objects -> SUBSET Objects]
      /\ \A x \in Objects : refs'[x] \subseteq refs[x]
      /\ weakMode' \subseteq weakMode
      /\ home' \in [Upvals -> Threads \cup {NoThread}]
      /\ finalized' \subseteq Udatas \cap Allocated'
      /\ \A d \in finalized : d \notin finalized' => colour[d] = "dead" /\ d \in S
      /\ colour' \in [Objects -> {"white", "dead", "free", "gray", "black"}]
  BY SweepIsSound DEF Coloured
<1>2. S \subseteq Objects /\ \A x \in S : x \notin mmudata
  BY DEF Allocated
<1>3. TypeOK'
  <2>1. /\ \A s \in Strings : refs'[s] = {}
        /\ \A x \in Udatas : refs'[x] \subseteq Tables
        /\ \A x \in Functions : refs'[x] \subseteq Upvals
        /\ \A x \in Objects \ Functions : refs'[x] \subseteq Objects \ Upvals
    BY <1>1, Kinds DEF TypeOK
  <2>2. mmudata' \subseteq finalized'
    BY <1>1, <1>2 DEF TypeOK
  <2>3. unswept' \subseteq Allocated'
    BY <1>1 DEF TypeOK
  <2>4. QED
    BY <1>1, <2>1, <2>2, <2>3 DEF TypeOK
<1>4. Coloured'
  <2>1. TriColour' /\ ListsAreGray' /\ BetweenCycles'
    BY DEF Sweeping, TriColour, ListsAreGray, BetweenCycles, Marking
  <2>2. Phases'
    <3>1. \A x \in Allocated' \ mmudata' : colour'[x] = "white" \/ x \in unswept'
      <4> SUFFICES ASSUME NEW x \in Allocated', x \notin mmudata
                   PROVE  colour'[x] = "white" \/ x \in unswept'
        OBVIOUS
      <4>1. x \in Objects /\ x \in Allocated /\ colour'[x] # "free"
        BY <1>1 DEF Allocated
      <4>2. QED
        BY <1>1, <4>1 DEF Coloured, Phases
    <3>2. Sweeping'
      BY DEF Sweeping
    <3>3. QED
      BY <3>1, <3>2 DEF Phases
  <2>3. Pending'
    <3>1. \A d \in mmudata : d \in Objects /\ colour'[d] \in {"white", "black"} /\ d \notin unswept'
      BY <1>1, <1>2, Kinds DEF TypeOK, Coloured, Pending
    <3>2. \A d \in Udatas : colour'[d] = "dead" => d \in finalized'
      BY <1>1, Kinds DEF Coloured, Pending
    <3>3. QED
      BY <3>1, <3>2 DEF Pending
  <2>4. QED
    BY <2>1, <2>2, <2>3 DEF Coloured
<1>5. QED
  BY <1>1, <1>3, <1>4

LEMMA sweepstringKeeps == ASSUME IInv, NEW s, sweepstring(s) PROVE IInv'
<1>1. s \in Strings /\ s \in Objects /\ s \in Allocated /\ s \notin mmudata /\ s \notin Threads
  BY KindAssumption, Kinds DEF sweepstring, IInv, TypeOK
<1>2. \A u \in Upvals : home[u] \in {s} => u \in {s}
  BY <1>1, KindAssumption DEF IInv, TypeOK
<1>3. {s} \in SUBSET (Allocated \ mmudata) /\ Sweeping
  BY <1>1 DEF sweepstring, Sweeping
<1>4. QED
  BY <1>2, <1>3, SweepStepKeeps DEF sweepstring, lists

LEMMA OpenOfIsAllocated ==
  ASSUME IInv, NEW o \in Objects
  PROVE  OpenOf(o) \subseteq Allocated \ mmudata /\ OpenOf(o) \subseteq Upvals
<1>1. o # NoThread
  BY KindAssumption DEF Objects
<1>2. \A u \in OpenOf(o) : u \in Upvals /\ u \in Objects /\ home[u] # NoThread
  BY <1>1, Kinds DEF OpenOf
<1>3. \A u \in OpenOf(o) : colour[u] # "free" /\ u \notin Udatas
  BY <1>2, KindAssumption DEF IInv, Sound, Slots
<1>4. QED
  BY <1>2, <1>3 DEF IInv, TypeOK, Allocated

LEMMA sweepKeeps == ASSUME IInv, NEW o, sweep(o) PROVE IInv'
<1> DEFINE S == {o} \cup OpenOf(o)
<1>1. o \in Objects /\ o \in Allocated /\ o \notin mmudata
  BY DEF sweep, IInv, TypeOK, Coloured, Pending, Allocated
<1>2. OpenOf(o) \subseteq Allocated \ mmudata /\ OpenOf(o) \subseteq Upvals
  BY <1>1, OpenOfIsAllocated
<1>3. S \in SUBSET (Allocated \ mmudata) /\ Sweeping
  BY <1>1, <1>2 DEF sweep, Sweeping
<1>4. \A u \in Upvals : home[u] \in S => u \in S
  <2> SUFFICES ASSUME NEW u \in Upvals, home[u] \in S PROVE u \in S
    OBVIOUS
  <2>1. CASE home[u] = o
    BY <2>1 DEF OpenOf
  <2>2. CASE home[u] \in OpenOf(o)
    BY <1>2, <2>2, KindAssumption DEF IInv, TypeOK
  <2>3. QED
    BY <2>1, <2>2
<1>5. gc_sweep(S) /\ unswept' = unswept \ S /\ UNCHANGED <<state, gray, grayagain, weak, mmudata, full>>
  BY DEF sweep, lists
<1> HIDE DEF S
<1>6. QED
  BY <1>3, <1>4, <1>5, SweepStepKeeps

LEMMA EndSweepStringKeeps == ASSUME IInv, EndSweepString PROVE IInv'
<1> USE DEF IInv
<1>1. TypeOK'
  BY DEF EndSweepString, TypeOK, heap, lists, Allocated
<1>2. Sound'
  BY DEF EndSweepString, Sound, Lives, Freed, Slots, Dead, heap, lists
<1>3. Coloured'
  BY DEF EndSweepString, Coloured, TriColour, ListsAreGray, Phases, BetweenCycles, Pending,
         Marking, Sweeping, White, Allocated, heap, lists
<1>4. QED
  BY <1>1, <1>2, <1>3

LEMMA EndSweepKeeps == ASSUME IInv, EndSweep PROVE IInv'
<1> USE DEF IInv
<1>0. /\ UNCHANGED <<refs, weakMode, home, finalized, colour, gray, grayagain, weak, mmudata, unswept>>
      /\ state = "sweep" /\ unswept = {} /\ state' \in {"pause", "finalize"} /\ full' \in {"no", full}
  BY DEF EndSweep, EndCycle, heap, lists
<1>1. TypeOK'
  BY <1>0 DEF TypeOK, Allocated
<1>2. Sound'
  BY <1>0 DEF Sound, Lives, Freed, Slots, Dead
<1>3. Coloured'
  <2>1. \A x \in Allocated \ mmudata : colour[x] = "white"
    BY <1>0 DEF Coloured, Phases, Sweeping
  <2>2. \A x \in Objects : colour[x] # "dead"
    BY <2>1 DEF Coloured, Pending, Allocated
  <2>3. QED
    BY <1>0, <2>1, <2>2 DEF Coloured, TriColour, ListsAreGray, Phases, BetweenCycles, Pending,
                            Marking, Sweeping, Allocated
<1>4. QED
  BY <1>1, <1>2, <1>3

LEMMA EndFinalizeKeeps == ASSUME IInv, EndFinalize PROVE IInv'
<1> USE DEF IInv
<1>0. /\ UNCHANGED <<refs, weakMode, home, finalized, colour, gray, grayagain, weak, mmudata, unswept>>
      /\ state = "finalize" /\ state' = "pause" /\ full' = "no"
  BY DEF EndFinalize, EndCycle, heap, lists
<1>1. TypeOK'
  BY <1>0 DEF TypeOK, Allocated
<1>2. Sound'
  BY <1>0 DEF Sound, Lives, Freed, Slots, Dead
<1>3. Coloured'
  BY <1>0 DEF Coloured, TriColour, ListsAreGray, Phases, BetweenCycles, Pending,
              Marking, Sweeping, Allocated
<1>4. QED
  BY <1>1, <1>2, <1>3

LEMMA gc_finalizeKeeps == ASSUME IInv, NEW d, gc_finalize(d) PROVE IInv'
<1> USE DEF IInv
<1>0. /\ d \in Udatas /\ d \in Objects /\ d \notin Upvals \cup Threads
      /\ colour[d] \in {"white", "black"} /\ state = "finalize" /\ state' = "finalize"
      /\ UNCHANGED <<weakMode, home, finalized, gray, grayagain, weak, unswept>>
      /\ mmudata' = mmudata \ {d} /\ full' \in {"no", "calls"}
  BY KindAssumption, Kinds DEF gc_finalize, TypeOK, Coloured, Pending, lists
<1>1. /\ \A x \in Objects : colour'[x] = IF x = d THEN "white" ELSE colour[x]
      /\ colour' \in [Objects -> {"white", "dead", "free", "gray", "black"}]
      /\ \A x \in Objects : refs'[x] = IF x = Main THEN refs[x] \cup {d} ELSE refs[x]
      /\ refs' \in [Objects -> SUBSET Objects]
  BY <1>0 DEF gc_finalize, TypeOK
<1>2. Dead' = Dead /\ Allocated' = Allocated /\ d \notin Dead
  BY <1>0, <1>1 DEF Dead, Allocated
<1>3. TypeOK'
  <2>1. /\ \A s \in Strings : refs'[s] = {}
        /\ \A x \in Udatas : refs'[x] \subseteq Tables
        /\ \A x \in Functions : refs'[x] \subseteq Upvals
        /\ \A x \in Objects \ Functions : refs'[x] \subseteq Objects \ Upvals
    BY <1>0, <1>1, Kinds DEF TypeOK
  <2>2. QED
    BY <1>0, <1>1, <1>2, <2>1 DEF TypeOK
<1>4. Sound'
  <2>1. Lives'
    BY <1>0, <1>1, <1>2 DEF Sound, Lives
  <2>2. Freed'
    BY <1>0, <1>1, <1>2 DEF Sound, Freed, Lives, Dead
  <2>3. Slots'
    <3>1. \A u \in Upvals : u \in Objects /\ refs'[u] = refs[u] /\ colour'[u] = colour[u]
      BY <1>0, <1>1, Kinds
    <3>2. \A th \in Threads : refs[th] \subseteq refs'[th] /\ colour'[th] = colour[th]
      BY <1>0, <1>1, Kinds
    <3>3. \A x \in Udatas : colour'[x] # "gray"
      BY <1>1, Kinds DEF Sound, Slots
    <3>4. QED
      BY <1>0, <3>1, <3>2, <3>3 DEF TypeOK, Sound, Slots
  <2>4. QED
    BY <2>1, <2>2, <2>3 DEF Sound
<1>5. Coloured'
  <2>1. TriColour' /\ ListsAreGray'
    BY <1>0 DEF TriColour, ListsAreGray, Marking
  <2>2. Phases' /\ BetweenCycles'
    <3>1. \A x \in Allocated \ mmudata : colour[x] = "white"
      BY <1>0 DEF Coloured, BetweenCycles
    <3>2. \A x \in Allocated' \ mmudata' : colour'[x] = "white"
      BY <1>0, <1>1, <1>2, <3>1 DEF Allocated
    <3>3. unswept' = {} /\ \A x \in Objects : colour'[x] # "dead"
      BY <1>0, <1>1 DEF Coloured, Phases, Sweeping
    <3>4. QED
      BY <1>0, <3>2, <3>3 DEF Phases, BetweenCycles, Sweeping
  <2>3. Pending'
    BY <1>0, <1>1, Kinds DEF TypeOK, Coloured, Pending
  <2>4. QED
    BY <2>1, <2>2, <2>3 DEF Coloured
<1>6. QED
  BY <1>3, <1>4, <1>5

\* Whatever the collector was doing, all objects are swept.
LEMMA lj_gc_fullgcKeeps == ASSUME IInv, lj_gc_fullgc PROVE IInv'
<1> USE DEF IInv
<1> DEFINE S == Allocated \ mmudata
<1>0. /\ gc_sweep(S) /\ S \in SUBSET (Allocated \ mmudata)
      /\ state' = "pause" /\ gray' = {} /\ grayagain' = {} /\ weak' = {} /\ unswept' = {}
      /\ full' = "runs" /\ mmudata' = mmudata
  BY DEF lj_gc_fullgc
<1>1. \A u \in Upvals : home[u] \in S => u \in S
  <2> SUFFICES ASSUME NEW u \in Upvals, home[u] \in S PROVE u \in S
    OBVIOUS
  <2>1. home[u] # NoThread
    BY KindAssumption DEF Allocated, Objects
  <2>2. colour[u] # "free" /\ u \notin Udatas /\ u \in Objects
    BY <2>1, KindAssumption, Kinds DEF Sound, Slots
  <2>3. QED
    BY <2>2 DEF TypeOK, Allocated
<1>2. \A x \in Objects : x \in S <=> colour[x] # "free" /\ x \notin mmudata
  BY DEF Allocated
<1> HIDE DEF S
<1>3. /\ Sound'
      /\ \A x \in Objects :
           \/ x \notin S /\ colour'[x] = colour[x]
           \/ x \in S /\ colour[x] = "dead" /\ colour'[x] = "free"
           \/ x \in S /\ colour[x] # "dead" /\ colour'[x] = "white"
      /\ refs' \in [Objects -> SUBSET Objects]
      /\ \A x \in Objects : refs'[x] \subseteq refs[x]
      /\ weakMode' \subseteq weakMode
      /\ home' \in [Upvals -> Threads \cup {NoThread}]
      /\ finalized' \subseteq Udatas \cap Allocated'
      /\ \A d \in finalized : d \notin finalized' => colour[d] = "dead" /\ d \in S
      /\ colour' \in [Objects -> {"white", "dead", "free", "gray", "black"}]
  BY <1>0, <1>1, SweepIsSound DEF Coloured
<1>4. TypeOK'
  <2>1. /\ \A s \in Strings : refs'[s] = {}
        /\ \A x \in Udatas : refs'[x] \subseteq Tables
        /\ \A x \in Functions : refs'[x] \subseteq Upvals
        /\ \A x \in Objects \ Functions : refs'[x] \subseteq Objects \ Upvals
    BY <1>3, Kinds DEF TypeOK
  <2>2. mmudata' \subseteq finalized'
    BY <1>0, <1>2, <1>3, Kinds DEF TypeOK
  <2>3. QED
    BY <1>0, <1>3, <2>1, <2>2 DEF TypeOK
<1>5. Coloured'
  <2>1. TriColour' /\ ListsAreGray'
    BY <1>0 DEF TriColour, ListsAreGray, Marking
  <2>2. \A d \in mmudata : d \in Objects /\ d \notin S /\ colour[d] \in {"white", "black"}
    BY <1>2, Kinds DEF TypeOK, Coloured, Pending
  <2>3. \A x \in Objects : colour'[x] # "dead"
    BY <1>2, <1>3, <2>2
  <2>4. \A x \in Allocated' \ mmudata : colour'[x] = "white"
    BY <1>2, <1>3 DEF Allocated
  <2>5. QED
    BY <1>0, <1>3, <2>1, <2>2, <2>3, <2>4, Kinds DEF Coloured, Phases, BetweenCycles, Pending, Sweeping
<1>6. QED
  BY <1>3, <1>4, <1>5
-----------------------------------------------------------------------------
(***************************************************************************)
(* The end of the marking.                                                 *)
(***************************************************************************)
\* What is traversed from allocated objects on contains them, refers only to what
\* it contains, or what is not white, and was not freed.
LEMMA SpreadCloses ==
  ASSUME TypeOK, Sound, NEW S \in SUBSET Allocated
  PROVE  /\ S \subseteq Spread(S) /\ Spread(S) \subseteq Allocated
         /\ \A o \in Spread(S) : Traversed(o) \cap White \subseteq Spread(S)
<1> DEFINE IsSpread(T) == S \subseteq T /\ \A o \in T : Traversed(o) \cap White \subseteq T
<1>1. Spread(S) = {o \in Objects : \A T \in SUBSET Allocated : IsSpread(T) => o \in T}
  BY DEF Spread
<1>2. Allocated \subseteq Objects /\ White \subseteq Allocated
  BY DEF Allocated, White
<1>3. IsSpread(Allocated)
  BY <1>2
<1>4. S \subseteq Spread(S)
  BY <1>1, <1>2
<1>5. Spread(S) \subseteq Allocated
  BY <1>1, <1>3
<1>6. ASSUME NEW o \in Spread(S), NEW p \in Traversed(o) \cap White
      PROVE  p \in Spread(S)
  <2>1. p \in Objects
    BY <1>2
  <2>2. ASSUME NEW T \in SUBSET Allocated, IsSpread(T) PROVE p \in T
    <3>1. o \in T
      BY <1>1, <2>2
    <3>2. QED
      BY <1>6, <2>2, <3>1
  <2>3. QED
    BY <1>1, <2>1, <2>2
<1>7. QED
  BY <1>4, <1>5, <1>6

\* The mark phase ends with a set of objects that contains all that was to be
\* traversed, and userdata that is to be finalized.
LEMMA atomicMarks ==
  ASSUME IInv, atomic
  PROVE  \E separated \in SUBSET (Udatas \cap White), marked \in SUBSET Allocated :
           /\ EndMark(marked, separated)
           /\ SecondChance \cup mmudata \cup separated \subseteq marked
           /\ \A o \in marked : Traversed(o) \cap White \subseteq marked
           /\ \A d \in Udatas \cap White : d \notin marked => d \in finalized
<1> USE DEF IInv
<1>1. SecondChance \subseteq Allocated
  <2>1. \A o \in gray \cup grayagain \cup weak : o \in Objects /\ colour[o] = "gray"
    BY Kinds DEF atomic, TypeOK, Coloured, ListsAreGray, Marking, Listed
  <2>2. \A o \in OpenUpvalues \cup {Main} : o \in Objects /\ colour[o] # "free"
    BY Kinds DEF OpenUpvalues, Sound, Lives, Dead
  <2>3. QED
    BY <2>1, <2>2 DEF SecondChance, Allocated
<1>2. PICK live \in {Spread(SecondChance)} :
      \E separated \in {separateudata(live)} :
      \E marked \in {Spread(live \cup mmudata \cup separated)} : EndMark(marked, separated)
  BY DEF atomic
<1>3. PICK separated \in {separateudata(live)} :
      \E marked \in {Spread(live \cup mmudata \cup separated)} : EndMark(marked, separated)
  BY <1>2
<1>4. PICK marked \in {Spread(live \cup mmudata \cup separated)} : EndMark(marked, separated)
  BY <1>3
<1>5. SecondChance \subseteq live /\ live \subseteq Allocated
  BY <1>1, <1>2, SpreadCloses
<1>6. /\ separated \subseteq Udatas \cap White
      /\ \A d \in Udatas \cap White : d \in separated \/ d \in live \/ d \in finalized
  BY <1>3 DEF separateudata
<1>7. live \cup mmudata \cup separated \in SUBSET Allocated
  BY <1>5, <1>6 DEF TypeOK, Allocated, White
<1>8. /\ live \cup mmudata \cup separated \subseteq marked /\ marked \subseteq Allocated
      /\ \A o \in marked : Traversed(o) \cap White \subseteq marked
  BY <1>4, <1>7, SpreadCloses
<1>9. QED
  BY <1>4, <1>5, <1>6, <1>8

\* The colours at the end of the marking, and what is left in weak tables.
LEMMA EndMarkColours ==
  ASSUME IInv, Marking, NEW separated \in SUBSET (Udatas \cap White), NEW marked \in SUBSET Allocated,
         EndMark(marked, separated), SecondChance \cup mmudata \cup separated \subseteq marked,
         \A o \in marked : Traversed(o) \cap White \subseteq marked
  PROVE  /\ \A x \in Objects :
              \/ x \in marked /\ colour[x] # "free" /\ colour'[x] = (IF x \in Listed THEN TraversedColour(x) ELSE MarkedColour(x))
              \/ x \in Strings /\ colour[x] # "free" /\ colour'[x] = "gray"
              \/ x \notin marked /\ x \in White /\ colour'[x] = "dead"
              \/ x \notin marked /\ x \notin White /\ colour'[x] = colour[x]
         /\ \A t \in marked \cap weakMode : \A s \in Strings \cap refs[t] : s \notin Dead'
         /\ \A x \in Objects : IF x \in marked \cap weakMode
              THEN \A v \in refs[x] :
                     /\ v \notin refs'[x] => v \notin Strings /\ (v \in Dead' \/ v \in finalized')
                     /\ v \in refs'[x] => v \in refs[x] /\ v \notin Dead'
              ELSE refs'[x] = refs[x]
         /\ \A x \in Objects : refs'[x] \subseteq refs[x]
         /\ colour' \in [Objects -> {"white", "dead", "free", "gray", "black"}]
         /\ refs' \in [Objects -> SUBSET Objects]
<1> USE DEF IInv
<1> DEFINE weakTables == marked \cap weakMode
           strings == Strings \cap UNION {refs[t] : t \in weakTables}
<1>0. /\ \A x \in marked : x \in Objects /\ colour[x] # "free"
      /\ \A x \in White : x \in Objects /\ colour[x] = "white"
      /\ \A x \in Objects : colour[x] # "dead"
  BY DEF Allocated, White, Coloured, Phases, Sweeping, Marking
<1>1. PICK values \in SUBSET (finalized \cup separated) :
        refs' = [o \in Objects |->
             IF o \in weakTables
               THEN {v \in refs[o] : ~ gc_mayclear(v, marked, values)}
               ELSE refs[o]]
  BY DEF EndMark
<1>2. colour' = [o \in Objects |->
           CASE o \in marked \cap Listed -> TraversedColour(o)
             [] o \in marked \ Listed -> MarkedColour(o)
             [] o \in strings \ marked -> "gray"
             [] o \in White \ (marked \cup strings) -> "dead"
             [] OTHER -> colour[o]]
  BY DEF EndMark
<1>3. finalized' = finalized \cup separated
  BY DEF EndMark
<1>4. /\ \A t \in weakTables : \A s \in Strings \cap refs[t] : s \in strings
      /\ \A s \in strings : s \in Strings /\ \E t \in weakTables : s \in refs[t]
  OBVIOUS
<1>5. \A s \in strings : s \in Objects /\ colour[s] # "free"
  <2> SUFFICES ASSUME NEW s \in strings PROVE s \in Objects /\ colour[s] # "free"
    OBVIOUS
  <2>1. PICK t \in weakTables : s \in refs[t]
    BY <1>4
  <2>2. t \in Objects \ Dead
    BY <1>0, <2>1 DEF Dead
  <2>3. QED
    BY <1>4, <2>1, <2>2, Kinds DEF Sound, Lives, Dead
<1> HIDE DEF strings, weakTables
<1>6. \A x \in Objects :
        \/ x \in marked /\ colour'[x] = (IF x \in Listed THEN TraversedColour(x) ELSE MarkedColour(x))
        \/ x \in strings /\ x \notin marked /\ colour'[x] = "gray"
        \/ x \notin marked /\ x \notin strings /\ x \in White /\ colour'[x] = "dead"
        \/ x \notin marked /\ x \notin strings /\ x \notin White /\ colour'[x] = colour[x]
  <2> SUFFICES ASSUME NEW x \in Objects
               PROVE
        \/ x \in marked /\ colour'[x] = (IF x \in Listed THEN TraversedColour(x) ELSE MarkedColour(x))
        \/ x \in strings /\ x \notin marked /\ colour'[x] = "gray"
        \/ x \notin marked /\ x \notin strings /\ x \in White /\ colour'[x] = "dead"
        \/ x \notin marked /\ x \notin strings /\ x \notin White /\ colour'[x] = colour[x]
    OBVIOUS
  <2>1. CASE x \in marked \cap Listed
    BY <1>2, <2>1
  <2>2. CASE x \in marked \ Listed
    BY <1>2, <2>2
  <2>3. CASE x \in strings \ marked
    BY <1>2, <2>3
  <2>4. CASE x \in White \ (marked \cup strings)
    BY <1>2, <2>4
  <2>5. CASE x \notin marked /\ x \notin strings /\ x \notin White
    BY <1>2, <2>5
  <2>6. QED
    BY <2>1, <2>2, <2>3, <2>4, <2>5
<1>7. /\ \A x \in Objects : TraversedColour(x) \in {"gray", "black"}
      /\ \A x \in Objects : MarkedColour(x) \in {"gray", "black"}
  BY MarkedColours DEF TraversedColour
<1>8. \A x \in Objects : x \in Dead' <=> colour[x] = "free" \/ (x \in White /\ x \notin marked /\ x \notin strings)
  <2> SUFFICES ASSUME NEW x \in Objects
               PROVE x \in Dead' <=> colour[x] = "free" \/ (x \in White /\ x \notin marked /\ x \notin strings)
    OBVIOUS
  <2>1. x \in Dead' <=> colour'[x] \in {"free", "dead"}
    BY DEF Dead
  <2>2. QED
    BY <1>0, <1>5, <1>6, <1>7, <2>1
<1>9. \A t \in weakTables : \A s \in Strings \cap refs[t] : s \notin Dead'
  BY <1>0, <1>4, <1>5, <1>8 DEF Dead
<1>10. \A x \in Objects : x \notin weakTables => refs'[x] = refs[x]
  BY <1>1
<1>11. ASSUME NEW x \in weakTables, NEW v \in refs[x]
       PROVE  /\ v \notin refs'[x] => v \notin Strings /\ (v \in Dead' \/ v \in finalized')
              /\ v \in refs'[x] => v \in refs[x] /\ v \notin Dead'
  <2>1. x \in Objects \ Dead
    BY <1>0 DEF weakTables, Dead
  <2>2. v \in Objects /\ colour[v] # "free"
    BY <2>1 DEF TypeOK, Sound, Lives, Dead
  <2>3. v \in refs'[x] <=> ~ gc_mayclear(v, marked, values)
    BY <1>1, <2>1
  <2>4. v \in strings => v \in Strings
    BY <1>4
  <2>5. v \in Strings => v \in strings
    BY <1>4
  <2>6. QED
    BY <1>3, <1>8, <2>2, <2>3, <2>4, <2>5 DEF gc_mayclear
<1>12. \A x \in Objects : refs'[x] \subseteq refs[x]
  BY <1>1
<1>13. refs' \in [Objects -> SUBSET Objects]
  <2>1. \A x \in Objects : refs'[x] \in SUBSET Objects
    BY <1>12 DEF TypeOK
  <2>2. refs' = [x \in Objects |-> refs'[x]]
    BY <1>1
  <2>3. QED
    BY <2>1, <2>2
<1>14. colour' \in [Objects -> {"white", "dead", "free", "gray", "black"}]
  <2>1. \A x \in Objects : colour'[x] \in {"white", "dead", "free", "gray", "black"}
    BY <1>6, <1>7 DEF TypeOK
  <2>2. colour' = [x \in Objects |-> colour'[x]]
    BY <1>2
  <2>3. QED
    BY <2>1, <2>2
<1>15. \A x \in Objects :
              \/ x \in marked /\ colour[x] # "free" /\ colour'[x] = (IF x \in Listed THEN TraversedColour(x) ELSE MarkedColour(x))
              \/ x \in Strings /\ colour[x] # "free" /\ colour'[x] = "gray"
              \/ x \notin marked /\ x \in White /\ colour'[x] = "dead"
              \/ x \notin marked /\ x \notin White /\ colour'[x] = colour[x]
  BY <1>0, <1>4, <1>5, <1>6
<1>16. \A x \in Objects : IF x \in weakTables
              THEN \A v \in refs[x] :
                     /\ v \notin refs'[x] => v \notin Strings /\ (v \in Dead' \/ v \in finalized')
                     /\ v \in refs'[x] => v \in refs[x] /\ v \notin Dead'
              ELSE refs'[x] = refs[x]
  BY <1>10, <1>11
<1>17. QED
  BY <1>9, <1>12, <1>13, <1>14, <1>15, <1>16 DEF weakTables

\* What lives then refers to what lives, over weak references that were not
\* cleared as well, and over strong ones before any are.
LEMMA EndMarkLives ==
  ASSUME IInv, Marking, NEW separated \in SUBSET (Udatas \cap White), NEW marked \in SUBSET Allocated,
         EndMark(marked, separated), SecondChance \cup mmudata \cup separated \subseteq marked,
         \A o \in marked : Traversed(o) \cap White \subseteq marked
  PROVE  /\ Lives'
         /\ Allocated' = Allocated
         /\ \A o \in Objects \ Dead' : \A p \in Strong[o] : p \notin Dead'
<1> USE DEF IInv
<1>1. /\ \A x \in Objects :
              \/ x \in marked /\ colour[x] # "free" /\ colour'[x] = (IF x \in Listed THEN TraversedColour(x) ELSE MarkedColour(x))
              \/ x \in Strings /\ colour[x] # "free" /\ colour'[x] = "gray"
              \/ x \notin marked /\ x \in White /\ colour'[x] = "dead"
              \/ x \notin marked /\ x \notin White /\ colour'[x] = colour[x]
      /\ \A t \in marked \cap weakMode : \A s \in Strings \cap refs[t] : s \notin Dead'
      /\ \A x \in Objects : IF x \in marked \cap weakMode
           THEN \A v \in refs[x] :
                  /\ v \notin refs'[x] => v \notin Strings /\ (v \in Dead' \/ v \in finalized')
                  /\ v \in refs'[x] => v \in refs[x] /\ v \notin Dead'
           ELSE refs'[x] = refs[x]
      /\ \A x \in Objects : refs'[x] \subseteq refs[x]
  BY EndMarkColours
<1>2. /\ \A x \in Objects : TraversedColour(x) \in {"gray", "black"}
      /\ \A x \in Objects : MarkedColour(x) \in {"gray", "black"}
      /\ \A x \in Objects : colour[x] # "dead"
      /\ \A x \in Objects : x \in White <=> colour[x] = "white"
  BY MarkedColours DEF TraversedColour, Coloured, Phases, Sweeping, Marking, White
<1>3. /\ \A x \in Objects : x \in Dead' => colour[x] = "free" \/ (x \in White /\ x \notin marked)
      /\ \A x \in Objects : x \in marked => x \notin Dead'
      /\ \A x \in Objects : x \notin Dead' => x \in marked \/ x \in Strings \/ colour[x] \in {"gray", "black"}
      /\ \A x \in Objects : colour'[x] = "free" <=> colour[x] = "free"
  <2>1. \A x \in Objects : x \in Dead' <=> colour'[x] \in {"free", "dead"}
    BY DEF Dead
  <2>2. QED
    BY <1>1, <1>2, <2>1 DEF TypeOK
\* Unmarked, but not white: a string, or traversed in the propagate phase.
<1>4. ASSUME NEW o \in Objects, o \notin Dead', o \notin marked, NEW p \in refs[o]
      PROVE  p \notin Dead'
  <2>1. o \notin Strings
    BY <1>4, Kinds DEF TypeOK
  <2>2. colour[o] \in {"gray", "black"} /\ o \notin mmudata
    BY <1>3, <1>4, <2>1
  <2>3. colour[o] # "gray"
    <3>1. CASE o \in Listed
      BY <1>4, <2>2, <3>1 DEF Coloured, TriColour, SecondChance
    <3>2. CASE o \in Upvals
      BY <1>4, <2>2, <3>2 DEF Sound, Slots, SecondChance, OpenUpvalues, Closed
    <3>3. CASE o \in Udatas
      BY <2>2, <3>3 DEF Sound, Slots
    <3>4. QED
      BY <2>1, <3>1, <3>2, <3>3 DEF Objects, Listed
  <2>4. p \in Objects /\ p \notin Dead /\ p \notin White
    BY <1>2, <2>2, <2>3 DEF Coloured, TriColour, TypeOK, Sound, Lives, Dead
  <2>5. QED
    BY <1>3, <2>4 DEF Dead
<1>5. ASSUME NEW o \in marked, o \notin weakMode, NEW p \in refs[o]
      PROVE  p \notin Dead'
  <2>1. Traversed(o) = refs[o]
    BY <1>5 DEF Traversed
  <2>2. o \in Objects /\ o \notin Dead
    BY <1>2 DEF Allocated, Dead
  <2>3. p \in Objects /\ p \notin Dead
    BY <2>2 DEF TypeOK, Sound, Lives
  <2>4. p \in White => p \in marked
    BY <1>5, <2>1
  <2>5. QED
    BY <1>3, <2>3, <2>4 DEF Dead
<1>6. Lives'
  <2>1. Main \notin Dead'
    BY <1>3, Kinds DEF SecondChance
  <2>2. ASSUME NEW o \in Objects \ Dead', NEW p \in refs'[o]
        PROVE  p \notin Dead'
    <3>1. p \in refs[o]
      BY <1>1, <2>2
    <3>2. CASE o \in marked /\ o \in weakMode
      BY <1>1, <2>2, <3>1, <3>2
    <3>3. QED
      BY <1>4, <1>5, <3>1, <3>2
  <2>3. QED
    BY <2>1, <2>2 DEF Lives
<1>7. Allocated' = Allocated
  BY <1>3 DEF Allocated
<1>8. ASSUME NEW o \in Objects \ Dead', NEW p \in Strong[o]
      PROVE  p \notin Dead'
  <2>1. /\ o \in weakMode => p \in refs[o] \cap Strings
        /\ o \notin weakMode => p \in refs[o]
    BY DEF Strong
  <2>2. CASE o \in marked /\ o \in weakMode
    BY <1>1, <2>1, <2>2
  <2>3. QED
    BY <1>4, <1>5, <2>1, <2>2
<1>9. QED
  BY <1>6, <1>7, <1>8

LEMMA EndMarkKeeps ==
  ASSUME IInv, Marking, NEW separated \in SUBSET (Udatas \cap White), NEW marked \in SUBSET Allocated,
         EndMark(marked, separated), SecondChance \cup mmudata \cup separated \subseteq marked,
         \A o \in marked : Traversed(o) \cap White \subseteq marked,
         \A d \in Udatas \cap White : d \notin marked => d \in finalized,
         gray' = {}, state' = "sweepstring", UNCHANGED <<weakMode, home, full>>
  PROVE  IInv'
<1> USE DEF IInv
<1>1. /\ \A x \in Objects :
              \/ x \in marked /\ colour[x] # "free" /\ colour'[x] = (IF x \in Listed THEN TraversedColour(x) ELSE MarkedColour(x))
              \/ x \in Strings /\ colour[x] # "free" /\ colour'[x] = "gray"
              \/ x \notin marked /\ x \in White /\ colour'[x] = "dead"
              \/ x \notin marked /\ x \notin White /\ colour'[x] = colour[x]
      /\ \A x \in Objects : x \notin marked \cap weakMode => refs'[x] = refs[x]
      /\ \A x \in Objects : refs'[x] \subseteq refs[x]
      /\ colour' \in [Objects -> {"white", "dead", "free", "gray", "black"}]
      /\ refs' \in [Objects -> SUBSET Objects]
  BY EndMarkColours
<1>2. Lives' /\ Allocated' = Allocated
  BY EndMarkLives
<1>3. /\ finalized' = finalized \cup separated
      /\ mmudata' = mmudata \cup separated
      /\ grayagain' = marked \cap Threads
      /\ weak' = marked \cap weakMode
      /\ unswept' = Allocated \ (mmudata \cup separated)
  BY DEF EndMark
<1>4. separated \subseteq Udatas \cap Allocated /\ mmudata' \subseteq marked
  BY <1>3 DEF White, Allocated
<1>5. TypeOK'
  <2>1. /\ \A s \in Strings : refs'[s] = {}
        /\ \A x \in Udatas : refs'[x] \subseteq Tables
        /\ \A x \in Functions : refs'[x] \subseteq Upvals
        /\ \A x \in Objects \ Functions : refs'[x] \subseteq Objects \ Upvals
    BY <1>1, Kinds DEF TypeOK
  <2>2. weak' \subseteq Tables /\ grayagain' \subseteq Threads
    BY <1>3 DEF TypeOK
  <2>3. finalized' \subseteq Udatas \cap Allocated' /\ mmudata' \subseteq finalized'
    BY <1>2, <1>3, <1>4 DEF TypeOK
  <2>4. QED
    BY <1>1, <1>2, <1>3, <2>1, <2>2, <2>3 DEF TypeOK
<1>6. Sound'
  <2>1. \A x \in Objects : colour'[x] = "free" <=> colour[x] = "free"
    BY <1>2 DEF Allocated
  <2>2. Freed'
    BY <1>1, <2>1 DEF Sound, Freed
  <2>3. Slots'
    <3>1. \A u \in Upvals : u \in Objects /\ u \notin Strings /\ u \notin Listed /\ u \notin weakMode
      BY Kinds, KindAssumption DEF TypeOK, Listed
    <3>2. \A th \in Threads : th \in Objects /\ th \in Listed /\ th \notin weakMode /\ th \notin Strings
      BY Kinds, KindAssumption DEF TypeOK, Listed
    <3>3. \A d \in Udatas : d \in Objects /\ d \notin Listed /\ d \notin Strings
      BY Kinds, KindAssumption DEF Listed
    <3>4. \A u \in Upvals : /\ home[u] # NoThread => colour'[u] # "black"
                            /\ home[u] = NoThread => colour'[u] # "gray"
      BY <1>1, <3>1, MarkedColours DEF Sound, Slots, Closed
    <3>5. \A d \in Udatas : colour'[d] # "gray"
      BY <1>1, <3>3, MarkedColours DEF Sound, Slots
    <3>6. \A th \in Threads : colour'[th] # "black"
      BY <1>1, <3>2 DEF Sound, Slots, TraversedColour
    <3>7. \A x \in Upvals \cup Threads : refs'[x] = refs[x]
      BY <1>1, <3>1, <3>2
    <3>8. QED
      BY <2>1, <3>1, <3>2, <3>4, <3>5, <3>6, <3>7 DEF TypeOK, Sound, Slots
  <2>4. QED
    BY <1>2, <2>2, <2>3 DEF Sound
<1>7. Coloured'
  <2>1. TriColour' /\ ListsAreGray' /\ BetweenCycles'
    BY DEF TriColour, ListsAreGray, BetweenCycles, Marking
  <2>2. Phases'
    BY <1>2, <1>3 DEF Phases, Sweeping
  <2>3. Pending'
    <3>1. \A d \in mmudata' : colour'[d] = "black" /\ d \notin unswept'
      <4> SUFFICES ASSUME NEW d \in mmudata' PROVE colour'[d] = "black" /\ d \notin unswept'
        OBVIOUS
      <4>1. d \in Udatas /\ d \in Objects /\ d \in marked
        BY <1>3, <1>4, Kinds DEF TypeOK
      <4>2. d \notin Listed /\ d \notin Strings
        BY <4>1, KindAssumption DEF Listed
      <4>3. QED
        BY <1>1, <1>3, <4>1, <4>2, MarkedColours
    <3>2. \A d \in Udatas : colour'[d] = "dead" => d \in finalized'
      <4> SUFFICES ASSUME NEW d \in Udatas, colour'[d] = "dead" PROVE d \in finalized'
        OBVIOUS
      <4>1. d \in Objects /\ colour[d] # "dead"
        BY Kinds DEF Coloured, Phases, Sweeping, Marking
      <4>2. MarkedColour(d) = "black" /\ d \notin Listed
        BY MarkedColours, KindAssumption DEF Listed
      <4>3. d \notin marked /\ d \in White
        BY <1>1, <4>1, <4>2
      <4>4. QED
        BY <1>3, <4>3
    <3>3. QED
      BY <3>1, <3>2 DEF Pending
  <2>4. QED
    BY <2>1, <2>2, <2>3 DEF Coloured
<1>8. QED
  BY <1>5, <1>6, <1>7

LEMMA atomicKeeps == ASSUME IInv, atomic PROVE IInv'
<1>1. Marking /\ gray' = {} /\ state' = "sweepstring" /\ UNCHANGED <<weakMode, home, full>>
  BY DEF atomic, Marking
<1>2. PICK separated \in SUBSET (Udatas \cap White), marked \in SUBSET Allocated :
           /\ EndMark(marked, separated)
           /\ SecondChance \cup mmudata \cup separated \subseteq marked
           /\ \A o \in marked : Traversed(o) \cap White \subseteq marked
           /\ \A d \in Udatas \cap White : d \notin marked => d \in finalized
  BY atomicMarks
<1>3. QED
  BY <1>1, <1>2, EndMarkKeeps
-----------------------------------------------------------------------------
(***************************************************************************)
(* The theorems.                                                           *)
(***************************************************************************)
LEMMA NextKeeps == ASSUME IInv, [Next]_vars PROVE IInv'
<1>1. CASE Program
  <2>1. CASE \E o \in Objects : New(o) \/ Intern(o) \/ SetMode(o)
    BY <2>1, NewKeeps, InternKeeps, SetModeKeeps
  <2>2. CASE \E o, v \in Objects :
               \/ Load(o, v) \/ Drop(o, v)
               \/ StoreInTable(o, v) \/ StoreInThread(o, v) \/ StoreInUdata(o, v)
    BY <2>2, LoadKeeps, DropKeeps, StoreInTableKeeps, StoreInThreadKeeps, StoreInUdataKeeps
  <2>3. CASE \E u \in Upvals : CloseUpvalue(u)
    BY <2>3, CloseUpvalueKeeps
  <2>4. CASE \E u \in Upvals : \E f \in Functions : NewClosure(f, u)
    BY <2>4, NewClosureKeeps
  <2>5. CASE \E u \in Upvals : \E v \in Objects : SetUpvalue(u, v)
    BY <2>5, SetUpvalueKeeps
  <2>6. QED
    BY <1>1, <2>1, <2>2, <2>3, <2>4, <2>5 DEF Program
<1>2. CASE gc_onestep
  <2>1. CASE \E o \in Objects : propagatemark(o) \/ sweepstring(o) \/ sweep(o) \/ gc_finalize(o)
    BY <2>1, propagatemarkKeeps, sweepstringKeeps, sweepKeeps, gc_finalizeKeeps
  <2>2. QED
    BY <1>2, <2>1, StartCycleKeeps, EndPropagateKeeps, atomicKeeps, EndSweepStringKeeps,
       EndSweepKeeps, EndFinalizeKeeps DEF gc_onestep
<1>3. CASE lj_gc_fullgc
  BY <1>3, lj_gc_fullgcKeeps
<1>4. CASE UNCHANGED vars
  <2>1. TypeOK'
    BY <1>4 DEF IInv, TypeOK, vars, heap, lists, Allocated
  <2>2. Sound'
    BY <1>4 DEF IInv, Sound, Lives, Freed, Slots, Dead, vars, heap, lists
  <2>3. Coloured'
    BY <1>4 DEF IInv, Coloured, TriColour, ListsAreGray, Phases, BetweenCycles, Pending,
                Marking, Sweeping, White, Allocated, vars, heap, lists
  <2>4. QED
    BY <2>1, <2>2, <2>3 DEF IInv
<1>5. QED
  BY <1>1, <1>2, <1>3, <1>4 DEF Next

LEMMA Invariance == Spec => []IInv
  BY InitHolds, NextKeeps, PTL DEF Spec

\* Types, for any sets of objects: strings refer to nothing, userdata to tables,
\* closures to upvalues; what the lists and the queue of finalizers hold.
THEOREM TypeCorrect == Spec => []TypeOK
<1>1. IInv => TypeOK
  BY DEF IInv
<1>2. QED
  BY <1>1, Invariance, PTL

\* The objects that live are a closed set with the main thread in it: an object
\* that was freed, or that the sweep is going to free, cannot be reached.
LEMMA LiveIsClosed == IInv => NoDangling
<1> SUFFICES ASSUME IInv, NEW o \in Dead, IsReachable(o, refs) PROVE FALSE
  BY DEF NoDangling
<1> DEFINE S == Objects \ Dead
<1>1. S \in SUBSET Allocated
  BY DEF Dead, Allocated
<1>2. Main \in S
  BY Kinds DEF IInv, Sound, Lives
<1>3. \A p \in S : refs[p] \subseteq S
  BY DEF IInv, TypeOK, Sound, Lives
<1> HIDE DEF S
<1>4. o \in S
  BY <1>1, <1>2, <1>3 DEF IsReachable
<1>5. QED
  BY <1>4 DEF S

\* No reference the program can follow ever leads to a freed or a dead object.
THEOREM NothingDangles == Spec => []NoDangling
  BY Invariance, LiveIsClosed, PTL

\* The write barriers and the traversals preserve the frontier of the marking,
\* and each gray object stays on one list.
THEOREM FrontierHolds == Spec => []TriColour
<1>1. IInv => TriColour
  BY DEF IInv, Coloured
<1>2. QED
  BY <1>1, Invariance, PTL

\* All objects are white when a cycle starts, and when finalizers run.
THEOREM AllWhiteBetweenCycles == Spec => []BetweenCycles
<1>1. IInv => BetweenCycles
  BY DEF IInv, Coloured
<1>2. QED
  BY <1>1, Invariance, PTL

\* What a sweep frees was dead, and dead userdata was finalized: it has left the
\* queue of those that wait for it.
LEMMA SweptIsFinalized ==
  ASSUME IInv, NEW S, gc_sweep(S), NEW d \in Udatas, colour[d] # "free", colour'[d] = "free"
  PROVE  d \in finalized \ mmudata
<1>1. d \in Objects /\ (colour'[d] = "free" => colour[d] = "dead" \/ colour[d] = "free")
  BY Kinds DEF gc_sweep
<1>2. QED
  BY <1>1 DEF IInv, Coloured, Pending

\* Marking, barriers and the program free no userdata.
NothingFreed == \A d \in Udatas : colour[d] # "free" => colour'[d] # "free"

LEMMA MarkFreesNothing ==
  ASSUME TypeOK, NEW S, NEW others, Mark(S, others), \A d \in Udatas : others[d] = colour[d]
  PROVE  NothingFreed
  BY Kinds, MarkedColours DEF Mark, NothingFreed

LEMMA BarrierFreesNothing ==
  ASSUME TypeOK, NEW o, NEW v, barrier(o, v)
  PROVE  NothingFreed
<1>1. CASE Mark({v}, colour)
  BY <1>1, MarkFreesNothing
<1>2. CASE ~ Mark({v}, colour)
  BY <1>2, Kinds DEF barrier, barrierf, NothingFreed, TypeOK
<1>3. QED
  BY <1>1, <1>2

LEMMA ProgramFreesNothing == ASSUME IInv, Program PROVE NothingFreed
<1> USE DEF IInv
<1>1. ASSUME NEW o \in Objects, New(o) \/ Intern(o) \/ SetMode(o)
      PROVE  NothingFreed
  BY <1>1, Kinds DEF New, Intern, SetMode, resurrected, barrierback, NothingFreed, TypeOK
<1>2. ASSUME NEW o \in Objects, NEW v \in Objects, Load(o, v) \/ Drop(o, v) \/ StoreInThread(o, v)
      PROVE  NothingFreed
  BY <1>2 DEF Load, Drop, StoreInThread, NothingFreed
<1>3. ASSUME NEW o \in Objects, NEW v \in Objects, StoreInTable(o, v)
      PROVE  NothingFreed
  BY <1>3, Kinds DEF StoreInTable, barriert, barrierback, NothingFreed, TypeOK
<1>4. ASSUME NEW o \in Objects, NEW v \in Objects, StoreInUdata(o, v)
      PROVE  NothingFreed
  BY <1>4, BarrierFreesNothing DEF StoreInUdata
<1>5. ASSUME NEW u \in Upvals, NEW f \in Functions, NewClosure(f, u)
      PROVE  NothingFreed
  BY <1>5, Kinds, KindAssumption DEF NewClosure, NothingFreed, TypeOK
<1>6. ASSUME NEW u \in Upvals, NEW v \in Objects, SetUpvalue(u, v)
      PROVE  NothingFreed
  <2>1. CASE barrier(u, v)
    BY <2>1, BarrierFreesNothing
  <2>2. CASE UNCHANGED colour
    BY <2>2 DEF NothingFreed
  <2>3. QED
    BY <1>6, <2>1, <2>2 DEF SetUpvalue
<1>7. ASSUME NEW u \in Upvals, CloseUpvalue(u)
      PROVE  NothingFreed
  <2>1. \A d \in Udatas : d # u /\ d \in Objects
    BY Kinds, KindAssumption
  <2>2. \A d \in Udatas : [colour EXCEPT ![u] = "black"][d] = colour[d]
    BY <2>1 DEF TypeOK
  <2>3. CASE Mark(refs[u], [colour EXCEPT ![u] = "black"])
    BY <2>2, <2>3, MarkFreesNothing
  <2>4. CASE colour' = [colour EXCEPT ![u] = "free"] \/ colour' = [colour EXCEPT ![u] = "white"] \/ UNCHANGED colour
    BY <2>1, <2>4 DEF TypeOK, NothingFreed
  <2>5. QED
    BY <1>7, <2>3, <2>4 DEF CloseUpvalue
<1>8. QED
  BY <1>1, <1>2, <1>3, <1>4, <1>5, <1>6, <1>7 DEF Program

\* The finalizer of userdata was called before its memory is used again.
THEOREM FinalizersFirst == Spec => FinalizedFirst
<1> DEFINE A == \A d \in Udatas : colour[d] # "free" /\ colour'[d] = "free" => d \in finalized \ mmudata
<1>1. ASSUME IInv, [Next]_vars PROVE A
  <2>1. CASE Program
    BY <1>1, <2>1, ProgramFreesNothing DEF NothingFreed
  <2>2. CASE lj_gc_fullgc
    BY <1>1, <2>2, SweptIsFinalized DEF lj_gc_fullgc
  <2>3. CASE \E o \in Objects : sweepstring(o) \/ sweep(o)
    BY <1>1, <2>3, SweptIsFinalized DEF sweepstring, sweep
  <2>4. CASE atomic
    <3>1. PICK separated \in SUBSET (Udatas \cap White), marked \in SUBSET Allocated :
               /\ EndMark(marked, separated)
               /\ SecondChance \cup mmudata \cup separated \subseteq marked
               /\ \A o \in marked : Traversed(o) \cap White \subseteq marked
      BY <1>1, <2>4, atomicMarks
    <3>2. Marking
      BY <2>4 DEF atomic, Marking
    <3>3. Allocated' = Allocated
      BY <1>1, <3>1, <3>2, EndMarkLives
    <3>4. QED
      BY <3>3, Kinds DEF Allocated
  <2>5. CASE \E o \in Objects : propagatemark(o)
    BY <1>1, <2>5, Kinds, MarkedColours DEF propagatemark, TraversedColour
  <2>6. CASE \E o \in Objects : gc_finalize(o)
    BY <1>1, <2>6, Kinds DEF gc_finalize, IInv, TypeOK
  <2>7. CASE StartCycle
    BY <1>1, <2>7, Kinds DEF StartCycle, IInv, TypeOK
  <2>8. CASE EndPropagate \/ EndSweepString \/ EndSweep \/ EndFinalize \/ UNCHANGED vars
    BY <2>8 DEF EndPropagate, EndSweepString, EndSweep, EndFinalize, vars
  <2>9. QED
    BY <1>1, <2>1, <2>2, <2>3, <2>4, <2>5, <2>6, <2>7, <2>8 DEF Next, gc_onestep
<1>2. QED
  BY <1>1, Invariance, PTL DEF Spec, FinalizedFirst

\* The end of the marking clears entries of weak tables alone, and of them no
\* strings and nothing that anything else keeps, but for finalized userdata.
LEMMA AtomicClears ==
  ASSUME IInv, atomic
  PROVE  /\ \A o \in Objects : refs'[o] \subseteq refs[o]
         /\ \A o \in Objects : \A v \in refs[o] \ refs'[o] :
              o \in weakMode /\ v \notin Strings /\ (v \in finalized' \/ IsGarbage(v))
<1>1. PICK separated \in SUBSET (Udatas \cap White), marked \in SUBSET Allocated :
           /\ EndMark(marked, separated)
           /\ SecondChance \cup mmudata \cup separated \subseteq marked
           /\ \A o \in marked : Traversed(o) \cap White \subseteq marked
  BY atomicMarks
<1>2. Marking
  BY DEF atomic, Marking
<1>3. /\ Lives' /\ Allocated' = Allocated
      /\ \A o \in Objects \ Dead' : \A p \in Strong[o] : p \notin Dead'
  BY <1>1, <1>2, EndMarkLives
<1>4. \A x \in Objects :
        /\ refs'[x] \subseteq refs[x]
        /\ IF x \in marked \cap weakMode
             THEN \A w \in refs[x] :
                    w \notin refs'[x] => w \notin Strings /\ (w \in Dead' \/ w \in finalized')
             ELSE refs'[x] = refs[x]
  BY <1>1, <1>2, EndMarkColours
<1>5. ASSUME NEW v \in Dead', IsReachable(v, Strong) PROVE FALSE
  <2> DEFINE S == Objects \ Dead'
  <2>1. S \in SUBSET Allocated /\ Main \in S
    BY <1>3, Kinds DEF Lives, Dead, Allocated
  <2>2. \A o \in S : Strong[o] \subseteq S
    <3>1. \A o \in Objects : Strong[o] \subseteq Objects
      BY DEF Strong, IInv, TypeOK
    <3>2. QED
      BY <1>3, <3>1
  <2> HIDE DEF S
  <2>3. v \in S
    BY <1>5, <2>1, <2>2 DEF IsReachable
  <2>4. QED
    BY <1>5, <2>3 DEF S
<1>6. QED
  BY <1>4, <1>5 DEF IsGarbage

\* A weak table loses an entry only if nothing else keeps what it refers to.
THEOREM WeakTablesKeep == Spec => WeakKept
<1> DEFINE A == state = "atomic" /\ state' = "sweepstring" =>
       \A t \in Tables : \A v \in refs[t] \ refs'[t] : v \in finalized' \/ IsGarbage(v)
<1>1. ASSUME IInv, [Next]_vars PROVE A
  <2> SUFFICES ASSUME state = "atomic", state' = "sweepstring" PROVE A
    OBVIOUS
  <2>1. atomic
    BY <1>1 DEF Next, Program, New, Intern, SetMode, Load, Drop, StoreInTable, StoreInThread, StoreInUdata,
                CloseUpvalue, NewClosure, SetUpvalue, Runs, gc_onestep, StartCycle, EndPropagate,
                EndSweepString, EndSweep, EndFinalize, propagatemark, sweepstring, sweep, gc_finalize,
                lj_gc_fullgc, vars
  <2>2. QED
    BY <1>1, <2>1, AtomicClears, Kinds
<1>2. QED
  BY <1>1, Invariance, PTL DEF Spec, WeakKept
-----------------------------------------------------------------------------
(***************************************************************************)
(* The collector is not seen by the program.                               *)
(***************************************************************************)
Collector == gc_onestep \/ lj_gc_fullgc

\* The object refers to what it did: the main thread is given userdata to
\* finalize, and weak tables lose garbage and finalized userdata.
SeenAsBefore(o) ==
  /\ o \in weakMode' <=> o \in weakMode
  /\ refs'[o] \subseteq refs[o] \cup (IF o = Main THEN finalized ELSE {})
  /\ \A p \in refs[o] \ refs'[o] : o \in weakMode /\ (p \in finalized' \/ IsGarbage(p))

\* A step of the collector, at whatever point of the program, in small steps or
\* in a full collection, changes nothing the program can come to (lj_gc.c), and
\* takes nothing away that it holds by other references than weak ones.
CollectorIsUnseen ==
  [][Collector =>
       \A o \in Objects :
         /\ IsReachable(o, refs) => SeenAsBefore(o)
         /\ ~ IsGarbage(o) => ~ IsGarbage(o)']_vars

\* What holds of each object that lives.
Untouched(o) == SeenAsBefore(o) /\ Strong[o] \subseteq Strong'[o]

LEMMA SweepTouchesDead ==
  ASSUME IInv, NEW S, gc_sweep(S), NEW o \in Objects \ Dead
  PROVE  Untouched(o)
<1>1. colour[o] # "dead"
  BY DEF Dead
<1>2. refs'[o] = refs[o] /\ (o \in weakMode' <=> o \in weakMode)
  BY <1>1 DEF gc_sweep
<1>3. QED
  BY <1>2 DEF Untouched, SeenAsBefore, Strong

LEMMA CollectorTouches ==
  ASSUME IInv, Collector, NEW o \in Objects \ Dead
  PROVE  Untouched(o)
<1>1. CASE UNCHANGED <<refs, weakMode>>
  BY <1>1 DEF Untouched, SeenAsBefore, Strong
<1>2. CASE atomic
  <2>1. weakMode' = weakMode /\ Main \notin Tables /\ weakMode \subseteq Tables
    BY <1>2, Kinds DEF atomic, IInv, TypeOK
  <2>2. /\ refs'[o] \subseteq refs[o]
        /\ \A v \in refs[o] \ refs'[o] :
             o \in weakMode /\ v \notin Strings /\ (v \in finalized' \/ IsGarbage(v))
    BY <1>2, AtomicClears
  <2>3. SeenAsBefore(o)
    BY <2>1, <2>2 DEF SeenAsBefore
  <2>4. Strong[o] \subseteq Strong'[o]
    <3>1. /\ Strong[o] = IF o \in weakMode THEN refs[o] \cap Strings ELSE refs[o]
          /\ Strong'[o] = IF o \in weakMode' THEN refs'[o] \cap Strings ELSE refs'[o]
      BY DEF Strong
    <3>2. QED
      BY <2>1, <2>2, <3>1
  <2>5. QED
    BY <2>3, <2>4 DEF Untouched
<1>3. ASSUME NEW d \in Objects, gc_finalize(d) PROVE Untouched(o)
  <2>1. weakMode' = weakMode /\ d \in finalized
    BY <1>3 DEF gc_finalize, IInv, TypeOK
  <2>2. refs'[o] = IF o = Main THEN refs[o] \cup {d} ELSE refs[o]
    BY <1>3 DEF gc_finalize, IInv, TypeOK
  <2>3. SeenAsBefore(o)
    BY <2>1, <2>2 DEF SeenAsBefore
  <2>4. Strong[o] \subseteq Strong'[o]
    BY <2>1, <2>2 DEF Strong
  <2>5. QED
    BY <2>3, <2>4 DEF Untouched
<1>4. ASSUME NEW x \in Objects, sweepstring(x) \/ sweep(x) PROVE Untouched(o)
  BY <1>4, SweepTouchesDead DEF sweepstring, sweep
<1>5. CASE lj_gc_fullgc
  BY <1>5, SweepTouchesDead DEF lj_gc_fullgc
<1>6. ASSUME NEW x \in Objects, propagatemark(x) PROVE Untouched(o)
  BY <1>1, <1>6 DEF propagatemark, KeepsHeap
<1>7. CASE StartCycle \/ EndPropagate \/ EndSweepString \/ EndSweep \/ EndFinalize
  BY <1>1, <1>7 DEF StartCycle, EndPropagate, EndSweepString, EndSweep, EndFinalize, KeepsHeap, heap
<1>8. QED
  BY <1>2, <1>3, <1>4, <1>5, <1>6, <1>7 DEF Collector, gc_onestep

\* What a closed set of the new state holds, but for what was dead, was closed.
LEMMA HeldIsKept ==
  ASSUME IInv, Collector, NEW o \in Objects, IsReachable(o, Strong)
  PROVE  IsReachable(o, Strong)'
<1> SUFFICES ASSUME NEW S \in SUBSET Allocated', Main \in S, \A p \in S : Strong'[p] \subseteq S
             PROVE  o \in S
  BY DEF IsReachable
<1> DEFINE T == S \cap (Objects \ Dead)
<1>1. T \in SUBSET Allocated /\ Main \in T
  BY Kinds DEF IInv, Sound, Lives, Dead, Allocated
<1>2. \A p \in T : Strong[p] \subseteq T
  <2> SUFFICES ASSUME NEW p \in T PROVE Strong[p] \subseteq T
    OBVIOUS
  <2>1. p \in S /\ p \in Objects \ Dead
    OBVIOUS
  <2>2. Strong[p] \subseteq S
    BY <2>1, CollectorTouches DEF Untouched
  <2>3. Strong[p] \subseteq refs[p]
    BY <2>1 DEF Strong
  <2>4. refs[p] \subseteq Objects \ Dead
    BY <2>1 DEF IInv, TypeOK, Sound, Lives
  <2>5. QED
    BY <2>2, <2>3, <2>4
<1> HIDE DEF T
<1>3. o \in T
  BY <1>1, <1>2 DEF IsReachable
<1>4. QED
  BY <1>3 DEF T

\* The program could not tell whether the collector runs, but by its finalizers
\* and its weak tables.
THEOREM CollectorUnseen == Spec => CollectorIsUnseen
<1>1. ASSUME IInv, [Next]_vars, Collector, NEW o \in Objects
      PROVE  /\ IsReachable(o, refs) => SeenAsBefore(o)
             /\ ~ IsGarbage(o) => ~ IsGarbage(o)'
  <2>1. IsReachable(o, refs) => o \notin Dead
    BY <1>1, LiveIsClosed DEF NoDangling
  <2>2. o \notin Dead => SeenAsBefore(o)
    BY <1>1, CollectorTouches DEF Untouched
  <2>3. ~ IsGarbage(o) => ~ IsGarbage(o)'
    BY <1>1, HeldIsKept DEF IsGarbage
  <2>4. QED
    BY <2>1, <2>2, <2>3
<1>2. IInv /\ [Next]_vars =>
        [Collector =>
           \A o \in Objects :
             /\ IsReachable(o, refs) => SeenAsBefore(o)
             /\ ~ IsGarbage(o) => ~ IsGarbage(o)']_vars
  BY <1>1
<1>3. QED
  BY <1>2, Invariance, PTL DEF Spec, CollectorIsUnseen
=============================================================================
