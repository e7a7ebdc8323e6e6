------------------------------- MODULE LuaGC -------------------------------
(***************************************************************************)
(* The garbage collector of LuaJIT (lj_gc.c), which runs in small steps    *)
(* between those of the mod, and in one go when init.lua:161 calls         *)
(* collectgarbage("collect").  It colours objects white, gray (to be       *)
(* traversed) and black (traversed); stores into black objects pass write  *)
(* barriers; what is white at the end of the marking is dead and is swept. *)
(*                                                                         *)
(* An object refers to a set of others: keys, numbers and layout are left  *)
(* out, and of metatables all but __mode (tableExtensions.lua) and __gc,   *)
(* which every userdata here has, as those of enet do.  A string is its    *)
(* content: one that was freed may be made again.  The main thread's stack *)
(* holds what the program can name, its globals and registry included.     *)
(*                                                                         *)
(* Not here: cdata, traces and prototypes, which the collector treats as   *)
(* userdata and functions; fixed strings; lua_close.  The atomic phase is  *)
(* delayed by running traces; so the program may run in state "atomic".    *)
(***************************************************************************)
EXTENDS Naturals, FiniteSets

CONSTANTS
  Main,                                                \* the main thread
  Threads, Tables, Functions, Upvals, Strings, Udatas, \* objects by type
  NoThread                                             \* no home: closed

ASSUME KindAssumption ==
  /\ Main \in Threads
  /\ NoThread \notin Threads \cup Tables \cup Functions \cup Upvals \cup Strings \cup Udatas
  /\ Threads \cap (Tables \cup Functions \cup Upvals \cup Strings \cup Udatas) = {}
  /\ Tables \cap (Functions \cup Upvals \cup Strings \cup Udatas) = {}
  /\ Functions \cap (Upvals \cup Strings \cup Udatas) = {}
  /\ Upvals \cap (Strings \cup Udatas) = {}
  /\ Strings \cap Udatas = {}

Objects == Threads \cup Tables \cup Functions \cup Upvals \cup Strings \cup Udatas

VARIABLES
  \* the heap
  refs,      \* object -> the objects it refers to
  weakMode,  \* the tables whose metatable has a __mode
  home,      \* upvalue -> the thread with its stack slot, or NoThread if closed
  finalized, \* the userdata with LJ_GC_FINALIZED
  \* the collector
  state,     \* g->gc.state
  colour,    \* object -> "white" is the current white, "dead" the other white,
             \* "free" no object
  gray, grayagain, weak, \* lists of objects to traverse (again)
  mmudata,   \* userdata that wait for their finalizer
  unswept,   \* what the sweep has not come to yet
  full       \* lj_gc_fullgc: "no", it "runs", or it "calls" a finalizer

heap == <<refs, weakMode, home>>
lists == <<gray, grayagain, weak>>
vars == <<heap, finalized, state, colour, lists, mmudata, unswept, full>>

Allocated == {o \in Objects : colour[o] # "free"}
White == {o \in Objects : colour[o] = "white"}
Closed(u) == home[u] = NoThread
Marking == state \in {"propagate", "atomic"}
Stack == refs[Main]
\* The upvalues that closures on the stack give access to.
Cells == UNION {refs[f] : f \in Stack \cap Functions}

Init ==
  /\ refs = [o \in Objects |-> {}]
  /\ weakMode = {}
  /\ home = [u \in Upvals |-> NoThread]
  /\ finalized = {}
  /\ state = "pause"
  /\ colour = [o \in Objects |-> IF o = Main THEN "white" ELSE "free"]
  /\ gray = {} /\ grayagain = {} /\ weak = {}
  /\ mmudata = {}
  /\ unswept = {}
  /\ full = "no"
----------------------------------------------------------------------------
\* What gc_mark makes of a white object: userdata and closed upvalues are never
\* gray; strings and open upvalues are gray, but on no list.
MarkedColour(o) == IF o \in Udatas \/ (o \in Upvals /\ Closed(o)) THEN "black" ELSE "gray"
Listed == Tables \cup Functions \cup Threads

\* gc_mark on the white ones of these: upvalues and userdata pass it on.
Marks(S) ==
  LET first  == S \cap White
      second == {p \in White : \E u \in first \cap Upvals : p \in refs[u]}
      third  == {p \in White : \E d \in (first \cup second) \cap Udatas : p \in refs[d]}
  IN  first \cup second \cup third

\* These objects were marked, and the others have these colours.
Mark(S, others) ==
  /\ colour' = [o \in Objects |-> IF o \in Marks(S) THEN MarkedColour(o) ELSE others[o]]
  /\ gray' = gray \cup (Marks(S) \cap Listed)

\* Mutant of barrierback: black2gray alone.
black2gray(t) ==
  /\ colour' = [colour EXCEPT ![t] = "gray"]
  /\ UNCHANGED <<gray, grayagain>>

\* lj_gc_barrierback: the table is to be traversed again.
barrierback(t) ==
  /\ colour' = [colour EXCEPT ![t] = "gray"]
  /\ grayagain' = grayagain \cup {t}
  /\ UNCHANGED gray

\* lj_gc_barriert of a value; some stores do without the look at the value.
barriert(t, v) ==
  \/ colour[t] = "black" /\ barrierback(t)
  \/ ~ (colour[t] = "black" /\ v \in White) /\ UNCHANGED <<colour, gray, grayagain>>

\* lj_gc_barrierf, for all other objects.
barrierf(o, v) ==
  IF Marking THEN Mark({v}, colour)
  ELSE colour' = [colour EXCEPT ![o] = "white"] /\ UNCHANGED gray

\* Mutant of barrier: a store of a white value into a black object unseen.
noBarrier(o, v) == UNCHANGED <<colour, gray, grayagain>>

\* lj_gc_barrier.
barrier(o, v) ==
  /\ UNCHANGED grayagain
  /\ IF colour[o] = "black" /\ v \in White THEN barrierf(o, v)
     ELSE UNCHANGED <<colour, gray>>
----------------------------------------------------------------------------
(***************************************************************************)
(* The program.                                                            *)
(***************************************************************************)
\* A full collection returns before it goes on, but finalizers are called.
Runs ==
  /\ full # "runs"
  /\ UNCHANGED <<finalized, state, weak, mmudata, full>>

\* lj_mem_newgco, lj_udata_new: the new object is white.
New(o) ==
  /\ Runs
  /\ o \in Tables \cup Udatas \cup Threads
  /\ colour[o] = "free"
  /\ colour' = [colour EXCEPT ![o] = "white"]
  /\ refs' = [refs EXCEPT ![Main] = @ \cup {o}]
  /\ UNCHANGED <<weakMode, home, gray, grayagain, unswept>>

\* Mutant of resurrected: a dead object is found and stays dead.
stillDead(c) == IF c = "free" THEN "white" ELSE c

\* A dead object that is found again before the sweep comes to it is flipped to
\* the current white; one that is not found is made.
resurrected(c) == IF c \in {"free", "dead"} THEN "white" ELSE c

\* lj_str_new.
Intern(s) ==
  /\ Runs
  /\ s \in Strings
  /\ colour' = [colour EXCEPT ![s] = resurrected(@)]
  /\ refs' = [refs EXCEPT ![Main] = @ \cup {s}]
  /\ UNCHANGED <<weakMode, home, gray, grayagain, unswept>>

\* The threads that can run: a coroutine on the stack may be resumed.
Running == {Main} \cup (Stack \cap Threads)

\* lj_func_newL_gc with the upvalue of a parent, or one found or made by
\* func_finduv for a slot of the running thread.
NewClosure(f, u) ==
  /\ Runs
  /\ f \in Functions /\ colour[f] = "free"
  /\ \/ /\ u \in Cells
        /\ UNCHANGED home
     \/ /\ home[u] \in Running
        /\ UNCHANGED home
     \/ /\ colour[u] = "free"
        /\ \E th \in Running : home' = [home EXCEPT ![u] = th]
  /\ colour' = [colour EXCEPT ![f] = "white", ![u] = resurrected(@)]
  /\ refs' = [refs EXCEPT ![f] = {u}, ![Main] = @ \cup {f}]
  /\ UNCHANGED <<weakMode, gray, grayagain, unswept>>

\* A value of an object, or of the upvalue of a closure, is put on the stack.
Load(o, v) ==
  /\ Runs
  /\ o \in (Stack \ Functions) \cup Cells
  /\ v \in refs[o]
  /\ refs' = [refs EXCEPT ![Main] = @ \cup {v}]
  /\ UNCHANGED <<weakMode, home, colour, gray, grayagain, unswept>>

StoreInTable(t, v) ==
  /\ Runs
  /\ t \in Stack \cap Tables /\ v \in Stack
  /\ refs' = [refs EXCEPT ![t] = @ \cup {v}]
  /\ barriert(t, v)
  /\ UNCHANGED <<weakMode, home, unswept>>

\* A value moves to the stack of a coroutine: no barrier.
StoreInThread(th, v) ==
  /\ Runs
  /\ th \in Stack \cap Threads /\ v \in Stack
  /\ refs' = [refs EXCEPT ![th] = @ \cup {v}]
  /\ UNCHANGED <<weakMode, home, colour, gray, grayagain, unswept>>

\* setmetatable or setfenv of a userdata.
StoreInUdata(d, t) ==
  /\ Runs
  /\ d \in Stack \cap Udatas /\ t \in Stack \cap Tables
  /\ refs' = [refs EXCEPT ![d] = @ \cup {t}]
  /\ barrier(d, t)
  /\ UNCHANGED <<weakMode, home, unswept>>

\* A closure sets its upvalue: a stack slot as long as it is open.
SetUpvalue(u, v) ==
  /\ Runs
  /\ u \in Cells /\ v \in Stack
  /\ IF Closed(u)
       THEN /\ refs' = [refs EXCEPT ![u] = {v}]
            /\ barrier(u, v)
       ELSE /\ refs' = [[refs EXCEPT ![u] = {v}] EXCEPT ![home[u]] = @ \cup {v}]
            /\ UNCHANGED <<colour, gray, grayagain>>
  /\ UNCHANGED <<weakMode, home, unswept>>

\* A field or a slot is set to nil; slots of open upvalues are closed first.
Drop(o, v) ==
  /\ Runs
  /\ o \in ({Main} \cup Stack \cup Cells) \ Functions
  /\ v \in refs[o]
  /\ \A u \in Upvals : home[u] = o => v \notin refs[u]
  /\ refs' = [refs EXCEPT ![o] = @ \ {v}]
  /\ UNCHANGED <<weakMode, home, colour, gray, grayagain, unswept>>

\* setmetatable of a table, with or without a __mode.  The metatable, which may
\* be white, is not modelled.
SetMode(t) ==
  /\ Runs
  /\ t \in Stack \cap Tables
  /\ weakMode' = IF t \in weakMode THEN weakMode \ {t} ELSE weakMode \cup {t}
  /\ \/ colour[t] = "black" /\ barrierback(t)
     \/ UNCHANGED <<colour, gray, grayagain>>
  /\ UNCHANGED <<refs, home, unswept>>

\* lj_func_closeuv, lj_gc_closeuv: a frame with a captured slot is left.
CloseUpvalue(u) ==
  /\ Runs
  /\ home[u] \in Running
  /\ home' = [home EXCEPT ![u] = NoThread]
  /\ unswept' = unswept \ {u}
  /\ refs' = [refs EXCEPT ![u] = IF colour[u] = "dead" THEN {} ELSE @]
  /\ \/ /\ colour[u] = "dead"
        /\ colour' = [colour EXCEPT ![u] = "free"] /\ UNCHANGED gray
     \/ /\ colour[u] = "gray" /\ Marking
        /\ Mark(refs[u], [colour EXCEPT ![u] = "black"])
     \/ /\ colour[u] = "gray" /\ ~ Marking
        /\ colour' = [colour EXCEPT ![u] = "white"] /\ UNCHANGED gray
     \/ /\ colour[u] \notin {"dead", "gray"}
        /\ UNCHANGED <<colour, gray>>
  /\ UNCHANGED <<weakMode, grayagain>>

Program ==
  \/ \E o \in Objects : New(o) \/ Intern(o) \/ SetMode(o)
  \/ \E o, v \in Objects :
       \/ Load(o, v) \/ Drop(o, v)
       \/ StoreInTable(o, v) \/ StoreInThread(o, v) \/ StoreInUdata(o, v)
  \/ \E u \in Upvals :
       \/ CloseUpvalue(u)
       \/ \E f \in Functions : NewClosure(f, u)
       \/ \E v \in Objects : SetUpvalue(u, v)
----------------------------------------------------------------------------
(***************************************************************************)
(* The collector.                                                          *)
(***************************************************************************)
KeepsHeap == UNCHANGED <<refs, weakMode, home, finalized>>

\* gc_mark_start.
StartCycle ==
  /\ state = "pause"
  /\ state' = "propagate"
  /\ colour' = [colour EXCEPT ![Main] = IF @ = "white" THEN "gray" ELSE @]
  /\ gray' = {Main} \cap White
  /\ grayagain' = {} /\ weak' = {}
  /\ KeepsHeap /\ UNCHANGED <<mmudata, unswept, full>>

\* What gc_traverse_* marks: nothing of a table that is weak in keys and values.
Traversed(o) == IF o \in weakMode THEN {} ELSE refs[o]

\* Threads and weak tables are never black.
TraversedColour(o) == IF o \in Threads \cup weakMode THEN "gray" ELSE "black"

\* Mutant of propagatemark: threads go back to the list they come from.
threadsToGray(o) ==
  /\ state = "propagate"
  /\ o \in gray
  /\ colour' = [x \in Objects |->
       IF x \in Marks(Traversed(o)) THEN MarkedColour(x)
       ELSE IF x = o THEN TraversedColour(o) ELSE colour[x]]
  /\ gray' = (gray \ ({o} \ Threads)) \cup (Marks(Traversed(o)) \cap Listed)
  /\ weak' = weak \cup ({o} \cap weakMode)
  /\ UNCHANGED <<state, grayagain>>
  /\ KeepsHeap /\ UNCHANGED <<mmudata, unswept, full>>

propagatemark(o) ==
  /\ state = "propagate"
  /\ o \in gray
  /\ colour' = [x \in Objects |->
       IF x \in Marks(Traversed(o)) THEN MarkedColour(x)
       ELSE IF x = o THEN TraversedColour(o) ELSE colour[x]]
  /\ gray' = (gray \ {o}) \cup (Marks(Traversed(o)) \cap Listed)
  /\ grayagain' = grayagain \cup ({o} \cap Threads)
  /\ weak' = weak \cup ({o} \cap weakMode)
  /\ UNCHANGED state
  /\ KeepsHeap /\ UNCHANGED <<mmudata, unswept, full>>

EndPropagate ==
  /\ state = "propagate"
  /\ gray = {}
  /\ state' = "atomic"
  /\ UNCHANGED <<heap, finalized, colour, lists, mmudata, unswept, full>>

\* What is traversed from these objects on, until there is nothing gray left.
Spread(S) ==
  LET IsSpread(T) == S \subseteq T /\ \A o \in T : Traversed(o) \cap White \subseteq T
  IN  {o \in Objects : \A T \in SUBSET Allocated : IsSpread(T) => o \in T}

\* Mutant of OpenUpvalues: those of a dead thread are not looked at.
openOfMain == {u \in Upvals : home[u] = Main}

\* The open upvalues that gc_mark_uv marks again.
OpenUpvalues == {u \in Upvals : ~ Closed(u) /\ colour[u] = "gray"}

\* All that atomic traverses, but for the userdata to be finalized: what is left
\* of the marking, the running thread and the lists of the second chance.
SecondChance == gray \cup grayagain \cup weak \cup {Main} \cup OpenUpvalues

\* Mutant of separateudata: not while finalizers are pending.
separateIfNone(live) == IF mmudata = {} THEN (Udatas \cap White) \ (live \cup finalized) ELSE {}

\* lj_gc_separateudata.
separateudata(live) == (Udatas \cap White) \ (live \cup finalized)

\* Mutant of gc_mayclear: strings are weak references, too.
clearStrings(v, marked, values) == (v \in White /\ v \notin marked) \/ v \in values

\* gc_mayclear.  Finalized userdata is dropped from values, not from keys.
gc_mayclear(v, marked, values) ==
  v \notin Strings /\ ((v \in White /\ v \notin marked) \/ v \in values)

\* The mark phase ends with these objects traversed, of those these userdata only
\* to be finalized.
EndMark(marked, separated) ==
  LET weakTables == marked \cap weakMode
      strings == Strings \cap UNION {refs[t] : t \in weakTables}
  IN  /\ finalized' = finalized \cup separated
      /\ mmudata' = mmudata \cup separated
      /\ \E values \in SUBSET (finalized \cup separated) :
           refs' = [o \in Objects |->
             IF o \in weakTables
               THEN {v \in refs[o] : ~ gc_mayclear(v, marked, values)}
               ELSE refs[o]]
      /\ colour' = [o \in Objects |->
           CASE o \in marked \cap Listed -> TraversedColour(o)
             [] o \in marked \ Listed -> MarkedColour(o)
             [] o \in strings \ marked -> "gray"
             [] o \in White \ (marked \cup strings) -> "dead"
             [] OTHER -> colour[o]]
      /\ grayagain' = marked \cap Threads
      /\ weak' = weakTables
      /\ unswept' = Allocated \ (mmudata \cup separated)

atomic ==
  /\ state = "atomic"
  /\ \E live \in {Spread(SecondChance)} :
     \E separated \in {separateudata(live)} :
     \E marked \in {Spread(live \cup mmudata \cup separated)} : EndMark(marked, separated)
  /\ gray' = {}
  /\ state' = "sweepstring"
  /\ UNCHANGED <<weakMode, home, full>>

\* Mutant of gc_sweep: the next userdata in this place counts as finalized.
sweepKeepsBits(S) ==
  LET gone == {o \in S : colour[o] = "dead"}
  IN  /\ colour' = [o \in Objects |->
           IF o \in gone THEN "free" ELSE IF o \in S THEN "white" ELSE colour[o]]
      /\ refs' = [o \in Objects |-> IF o \in gone THEN {} ELSE refs[o]]
      /\ home' = [u \in Upvals |-> IF u \in gone \/ home[u] \in gone THEN NoThread ELSE home[u]]
      /\ weakMode' = weakMode \ gone
      /\ UNCHANGED finalized

\* gc_sweep of these objects, the open upvalues of a thread with it: the dead are
\* freed, and lj_state_free of a thread closes those of its upvalues that live.
gc_sweep(S) ==
  LET gone == {o \in S : colour[o] = "dead"}
  IN  /\ colour' = [o \in Objects |->
           IF o \in gone THEN "free" ELSE IF o \in S THEN "white" ELSE colour[o]]
      /\ refs' = [o \in Objects |-> IF o \in gone THEN {} ELSE refs[o]]
      /\ home' = [u \in Upvals |-> IF u \in gone \/ home[u] \in gone THEN NoThread ELSE home[u]]
      /\ weakMode' = weakMode \ gone
      /\ finalized' = finalized \ gone

OpenOf(th) == {u \in Upvals : home[u] = th}

sweepstring(s) ==
  /\ state = "sweepstring"
  /\ s \in unswept \cap Strings
  /\ gc_sweep({s})
  /\ unswept' = unswept \ {s}
  /\ UNCHANGED <<state, lists, mmudata, full>>

EndSweepString ==
  /\ state = "sweepstring"
  /\ unswept \cap Strings = {}
  /\ state' = "sweep"
  /\ UNCHANGED <<heap, finalized, colour, lists, mmudata, unswept, full>>

sweep(o) ==
  /\ state = "sweep"
  /\ o \in unswept
  /\ o \in Upvals => Closed(o)
  /\ gc_sweep({o} \cup OpenOf(o))
  /\ unswept' = unswept \ ({o} \cup OpenOf(o))
  /\ UNCHANGED <<state, lists, mmudata, full>>

EndCycle == state' = "pause" /\ full' = "no"

EndSweep ==
  /\ state = "sweep"
  /\ unswept = {}
  /\ \/ mmudata # {} /\ state' = "finalize" /\ UNCHANGED full
     \/ mmudata = {} /\ EndCycle
  /\ UNCHANGED <<heap, finalized, colour, lists, mmudata, unswept>>

\* gc_finalize: the finalizer is called with the userdata, which may live on.  If
\* it raises an error, that ends a full collection.
gc_finalize(d) ==
  /\ state = "finalize"
  /\ d \in mmudata
  /\ mmudata' = mmudata \ {d}
  /\ colour' = [colour EXCEPT ![d] = "white"]
  /\ refs' = [refs EXCEPT ![Main] = @ \cup {d}]
  /\ full' \in {"no", IF full = "no" THEN "no" ELSE "calls"}
  /\ UNCHANGED <<weakMode, home, finalized, state, lists, unswept>>

EndFinalize ==
  /\ state = "finalize"
  /\ mmudata = {}
  /\ EndCycle
  /\ UNCHANGED <<heap, finalized, colour, lists, mmudata, unswept>>

gc_onestep ==
  \/ StartCycle \/ EndPropagate \/ atomic
  \/ EndSweepString \/ EndSweep \/ EndFinalize
  \/ \E o \in Objects : propagatemark(o) \/ sweepstring(o) \/ sweep(o) \/ gc_finalize(o)

\* Mutant of lj_gc_fullgc: caught in the middle of the marking, it goes on from there.
fullgcUnswept ==
  /\ full # "runs"
  /\ IF Marking
       THEN UNCHANGED <<heap, finalized, colour>>
       ELSE gc_sweep(Allocated \ mmudata)
  /\ state' = "pause"
  /\ gray' = {} /\ grayagain' = {} /\ weak' = {}
  /\ unswept' = {}
  /\ full' = "runs"
  /\ UNCHANGED mmudata

\* lj_gc_fullgc, up to the new cycle that follows: the sweep of the cycle it is
\* called in is finished, or everything is swept and preserved.
lj_gc_fullgc ==
  /\ full # "runs"
  /\ gc_sweep(Allocated \ mmudata)
  /\ state' = "pause"
  /\ gray' = {} /\ grayagain' = {} /\ weak' = {}
  /\ unswept' = {}
  /\ full' = "runs"
  /\ UNCHANGED mmudata

Next == Program \/ gc_onestep \/ lj_gc_fullgc

Spec == Init /\ [][Next]_vars

\* Allocations drive lj_gc_step as long as the mod runs.
FairSpec == Spec /\ WF_vars(gc_onestep)
----------------------------------------------------------------------------
(***************************************************************************)
(* Properties.                                                             *)
(***************************************************************************)
\* Types, and who may refer to whom: strings to nothing, userdata to tables,
\* closures to upvalues and only they.  What waits for the sweep or for its
\* finalizer was not freed.
TypeOK ==
  /\ refs \in [Objects -> SUBSET Objects]
  /\ \A s \in Strings : refs[s] = {}
  /\ \A d \in Udatas : refs[d] \subseteq Tables
  /\ \A f \in Functions : refs[f] \subseteq Upvals
  /\ \A o \in Objects \ Functions : refs[o] \subseteq Objects \ Upvals
  /\ weakMode \subseteq Tables
  /\ home \in [Upvals -> Threads \cup {NoThread}]
  /\ finalized \subseteq Udatas \cap Allocated
  /\ mmudata \subseteq finalized
  /\ state \in {"pause", "propagate", "atomic", "sweepstring", "sweep", "finalize"}
  /\ colour \in [Objects -> {"white", "dead", "free", "gray", "black"}]
  /\ gray \subseteq Listed /\ grayagain \subseteq Threads \cup Tables /\ weak \subseteq Tables
  /\ unswept \subseteq Allocated
  /\ full \in {"no", "runs", "calls"}

Dead == {o \in Objects : colour[o] \in {"free", "dead"}}

\* The object can be reached over these references: it is in all closed sets of
\* allocated objects (any is, if there is no such set, as a reference dangles).
IsReachable(o, R) ==
  \A S \in SUBSET Allocated : Main \in S /\ (\A p \in S : R[p] \subseteq S) => o \in S

\* What the program can reach, over weak references too, was not freed and is
\* not going to be, whatever it stores while the collector marks and sweeps, and
\* whichever coroutines, upvalues, strings and userdata came back from the dead.
NoDangling == \A o \in Dead : ~ IsReachable(o, refs)

\* The frontier of the marking (lj_gc_barrierf: "Preserve invariant"): what was
\* traversed refers to nothing white, and what was not yet is on a list, on one
\* only, as all lists are linked by the same field (gclist).
TriColour ==
  Marking =>
    /\ \A o \in Objects \ mmudata : colour[o] = "black" => \A p \in refs[o] : p \notin White
    /\ \A o \in Listed : colour[o] = "gray" => o \in gray \cup grayagain \cup weak
    /\ gray \cap grayagain = {} /\ gray \cap weak = {} /\ grayagain \cap weak = {}

\* Between two cycles all is white, also after a full collection that was caught
\* somewhere in the middle, so that no barrier acts (the assertion in
\* lj_gc_barrierback); only userdata that wait for their finalizer may not be.
BetweenCycles ==
  state \in {"pause", "finalize"} => \A o \in Allocated \ mmudata : colour[o] = "white"

\* Userdata is not freed before its finalizer was called.
FinalizedFirst ==
  [][\A d \in Udatas :
       colour[d] # "free" /\ colour'[d] = "free" => d \in finalized \ mmudata]_vars

\* The references that keep an object alive: strings cannot be used as weak ones.
Strong == [o \in Objects |-> IF o \in weakMode THEN refs[o] \cap Strings ELSE refs[o]]

IsGarbage(o) == ~ IsReachable(o, Strong)

\* An entry of a weak table is cleared only if nothing else keeps what it refers
\* to, or if that is userdata that was finalized.
WeakKept ==
  [][state = "atomic" /\ state' = "sweepstring" =>
       \A t \in Tables : \A v \in refs[t] \ refs'[t] : v \in finalized' \/ IsGarbage(v)]_vars

\* Nothing stays garbage for ever: it is freed, however much the program stores
\* and allocates, and however often it asks for a full collection.
GarbageFreed ==
  \A o \in Objects : []<> (colour[o] = "free" \/ ~ IsGarbage(o))
=============================================================================
