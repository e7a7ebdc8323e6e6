------------------------------ MODULE LuaGCMC ------------------------------
(***************************************************************************)
(* The main thread and a few objects of each kind.                         *)
(***************************************************************************)
EXTENDS LuaGC, FiniteSetsExt

CONSTANTS MaxStack, MaxRefs

Elsewhere == MapThenSumSet(LAMBDA o : Cardinality(refs[o]), Objects \ {Main})

\* Bounds: so many objects on the stack and references elsewhere; coroutines and
\* upvalues not with weak tables, strings or userdata; strings not with userdata;
\* two userdata not with weak tables or the full number of references.
Explored ==
  /\ Cardinality(Stack) <= MaxStack
  /\ Elsewhere <= MaxRefs
  /\ Allocated \cap (Threads \cup Upvals) # {Main} =>
       weakMode = {} /\ Allocated \cap (Strings \cup Udatas) = {}
  /\ Allocated \cap Strings = {} \/ Allocated \cap Udatas = {}
  /\ Udatas \subseteq Allocated =>
       weakMode = {} /\ Elsewhere < MaxRefs
=============================================================================
