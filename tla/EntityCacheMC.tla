--------------------------- MODULE EntityCacheMC ---------------------------
(***************************************************************************)
(* Three entities, a nuid or none, two values of the numbers, an array of  *)
(* four slots: an entity can be doubled while another is pushed off the    *)
(* end.  Two texts at two addresses: a string can be freed under an entry, *)
(* its address taken by the other text, and the first text live elsewhere. *)
(***************************************************************************)
EXTENDS EntityCache, TLC

Symmetry ==
  Permutations(EntityIds) \cup Permutations(Nuids) \cup Permutations(Numbers)
    \cup Permutations(Texts) \cup Permutations(Addresses)
=============================================================================
