----------------------------- MODULE SessionMC -----------------------------
(***************************************************************************)
(* Two clients that come with the guid of the server, with the same guid   *)
(* or with different ones, and connect three times between them; only two  *)
(* times if a collector frees a checksum.                                  *)
(***************************************************************************)
EXTENDS Session, TLC

Symmetry == Permutations(Clients)

\* Bound: the last connection is opened only where no checksum was freed.
Explored == collected = {} \/ owner[MaxConnections] = Nobody

\* The guids to draw, numbers here, are interchangeable: the smallest comes first.
InOrder ==
  \A g \in (cachedGuids' \ cachedGuids) \cap Drawn, h \in Drawn :
    h < g => h \in cachedGuids'
=============================================================================
