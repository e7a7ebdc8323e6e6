---------------------------- MODULE NuidGlobalsMC ----------------------------
(* Instances of NuidGlobals for TLC. *)
EXTENDS NuidGlobals

CONSTANTS mina, enemy, wand
=============================================================================
