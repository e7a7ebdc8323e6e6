---------------------------- MODULE MessagingMC ----------------------------
(***************************************************************************)
(* Two clients, one cacheable event with two payloads and one that is not  *)
(* cacheable.  With three addresses for two checksums, a freed checksum    *)
(* can return to its address, to another one, or lose it to the other.     *)
(***************************************************************************)
EXTENDS Messaging, TLC

Symmetry == Permutations(Addresses) \cup Permutations(Clients)
=============================================================================
