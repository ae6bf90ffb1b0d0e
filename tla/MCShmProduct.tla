---------------------------- MODULE MCShmProduct ----------------------------
(* Terminals differ in nothing. *)
EXTENDS ShmProduct, TLC

Symmetry == Permutations(Producer) \union Permutations(Consumer)
=============================================================================
