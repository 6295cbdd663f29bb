---------------------------- MODULE MCMetaStore ----------------------------
(***************************************************************************)
(* A small instance of MetaStore.  Births, dispatches and native sessions  *)
(* are interchangeable, and so are the garden ids.                         *)
(***************************************************************************)
EXTENDS MetaStore, TLC

Symmetry ==
  Permutations(Births) \cup Permutations(Dispatches) \cup Permutations(Gids) \cup Permutations(Natives)
=============================================================================
