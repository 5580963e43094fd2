------------------------- MODULE MCAppStateRecovery -------------------------
(***************************************************************************)
(* AppStateRecovery for TLC.  Nothing tells one chat from another, and the *)
(* properties are invariants.                                              *)
(***************************************************************************)
EXTENDS AppStateRecovery, TLC

Symmetry == Permutations(Chats)
=============================================================================
