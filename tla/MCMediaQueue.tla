---------------------------- MODULE MCMediaQueue ----------------------------
(* Calls of the handler are interchangeable, and so are workers. *)
EXTENDS MediaQueue, TLC

Symmetry == Permutations(Events) \cup Permutations(Workers)
=============================================================================
