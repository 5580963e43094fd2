-------------------------- MODULE MCDelegateServer --------------------------
(* Requests are interchangeable. *)
EXTENDS DelegateServer, TLC

Symmetry == Permutations(Requests)
=============================================================================
