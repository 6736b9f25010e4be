------------------------- MODULE MCRequestLifecycle -------------------------
(* RequestLifecycle for TLC.  Requests are interchangeable: no action and  *)
(* no invariant names one.                                                 *)
EXTENDS RequestLifecycle, TLC

Symmetry == Permutations(Requests)
=============================================================================
