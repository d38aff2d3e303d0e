----------------------------- MODULE MCSessions -----------------------------
(***************************************************************************)
(* Instances of Sessions for TLC.                                          *)
(***************************************************************************)
EXTENDS Sessions, TLC

\* The requests of the client are interchangeable.
Symmetry == Permutations(Call)
=============================================================================
