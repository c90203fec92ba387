----------------------------- MODULE MCRegistry -----------------------------
(***************************************************************************)
(* Small instances of Registry for TLC.  The identifiers are model values  *)
(* given in the configurations.                                            *)
(***************************************************************************)
EXTENDS Registry

\* Uniqueids, bridges and values are interchangeable.
Symmetry == Permutations(Uids) \cup Permutations(Bridges) \cup Permutations(Values)
=============================================================================
