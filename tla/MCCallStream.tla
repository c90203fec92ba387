---------------------------- MODULE MCCallStream ----------------------------
(***************************************************************************)
(* Small instances of CallStream for TLC.                                  *)
(***************************************************************************)
EXTENDS CallStream

\* Uniqueids, bridges, values and pages are interchangeable.
StreamSymmetry ==
    Permutations(Uids) \cup Permutations(Bridges) \cup Permutations(Values)
        \cup Permutations(Pages)

\* The histories that Registry keeps for its own properties play no part here.
StreamView == <<channels, byCall, clock, streamVars>>
=============================================================================
