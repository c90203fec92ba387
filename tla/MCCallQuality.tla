--------------------------- MODULE MCCallQuality ---------------------------
(***************************************************************************)
(* A small instance of CallQuality for TLC: a call that was good on both   *)
(* sides, one that was heard in one direction only and had no peer, and    *)
(* one of which no score arrived.                                          *)
(***************************************************************************)
EXTENDS CallQuality, TLC

CONSTANTS k1, k2, k3

Stream(mes, count, lost) == [mes |-> mes, count |-> count, lost |-> lost]
Column(rx, tx) == [rx |-> rx, tx |-> tx]

Silent == Stream(0, 0, 0)

ThreeRows ==
    (k1 :> [local |-> Column(Stream(92, 100, 0), Stream(80, 90, 10)),
            peer |-> Column(Stream(81, 90, 0), Silent)])
 @@ (k2 :> [local |-> Column(Stream(60, 50, 50), Stream(0, 100, 0)), peer |-> Blank])
 @@ (k3 :> [local |-> Column(Silent, Silent), peer |-> Column(Silent, Stream(6, 0, 1))])
=============================================================================
