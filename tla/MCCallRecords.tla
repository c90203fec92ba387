--------------------------- MODULE MCCallRecords ---------------------------
(***************************************************************************)
(* A small instance of CallStatistics for TLC: the ring group 600, the     *)
(* extensions 4 and 45, agent01 and one trunk.                             *)
(***************************************************************************)
EXTENDS CallStatistics, TLC

Group == 1
X4 == 2
X45 == 3
Agent == 4
Trunk == 5

\* The second party of an answered call records it, and the voice mailbox.
Row(chan, dst, dstchan, disp, bill) ==
    [chan |-> chan, dst |-> dst, dstchan |-> dstchan, disp |-> disp, bill |-> bill,
     rec |-> IF bill = 1 THEN chan ELSE None]

TypicalShapes ==
    {Row(Trunk, Group, None, "ANSWERED", 2),        \* a prompt was played
     Row(Trunk, Group, X4, "ANSWERED", 1),          \* members of a ring group
     Row(Trunk, Group, X45, "BUSY", 0),
     Row(Trunk, Group, Agent, "NO ANSWER", 0),
     Row(Group, None, X45, "ANSWERED", 1),          \* its Local channel
     Row(Trunk, None, Group, "NO ANSWER", 0),
     Row(Trunk, None, None, "FAILED", 0),
     Row(X4, None, Trunk, "ANSWERED", 1),           \* a call out
     Row(X4, None, X45, "NO ANSWER", 0),            \* calls inside
     Row(X45, None, X45, "BUSY", 0),
     Row(X4, None, None, "ANSWERED", 1)}            \* the voice mailbox

\* The first leg is older, the others share a date.
TieAtTheEnd == <<1, 2, 2>>

\* 45 holds a 4.
Holds == {<<X4, X4>>, <<X45, X45>>, <<X4, X45>>}

\* 21:30 UTC, and 22:30 UTC when it is half past midnight in Sofia.
AroundMidnight == (1 :> [hour |-> 23, day |-> 1, utcDay |-> 1])
               @@ (2 :> [hour |-> 0, day |-> 2, utcDay |-> 1])

CallSymmetry == Permutations(Calls)
=============================================================================
