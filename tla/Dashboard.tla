------------------------------ MODULE Dashboard ------------------------------
(***************************************************************************)
(* What the dashboard page does to its map of live calls                   *)
(* (frontend/src/views/dashboards/index.vue).  A row is the call last      *)
(* heard of under a Linkedid and whether that was its end; the timers are  *)
(* the Linkedids whose row is due for removal.                             *)
(*                                                                         *)
(* An event is a record with a type and the call it is about, as Registry  *)
(* builds it.                                                              *)
(***************************************************************************)
EXTENDS FiniteSets

Row(call, over) == [call |-> call, over |-> over]

NoRows == [l \in {} |-> {}]

\* applySnapshot: the rows of the snapshot and no others.  The timers run on.
applySnapshot(calls) ==
    [l \in {c.linkedid : c \in calls} |->
        Row(CHOOSE c \in calls : c.linkedid = l, FALSE)]

\* applyEvent: the row is set to the call of the event, an ended one too.
applyEvent(rows, ev) ==
    [l \in DOMAIN rows \cup {ev.call.linkedid} |->
        IF l = ev.call.linkedid THEN Row(ev.call, ev.type = "ended") ELSE rows[l]]

\* ... whose removal is then scheduled.  Other events cancel nothing.
timersAfter(timers, ev) ==
    IF ev.type = "ended" THEN timers \cup {ev.call.linkedid} ELSE timers

\* The timer of an ended row.
removeRow(rows, l) == [k \in DOMAIN rows \ {l} |-> rows[k]]
=============================================================================
