------------------------------ MODULE CallStream ------------------------------
(***************************************************************************)
(* The live-call path from end to end: the registry, the stream handlers   *)
(* (CallStreamHandler.ServeHTTP), the REST snapshot                        *)
(* (LiveCallsService.ListActiveCalls) and the dashboards that show the     *)
(* calls.                                                                  *)
(*                                                                         *)
(* Registry is used as it is; its Apply* methods publish after they have   *)
(* released r.mu, so the event of a step waits in `outgoing' and anything  *)
(* may happen before it is handed to the subscribers.  The fan-out is the  *)
(* feed that Broadcast is shown to implement: in order, without gaps, cut  *)
(* off when the buffer is full.  What is on its way from a handler's       *)
(* buffer to the page is one queue.  The registry's clock stands still     *)
(* here: what it orders, the legs of a call, are of one instant and come   *)
(* in the order of their Uniqueids, in which a leg can still join first.   *)
(***************************************************************************)
EXTENDS Registry, Dashboard

CONSTANTS
    Pages,      \* the open dashboard pages
    Buffer,     \* subBufferSize
    Rest,       \* TRUE: a page also loads the REST snapshot when it opens
    MaxFaults   \* bound on the resets, on the calls that come back after their
                \* end and on the REST answers, together

ASSUME CallStreamAssumption ==
    /\ Buffer \in Nat \ {0}
    /\ Rest \in BOOLEAN
    /\ MaxFaults \in Nat

VARIABLES
    outgoing,   \* the event between the registry's two locks: one, or none
    ended,      \* the Linkedids whose call has ended and not come back
    faults,     \* how many of these there have been
    stream,     \* of each page: "down", "snapshot" sent, "open" or "cut"
    queue,      \* the frames on their way to each page
    rows,       \* the page's map of live calls
    timers,     \* its pending removals
    rest,       \* its REST request: "none", "asked", "answered" or "applied",
                \* and the calls of the answer until it is applied
    doubt       \* history: the Linkedids of which the page's source left out
                \* a change, or repeats one that no longer holds

pageVars == <<stream, queue, rows, timers, rest, doubt>>
streamVars == <<outgoing, ended, faults, stream, queue, rows, timers, rest, doubt>>
allVars == <<vars, streamVars>>

StreamInit ==
    /\ Init
    /\ outgoing = {}
    /\ ended = {}
    /\ faults = 0
    /\ stream = [p \in Pages |-> "down"]
    /\ queue = [p \in Pages |-> <<>>]
    /\ rows = [p \in Pages |-> NoRows]
    /\ timers = [p \in Pages |-> {}]
    /\ rest = [p \in Pages |-> [state |-> "none", calls |-> {}]]
    /\ doubt = [p \in Pages |-> {}]
-----------------------------------------------------------------------------
(* The registry.                                                           *)

EndedBy(evs) == {ev.call.linkedid : ev \in {e \in evs : e.type = "ended"}}

\* The ended calls of which an event says that they live: a Linkedid is the
\* Uniqueid of a leg, and Asterisk may list it again.
Revived(evs) == {ev.call.linkedid : ev \in {e \in evs : e.type # "ended"}} \cap ended

\* One Apply* call: its critical section.  The listener's read goroutine is
\* through with the last one.
Apply ==
    /\ outgoing = {}
    /\ \/ Newchannel
       \/ \E u \in Uids : Describe(u) \/ ApplyBridgeLeave(u) \/ ApplyHangup(u)
       \/ \E u \in Uids, b \in BridgeID : ApplyBridgeEnter(u, b)
    /\ outgoing' = published'
    /\ ended' = (ended \ Revived(published')) \cup EndedBy(published')
    /\ faults' = faults + Cardinality(Revived(published'))
    /\ faults' =< MaxFaults
    /\ UNCHANGED pageVars

\* What the event says holds now.
Truthful(ev) ==
    IF ev.type = "ended" THEN ev.call.linkedid \notin Live
    ELSE ev.call.linkedid \in Live /\ ev.call = View(ev.call.linkedid)

IsEvent(frame) == frame.type # "snapshot"

Room(p) == Len(SelectSeq(queue[p], IsEvent)) < Buffer

\* Slip: a subscriber without room loses the event and stays.
SkipsFull(ev) ==
    /\ queue' = [p \in Pages |->
                    IF stream[p] = "open" /\ Room(p) THEN Append(queue[p], ev) ELSE queue[p]]
    /\ UNCHANGED stream

\* Slip: the newest event comes first.
Reorders(ev) ==
    /\ queue' = [p \in Pages |->
                    IF stream[p] = "open" /\ Room(p) THEN <<ev>> \o queue[p] ELSE queue[p]]
    /\ stream' = [p \in Pages |->
                    IF stream[p] = "open" /\ ~Room(p) THEN "cut" ELSE stream[p]]

\* One turn of publish's loop for every subscriber.
FanOut(ev) ==
    /\ queue' = [p \in Pages |->
                    IF stream[p] = "open" /\ Room(p) THEN Append(queue[p], ev) ELSE queue[p]]
    /\ stream' = [p \in Pages |->
                    IF stream[p] = "open" /\ ~Room(p) THEN "cut" ELSE stream[p]]

\* publish.  A page between its snapshot and its subscription gets nothing.
HandOver ==
    /\ \E ev \in outgoing :
        /\ FanOut(ev)
        /\ doubt' = [p \in Pages |->
                        IF stream[p] = "open" /\ Truthful(ev)
                        THEN doubt[p] \ {ev.call.linkedid}
                        ELSE doubt[p] \cup {ev.call.linkedid}]
    /\ outgoing' = {}
    /\ UNCHANGED <<vars, ended, faults, rows, timers, rest>>

\* Reset, from the goroutine that reconciles after a login.
ResetStep ==
    /\ Resets
    /\ faults < MaxFaults
    /\ faults' = faults + 1
    /\ Reset
    /\ doubt' = [p \in Pages |-> Uids]
    /\ UNCHANGED <<outgoing, ended, stream, queue, rows, timers, rest>>
-----------------------------------------------------------------------------
(* The stream of a page.                                                   *)

\* A request of the page's EventSource, the first or a reconnection: the
\* handler takes a snapshot and writes it.
OpenStream(p) ==
    /\ stream[p] = "down"
    /\ stream' = [stream EXCEPT ![p] = "snapshot"]
    /\ queue' = [queue EXCEPT ![p] = <<[type |-> "snapshot", calls |-> Snapshot]>>]
    /\ doubt' = [doubt EXCEPT ![p] = {}]
    /\ UNCHANGED <<vars, outgoing, ended, faults, rows, timers, rest>>

\* ... and then subscribes.
SubscribeStream(p) ==
    /\ stream[p] = "snapshot"
    /\ stream' = [stream EXCEPT ![p] = "open"]
    /\ UNCHANGED <<vars, outgoing, ended, faults, queue, rows, timers, rest, doubt>>

\* The connection is lost with what is on it; or the handler, cut off, has
\* sent the rest and returns.
Disconnect(p) ==
    /\ stream[p] # "down"
    /\ stream' = [stream EXCEPT ![p] = "down"]
    /\ queue' = [queue EXCEPT ![p] = <<>>]
    /\ UNCHANGED <<vars, outgoing, ended, faults, rows, timers, rest, doubt>>

\* The page's listeners for snapshot and call.* frames.
Deliver(p) ==
    /\ queue[p] # <<>>
    /\ LET frame == Head(queue[p])
       IN  /\ rows' = [rows EXCEPT ![p] = IF IsEvent(frame) THEN applyEvent(@, frame)
                                          ELSE applySnapshot(frame.calls)]
           /\ timers' = [timers EXCEPT ![p] = IF IsEvent(frame) THEN timersAfter(@, frame)
                                              ELSE @]
    /\ queue' = [queue EXCEPT ![p] = Tail(@)]
    /\ UNCHANGED <<vars, outgoing, ended, faults, stream, rest, doubt>>

\* ENDED_FLASH_MS after a call.ended the row goes, whatever it shows by then.
TimerFires(p) ==
    /\ \E l \in timers[p] :
        /\ timers' = [timers EXCEPT ![p] = @ \ {l}]
        /\ rows' = [rows EXCEPT ![p] = removeRow(@, l)]
        /\ doubt' = [doubt EXCEPT ![p] = IF l \in Live THEN @ \cup {l} ELSE @]
    /\ UNCHANGED <<vars, outgoing, ended, faults, stream, queue, rest>>
-----------------------------------------------------------------------------
(* The REST snapshot: asked for once, answered from the registry, applied  *)
(* when it arrives.                                                        *)

AskRest(p) ==
    /\ Rest
    /\ rest[p].state = "none"
    /\ rest' = [rest EXCEPT ![p].state = "asked"]
    /\ UNCHANGED <<vars, outgoing, ended, faults, stream, queue, rows, timers, doubt>>

ListActiveCalls(p) ==
    /\ rest[p].state = "asked"
    /\ rest' = [rest EXCEPT ![p] = [state |-> "answered", calls |-> Snapshot]]
    /\ faults < MaxFaults
    /\ faults' = faults + 1
    /\ UNCHANGED <<vars, outgoing, ended, stream, queue, rows, timers, doubt>>

\* loadLiveCallsSnapshot goes on.
ApplyRest(p) ==
    /\ rest[p].state = "answered"
    /\ rows' = [rows EXCEPT ![p] = applySnapshot(rest[p].calls)]
    /\ rest' = [rest EXCEPT ![p] = [state |-> "applied", calls |-> {}]]
    /\ doubt' = [doubt EXCEPT ![p] =
                    @ \cup {l \in Uids : {c \in rest[p].calls : c.linkedid = l}
                                         # {c \in Snapshot : c.linkedid = l}}]
    /\ UNCHANGED <<vars, outgoing, ended, faults, stream, queue, timers>>

Page(p) ==
    \/ OpenStream(p)
    \/ SubscribeStream(p)
    \/ Disconnect(p)
    \/ Deliver(p)
    \/ TimerFires(p)
    \/ AskRest(p)
    \/ ListActiveCalls(p)
    \/ ApplyRest(p)

StreamNext ==
    \/ Apply
    \/ HandOver
    \/ ResetStep
    \/ \E p \in Pages : Page(p)

StreamSpec == StreamInit /\ [][StreamNext]_allVars
-----------------------------------------------------------------------------
(* What a dashboard may rely on.                                           *)

\* Everything that was published reached the page.
Settled(p) == stream[p] = "open" /\ queue[p] = <<>> /\ outgoing = {}

\* The page is right about call l.
Agrees(p, l) ==
    IF l \in Live THEN l \in DOMAIN rows[p] /\ rows[p][l] = Row(View(l), FALSE)
    ELSE l \in DOMAIN rows[p] => rows[p][l].over /\ l \in timers[p]

\* A settled page shows the live calls, each as the registry has it, and
\* beside them only ended rows on their way out.  It may be wrong about those
\* calls alone that changed between its snapshot and its subscription, that a
\* Reset wiped, that a late REST answer set back or whose timer outlived their
\* return, and then only until the next event about them or the next stream.
ShownIsLive == \A p \in Pages : Settled(p) => \A l \in Uids \ doubt[p] : Agrees(p, l)

\* The end of call l is still on its way to the page.
EndUnderWay(p, l) ==
    \E ev \in outgoing \cup ToSet(queue[p]) : ev.type = "ended" /\ ev.call.linkedid = l

\* The row of an ended call is not shown as a live one again, unless there is
\* such a call, or there was one and the page has yet to be told of its end, by
\* this stream or, once it is cut, by the next, or a late REST answer or a gap of
\* the stream put the page in doubt about it (applyEvent flashes the ended row
\* and then removes it).
EndedStaysEnded ==
    [][\A p \in Pages : \A l \in DOMAIN rows[p] \cap DOMAIN rows'[p] :
          rows[p][l].over /\ ~rows'[p][l].over
          => l \in Live \cup doubt'[p] \/ EndUnderWay(p, l) \/ stream[p] = "cut"]_allVars

\* Snapshot and deltas together are the current calls: the page needs nothing
\* else (the comment in ServeHTTP on the initial snapshot).
SnapshotThenDeltas == \A p \in Pages : Settled(p) => \A l \in Uids : Agrees(p, l)
=============================================================================
