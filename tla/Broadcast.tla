------------------------------ MODULE Broadcast ------------------------------
(***************************************************************************)
(* The fan-out of registry events to stream handlers: Subscribe, publish   *)
(* and Unsubscribe of internal/calls/registry.go, and the select loop of   *)
(* CallStreamHandler.ServeHTTP, at the granularity of the sections under   *)
(* r.subMu, of the channel operations and of the socket writes.            *)
(*                                                                         *)
(* publish is only ever called by the AMI listener's read goroutine, so    *)
(* there is one publisher.  Events are numbered in the order it publishes  *)
(* them.  A subscriber is one HTTP request; the id it draws from nextSubID *)
(* is its own, and stands for it here.                                     *)
(***************************************************************************)
EXTENDS Integers, SequencesExt

CONSTANTS
    Subs,       \* the stream requests
    Cap,        \* subBufferSize
    MaxEvents   \* bound on the number of events published

ASSUME CapAssumption == Cap \in Nat \ {0}
ASSUME MaxEventsAssumption == MaxEvents \in Nat

VARIABLES
    published,  \* number of events handed to publish so far
    pubpc,      \* where the publisher is: "idle", "fanout" (read lock held), "reap"
    todo,       \* subscribers its range loop has still to visit
    dead,       \* its list of subscribers whose buffer was full
    subs,       \* the keys of r.subs
    buf,        \* the buffered channel of each subscriber
    closed,     \* whether that channel is closed
    panicked,   \* a send on, or a close of, a closed channel has happened
    pc,         \* where each handler is
    cur,        \* the event a handler is writing, 0 for a keepalive comment
    got,        \* the events a handler has written to its client
    joined      \* number of events published when the subscriber was added

pubVars == <<published, pubpc, todo, dead>>
handlerVars == <<pc, cur, got, joined>>
vars == <<published, pubpc, todo, dead, subs, buf, closed, panicked, pc, cur, got, joined>>

Init ==
    /\ published = 0
    /\ pubpc = "idle"
    /\ todo = {}
    /\ dead = {}
    /\ subs = {}
    /\ buf = [s \in Subs |-> <<>>]
    /\ closed = [s \in Subs |-> FALSE]
    /\ panicked = FALSE
    /\ pc = [s \in Subs |-> "new"]
    /\ cur = [s \in Subs |-> 0]
    /\ got = [s \in Subs |-> <<>>]
    /\ joined = [s \in Subs |-> 0]

\* subMu can be write-locked: the publisher does not hold its read lock.  The
\* sections under the write lock are single steps, so they hold it off nobody.
Unlocked == pubpc # "fanout"
-----------------------------------------------------------------------------
(* The publisher.                                                          *)

\* Slip: closes without looking the id up.
ClosesBlindly(s) ==
    /\ subs' = subs \ {s}
    /\ closed' = [closed EXCEPT ![s] = TRUE]
    /\ panicked' = (panicked \/ closed[s])

\* Unsubscribe: under the write lock, idempotent.
Unsubscribe(s) ==
    IF s \in subs
    THEN /\ subs' = subs \ {s}
         /\ closed' = [closed EXCEPT ![s] = TRUE]
         /\ panicked' = (panicked \/ closed[s])
    ELSE UNCHANGED <<subs, closed, panicked>>

\* publish(ev): take the read lock and start ranging over r.subs.
BeginPublish ==
    /\ pubpc = "idle"
    /\ published < MaxEvents
    /\ published' = published + 1
    /\ pubpc' = "fanout"
    /\ todo' = subs
    /\ dead' = {}
    /\ UNCHANGED <<subs, buf, closed, panicked>>
    /\ UNCHANGED handlerVars

\* Slips: a full buffer blocks the send; a full buffer loses the event only.
SendBlocks(s) ==
    /\ ~closed[s] /\ Len(buf[s]) < Cap
    /\ buf' = [buf EXCEPT ![s] = Append(@, published)]
    /\ UNCHANGED <<dead, panicked>>

SendSkips(s) ==
    /\ buf' = IF Len(buf[s]) < Cap THEN [buf EXCEPT ![s] = Append(@, published)] ELSE buf
    /\ panicked' = (panicked \/ closed[s])
    /\ UNCHANGED dead

\* Slip: a subscriber with a full buffer after the send is given up already.
SendGivesUp(s) ==
    /\ buf' = IF Len(buf[s]) < Cap THEN [buf EXCEPT ![s] = Append(@, published)] ELSE buf
    /\ dead' = IF Len(buf'[s]) < Cap THEN dead ELSE dead \cup {s}
    /\ panicked' = (panicked \/ closed[s])

\* select { case s.ch <- ev: default: dead = append(dead, id) }
TrySend(s) ==
    IF closed[s]
    THEN panicked' = TRUE /\ UNCHANGED <<buf, dead>>
    ELSE IF Len(buf[s]) < Cap
         THEN buf' = [buf EXCEPT ![s] = Append(@, published)] /\ UNCHANGED <<dead, panicked>>
         ELSE dead' = dead \cup {s} /\ UNCHANGED <<buf, panicked>>

\* One turn of the range loop; map iteration visits the ids in any order.
Send(s) ==
    /\ pubpc = "fanout"
    /\ s \in todo
    /\ todo' = todo \ {s}
    /\ TrySend(s)
    /\ UNCHANGED <<published, pubpc, subs, closed>>
    /\ UNCHANGED handlerVars

\* RUnlock, once every subscriber was visited.
EndFanout ==
    /\ pubpc = "fanout"
    /\ todo = {}
    /\ pubpc' = "reap"
    /\ UNCHANGED <<published, todo, dead, subs, buf, closed, panicked>>
    /\ UNCHANGED handlerVars

\* Unsubscribe one of the dead.
Reap(s) ==
    /\ pubpc = "reap"
    /\ s \in dead
    /\ dead' = dead \ {s}
    /\ Unsubscribe(s)
    /\ UNCHANGED <<published, pubpc, todo, buf>>
    /\ UNCHANGED handlerVars

EndPublish ==
    /\ pubpc = "reap"
    /\ dead = {}
    /\ pubpc' = "idle"
    /\ UNCHANGED <<published, todo, dead, subs, buf, closed, panicked>>
    /\ UNCHANGED handlerVars

Publisher ==
    \/ EndFanout
    \/ EndPublish
    \/ \E s \in Subs : Send(s) \/ Reap(s)
-----------------------------------------------------------------------------
(* A stream handler.                                                       *)

\* Subscribe: make the channel and insert it under the write lock.
Subscribe(s) ==
    /\ pc[s] = "new"
    /\ Unlocked
    /\ subs' = subs \cup {s}
    /\ joined' = [joined EXCEPT ![s] = published]
    /\ pc' = [pc EXCEPT ![s] = "waiting"]
    /\ UNCHANGED <<buf, closed, panicked, cur, got>>
    /\ UNCHANGED pubVars

\* case ev, ok := <-ch, with ok: an event is taken out and its write begins.
\* A closed channel still hands out what is buffered.
Receive(s) ==
    /\ pc[s] = "waiting"
    /\ buf[s] # <<>>
    /\ cur' = [cur EXCEPT ![s] = Head(buf[s])]
    /\ buf' = [buf EXCEPT ![s] = Tail(@)]
    /\ pc' = [pc EXCEPT ![s] = "writing"]
    /\ UNCHANGED <<subs, closed, panicked, got, joined>>
    /\ UNCHANGED pubVars

\* case <-keepalive.C: a comment is written.
Keepalive(s) ==
    /\ pc[s] = "waiting"
    /\ cur' = [cur EXCEPT ![s] = 0]
    /\ pc' = [pc EXCEPT ![s] = "writing"]
    /\ UNCHANGED <<subs, buf, closed, panicked, got, joined>>
    /\ UNCHANGED pubVars

\* The client took the frame.
Written(s) ==
    /\ pc[s] = "writing"
    /\ got' = IF cur[s] = 0 THEN got ELSE [got EXCEPT ![s] = Append(@, cur[s])]
    /\ cur' = [cur EXCEPT ![s] = 0]
    /\ pc' = [pc EXCEPT ![s] = "waiting"]
    /\ UNCHANGED <<subs, buf, closed, panicked, joined>>
    /\ UNCHANGED pubVars

Stop(s) ==
    /\ pc' = [pc EXCEPT ![s] = "leaving"]
    /\ UNCHANGED <<subs, buf, closed, panicked, cur, got, joined>>
    /\ UNCHANGED pubVars

\* The write fails, or the request context is done: return.
WriteFails(s) == pc[s] = "writing" /\ Stop(s)

ContextDone(s) == pc[s] = "waiting" /\ Stop(s)

\* Slip: ok is not looked at, and the zero event is written to the client.
IgnoresClose(s) ==
    /\ pc[s] = "waiting"
    /\ buf[s] = <<>>
    /\ closed[s]
    /\ pc' = [pc EXCEPT ![s] = "writing"]
    /\ UNCHANGED <<subs, buf, closed, panicked, cur, got, joined>>
    /\ UNCHANGED pubVars

\* case ev, ok := <-ch, with !ok: dropped as a slow consumer.
SeesClosed(s) ==
    /\ pc[s] = "waiting"
    /\ buf[s] = <<>>
    /\ closed[s]
    /\ Stop(s)

\* defer h.registry.Unsubscribe(id)
Leave(s) ==
    /\ pc[s] = "leaving"
    /\ Unlocked
    /\ Unsubscribe(s)
    /\ pc' = [pc EXCEPT ![s] = "done"]
    /\ UNCHANGED <<buf, cur, got, joined>>
    /\ UNCHANGED pubVars

Handler(s) ==
    \/ Subscribe(s)
    \/ Receive(s)
    \/ Keepalive(s)
    \/ Written(s)
    \/ WriteFails(s)
    \/ ContextDone(s)
    \/ SeesClosed(s)
    \/ Leave(s)

Next ==
    \/ BeginPublish
    \/ Publisher
    \/ \E s \in Subs : Handler(s)

\* A goroutine that can go on does, a select does not pass over a ready
\* channel for ever, and nothing is assumed of clients or of Asterisk.
Fairness ==
    /\ WF_vars(Publisher)
    /\ \A s \in Subs :
          SF_vars(Receive(s)) /\ SF_vars(SeesClosed(s)) /\ SF_vars(Leave(s))

Spec == Init /\ [][Next]_vars /\ Fairness

\* The client of s does not stall a write for ever: it reads on or the write
\* fails.
ClientReads(s) == WF_vars(Written(s) \/ WriteFails(s))
-----------------------------------------------------------------------------
(* What the fan-out promises.                                              *)

\* What subscriber s has been sent, in order: written to the client, being
\* written, or still buffered.
Writing(s) == IF pc[s] \in {"writing", "leaving", "done"} /\ cur[s] # 0 THEN <<cur[s]>> ELSE <<>>
Received(s) == got[s] \o Writing(s) \o buf[s]

TypeOK ==
    /\ published \in Nat
    /\ pubpc \in {"idle", "fanout", "reap"}
    /\ todo \subseteq Subs /\ dead \subseteq Subs /\ subs \subseteq Subs
    /\ buf \in [Subs -> Seq(Nat)]
    /\ \A s \in Subs : Len(buf[s]) =< Cap
    /\ closed \in [Subs -> BOOLEAN]
    /\ panicked \in BOOLEAN
    /\ pc \in [Subs -> {"new", "waiting", "writing", "leaving", "done"}]
    /\ cur \in [Subs -> Nat]
    /\ got \in [Subs -> Seq(Nat)]
    /\ joined \in [Subs -> Nat]

\* No channel is sent to after it was closed, or closed twice: the publisher
\* dropping a slow subscriber races with that subscriber's own Unsubscribe.
NoPanic == ~panicked

\* A subscriber is sent an unbroken run of the events, in order, from the
\* first one published after it was added.
GapFree ==
    \A s \in Subs :
        /\ \A i \in DOMAIN Received(s) : Received(s)[i] = joined[s] + i
        /\ joined[s] + Len(Received(s)) =< published

\* Between two calls of publish no subscriber in the map has missed an event:
\* one that misses an event is out of the map before the next.
MissMeansDrop ==
    pubpc = "idle" => \A s \in subs : joined[s] + Len(Received(s)) = published

\* A handler that has returned is not in the map, so nothing more is sent to
\* its channel.
NoLeak == \A s \in Subs : pc[s] = "done" => s \notin subs

\* publish never drops a subscriber that has room for the event: one that it
\* closes has missed one.
DropMeansMiss ==
    [][\A s \in Subs :
          closed'[s] /\ ~closed[s] /\ pc[s] # "leaving"
          => joined[s] + Len(Received(s)) < published]_vars

\* publish returns, whatever the clients do: a stalled browser does not hold
\* up the AMI read goroutine.
PublishReturns == pubpc # "idle" ~> pubpc = "idle"

\* A dropped subscriber's handler returns, so that the browser reconnects,
\* provided that its client does not stall a write for ever: the closed channel
\* is seen only between two writes, and the server sets no write timeout.
DroppedHandlerReturns ==
    \A s \in Subs : ClientReads(s) => (closed[s] ~> pc[s] = "done")
-----------------------------------------------------------------------------
(* The fan-out implements Feed.                                            *)

FeedPhase(s) ==
    IF pc[s] = "new" THEN "off"
    ELSE IF pc[s] \in {"leaving", "done"} THEN "gone"
    ELSE IF closed[s] THEN "cut"
    ELSE "on"

\* The publisher's step that closes a subscriber is the one that cuts it off.
Stream == INSTANCE Feed WITH
    Readers <- Subs,
    MaxLog <- MaxEvents,
    log <- published,
    phase <- [s \in Subs |-> FeedPhase(s)],
    from <- joined,
    to <- [s \in Subs |-> joined[s] + Len(got[s])],
    limit <- [s \in Subs |-> IF FeedPhase(s) = "cut"
                             THEN joined[s] + Len(Received(s)) ELSE 0]

\* Every step of the fan-out is a step of the feed or none.
ImplementsFeed == Stream!FeedSafety
=============================================================================
