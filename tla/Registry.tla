------------------------------ MODULE Registry ------------------------------
(***************************************************************************)
(* The in-memory store of live calls, internal/calls/registry.go: channels *)
(* (call legs) keyed by Uniqueid, and the index from a Linkedid (logical   *)
(* call) to the Uniqueids of its legs in the order they were first seen.   *)
(*                                                                         *)
(* One action is one Apply* method: its critical section under r.mu and    *)
(* the event it then hands to publish.  The AMI listener calls the Apply*  *)
(* methods from a single goroutine, so no two of them overlap.  Early      *)
(* returns (an empty or unknown Uniqueid) change nothing and are stutters. *)
(*                                                                         *)
(* `published' is the event of the last step, if any.  `mirror' is a history *)
(* variable: what a consumer that applies every event in order, the way    *)
(* the dashboard does, believes to be the live calls.                      *)
(*                                                                         *)
(* UpdatedAt and Event.At are left out: they carry the clock reading of    *)
(* the step and nothing here reads them.                                   *)
(***************************************************************************)
EXTENDS Integers, SequencesExt

CONSTANTS
    Uids,       \* AMI Uniqueids; a Linkedid is the Uniqueid of a call's first leg
    Bridges,    \* bridge identifiers
    Attrs,      \* the descriptive fields in play, a subset of AllAttrs
    Values,     \* the non-empty values of those fields
    Unknown,    \* Asterisk's "<unknown>" sentinel
    None,       \* "" in a field, nil for a channel
    MaxClock,   \* bound on the clock
    Refreshes,  \* TRUE: Newchannel or CoreShowChannel may repeat a live Uniqueid
    Relinks,    \* TRUE: such a repetition may carry another Linkedid
    Resets      \* TRUE: the AMI session may be re-established (Reset)

AllAttrs == {"state", "caller", "connected", "exten"}

\* The attributes whose values normaliseUnknown and parseChannel clean.
CleanedAttrs == {"caller", "connected"}

Field == Values \cup {None}
BridgeID == Bridges \cup {None}

\* One AMI channel as the registry stores it.
Channel == [uid : Uids, linkedid : Uids, createdAt : Nat,
            bridge : BridgeID, attrs : [Attrs -> Field]]

ASSUME ConstantsAssumption ==
    /\ Attrs \subseteq AllAttrs
    /\ None \notin Uids \cup Bridges \cup Values \cup {Unknown}
    /\ Unknown \notin Values
    /\ MaxClock \in Nat
    /\ Refreshes \in BOOLEAN /\ Relinks \in BOOLEAN /\ Resets \in BOOLEAN
    /\ None \notin Channel

VARIABLES
    channels,   \* r.channels: Uniqueid -> channel, None when absent
    byCall,     \* r.byCall: Linkedid -> Uniqueids, <<>> when the key is absent
    clock,      \* the wall clock, as far as time.Now() can tell steps apart
    published,  \* the events of the last step: one, or none
    mirror      \* the map an event consumer keeps: Linkedid -> call shown

vars == <<channels, byCall, clock, published, mirror>>
-----------------------------------------------------------------------------
(* The Call view built from a channel set.                                 *)

\* The channels a list of Uniqueids names, None where there is none.
Legs(chs, uids) == [i \in DOMAIN uids |-> chs[uids[i]]]

\* Those of them that are there.
Present(legs) == {i \in DOMAIN legs : legs[i] # None}

\* Slip: the comparison the wrong way round.
NewestFirst(legs) ==
    LET Before(i, j) == \/ legs[i].createdAt > legs[j].createdAt
                        \/ legs[i].createdAt = legs[j].createdAt /\ i =< j
        Rank(j) == Cardinality({i \in Present(legs) : Before(i, j)})
    IN  [k \in 1 .. Cardinality(Present(legs)) |-> legs[CHOOSE j \in Present(legs) : Rank(j) = k]]

\* sortChannelsByCreatedAt: by createdAt, equal ones in the order they had.
OldestFirst(legs) ==
    LET Before(i, j) == \/ legs[i].createdAt < legs[j].createdAt
                        \/ legs[i].createdAt = legs[j].createdAt /\ i =< j
        Rank(j) == Cardinality({i \in Present(legs) : Before(i, j)})
    IN  [k \in 1 .. Cardinality(Present(legs)) |-> legs[CHOOSE j \in Present(legs) : Rank(j) = k]]

\* Two legs are in one bridge: a conversation is in progress.
SharedBridge(legs) ==
    \E i, j \in DOMAIN legs :
        i # j /\ legs[i].bridge # None /\ legs[i].bridge = legs[j].bridge

\* The call of Linkedid l with those legs, at least one of them present.
CallOf(l, legs) ==
    LET present == OldestFirst(legs)
    IN  [linkedid |-> l, legs |-> present,
         startedAt |-> present[1].createdAt,
         bridged |-> SharedBridge(present)]

\* callLocked over given contents of the two maps, and the boolean it returns
\* beside the call: a Linkedid with no channel left has no call.
callLocked(chs, index, l) == CallOf(l, Legs(chs, index[l]))

callFound(chs, index, l) == \E i \in DOMAIN index[l] : chs[index[l][i]] # None

View(l) == callLocked(channels, byCall, l)

Live == {l \in Uids : callFound(channels, byCall, l)}

\* Snapshot: the calls gRPC ListActiveCalls and a new SSE stream start from.
Snapshot == {View(l) : l \in Live}
-----------------------------------------------------------------------------
(* Events and their consumer.                                              *)

Event(type, call) == [type |-> type, call |-> call]

\* The event of a mutation of call l: none if callLocked finds no call.
UpdateOf(chs, index, l) ==
    IF callFound(chs, index, l) THEN {Event("updated", callLocked(chs, index, l))} ELSE {}

\* What one event does to the consumer's map of calls.
Show(m, call) ==
    [l \in DOMAIN m \cup {call.linkedid} |-> IF l = call.linkedid THEN call ELSE m[l]]

Hide(m, call) == [l \in DOMAIN m \ {call.linkedid} |-> m[l]]

Consume(m, ev) == IF ev.type = "ended" THEN Hide(m, ev.call) ELSE Show(m, ev.call)

\* publish, seen from a consumer that keeps up with it.
Publish(evs) ==
    /\ published' = evs
    /\ mirror' = IF evs = {} THEN mirror ELSE Consume(mirror, CHOOSE ev \in evs : TRUE)
-----------------------------------------------------------------------------
Init ==
    /\ channels = [u \in Uids |-> None]
    /\ byCall = [l \in Uids |-> <<>>]
    /\ clock = 0
    /\ published = {}
    /\ mirror = <<>>

\* parseChannel cleans the sentinel out of the caller fields, as
\* normaliseUnknown does for the events that change them.
normaliseUnknown(v) == IF v = Unknown THEN None ELSE v

\* Slip: a refresh indexes the channel again.
AlwaysAppends(uids, u) == Append(uids, u)

\* The index entry with u in it: channelInCall guards the append.
Indexed(uids, u) == IF Contains(uids, u) THEN uids ELSE Append(uids, u)

\* Slips: every new leg starts a call; only the leg that gave the call its
\* Linkedid starts it.
EveryLegStarts(existed, call) == IF existed THEN "updated" ELSE "started"

OnlyFirstLegStarts(existed, call) ==
    IF existed \/ call.legs[1].uid # call.linkedid THEN "updated" ELSE "started"

\* The event type for a call one of whose channels was just stored.
NewchannelType(existed, call) ==
    IF existed \/ Len(call.legs) > 1 THEN "updated" ELSE "started"

\* ApplyNewchannel: the record replaces any earlier one of this Uniqueid, and
\* createdAt is always the present time, since parseChannel never fills it.
ApplyNewchannel(u, linkedid, bridge, attrs) ==
    LET l == IF linkedid = None THEN u ELSE linkedid
        c == [uid |-> u, linkedid |-> l, createdAt |-> clock, bridge |-> bridge,
              attrs |-> [a \in Attrs |-> IF a \in CleanedAttrs
                                         THEN normaliseUnknown(attrs[a])
                                         ELSE attrs[a]]]
        call == callLocked(channels', byCall', l)
    IN  /\ channels' = [channels EXCEPT ![u] = c]
        /\ byCall' = [byCall EXCEPT ![l] = Indexed(@, u)]
        /\ Publish({Event(NewchannelType(channels[u] # None, call), call)})
        /\ UNCHANGED clock

\* What mutateChannel, ApplyNewstate and updateBridge share: replace the
\* record of a known channel and announce the call it belongs to.
Mutate(u, c) ==
    /\ channels[u] # None
    /\ channels' = [channels EXCEPT ![u] = c]
    /\ Publish(UpdateOf(channels', byCall, c.linkedid))
    /\ UNCHANGED <<byCall, clock>>

\* Slip: the call is rolled up before the change.
AnnouncesOldView(u, attr, v) ==
    /\ attr \in Attrs
    /\ channels[u] # None
    /\ channels' = [channels EXCEPT ![u].attrs[attr] = IF v = None THEN @ ELSE v]
    /\ Publish(UpdateOf(channels, byCall, channels[u].linkedid))
    /\ UNCHANGED <<byCall, clock>>

\* A field only ever takes a non-empty value.
mutateChannel(u, attr, v) ==
    /\ attr \in Attrs
    /\ Mutate(u, IF v = None THEN channels[u] ELSE [channels[u] EXCEPT !.attrs[attr] = v])

ApplyNewstate(u, v) == mutateChannel(u, "state", v)

ApplyCallerID(u, v) == mutateChannel(u, "caller", normaliseUnknown(v))

ApplyConnectedLine(u, v) == mutateChannel(u, "connected", normaliseUnknown(v))

ApplyExtension(u, v) == mutateChannel(u, "exten", v)

updateBridge(u, b) == Mutate(u, [channels[u] EXCEPT !.bridge = b])

ApplyBridgeEnter(u, b) == updateBridge(u, b)

ApplyBridgeLeave(u) == updateBridge(u, None)

\* removeString drops the first occurrence.
removeString(uids, u) == RemoveFirst(uids, u)

\* Slip: the ended call goes by the Uniqueid of its last leg.
EndedUnderUid(l, c) ==
    [linkedid |-> c.uid, legs |-> <<c>>, startedAt |-> c.createdAt, bridged |-> FALSE]

\* The final state of a call: its last leg as a call of one channel.
EndedCall(l, c) ==
    [linkedid |-> l, legs |-> <<c>>, startedAt |-> c.createdAt, bridged |-> FALSE]

\* Slip: the call ends with the leg that gave it its Linkedid.
EndsWithFirstLeg(u) ==
    /\ channels[u] # None
    /\ LET l == channels[u].linkedid
       IN  /\ channels' = [channels EXCEPT ![u] = None]
           /\ byCall' = [byCall EXCEPT ![l] = removeString(@, u)]
           /\ Publish(IF u = l THEN {Event("ended", EndedCall(l, channels[u]))}
                      ELSE UpdateOf(channels', byCall', l))
    /\ UNCHANGED clock

\* ApplyHangup: the last leg takes the call with it.
ApplyHangup(u) ==
    /\ channels[u] # None
    /\ LET l == channels[u].linkedid
       IN  /\ channels' = [channels EXCEPT ![u] = None]
           /\ byCall' = [byCall EXCEPT ![l] = removeString(@, u)]
           /\ Publish(IF byCall'[l] = <<>>
                      THEN {Event("ended", EndedCall(l, channels[u]))}
                      ELSE UpdateOf(channels', byCall', l))
    /\ UNCHANGED clock

\* Reset: both maps are replaced by empty ones; nothing is published.
Reset ==
    /\ channels' = [u \in Uids |-> None]
    /\ byCall' = [l \in Uids |-> <<>>]
    /\ Publish({})
    /\ UNCHANGED clock

Tick ==
    /\ clock < MaxClock
    /\ clock' = clock + 1
    /\ Publish({})
    /\ UNCHANGED <<channels, byCall>>
-----------------------------------------------------------------------------
(* Asterisk, as far as the registry sees it: which Newchannel and          *)
(* CoreShowChannel messages it may send about a Uniqueid already known.    *)

MayAnnounce(u, linkedid) ==
    LET l == IF linkedid = None THEN u ELSE linkedid
    IN  channels[u] # None => Refreshes /\ (Relinks \/ l = channels[u].linkedid)

RawField(a) == IF a \in CleanedAttrs THEN Field \cup {Unknown} ELSE Field

RawAttrs == {f \in [Attrs -> Field \cup {Unknown}] : \A a \in Attrs : f[a] \in RawField(a)}

Newchannel ==
    \E u \in Uids, linkedid \in Uids \cup {None}, b \in BridgeID, f \in RawAttrs :
        MayAnnounce(u, linkedid) /\ ApplyNewchannel(u, linkedid, b, f)

Describe(u) ==
    \/ \E v \in Field : ApplyNewstate(u, v) \/ ApplyExtension(u, v)
    \/ \E v \in Field \cup {Unknown} : ApplyCallerID(u, v) \/ ApplyConnectedLine(u, v)

Next ==
    \/ Newchannel
    \/ \E u \in Uids : Describe(u)
    \/ \E u \in Uids, b \in BridgeID : ApplyBridgeEnter(u, b)
    \/ \E u \in Uids : ApplyBridgeLeave(u)
    \/ \E u \in Uids : ApplyHangup(u)
    \/ Resets /\ Reset
    \/ Tick

Spec == Init /\ [][Next]_vars
-----------------------------------------------------------------------------
(* What the store must get right.                                          *)

\* The two maps and the history hold what their Go types say.
TypeOK ==
    /\ channels \in [Uids -> Channel \cup {None}]
    /\ byCall \in [Uids -> Seq(Uids)]
    /\ clock \in Nat
    /\ \A ev \in published : ev.type \in {"started", "updated", "ended"}
    /\ DOMAIN mirror \subseteq Uids

\* The index and the channels agree: every list holds live channels of that
\* Linkedid, each once, and every live channel is in the list of its own.  So
\* each leg shows in exactly one call of Snapshot, and a call goes when its
\* legs have gone (ApplyNewchannel and ApplyHangup keep both maps in step).
IndexAgrees ==
    /\ \A l \in Uids : \A i \in DOMAIN byCall[l] :
          LET c == channels[byCall[l][i]]
          IN  c # None /\ c.linkedid = l
    /\ \A l \in Uids : IsInjective(byCall[l])
    /\ \A u \in Uids : channels[u] # None => Contains(byCall[channels[u].linkedid], u)

\* A consumer of every event shows each live call exactly as Snapshot would:
\* no change of a leg, of the legs' order or of the bridged flag goes
\* unannounced, whichever Apply* made it, and across a Reset too.
LiveCallsMirrored ==
    \A l \in Live : l \in DOMAIN mirror /\ mirror[l] = View(l)

\* Such a consumer shows no call that is over: whatever ends a call is
\* announced by call.ended.
NothingLingers == DOMAIN mirror \subseteq Live

\* call.started is the first a consumer hears of a call, and only that;
\* call.updated and call.ended are about a call it knows.
StartedIsNews ==
    [][\A ev \in published' :
          ev.type = "started" <=> ev.call.linkedid \notin DOMAIN mirror]_vars

\* A consumer never first hears of a call by an update or an end, also when
\* the registry has been reset under it.
NewsIsStarted ==
    [][\A ev \in published' :
          ev.call.linkedid \notin DOMAIN mirror => ev.type = "started"]_vars

\* The last leg of a Linkedid to hang up ends the call: the call is removed
\* and call.ended fires for it (the comment on ApplyHangup).
LastLeg(u) ==
    \A v \in Uids \ {u} : channels[v] # None => channels[v].linkedid # channels[u].linkedid

LastHangupEnds ==
    [][\A u, l \in Uids :
          ApplyHangup(u) /\ l = channels[u].linkedid /\ LastLeg(u)
          => /\ l \notin Live'
             /\ \E ev \in published' : ev.type = "ended" /\ ev.call.linkedid = l]_vars

\* The leg a call shows first is the one the registry heard of first (the
\* comment on Call: sorted by CreatedAt, so the originating leg is element 0).
OriginatingLegFirst ==
    \A l \in Live : View(l).legs[1].uid = Head(byCall[l])
=============================================================================
