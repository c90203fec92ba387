-------------------------------- MODULE Feed --------------------------------
(***************************************************************************)
(* What a live stream of events promises its readers, whatever way it is   *)
(* made: a reader sees the events in order and without gaps from the       *)
(* moment it joins; appending waits for no reader; a reader is cut off     *)
(* only behind the end of the log, still gets what was set aside for it,   *)
(* and then leaves.  internal/calls/registry.go states this of Subscribe   *)
(* and publish in its comments.                                            *)
(***************************************************************************)
EXTENDS Integers

CONSTANTS
    Readers,
    MaxLog      \* bound on the length of the log

VARIABLES
    log,        \* number of events appended
    phase,      \* of each reader: "off", "on", "cut" or "gone"
    from,       \* the log's length when the reader joined
    to,         \* how far it has read
    limit       \* how far a reader that was cut off can still read

feedVars == <<log, phase, from, to, limit>>

FeedInit ==
    /\ log = 0
    /\ phase = [r \in Readers |-> "off"]
    /\ from = [r \in Readers |-> 0]
    /\ to = [r \in Readers |-> 0]
    /\ limit = [r \in Readers |-> 0]

Append1 ==
    /\ log < MaxLog
    /\ log' = log + 1
    /\ UNCHANGED <<phase, from, to, limit>>

Join(r) ==
    /\ phase[r] = "off"
    /\ phase' = [phase EXCEPT ![r] = "on"]
    /\ from' = [from EXCEPT ![r] = log]
    /\ to' = [to EXCEPT ![r] = log]
    /\ UNCHANGED <<log, limit>>

Read(r) ==
    /\ \/ phase[r] = "on" /\ to[r] < log
       \/ phase[r] = "cut" /\ to[r] < limit[r]
    /\ to' = [to EXCEPT ![r] = @ + 1]
    /\ UNCHANGED <<log, phase, from, limit>>

\* Only a reader that is behind is cut off, short of the end of the log.
Cut(r) ==
    /\ phase[r] = "on"
    /\ \E n \in to[r] .. log - 1 : limit' = [limit EXCEPT ![r] = n]
    /\ phase' = [phase EXCEPT ![r] = "cut"]
    /\ UNCHANGED <<log, from, to>>

Depart(r) ==
    /\ phase[r] \in {"on", "cut"}
    /\ phase' = [phase EXCEPT ![r] = "gone"]
    /\ limit' = [limit EXCEPT ![r] = 0]
    /\ UNCHANGED <<log, from, to>>

Advance(r) == Read(r) \/ Cut(r) \/ Depart(r)

FeedNext == Append1 \/ \E r \in Readers : Join(r) \/ Advance(r)

FeedSafety == FeedInit /\ [][FeedNext]_feedVars
=============================================================================
