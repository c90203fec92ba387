-------------------------- MODULE QualityCollector --------------------------
(***************************************************************************)
(* The call-quality collector (internal/exporter/quality/collector.go):    *)
(* every scrape reads the cdr rows whose calldate is above a watermark     *)
(* (ListLegsWithQoSSince, internal/data/cdr_repo.go), counts each, and     *)
(* raises the watermark to the largest calldate it saw.                    *)
(*                                                                         *)
(* Asterisk stamps a row with the start of its call and writes it when the *)
(* call is over.  Collect holds the collector's mutex and reads with one   *)
(* query, so a scrape is one step.  What is measured is left out: a row    *)
(* either has QoS data or not.                                             *)
(***************************************************************************)
EXTENDS Integers, FiniteSets

CONSTANTS
    Calls,        \* calls of the PBX
    Limit,        \* LIMIT of the query (1000)
    MaxTime,      \* bound on the clock
    MaxRestarts   \* bound on the restarts of the process

ASSUME QualityAssumption ==
    /\ IsFiniteSet(Calls)
    /\ Limit \in Nat \ {0} /\ MaxTime \in Nat \ {0} /\ MaxRestarts \in Nat

VARIABLES
    now,        \* the clock, in the resolution of calldate
    calldate,   \* when each call started; 0: it has not
    row,        \* its cdr row: "none" yet, with "qos", or "bare" of it
    boot,       \* history: when this process started
    restarts,   \* history: how often it was restarted
    lastSeen,   \* the watermark
    probe,      \* the cached answer to whether the column is there
    counted     \* how often each row was observed, in all processes

vars == <<now, calldate, row, boot, restarts, lastSeen, probe, counted>>
pbx == <<calldate, row>>
process == <<boot, restarts>>

Init ==
    /\ now = 1
    /\ calldate = [c \in Calls |-> 0]
    /\ row = [c \in Calls |-> "none"]
    /\ boot = 1 /\ restarts = 0
    /\ lastSeen = 1
    /\ probe = "unprobed"
    /\ counted = [c \in Calls |-> 0]
-----------------------------------------------------------------------------
(* The PBX.                                                                *)

Begin(c) ==
    /\ calldate[c] = 0
    /\ calldate' = [calldate EXCEPT ![c] = now]
    /\ UNCHANGED <<now, row, process, lastSeen, probe, counted>>

End(c) ==
    /\ calldate[c] # 0 /\ row[c] = "none"
    /\ \E kind \in {"qos", "bare"} : row' = [row EXCEPT ![c] = kind]
    /\ UNCHANGED <<now, calldate, process, lastSeen, probe, counted>>

Tick ==
    /\ now < MaxTime
    /\ now' = now + 1
    /\ UNCHANGED <<pbx, process, lastSeen, probe, counted>>
-----------------------------------------------------------------------------
(* The collector.                                                          *)

\* Slip: calldate >= since.
NotBefore(since) == {c \in Calls : row[c] = "qos" /\ calldate[c] >= since}

\* The rows the query is about.
Since(since) == {c \in Calls : row[c] = "qos" /\ calldate[c] > since}

\* Slip: the newest rows come first.
NewestFirst(found) ==
    {page \in SUBSET found :
        /\ Cardinality(page) =< Limit
        /\ page = found \/ Cardinality(page) = Limit
        /\ \A c \in page : \A d \in found \ page : calldate[c] >= calldate[d]}

\* ORDER BY calldate ASC LIMIT: the pages it can return.
Pages(found) ==
    {page \in SUBSET found :
        /\ Cardinality(page) =< Limit
        /\ page = found \/ Cardinality(page) = Limit
        /\ \A c \in page : \A d \in found \ page : calldate[c] =< calldate[d]}

\* probeQoSColumns: the first query finds the column there, or fails and is
\* never asked again.
Probe ==
    IF probe = "unprobed"
    THEN probe' \in {"present", "absent"}
    ELSE UNCHANGED probe

\* Slip: the next scrape is about what comes after this one.
WatermarkNow(page) ==
    /\ counted' = [c \in Calls |-> IF c \in page THEN counted[c] + 1 ELSE counted[c]]
    /\ lastSeen' = now

\* The loop over the rows of a page.
Observe(page) ==
    /\ counted' = [c \in Calls |-> IF c \in page THEN counted[c] + 1 ELSE counted[c]]
    /\ lastSeen' \in {lastSeen} \cup {calldate[c] : c \in page}
    /\ lastSeen' >= lastSeen
    /\ \A c \in page : calldate[c] =< lastSeen'

\* A scrape that reads rows,
Collect ==
    /\ Probe /\ probe' = "present"
    /\ \E page \in Pages(Since(lastSeen)) : Observe(page)
    /\ UNCHANGED <<now, pbx, process>>

\* one whose query fails,
CollectFails ==
    /\ Probe /\ probe' = "present"
    /\ UNCHANGED <<now, pbx, process, lastSeen, counted>>

\* and one of a table that is taken to have no such column.
CollectNothing ==
    /\ Probe /\ probe' = "absent"
    /\ UNCHANGED <<now, pbx, process, lastSeen, counted>>

\* The process dies and is started: New.  What Prometheus summed up stays.
Restart ==
    /\ restarts < MaxRestarts
    /\ restarts' = restarts + 1
    /\ boot' = now
    /\ lastSeen' = now
    /\ probe' = "unprobed"
    /\ UNCHANGED <<now, pbx, counted>>

Next ==
    \/ \E c \in Calls : Begin(c) \/ End(c)
    \/ Tick
    \/ Collect \/ CollectFails \/ CollectNothing
    \/ Restart

Spec == Init /\ [][Next]_vars
-----------------------------------------------------------------------------
(* What the metrics can be relied on for.                                  *)

TypeOK ==
    /\ now \in 1 .. MaxTime
    /\ calldate \in [Calls -> 0 .. now]
    /\ row \in [Calls -> {"none", "qos", "bare"}]
    /\ restarts \in 0 .. MaxRestarts
    /\ 1 =< boot /\ boot =< lastSeen /\ lastSeen =< now
    /\ probe \in {"unprobed", "present", "absent"}
    /\ counted \in [Calls -> Nat]

\* No call is counted twice, whatever rows tie, queries fail and restarts
\* come between (New starts at "now" for this, scrapeOnce raises the watermark).
NeverTwice == \A c \in Calls : counted[c] =< 1

\* A row that the next scrape can read.
Pending(c) == c \in Since(lastSeen)

\* A step gives up a row: a scrape that has it on its page, a restart, or a
\* full page that ends at its calldate.
SkipsTies ==
    \A c \in Calls :
        Pending(c) /\ ~Pending(c)' =>
            \/ counted'[c] = counted[c] + 1
            \/ restarts' # restarts
            \/ /\ calldate[c] = lastSeen'
               /\ Cardinality({d \in Calls : counted'[d] # counted[d]}) = Limit

\* No scrape gives up a row that was there to be read, unless it shares its
\* calldate with a row of a page that was full; only a restart skips more.
OnlyTiesAreSkipped == [][SkipsTies]_vars

\* A row that could be read is counted in the end, however deep the queue: the
\* next scrapes catch up.  Unless another row of its calldate ended a page, a
\* restart skips it, or the first query for the columns failed.
CatchesUp ==
    \A c \in Calls :
        Pending(c) ~> \/ counted[c] > 0
                      \/ \E d \in Calls \ {c} : calldate[d] = calldate[c] /\ counted[d] > 0
                      \/ calldate[c] =< boot
                      \/ probe = "absent"
=============================================================================
