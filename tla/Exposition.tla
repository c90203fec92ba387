----------------------------- MODULE Exposition -----------------------------
(***************************************************************************)
(* What a scrape makes of the lists it has read: the samples collectCore,  *)
(* collectChannels, collectSIPPeers, collectPJSIPEndpoints,                *)
(* collectPJSIPContacts and collectQueues send to the registry.            *)
(*                                                                         *)
(* A sample is its metric, its labels and its value.  A row is a record of *)
(* the fields that are read, Blank where Asterisk gave none; the capital   *)
(* or lower-case form of a name makes no difference to a Message and is    *)
(* left out.                                                               *)
(***************************************************************************)
EXTENDS Scrape

CONSTANTS
    Blank,      \* a field that is missing or empty
    Row         \* of each list: the rows Asterisk may put in it

ASSUME ExpositionAssumption ==
    /\ DOMAIN Row = {"channels", "sip_peers", "pjsip_endpoints", "pjsip_contacts", "queues"}
    /\ \A r \in Row["pjsip_contacts"] : r.usec \in Int \cup {Blank}

\* New: the metrics and their number of labels.
Desc ==
    [channels_active |-> 0, channels_by_state |-> 1, calls_active |-> 0,
     sip_peer_up |-> 2, sip_peer_latency |-> 1, sip_peers |-> 1,
     pjsip_endpoint_up |-> 3, pjsip_endpoints |-> 2, pjsip_contact_rtt |-> 2,
     queue_callers |-> 1, queue_members |-> 2]

firstNonEmpty(vals) == FoldLeft(LAMBDA found, v : IF found = Blank THEN v ELSE found, Blank, vals)

Sample(metric, labels, value) == [metric |-> metric, labels |-> labels, value |-> value]

\* The map of counts a list is grouped into, by the labels of its rows: a sample
\* for every group.
Grouped(metric, labels) ==
    {Sample(metric, group, Cardinality({i \in DOMAIN labels : labels[i] = group})) :
        group \in {labels[i] : i \in DOMAIN labels}}

Truth(holds) == IF holds THEN 1 ELSE 0

collectChannels(rows) ==
    LET state(i) == <<firstNonEmpty(<<rows[i].stateDesc, rows[i].state, "Unknown">>)>>
        id(i) == firstNonEmpty(<<rows[i].linkedid, rows[i].uniqueid>>)
    IN  {Sample("channels_active", <<>>, Len(rows)),
         Sample("calls_active", <<>>, Cardinality({id(i) : i \in DOMAIN rows} \ {Blank}))}
            \cup Grouped("channels_by_state", [i \in DOMAIN rows |-> state(i)])

\* sipStatusKey: the first word of the status, here apart from its latency.
sipStatusKey(status) == firstNonEmpty(<<status, "UNKNOWN">>)

collectSIPPeers(rows) ==
    LET key(i) == sipStatusKey(rows[i].status)
    IN  {Sample("sip_peer_up", <<rows[i].peer, key(i)>>, Truth(key(i) = "OK")) : i \in DOMAIN rows}
            \cup {Sample("sip_peer_latency", <<rows[i].peer>>, rows[i].latency) :
                     i \in {j \in DOMAIN rows : rows[j].latency # Blank}}
            \cup Grouped("sip_peers", [i \in DOMAIN rows |-> <<key(i)>>])

pjsipUpStates == {"Not in use", "In use", "Busy", "Ringing", "Ring", "On Hold"}

\* classifyEndpoint; isNumericName is a field of the row.
classifyEndpoint(m) ==
    IF m.outboundAuths # Blank THEN "trunk"
    ELSE IF m.auths # Blank \/ m.numeric THEN "extension"
    ELSE "trunk"

\* Slip: an event of another kind is taken for an endpoint.
AllEvents(rows, event) == DOMAIN rows

\* The rows of a list that are its own events: others may sneak in.
OwnEvents(rows, event) == {i \in DOMAIN rows : rows[i].event = event}

collectPJSIPEndpoints(rows) ==
    LET own == OwnEvents(rows, "EndpointList")
        state(i) == firstNonEmpty(<<rows[i].deviceState, "Unknown">>)
        kind(i) == classifyEndpoint(rows[i])
    IN  {Sample("pjsip_endpoint_up", <<rows[i].endpoint, state(i), kind(i)>>,
                Truth(state(i) \in pjsipUpStates)) : i \in own}
            \cup Grouped("pjsip_endpoints", [i \in own |-> <<state(i), kind(i)>>])

\* Of the contacts of an endpoint and AOR the lowest round-trip time.
BestRTT(rows, ids) ==
    LET key(i) == <<rows[i].endpoint, rows[i].aor>>
    IN  {Sample("pjsip_contact_rtt", key(i), rows[i].usec) :
            i \in {j \in ids : \A l \in ids : key(l) = key(j) => rows[j].usec =< rows[l].usec}}

collectPJSIPContacts(rows) ==
    BestRTT(rows, {i \in OwnEvents(rows, "ContactList") :
                       /\ rows[i].endpoint # Blank
                       /\ rows[i].usec # Blank /\ rows[i].usec > 0})

\* queueMemberStatus, of the device states there are; another is kept.
queueMemberStatus(s) == firstNonEmpty(<<s, "unknown">>)

collectQueues(rows) ==
    LET named(event) == {i \in OwnEvents(rows, event) : rows[i].queue # Blank}
        params == {i \in named("QueueParams") : rows[i].calls # Blank}
    IN  {Sample("queue_callers", <<rows[i].queue>>, rows[i].calls) : i \in params}
            \cup Grouped("queue_members",
                         [i \in named("QueueMember") |->
                             <<rows[i].queue, queueMemberStatus(rows[i].status)>>])

\* What the phase of list p emits.
Samples(p, rows) ==
    CASE p = "channels" -> collectChannels(rows)
      [] p = "sip_peers" -> collectSIPPeers(rows)
      [] p = "pjsip_endpoints" -> collectPJSIPEndpoints(rows)
      [] p = "pjsip_contacts" -> collectPJSIPContacts(rows)
      [] p = "queues" -> collectQueues(rows)
-----------------------------------------------------------------------------
Series(samples, metric) == {s \in samples : s.metric = metric}

\* The sum of a metric over its series, which count something.
Total(samples, metric) ==
    Cardinality(UNION {{s} \X (1 .. s.value) : s \in Series(samples, metric)})

\* No two samples of one list have one name: the registry drops the family, and
\* the number of label values is the described one: MustNewConstMetric panics.
WellNamed(samples) ==
    \A s \in samples :
        /\ Len(s.labels) = Desc[s.metric]
        /\ \A t \in samples : s.metric = t.metric /\ s.labels = t.labels => s = t

\* The figures of one list agree with each other and with its rows.
AddsUp(p, rows) ==
    LET samples == Samples(p, rows)
        total(metric) == Total(samples, metric)
        \* The single gauges whose labels from the second on are those of a group.
        single(metric, group) ==
            {s \in Series(samples, metric) : Tail(s.labels) = group.labels}
    IN  CASE p = "channels" ->
               /\ total("channels_by_state") = total("channels_active")
               /\ total("calls_active") =< total("channels_active")
          [] p = "sip_peers" ->
               /\ total("sip_peers") = Len(rows)
               /\ \A g \in Series(samples, "sip_peers") : g.value = Cardinality(single("sip_peer_up", g))
          [] p = "pjsip_endpoints" ->
               /\ total("pjsip_endpoints") = Cardinality({i \in DOMAIN rows : rows[i].event = "EndpointList"})
               /\ \A g \in Series(samples, "pjsip_endpoints") :
                      g.value = Cardinality(single("pjsip_endpoint_up", g))
          [] p = "pjsip_contacts" ->
               \A i \in DOMAIN rows :
                   rows[i].event = "ContactList" /\ rows[i].usec # Blank /\ rows[i].usec > 0 =>
                       \A s \in samples : s.labels = <<rows[i].endpoint, rows[i].aor>> => s.value =< rows[i].usec
          [] p = "queues" ->
               total("queue_members")
                   = Cardinality({i \in DOMAIN rows : rows[i].event = "QueueMember" /\ rows[i].queue # Blank})

\* Asterisk lists a peer, an endpoint and a queue once.
ListedOnce(p, rows) ==
    \A i, j \in DOMAIN rows : i # j =>
        CASE p = "sip_peers" -> rows[i].peer # rows[j].peer
          [] p = "pjsip_endpoints" -> rows[i].endpoint # rows[j].endpoint
          [] p = "queues" -> ~(rows[i].event = "QueueParams" /\ rows[j].event = "QueueParams"
                                   /\ rows[i].queue = rows[j].queue)
          [] OTHER -> TRUE

\* When a scrape says up = 1, whatever the rows of its lists said, no series comes
\* twice, which would cost the family, and the grouped gauges add up to the
\* single ones: channels by state to the channels, of which there are no fewer
\* than calls, peers and endpoints to theirs, members to the rows of the queues.
\* The scrape looks at no row, so this is asked of each list the exporter knows.
SeriesAddUp ==
    at = "report" /\ ~firstErr =>
        \A n \in {emitted[q] : q \in ListPhases} \cap 1 .. MaxItems, p \in DOMAIN Row :
            \A rows \in [1 .. n -> Row[p]] : ListedOnce(p, rows) =>
                WellNamed(Samples(p, rows)) /\ AddsUp(p, rows)
=============================================================================
