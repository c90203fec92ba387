--------------------------- MODULE RegistrationLog ---------------------------
(***************************************************************************)
(* The PJSIP registration history: ContactStatus events and the contact    *)
(* list of a reconcile become rows of pjsip_registration_events            *)
(* (internal/ami/listener.go), and the state of an extension at an instant *)
(* is inferred from the rows (internal/data/pjsip_reg_repo.go).            *)
(*                                                                         *)
(* The row number is the AUTO_INCREMENT id.  A clock step is the           *)
(* resolution of event_time, DATETIME(3), so several rows may share a      *)
(* time.  Addresses, user agents and round-trip times are left out.        *)
(***************************************************************************)
EXTENDS Integers, SequencesExt

CONSTANTS
    Contacts,       \* registered contacts (AOR bindings)
    Endpoints,      \* extensions
    Owner,          \* the endpoint of each contact
    Qualified,      \* the contacts Asterisk probes with OPTIONS
    Lifetime,       \* how long a registration lasts
    MaxTime,        \* bound on the clock
    MaxRows,        \* bound on the rows written
    Losses          \* TRUE: an INSERT may fail

ASSUME LogAssumption ==
    /\ IsFiniteSet(Contacts)
    /\ Owner \in [Contacts -> Endpoints]
    /\ Qualified \subseteq Contacts
    /\ Lifetime \in Nat \ {0} /\ MaxTime \in Nat /\ MaxRows \in Nat
    /\ Losses \in BOOLEAN

Statuses == {"Created", "Updated", "Reachable", "Unreachable", "Removed", "NonQualified"}

VARIABLES
    now,        \* the clock
    state,      \* of each contact in Asterisk: "absent", "usable", "unreachable"
    expiry,     \* when its last registration runs out
    connected,  \* the listener has a session
    rows,       \* the table, in the order of the ids
    unheard     \* history: endpoints about which the last news was not written

vars == <<now, state, expiry, connected, rows, unheard>>

Init ==
    /\ now = 0
    /\ state = [c \in Contacts |-> "absent"]
    /\ expiry = [c \in Contacts |-> 0]
    /\ connected = TRUE
    /\ rows = <<>>
    /\ unheard = {}
-----------------------------------------------------------------------------
(* Writing rows.                                                           *)

\* Slip: the row carries the time its registration began.
BackdatedRow(c, status, expire) ==
    [time |-> IF expire > Lifetime THEN expire - Lifetime ELSE 0,
     endpoint |-> Owner[c], status |-> status, expire |-> expire]

\* A row as parseContactStatus and parseContactList make it: the clock is the
\* listener's, the rest is the event's.
RowOf(c, status, expire) ==
    [time |-> now, endpoint |-> Owner[c], status |-> status, expire |-> expire]

\* What becomes of news: rows that reach the table, and rows that do not.
Written(kept, missed) ==
    /\ Len(rows) + Len(kept) =< MaxRows
    /\ rows' = rows \o kept
    /\ unheard' = (unheard \ {kept[i].endpoint : i \in DOMAIN kept})
                      \cup {missed[i].endpoint : i \in DOMAIN missed}

\* persist, for the row parsed from one event.  A failed INSERT is only logged,
\* and without a session there is no event.
Persist(row) ==
    \/ connected /\ Written(<<row>>, <<>>)
    \/ (~connected \/ Losses) /\ Written(<<>>, <<row>>)

Tell(c, status) == Persist(RowOf(c, status, expiry'[c]))

\* The events of Asterisk: a contact registers anew,
Register(c) ==
    /\ state[c] = "absent"
    /\ state' = [state EXCEPT ![c] = "usable"]
    /\ expiry' = [expiry EXCEPT ![c] = now + Lifetime]
    /\ Tell(c, "Created")
    /\ UNCHANGED <<now, connected>>

\* renews its registration, which shows that it can be reached,
Refresh(c) ==
    /\ state[c] # "absent"
    /\ state' = [state EXCEPT ![c] = "usable"]
    /\ expiry' = [expiry EXCEPT ![c] = now + Lifetime]
    /\ Tell(c, "Updated")
    /\ UNCHANGED <<now, connected>>

\* is probed and has changed,
Probe(c) ==
    /\ c \in Qualified
    /\ \/ /\ state[c] = "usable"
          /\ state' = [state EXCEPT ![c] = "unreachable"]
          /\ UNCHANGED expiry
          /\ Tell(c, "Unreachable")
       \/ /\ state[c] = "unreachable"
          /\ state' = [state EXCEPT ![c] = "usable"]
          /\ UNCHANGED expiry
          /\ Tell(c, "Reachable")
    /\ UNCHANGED <<now, connected>>

\* or unregisters or expires.
Unregister(c) ==
    /\ state[c] # "absent"
    /\ state' = [state EXCEPT ![c] = "absent"]
    /\ UNCHANGED expiry
    /\ Tell(c, "Removed")
    /\ UNCHANGED <<now, connected>>

\* The Status field of a ContactList row.
ListedStatus(c) ==
    IF c \notin Qualified THEN "NonQualified"
    ELSE IF state[c] = "usable" THEN "Reachable" ELSE "Unreachable"

\* Slip: no contact list is asked for.
ConnectsOnly ==
    /\ ~connected
    /\ connected' = TRUE
    /\ unheard' = {}
    /\ UNCHANGED <<now, state, expiry, rows>>

\* A new session, whose PJSIPShowContacts lists the contacts there are, each
\* row persisted by itself.  Of a contact that has gone nothing is listed.
Reconnect ==
    LET listed == {c \in Contacts : state[c] # "absent"}
        ListedRow(c) == RowOf(c, ListedStatus(c), expiry[c])
    IN  /\ ~connected
        /\ connected' = TRUE
        /\ \E kept \in IF Losses THEN SUBSET listed ELSE {listed} :
            \E order \in SetToSeqs(kept), others \in SetToSeqs(listed \ kept) :
                Written([i \in DOMAIN order |-> ListedRow(order[i])],
                        [i \in DOMAIN others |-> ListedRow(others[i])])
        /\ UNCHANGED <<now, state, expiry>>

Disconnect ==
    /\ connected
    /\ connected' = FALSE
    /\ UNCHANGED <<now, state, expiry, rows, unheard>>

\* Asterisk removes a contact before its registration is over.
Tick ==
    /\ now < MaxTime
    /\ \A c \in Contacts : state[c] # "absent" => now < expiry[c]
    /\ now' = now + 1
    /\ UNCHANGED <<state, expiry, connected, rows, unheard>>

Next ==
    \/ \E c \in Contacts : Register(c) \/ Refresh(c) \/ Probe(c) \/ Unregister(c)
    \/ Reconnect
    \/ Disconnect
    \/ Tick

Spec == Init /\ [][Next]_vars
-----------------------------------------------------------------------------
(* Reading them.                                                           *)

\* IsRegistered, and the list in the SQL of ListRegisteredAt.
IsRegistered(status) == status \in {"Created", "Updated", "Reachable", "Unqualified"}

\* The rows of an endpoint up to an instant.
Prior(ep, at) == {i \in DOMAIN rows : rows[i].endpoint = ep /\ rows[i].time =< at}

\* ORDER BY event_time DESC, id DESC
Newer(i, j) == rows[i].time > rows[j].time \/ (rows[i].time = rows[j].time /\ i > j)

Latest(ids) == CHOOSE i \in ids : \A j \in ids \ {i} : Newer(i, j)

\* Slip: an expiry that has passed is not looked at.
TrustsLastRow(ep, at) ==
    LET ids == Prior(ep, at)
    IN  ids # {} /\ IsRegistered(rows[Latest(ids)].status)

\* GetStatusAt, its Registered field.
GetStatusAt(ep, at) ==
    LET ids == Prior(ep, at)
        e == rows[Latest(ids)]
    IN  ids # {} /\ IsRegistered(e.status) /\ ~(e.expire < at)

\* Slip: a registration that lapsed unheard is listed.
ListsLapsed(at) ==
    {i \in DOMAIN rows :
        /\ rows[i].time =< at
        /\ \A j \in Prior(rows[i].endpoint, at) : rows[j].time =< rows[i].time
        /\ IsRegistered(rows[i].status)}

\* ListRegisteredAt, the rows it returns.
ListRegisteredAt(at) ==
    {i \in DOMAIN rows :
        /\ rows[i].time =< at
        /\ \A j \in Prior(rows[i].endpoint, at) : rows[j].time =< rows[i].time
        /\ IsRegistered(rows[i].status)
        /\ rows[i].expire > at}

\* regStatusToProto: what Asterisk calls otherwise than the module is not told.
regStatusToProto(status) ==
    IF status \in {"Created", "Updated", "Reachable", "Unreachable", "Removed", "Unknown", "Unqualified"}
    THEN status ELSE "Unspecified"

\* GetRegistrationStatus, its answer about an extension: status and last event
\* are those of the row found, also when its registration has run out.
GetRegistrationStatus(ep, at) ==
    LET ids == Prior(ep, at)
    IN  [registered |-> GetStatusAt(ep, at),
         status |-> IF ids = {} THEN "Unspecified" ELSE regStatusToProto(rows[Latest(ids)].status),
         lastEvent |-> IF ids = {} THEN {} ELSE {rows[Latest(ids)].time}]

\* ListRegisteredAt of the service, an entry for each row found.
RegisteredEndpoints(at) ==
    [i \in ListRegisteredAt(at) |->
        [endpoint |-> rows[i].endpoint,
         status |-> regStatusToProto(rows[i].status),
         lastEvent |-> rows[i].time]]

\* GetCall's note beside a leg that began at calldate, for the extension it
\* dialled: the status as it is stored, and none when the leg names no extension.
DialedRegistration(ext, calldate) ==
    IF ext \notin Endpoints THEN {}
    ELSE LET ids == Prior(ext, calldate)
         IN  {[registered |-> GetStatusAt(ext, calldate),
               lastStatus |-> IF ids = {} THEN "" ELSE rows[Latest(ids)].status,
               lastEvent |-> IF ids = {} THEN {} ELSE {rows[Latest(ids)].time}]}

\* Slip: the pages are counted from one.
FromPageOne(from, to, page, size) ==
    LET found == {i \in DOMAIN rows : from =< rows[i].time /\ rows[i].time < to}
        Rank(i) == Cardinality({j \in found : Newer(j, i)})
        Offset == (page - 1) * size
    IN  {i \in found : Offset =< Rank(i) /\ Rank(i) < Offset + size}

\* ListEvents, the rows of a page: newest first, LIMIT size OFFSET page * size.
ListEvents(from, to, page, size) ==
    LET found == {i \in DOMAIN rows : from =< rows[i].time /\ rows[i].time < to}
        Rank(i) == Cardinality({j \in found : Newer(j, i)})
        Offset == page * size
    IN  {i \in found : Offset =< Rank(i) /\ Rank(i) < Offset + size}
-----------------------------------------------------------------------------
(* What the history can be relied on for.                                  *)

TypeOK ==
    /\ now \in 0 .. MaxTime
    /\ state \in [Contacts -> {"absent", "usable", "unreachable"}]
    /\ expiry \in [Contacts -> Nat]
    /\ connected \in BOOLEAN
    /\ \A i \in DOMAIN rows :
        /\ rows[i].status \in Statuses
        /\ rows[i].time =< now
        /\ \A j \in 1 .. i : rows[j].time =< rows[i].time
    /\ unheard \subseteq Endpoints

Usable(ep) == \E c \in Contacts : Owner[c] = ep /\ state[c] = "usable"

\* While the listener is connected, an extension that can be reached is reported
\* as registered, also after an outage in which it came or changed (reconcile
\* writes what the missed events would have), unless the last news of it was
\* not written: its INSERT failed.
NoFalseOffline ==
    connected => \A ep \in Endpoints \ unheard : Usable(ep) => GetStatusAt(ep, now)

\* An extension reported as registered can be reached, unless news of it was
\* not written; and then its phone has registered less than a lifetime ago,
\* for a registration that lapses unheard does not count for longer than that.
NoFalseOnline ==
    connected => \A ep \in Endpoints :
        GetStatusAt(ep, now) =>
            \/ Usable(ep)
            \/ ep \in unheard /\ \E c \in Contacts : Owner[c] = ep /\ now =< expiry[c]

\* Two rows of ep share the latest time, or its registration ends just then.
Edge(ep, at) ==
    LET ids == Prior(ep, at)
    IN  ids # {} /\ \/ rows[Latest(ids)].expire = at
                    \/ \E i \in ids \ {Latest(ids)} : rows[i].time = rows[Latest(ids)].time

\* Two rows of one instant and the very instant of an expiry are all that the
\* two queries disagree about: at any other instant the list of the registered
\* names an extension once, with the status and the event its own page shows, or
\* not at all, as that page and the note beside a call to it say.
AgreeOffTheEdges ==
    \A at \in 0 .. now : LET listed == RegisteredEndpoints(at) IN
        \A ep \in {e \in Endpoints : ~Edge(e, at)} :
            LET own == GetRegistrationStatus(ep, at)
                found == {i \in DOMAIN listed : listed[i].endpoint = ep}
            IN  /\ Cardinality(found) = IF own.registered THEN 1 ELSE 0
                /\ \A i \in found : /\ listed[i].status = own.status
                                    /\ {listed[i].lastEvent} = own.lastEvent
                /\ \A note \in DialedRegistration(ep, at) :
                    /\ note.registered = own.registered /\ note.lastEvent = own.lastEvent
                    /\ note.registered => regStatusToProto(note.lastStatus) = own.status

\* What was answered about an instant that is over stays the answer: events,
\* reconciles and outages to come add nothing to the past (GetCall puts the
\* state of the dialled extension at the time of the call beside each leg).
PastIsFixed ==
    [][\A at \in 0 .. now - 1 : \A ep \in Endpoints :
          GetStatusAt(ep, at)' = GetStatusAt(ep, at)]_vars

\* The pages of a listing, as many as its number of rows takes, hold every row
\* of the range, each in one page.
PagesPartition ==
    \A size \in 1 .. 2 : \A from \in 0 .. now :
        LET found == {i \in DOMAIN rows : from =< rows[i].time /\ rows[i].time < now}
            last == (Cardinality(found) - 1) \div size
        IN  \A i \in found :
                Cardinality({page \in 0 .. last : i \in ListEvents(from, now, page, size)}) = 1
=============================================================================
