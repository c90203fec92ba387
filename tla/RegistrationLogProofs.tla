------------------------ MODULE RegistrationLogProofs ------------------------
(***************************************************************************)
(* Theorems about RegistrationLog, for every set of contacts and endpoints *)
(* and every lifetime, length of the table and number of lost rows.        *)
(*                                                                         *)
(* The rows are in the order of their times, so the latest row of an       *)
(* endpoint is the one with the greatest id; and unless the last news of   *)
(* an endpoint was not written, that row was written when the endpoint     *)
(* last changed.  The queries are then compared with what the row says.    *)
(***************************************************************************)
EXTENDS RegistrationLog, SequenceTheorems, FiniteSetTheorems, WellFoundedInduction, TLAPS

\* Each extension has one phone.
OnePhoneEach == \A c, d \in Contacts : Owner[c] = Owner[d] => c = d

EventRow == [time : Nat, endpoint : Endpoints, status : Statuses, expire : Nat]

TypeInv ==
    /\ now \in 0 .. MaxTime
    /\ state \in [Contacts -> {"absent", "usable", "unreachable"}]
    /\ expiry \in [Contacts -> Nat]
    /\ connected \in BOOLEAN
    /\ rows \in Seq(EventRow)
    /\ unheard \subseteq Endpoints

\* The ids are in the order of the times, and no row is of the future.
OrderInv ==
    /\ \A i \in DOMAIN rows : rows[i].time =< now
    /\ \A i, j \in DOMAIN rows : i < j => rows[i].time =< rows[j].time

\* A registration that counts in Asterisk runs until now at least, and none
\* for longer than a lifetime.
ExpiryInv ==
    /\ \A c \in Contacts : state[c] # "absent" => now =< expiry[c]
    /\ \A c \in Contacts : expiry[c] =< now + Lifetime

\* No row promises more than some phone of its extension has registered for.
BackedInv ==
    \A i \in DOMAIN rows : \E c \in Contacts :
        Owner[c] = rows[i].endpoint /\ rows[i].expire =< expiry[c]

IsLast(ep, i) ==
    /\ i \in DOMAIN rows /\ rows[i].endpoint = ep
    /\ \A j \in DOMAIN rows : rows[j].endpoint = ep => j =< i

\* Where the last news was written, a last row that counts as registered is of
\* an extension that can be reached.
OnlineInv ==
    \A ep \in Endpoints \ unheard : \A i \in DOMAIN rows :
        IsLast(ep, i) /\ IsRegistered(rows[i].status) => Usable(ep)

LogInv ==
    /\ TypeInv
    /\ OrderInv
    /\ ExpiryInv
    /\ BackedInv
    /\ OnlineInv

\* ... and one that can be reached has such a row, with the expiry of its
\* phone's registration.
OfflineInv ==
    \A c \in Contacts : state[c] = "usable" /\ Owner[c] \notin unheard =>
        \E i \in DOMAIN rows : /\ IsLast(Owner[c], i)
                               /\ IsRegistered(rows[i].status)
                               /\ rows[i].expire = expiry[c]
-----------------------------------------------------------------------------
(***************************************************************************)
(* The latest row of a set of them.                                        *)
(***************************************************************************)

LEMMA LeastNatural ==
    ASSUME NEW S, S \subseteq Nat, S # {}
    PROVE  \E m \in S : \A n \in S : m =< n
<1>1. PICK m \in S : \A n \in S : ~(<<n, m>> \in OpToRel(<, Nat))
    BY NatLessThanWellFounded, WFMin, Zenon
<1>2. \A n \in S : ~(n < m)
    BY <1>1, Zenon DEF OpToRel
<1>3. \A n \in S : m =< n
    BY <1>2
<1> QED BY <1>3

LEMMA GreatestId ==
    ASSUME NEW n \in Nat, NEW ids \in SUBSET (1 .. n), ids # {}
    PROVE  \E m \in ids : \A j \in ids : j =< m
<1> DEFINE S == {n - i : i \in ids}
<1>1. S \subseteq Nat /\ S # {}
    <2>1. \A i \in ids : i \in 1 .. n /\ n - i \in Nat
        OBVIOUS
    <2> QED BY <2>1
<1> HIDE DEF S
<1>2. PICK k \in S : \A j \in S : k =< j
    BY <1>1, LeastNatural
<1>3. PICK m \in ids : k = n - m
    BY DEF S
<1>4. ASSUME NEW j \in ids PROVE j =< m
    <2>1. n - j \in S
        BY DEF S
    <2>2. n - m =< n - j
        BY <1>2, <1>3, <2>1
    <2> QED BY <2>2
<1> QED BY <1>4

LEMMA RowsShape ==
    ASSUME TypeInv
    PROVE  /\ DOMAIN rows = 1 .. Len(rows) /\ Len(rows) \in Nat
           /\ \A i \in DOMAIN rows : /\ i \in Nat /\ rows[i].time \in Nat /\ rows[i].expire \in Nat
                                     /\ rows[i].endpoint \in Endpoints
                                     /\ rows[i].status \in Statuses
<1>1. rows \in Seq(EventRow)
    BY DEF TypeInv
<1>2. \A i \in DOMAIN rows : i \in Nat /\ rows[i] \in EventRow
    BY <1>1
<1> QED BY <1>1, <1>2 DEF EventRow

\* ORDER BY event_time DESC, id DESC LIMIT 1 finds the greatest id, for the
\* rows are written in the order of their times.
LatestIsGreatest ==
    \A ids \in SUBSET DOMAIN rows : \A m \in ids :
        (\A j \in ids : j =< m) => Latest(ids) = m

LEMMA LatestIsLast == TypeInv /\ OrderInv => LatestIsGreatest
<1> SUFFICES ASSUME TypeInv, OrderInv, NEW ids \in SUBSET DOMAIN rows, NEW m \in ids,
                    \A j \in ids : j =< m
             PROVE  Latest(ids) = m
    BY DEF LatestIsGreatest
<1>1. \A i \in ids : i \in DOMAIN rows /\ i \in Nat /\ rows[i].time \in Nat
    BY RowsShape
<1>2. \A j \in ids \ {m} : Newer(m, j)
    <2> SUFFICES ASSUME NEW j \in ids \ {m} PROVE Newer(m, j)
        OBVIOUS
    <2>1. j < m
        BY <1>1
    <2>2. rows[j].time =< rows[m].time
        BY <1>1, <2>1 DEF OrderInv
    <2> QED BY <1>1, <2>1, <2>2 DEF Newer
<1>3. ASSUME NEW x \in ids, \A j \in ids \ {x} : Newer(x, j)
      PROVE  x = m
    <2> SUFFICES ASSUME x # m PROVE FALSE
        OBVIOUS
    <2>1. x < m
        BY <1>1
    <2>2. rows[x].time =< rows[m].time
        BY <1>1, <2>1 DEF OrderInv
    <2>3. Newer(x, m)
        BY <1>3
    <2> QED BY <1>1, <2>1, <2>2, <2>3 DEF Newer
<1> QED BY <1>2, <1>3 DEF Latest

LEMMA LatestIsLastNext == TypeInv' /\ OrderInv' => LatestIsGreatest'
BY LatestIsLast, PTL

\* There is a latest row of an endpoint up to an instant, if there is a row.
LEMMA LatestExists ==
    ASSUME TypeInv, OrderInv, NEW ep, NEW at, Prior(ep, at) # {}
    PROVE  /\ Latest(Prior(ep, at)) \in Prior(ep, at)
           /\ \A j \in Prior(ep, at) : j =< Latest(Prior(ep, at))
<1> DEFINE ids == Prior(ep, at)
<1>1. ids \in SUBSET DOMAIN rows
    BY DEF Prior
<1> HIDE DEF ids
<1>2. PICK m \in ids : \A j \in ids : j =< m
    BY <1>1, RowsShape, GreatestId DEF ids
<1>3. Latest(ids) = m
    BY <1>1, <1>2, LatestIsLast DEF LatestIsGreatest
<1> QED BY <1>2, <1>3 DEF ids

\* Now, it is the last row of the endpoint.
LEMMA LatestNow ==
    ASSUME TypeInv, OrderInv, NEW ep, NEW i, IsLast(ep, i)
    PROVE  Prior(ep, now) # {} /\ Latest(Prior(ep, now)) = i
<1>1. i \in Prior(ep, now) /\ \A j \in Prior(ep, now) : j =< i
    BY DEF IsLast, Prior, OrderInv
<1>2. Prior(ep, now) \in SUBSET DOMAIN rows
    BY DEF Prior
<1> QED BY <1>1, <1>2, LatestIsLast DEF LatestIsGreatest
-----------------------------------------------------------------------------
(***************************************************************************)
(* The queries, over any table in that order.                              *)
(***************************************************************************)

\* The two queries of the registration state and the note of a call agree
\* but for ties and the instant of an expiry.
LEMMA QueriesAgree == TypeInv /\ OrderInv => AgreeOffTheEdges
<1> SUFFICES ASSUME TypeInv, OrderInv, NEW at \in 0 .. now,
                    NEW ep \in Endpoints, ~Edge(ep, at)
             PROVE  LET listed == RegisteredEndpoints(at)
                        own == GetRegistrationStatus(ep, at)
                        found == {i \in DOMAIN listed : listed[i].endpoint = ep}
                    IN  /\ Cardinality(found) = IF own.registered THEN 1 ELSE 0
                        /\ \A i \in found : /\ listed[i].status = own.status
                                            /\ {listed[i].lastEvent} = own.lastEvent
                        /\ \A note \in DialedRegistration(ep, at) :
                            /\ note.registered = own.registered
                            /\ note.lastEvent = own.lastEvent
                            /\ note.registered => regStatusToProto(note.lastStatus) = own.status
    BY DEF AgreeOffTheEdges
<1> DEFINE listed == RegisteredEndpoints(at)
           own == GetRegistrationStatus(ep, at)
           found == {i \in DOMAIN listed : listed[i].endpoint = ep}
           ids == Prior(ep, at)
           m == Latest(ids)
<1>1. at \in Nat /\ \A i \in DOMAIN rows : rows[i].time \in Nat /\ rows[i].expire \in Nat
    BY RowsShape DEF TypeInv
<1>2. /\ DOMAIN listed = ListRegisteredAt(at)
      /\ \A i \in DOMAIN listed : /\ listed[i].endpoint = rows[i].endpoint
                                  /\ listed[i].status = regStatusToProto(rows[i].status)
                                  /\ listed[i].lastEvent = rows[i].time
    BY DEF RegisteredEndpoints
<1>3. /\ own.registered = GetStatusAt(ep, at)
      /\ own.status = IF ids = {} THEN "Unspecified" ELSE regStatusToProto(rows[m].status)
      /\ own.lastEvent = IF ids = {} THEN {} ELSE {rows[m].time}
    BY DEF GetRegistrationStatus
<1>4. \A note \in DialedRegistration(ep, at) :
          /\ note.registered = GetStatusAt(ep, at)
          /\ note.lastStatus = IF ids = {} THEN "" ELSE rows[m].status
          /\ note.lastEvent = IF ids = {} THEN {} ELSE {rows[m].time}
    <2> DEFINE the == [registered |-> GetStatusAt(ep, at),
                       lastStatus |-> IF ids = {} THEN "" ELSE rows[m].status,
                       lastEvent |-> IF ids = {} THEN {} ELSE {rows[m].time}]
    <2>1. \A note \in DialedRegistration(ep, at) : note = the
        BY Zenon DEF DialedRegistration
    <2>2. /\ the.registered = GetStatusAt(ep, at)
          /\ the.lastStatus = IF ids = {} THEN "" ELSE rows[m].status
          /\ the.lastEvent = IF ids = {} THEN {} ELSE {rows[m].time}
        OBVIOUS
    <2> QED BY <2>1, <2>2, Zenon
<1>5. ids # {} => m \in ids /\ \A j \in ids : j =< m
    BY LatestExists
<1>6. found \subseteq ids
    BY <1>2 DEF ListRegisteredAt, Prior
<1>7. ids \subseteq DOMAIN rows
    BY DEF Prior
<1>8. ids # {} => /\ rows[m].expire # at
                  /\ \A i \in ids : rows[i].time = rows[m].time => i = m
    BY DEF Edge
<1>9. ASSUME NEW i \in found PROVE i = m
    <2>1. i \in ids /\ m \in ids
        BY <1>5, <1>6
    <2>2. rows[m].time =< rows[i].time
        BY <1>2, <2>1 DEF ListRegisteredAt, Prior
    <2>3. i # m => rows[i].time =< rows[m].time
        <3>1. i =< m /\ i \in Nat /\ m \in Nat
            BY <1>5, <1>7, <2>1, RowsShape
        <3> QED BY <1>7, <2>1, <3>1 DEF OrderInv
    <2>4. rows[i].time \in Nat /\ rows[m].time \in Nat
        BY <1>1, <1>7, <2>1
    <2>5. i # m => rows[i].time = rows[m].time
        BY <2>2, <2>3, <2>4
    <2> QED BY <1>8, <2>1, <2>5
<1>10. GetStatusAt(ep, at) <=> ids # {} /\ IsRegistered(rows[m].status) /\ ~(rows[m].expire < at)
    BY DEF GetStatusAt
<1>11. m \in found <=> GetStatusAt(ep, at)
    <2>1. ASSUME m \in found PROVE GetStatusAt(ep, at)
        <3>1. ids # {} /\ m \in ListRegisteredAt(at)
            BY <1>2, <1>6, <2>1
        <3>2. IsRegistered(rows[m].status) /\ rows[m].expire > at
            BY <3>1 DEF ListRegisteredAt
        <3>3. rows[m].expire \in Nat
            BY <1>1, <1>5, <1>7, <3>1
        <3> QED BY <1>1, <1>10, <3>1, <3>2, <3>3
    <2>2. ASSUME GetStatusAt(ep, at) PROVE m \in found
        <3>1. ids # {} /\ IsRegistered(rows[m].status) /\ ~(rows[m].expire < at)
            BY <1>10, <2>2
        <3>2. m \in ids /\ rows[m].expire \in Nat
            BY <1>1, <1>5, <1>7, <3>1
        <3>3. rows[m].expire > at
            BY <1>1, <1>8, <3>1, <3>2
        <3>4. rows[m].endpoint = ep /\ rows[m].time =< at /\ m \in DOMAIN rows
            BY <3>2 DEF Prior
        <3>5. \A j \in Prior(rows[m].endpoint, at) : rows[j].time =< rows[m].time
            <4> SUFFICES ASSUME NEW j \in ids PROVE rows[j].time =< rows[m].time
                BY <3>4
            <4>1. j =< m /\ j \in DOMAIN rows /\ j \in Nat /\ m \in Nat
                BY <1>5, <1>7, <3>1, <3>4, RowsShape
            <4>2. CASE j = m
                BY <1>1, <3>4, <4>2
            <4>3. CASE j # m
                BY <3>4, <4>1, <4>3 DEF OrderInv
            <4> QED BY <4>2, <4>3
        <3>6. m \in ListRegisteredAt(at)
            BY <3>1, <3>3, <3>4, <3>5 DEF ListRegisteredAt
        <3> QED BY <1>2, <3>4, <3>6
    <2> QED BY <2>1, <2>2
<1> HIDE DEF listed, own, found, ids, m
<1>12. Cardinality(found) = IF own.registered THEN 1 ELSE 0
    <2>1. CASE GetStatusAt(ep, at)
        <3>1. found = {m}
            BY <1>9, <1>11, <2>1
        <3> QED BY <1>3, <2>1, <3>1, FS_Singleton
    <2>2. CASE ~GetStatusAt(ep, at)
        <3>1. found = {}
            BY <1>9, <1>11, <2>2
        <3> QED BY <1>3, <2>2, <3>1, FS_EmptySet
    <2> QED BY <2>1, <2>2
<1>13. \A i \in found : listed[i].status = own.status /\ {listed[i].lastEvent} = own.lastEvent
    <2> SUFFICES ASSUME NEW i \in found
                 PROVE  listed[i].status = own.status /\ {listed[i].lastEvent} = own.lastEvent
        OBVIOUS
    <2>1. i = m /\ ids # {}
        BY <1>6, <1>9
    <2>2. i \in DOMAIN listed
        BY DEF found
    <2> QED BY <1>2, <1>3, <2>1, <2>2
<1>14. \A note \in DialedRegistration(ep, at) :
          /\ note.registered = own.registered /\ note.lastEvent = own.lastEvent
          /\ note.registered => regStatusToProto(note.lastStatus) = own.status
    BY <1>3, <1>4, <1>10
<1> QED BY <1>12, <1>13, <1>14 DEF listed, own, found

\* Each row of a range is in one page: the one its rank falls in.
LEMMA PagesHoldEachRow == TypeInv => PagesPartition
<1> SUFFICES ASSUME TypeInv, NEW size \in 1 .. 2, NEW from \in 0 .. now
             PROVE  LET found == {i \in DOMAIN rows : from =< rows[i].time /\ rows[i].time < now}
                        last == (Cardinality(found) - 1) \div size
                    IN  \A i \in found :
                            Cardinality({page \in 0 .. last :
                                            i \in ListEvents(from, now, page, size)}) = 1
    BY DEF PagesPartition
<1> DEFINE found == {i \in DOMAIN rows : from =< rows[i].time /\ rows[i].time < now}
           Rank(i) == Cardinality({j \in found : Newer(j, i)})
           last == (Cardinality(found) - 1) \div size
<1>1. IsFiniteSet(found)
    <2>1. DOMAIN rows = 1 .. Len(rows) /\ Len(rows) \in Nat
        BY RowsShape
    <2>2. IsFiniteSet(DOMAIN rows)
        BY <2>1, FS_Interval
    <2> QED BY <2>2, FS_Subset
<1> SUFFICES ASSUME NEW i \in found
             PROVE  Cardinality({page \in 0 .. last : i \in ListEvents(from, now, page, size)}) = 1
    OBVIOUS
<1>2. rows[i].time \in Nat /\ i \in Nat /\ i \in found
    BY RowsShape
<1> DEFINE newer == {j \in found : Newer(j, i)}
           rank == Cardinality(newer)
           number == Cardinality(found)
<1>3. newer \subseteq found \ {i}
    BY <1>2 DEF Newer
<1>4. rank \in Nat /\ number \in Nat /\ rank =< number - 1
    <2> HIDE DEF newer, found
    <2>1. /\ IsFiniteSet(found \ {i})
          /\ Cardinality(found \ {i}) = Cardinality(found) - 1
        BY <1>1, <1>2, FS_RemoveElement
    <2>2. IsFiniteSet(newer) /\ Cardinality(newer) =< Cardinality(found \ {i})
        BY <1>3, <2>1, FS_Subset
    <2> QED BY <1>1, <2>1, <2>2, FS_CardinalityType
<1>5. \A page \in 0 .. last : i \in ListEvents(from, now, page, size)
                              <=> page * size =< rank /\ rank < page * size + size
    BY DEF ListEvents
<1> HIDE DEF found, newer, rank, number
<1>6. last = (number - 1) \div size
    BY DEF number
<1> HIDE DEF last
<1>7. \E k \in 0 .. last :
          {page \in 0 .. last : page * size =< rank /\ rank < page * size + size} = {k}
    <2>1. CASE size = 1
        <3>1. last = number - 1
            BY <1>4, <1>6, <2>1
        <3>2. {page \in 0 .. last : page * size =< rank /\ rank < page * size + size} = {rank}
            BY <1>4, <2>1, <3>1
        <3> QED BY <1>4, <3>1, <3>2
    <2>2. CASE size = 2
        <3> DEFINE half == rank \div 2
        <3>1. half \in Nat /\ 2 * half =< rank /\ rank < 2 * half + 2
            BY <1>4
        <3>2. last \in Int /\ 2 * last =< number - 1 /\ number - 1 < 2 * last + 2
            BY <1>4, <1>6, <2>2
        <3> HIDE DEF half
        <3>3. half \in 0 .. last
            BY <1>4, <3>1, <3>2
        <3>4. \A page \in 0 .. last : page * 2 =< rank /\ rank < page * 2 + 2 <=> page = half
            BY <1>4, <3>1, <3>2
        <3> QED BY <2>2, <3>3, <3>4
    <2> QED BY <2>1, <2>2
<1>8. PICK k \in 0 .. last : {page \in 0 .. last : i \in ListEvents(from, now, page, size)} = {k}
    BY <1>5, <1>7
<1> QED BY <1>8, FS_Singleton
-----------------------------------------------------------------------------
(***************************************************************************)
(* What the steps have in common: rows are told, of a contact as it is     *)
(* after the step, and each contact that changes is told of.               *)
(***************************************************************************)

About(row, c) ==
    /\ row.time = now /\ row.endpoint = Owner[c] /\ row.expire = expiry'[c]
    /\ IsRegistered(row.status) => state'[c] = "usable"
    /\ c \in Qualified /\ state'[c] = "usable" => IsRegistered(row.status)

Names(told, ep) == \E k \in DOMAIN told : told[k].endpoint = ep

Told(kept, missed) ==
    /\ kept \in Seq(EventRow) /\ missed \in Seq(EventRow)
    /\ Written(kept, missed)
    /\ now' = now
    /\ state' \in [Contacts -> {"absent", "usable", "unreachable"}]
    /\ expiry' \in [Contacts -> Nat]
    /\ connected' \in BOOLEAN
    /\ ExpiryInv'
    /\ \A k \in DOMAIN kept : \E c \in Contacts : About(kept[k], c)
    /\ \A c \in Contacts :
        /\ expiry[c] =< expiry'[c]
        /\ \/ state'[c] = state[c] /\ expiry'[c] = expiry[c]
           \/ Names(kept, Owner[c]) \/ Names(missed, Owner[c])

\* The change of one contact and the news of it.
Change(c, status, s, e) ==
    /\ state' = [state EXCEPT ![c] = s] /\ expiry' = [expiry EXCEPT ![c] = e]
    /\ Tell(c, status)
    /\ UNCHANGED <<now, connected>>
    /\ IsRegistered(status) <=> s = "usable"
    /\ s # "absent" => now =< e
    /\ expiry[c] =< e /\ e =< now + Lifetime

LEMMA TellIsTold ==
    ASSUME LogInv, NEW c \in Contacts, NEW status \in Statuses,
           NEW s \in {"absent", "usable", "unreachable"}, NEW e \in Nat,
           Change(c, status, s, e)
    PROVE  \E kept, missed : Told(kept, missed)
<1> DEFINE row == RowOf(c, status, expiry'[c])
<1>1. TypeInv /\ ExpiryInv
    BY DEF LogInv
<1>2. expiry'[c] = e /\ state'[c] = s
    BY <1>1 DEF TypeInv, Change
<1>3. row \in EventRow /\ row.endpoint = Owner[c] /\ About(row, c)
    <2>1. /\ row.time = now /\ row.endpoint = Owner[c]
          /\ row.status = status /\ row.expire = e
        BY <1>2 DEF RowOf
    <2>2. row \in EventRow
        BY <1>1, <1>2, LogAssumption DEF RowOf, EventRow, TypeInv
    <2> QED BY <1>2, <2>1, <2>2 DEF About, Change
<1>4. ExpiryInv'
    BY <1>1, <1>2 DEF ExpiryInv, TypeInv, Change
<1>5. /\ state' \in [Contacts -> {"absent", "usable", "unreachable"}]
      /\ expiry' \in [Contacts -> Nat]
      /\ connected' \in BOOLEAN /\ now' = now
    BY <1>1 DEF TypeInv, Change
<1>6. \A d \in Contacts :
          /\ expiry[d] =< expiry'[d]
          /\ d # c => state'[d] = state[d] /\ expiry'[d] = expiry[d]
    <2>1. expiry'[c] = e /\ expiry[c] =< e
        BY <1>2 DEF Change
    <2>2. \A d \in Contacts \ {c} : state'[d] = state[d] /\ expiry'[d] = expiry[d]
        BY <1>1 DEF TypeInv, Change
    <2>3. \A d \in Contacts : expiry[d] \in Nat
        BY <1>1 DEF TypeInv
    <2> QED BY <2>1, <2>2, <2>3
<1> HIDE DEF row
<1>7. Names(<<row>>, Owner[c])
    BY <1>3 DEF Names
<1>8. ASSUME Written(<<row>>, <<>>) PROVE Told(<<row>>, <<>>)
    <2>1. <<row>> \in Seq(EventRow) /\ <<>> \in Seq(EventRow)
        BY <1>3
    <2>2. \A k \in DOMAIN <<row>> : About(<<row>>[k], c)
        BY <1>3
    <2> QED BY <1>4, <1>5, <1>6, <1>7, <1>8, <2>1, <2>2 DEF Told
<1>9. ASSUME Written(<<>>, <<row>>) PROVE Told(<<>>, <<row>>)
    <2>1. <<row>> \in Seq(EventRow) /\ <<>> \in Seq(EventRow) /\ DOMAIN <<>> = {}
        BY <1>3
    <2> QED BY <1>4, <1>5, <1>6, <1>7, <1>9, <2>1 DEF Told
<1>10. Written(<<row>>, <<>>) \/ Written(<<>>, <<row>>)
    BY DEF Change, Tell, Persist, row
<1> QED BY <1>8, <1>9, <1>10

LEMMA EventIsTold ==
    ASSUME LogInv, NEW c \in Contacts,
           Register(c) \/ Refresh(c) \/ Probe(c) \/ Unregister(c)
    PROVE  \E kept, missed : Told(kept, missed)
<1>1. /\ now \in Nat /\ Lifetime \in Nat /\ expiry[c] \in Nat
      /\ expiry[c] =< now + Lifetime
      /\ state[c] # "absent" => now =< expiry[c]
      /\ expiry = [expiry EXCEPT ![c] = expiry[c]]
    BY LogAssumption DEF LogInv, TypeInv, ExpiryInv
<1>2. /\ IsRegistered("Created") /\ IsRegistered("Updated") /\ IsRegistered("Reachable")
      /\ ~IsRegistered("Unreachable") /\ ~IsRegistered("Removed")
      /\ {"Created", "Updated", "Reachable", "Unreachable", "Removed"} \subseteq Statuses
    BY DEF IsRegistered, Statuses
<1>3. CASE Register(c)
    <2>1. Change(c, "Created", "usable", now + Lifetime)
        BY <1>1, <1>2, <1>3 DEF Register, Change
    <2> QED BY <1>1, <1>2, <2>1, TellIsTold
<1>4. CASE Refresh(c)
    <2>1. Change(c, "Updated", "usable", now + Lifetime)
        BY <1>1, <1>2, <1>4 DEF Refresh, Change
    <2> QED BY <1>1, <1>2, <2>1, TellIsTold
<1>5. CASE Probe(c)
    <2>1. \/ Change(c, "Unreachable", "unreachable", expiry[c])
          \/ Change(c, "Reachable", "usable", expiry[c])
        BY <1>1, <1>2, <1>5 DEF Probe, Change
    <2> QED BY <1>1, <1>2, <2>1, TellIsTold
<1>6. CASE Unregister(c)
    <2>1. Change(c, "Removed", "absent", expiry[c])
        BY <1>1, <1>2, <1>6 DEF Unregister, Change
    <2> QED BY <1>1, <1>2, <2>1, TellIsTold
<1> QED BY <1>3, <1>4, <1>5, <1>6

LEMMA ReconnectIsTold ==
    ASSUME LogInv, Reconnect
    PROVE  \E kept, missed : Told(kept, missed)
<1> DEFINE listed == {c \in Contacts : state[c] # "absent"}
           ListedRow(c) == RowOf(c, ListedStatus(c), expiry[c])
<1>1. TypeInv /\ ExpiryInv
    BY DEF LogInv
<1>2. connected' = TRUE /\ UNCHANGED <<now, state, expiry>>
    BY DEF Reconnect
<1>3. PICK who \in SUBSET listed :
          \E order \in SetToSeqs(who), others \in SetToSeqs(listed \ who) :
              Written([i \in DOMAIN order |-> ListedRow(order[i])],
                      [i \in DOMAIN others |-> ListedRow(others[i])])
    BY DEF Reconnect
<1>4. PICK order \in SetToSeqs(who), others \in SetToSeqs(listed \ who) :
          Written([i \in DOMAIN order |-> ListedRow(order[i])],
                  [i \in DOMAIN others |-> ListedRow(others[i])])
    BY <1>3
<1>5. ASSUME NEW S \in SUBSET Contacts, NEW seq \in SetToSeqs(S)
      PROVE  seq \in Seq(Contacts) /\ \A i \in DOMAIN seq : seq[i] \in S
    <2>1. seq \in [1 .. Cardinality(S) -> S]
        BY DEF SetToSeqs
    <2>2. Cardinality(S) \in Nat
        BY LogAssumption, FS_Subset, FS_CardinalityType
    <2> QED BY <2>1, <2>2
<1>6. \A c \in Contacts : ListedRow(c) \in EventRow
    <2>1. \A c \in Contacts : ListedStatus(c) \in Statuses
        BY DEF ListedStatus, Statuses
    <2> QED BY <1>1, <2>1, LogAssumption DEF RowOf, EventRow, TypeInv
<1>7. \A c \in listed : About(ListedRow(c), c)
    <2> SUFFICES ASSUME NEW c \in listed PROVE About(ListedRow(c), c)
        OBVIOUS
    <2>1. /\ ListedRow(c).time = now /\ ListedRow(c).endpoint = Owner[c]
          /\ ListedRow(c).status = ListedStatus(c) /\ ListedRow(c).expire = expiry[c]
        BY DEF RowOf
    <2> QED BY <1>2, <2>1 DEF About, ListedStatus, IsRegistered
<1> DEFINE kept == [i \in DOMAIN order |-> ListedRow(order[i])]
           missed == [i \in DOMAIN others |-> ListedRow(others[i])]
<1> HIDE DEF listed, ListedRow
<1>8. who \in SUBSET Contacts /\ listed \ who \in SUBSET Contacts
    BY DEF listed
<1>9. kept \in Seq(EventRow) /\ missed \in Seq(EventRow)
    <2>1. order \in Seq(Contacts) /\ others \in Seq(Contacts)
        BY <1>5, <1>8
    <2> QED BY <1>6, <2>1
<1>10. \A k \in DOMAIN kept : \E c \in Contacts : About(kept[k], c)
    <2> SUFFICES ASSUME NEW k \in DOMAIN kept
                 PROVE  About(kept[k], order[k]) /\ order[k] \in Contacts
        OBVIOUS
    <2>1. order[k] \in who
        BY <1>5, <1>8
    <2> QED BY <1>7, <1>8, <2>1
<1>11. ExpiryInv'
    BY <1>1, <1>2 DEF ExpiryInv
<1>12. \A c \in Contacts : expiry[c] =< expiry'[c] /\ state'[c] = state[c] /\ expiry'[c] = expiry[c]
    BY <1>1, <1>2 DEF TypeInv
<1> HIDE DEF kept, missed
<1>13. Written(kept, missed)
    BY <1>4 DEF kept, missed
<1>14. Told(kept, missed)
    BY <1>1, <1>2, <1>9, <1>10, <1>11, <1>12, <1>13 DEF Told, TypeInv
<1> QED BY <1>14

\* The table after a step: the rows it had, and those kept.
LEMMA RowsGrow ==
    ASSUME TypeInv, NEW kept, NEW missed, Told(kept, missed)
    PROVE  /\ rows' \in Seq(EventRow)
           /\ DOMAIN rows \subseteq DOMAIN rows' /\ DOMAIN rows' \subseteq Nat
           /\ \A i \in DOMAIN rows : rows'[i] = rows[i]
           /\ \A i \in DOMAIN rows' \ DOMAIN rows :
                  /\ \A j \in DOMAIN rows : j < i
                  /\ \E k \in DOMAIN kept : i = Len(rows) + k /\ rows'[i] = kept[k]
           /\ \A k \in DOMAIN kept :
                  /\ Len(rows) + k \in DOMAIN rows' \ DOMAIN rows
                  /\ rows'[Len(rows) + k] = kept[k]
           /\ DOMAIN kept = 1 .. Len(kept) /\ Len(kept) \in Nat /\ Len(rows) \in Nat
<1>1. rows \in Seq(EventRow) /\ kept \in Seq(EventRow) /\ rows' = rows \o kept
    BY DEF TypeInv, Told, Written
<1>2. /\ rows' \in Seq(EventRow)
      /\ Len(rows') = Len(rows) + Len(kept)
      /\ \A i \in 1 .. Len(rows) + Len(kept) :
             rows'[i] = IF i =< Len(rows) THEN rows[i] ELSE kept[i - Len(rows)]
    BY <1>1, ConcatProperties
<1>3. /\ DOMAIN rows = 1 .. Len(rows) /\ Len(rows) \in Nat
      /\ DOMAIN kept = 1 .. Len(kept) /\ Len(kept) \in Nat
      /\ DOMAIN rows' = 1 .. Len(rows) + Len(kept)
    BY <1>1, <1>2
<1>4. ASSUME NEW i \in DOMAIN rows' \ DOMAIN rows
      PROVE  /\ \A j \in DOMAIN rows : j < i
             /\ \E k \in DOMAIN kept : i = Len(rows) + k /\ rows'[i] = kept[k]
    <2>1. i - Len(rows) \in DOMAIN kept /\ i = Len(rows) + (i - Len(rows)) /\ ~(i =< Len(rows))
        BY <1>3
    <2>2. rows'[i] = kept[i - Len(rows)]
        BY <1>2, <1>3, <2>1
    <2> QED BY <1>3, <2>1, <2>2
<1>5. ASSUME NEW k \in DOMAIN kept
      PROVE  /\ Len(rows) + k \in DOMAIN rows' \ DOMAIN rows
             /\ rows'[Len(rows) + k] = kept[k]
    <2>1. /\ Len(rows) + k \in 1 .. Len(rows) + Len(kept)
          /\ ~(Len(rows) + k =< Len(rows)) /\ Len(rows) + k - Len(rows) = k
        BY <1>3
    <2> QED BY <1>2, <1>3, <2>1
<1>6. \A i \in DOMAIN rows : rows'[i] = rows[i]
    BY <1>2, <1>3
<1> QED BY <1>2, <1>3, <1>4, <1>5, <1>6

\* An old row that is the last of its endpoint afterwards was so before, and
\* nothing was kept of the endpoint.
LEMMA OldIsLast ==
    ASSUME TypeInv, NEW kept, NEW missed, Told(kept, missed),
           NEW ep, NEW i \in DOMAIN rows
    PROVE  IsLast(ep, i)' <=> IsLast(ep, i) /\ ~Names(kept, ep)
<1>1. ASSUME IsLast(ep, i)' PROVE IsLast(ep, i) /\ ~Names(kept, ep)
    <2>1. IsLast(ep, i)
        BY <1>1, RowsGrow DEF IsLast
    <2>2. ASSUME NEW k \in DOMAIN kept, kept[k].endpoint = ep PROVE FALSE
        <3>1. Len(rows) + k =< i
            BY <1>1, <2>2, RowsGrow DEF IsLast
        <3>2. i < Len(rows) + k /\ Len(rows) + k \in Nat /\ i \in Nat
            BY RowsGrow
        <3> QED BY <3>1, <3>2
    <2> QED BY <2>1, <2>2 DEF Names
<1>2. ASSUME IsLast(ep, i), ~Names(kept, ep) PROVE IsLast(ep, i)'
    <2>1. \A j \in DOMAIN rows' \ DOMAIN rows : rows'[j].endpoint # ep
        BY <1>2, RowsGrow DEF Names
    <2> QED BY <1>2, <2>1, RowsGrow DEF IsLast
<1> QED BY <1>1, <1>2
-----------------------------------------------------------------------------
(***************************************************************************)
(* Rows that are told keep the invariant.                                  *)
(***************************************************************************)

LEMMA ToldKeepsOrder ==
    ASSUME TypeInv, OrderInv, NEW kept, NEW missed, Told(kept, missed)
    PROVE  TypeInv' /\ OrderInv'
<1>1. TypeInv'
    <2>1. unheard' \subseteq Endpoints
        <3>1. /\ \A i \in DOMAIN kept : kept[i].endpoint \in Endpoints
              /\ \A i \in DOMAIN missed : missed[i].endpoint \in Endpoints
            <4>1. kept \in Seq(EventRow) /\ missed \in Seq(EventRow)
                BY DEF Told
            <4>2. /\ \A i \in DOMAIN kept : kept[i] \in EventRow
                  /\ \A i \in DOMAIN missed : missed[i] \in EventRow
                BY <4>1
            <4> QED BY <4>2 DEF EventRow
        <3> QED BY <3>1 DEF Told, Written, TypeInv
    <2>2. now' \in 0 .. MaxTime
        BY DEF Told, TypeInv
    <2> QED BY <2>1, <2>2, RowsGrow DEF Told, TypeInv
<1>2. \A i \in DOMAIN rows' \ DOMAIN rows : rows'[i].time = now
    BY RowsGrow DEF Told, About
<1>3. \A i \in DOMAIN rows : rows'[i].time =< now
    BY RowsGrow DEF OrderInv
<1>4. now \in Nat /\ now' = now
    BY DEF TypeInv, Told
<1>5. \A i \in DOMAIN rows' : rows'[i].time =< now'
    BY <1>2, <1>3, <1>4
<1>6. ASSUME NEW i \in DOMAIN rows', NEW j \in DOMAIN rows', i < j
      PROVE  rows'[i].time =< rows'[j].time
    <2>1. CASE j \in DOMAIN rows
        <3>1. i \in DOMAIN rows
            <4>1. i \notin DOMAIN rows => j < i
                BY <2>1, RowsGrow
            <4>2. i \in Nat /\ j \in Nat
                BY RowsGrow
            <4> QED BY <1>6, <4>1, <4>2
        <3> QED BY <1>6, <2>1, <3>1, RowsGrow DEF OrderInv
    <2>2. CASE j \notin DOMAIN rows
        BY <1>2, <1>4, <1>5, <2>2
    <2> QED BY <2>1, <2>2
<1> QED BY <1>1, <1>5, <1>6 DEF OrderInv

LEMMA ToldKeepsBacked ==
    ASSUME TypeInv, BackedInv, NEW kept, NEW missed, Told(kept, missed)
    PROVE  BackedInv'
<1> SUFFICES ASSUME NEW i \in DOMAIN rows'
             PROVE  \E c \in Contacts :
                        Owner[c] = rows'[i].endpoint /\ rows'[i].expire =< expiry'[c]
    BY DEF BackedInv
<1>1. \A c \in Contacts : expiry[c] \in Nat /\ expiry'[c] \in Nat /\ expiry[c] =< expiry'[c]
    BY DEF TypeInv, Told
<1>2. CASE i \in DOMAIN rows
    <2>1. PICK c \in Contacts : Owner[c] = rows[i].endpoint /\ rows[i].expire =< expiry[c]
        BY <1>2 DEF BackedInv
    <2>2. rows[i].expire \in Nat /\ rows'[i] = rows[i]
        BY <1>2, RowsShape, RowsGrow
    <2>3. rows'[i].expire =< expiry'[c]
        BY <1>1, <2>1, <2>2
    <2> QED BY <2>1, <2>2, <2>3
<1>3. CASE i \notin DOMAIN rows
    <2>1. PICK c \in Contacts : About(rows'[i], c)
        BY <1>3, RowsGrow DEF Told
    <2> QED BY <1>1, <2>1 DEF About
<1> QED BY <1>2, <1>3

LEMMA ToldKeepsOnline ==
    ASSUME TypeInv, OnlineInv, NEW kept, NEW missed, Told(kept, missed)
    PROVE  OnlineInv'
<1> SUFFICES ASSUME NEW ep \in Endpoints \ unheard', NEW i \in DOMAIN rows',
                    IsLast(ep, i)', IsRegistered(rows'[i].status)
             PROVE  Usable(ep)'
    BY DEF OnlineInv, IsRegistered
<1>1. rows'[i].endpoint = ep
    BY DEF IsLast
<1>2. CASE i \in DOMAIN rows
    <2>1. IsLast(ep, i) /\ ~Names(kept, ep) /\ rows'[i] = rows[i]
        BY <1>2, OldIsLast, RowsGrow
    <2>2. ep \notin unheard /\ ~Names(missed, ep)
        BY <2>1 DEF Told, Written, Names
    <2>3. PICK c \in Contacts : Owner[c] = ep /\ state[c] = "usable"
        BY <1>2, <2>1, <2>2 DEF OnlineInv, Usable
    <2>4. state'[c] = state[c]
        BY <2>1, <2>2, <2>3 DEF Told
    <2> QED BY <2>3, <2>4 DEF Usable
<1>3. CASE i \notin DOMAIN rows
    <2>1. PICK c \in Contacts : About(rows'[i], c)
        BY <1>3, RowsGrow DEF Told
    <2> QED BY <1>1, <2>1 DEF About, Usable
<1> QED BY <1>2, <1>3

LEMMA ToldKeepsOffline ==
    ASSUME OnePhoneEach, Qualified = Contacts, TypeInv, OfflineInv,
           NEW kept, NEW missed, Told(kept, missed)
    PROVE  OfflineInv'
<1> SUFFICES ASSUME NEW c \in Contacts, state'[c] = "usable", Owner[c] \notin unheard'
             PROVE  \E i \in DOMAIN rows' : /\ IsLast(Owner[c], i)'
                                            /\ IsRegistered(rows'[i].status)
                                            /\ rows'[i].expire = expiry'[c]
    BY DEF OfflineInv, IsRegistered
<1>1. CASE Names(kept, Owner[c])
    <2> DEFINE ids == {k \in DOMAIN kept : kept[k].endpoint = Owner[c]}
    <2>1. ids # {} /\ ids \in SUBSET (1 .. Len(kept)) /\ Len(kept) \in Nat
        BY <1>1, RowsGrow DEF Names
    <2>2. PICK m \in ids : \A k \in ids : k =< m
        <3> HIDE DEF ids
        <3> QED BY <2>1, GreatestId
    <2> DEFINE i == Len(rows) + m
    <2>3. /\ i \in DOMAIN rows' \ DOMAIN rows /\ rows'[i] = kept[m]
          /\ kept[m].endpoint = Owner[c]
        BY RowsGrow
    <2>4. PICK d \in Contacts : About(kept[m], d)
        BY DEF Told
    <2>5. d = c
        BY <2>3, <2>4 DEF About, OnePhoneEach
    <2>6. IsRegistered(rows'[i].status) /\ rows'[i].expire = expiry'[c]
        BY <2>3, <2>4, <2>5 DEF About
    <2>7. ASSUME NEW j \in DOMAIN rows', rows'[j].endpoint = Owner[c] PROVE j =< i
        <3>1. CASE j \in DOMAIN rows
            <4>1. j < i /\ j \in Nat /\ i \in Nat
                BY <2>3, <3>1, RowsGrow
            <4> QED BY <4>1
        <3>2. CASE j \notin DOMAIN rows
            <4>1. PICK k \in DOMAIN kept : j = Len(rows) + k /\ rows'[j] = kept[k]
                BY <3>2, RowsGrow
            <4>2. k =< m
                BY <2>2, <2>7, <4>1
            <4>3. k \in Nat /\ m \in Nat /\ Len(rows) \in Nat
                BY RowsGrow
            <4> QED BY <4>1, <4>2, <4>3
        <3> QED BY <3>1, <3>2
    <2> QED BY <2>3, <2>6, <2>7 DEF IsLast
<1>2. CASE ~Names(kept, Owner[c])
    <2>1. Owner[c] \notin unheard /\ ~Names(missed, Owner[c])
        BY <1>2 DEF Told, Written, Names
    <2>2. state'[c] = state[c] /\ expiry'[c] = expiry[c]
        BY <1>2, <2>1 DEF Told
    <2>3. PICK i \in DOMAIN rows : /\ IsLast(Owner[c], i)
                                   /\ IsRegistered(rows[i].status)
                                   /\ rows[i].expire = expiry[c]
        BY <2>1, <2>2 DEF OfflineInv
    <2>4. IsLast(Owner[c], i)' /\ i \in DOMAIN rows' /\ rows'[i] = rows[i]
        BY <1>2, <2>3, OldIsLast, RowsGrow
    <2> QED BY <2>2, <2>3, <2>4
<1> QED BY <1>1, <1>2
-----------------------------------------------------------------------------
(***************************************************************************)
(* The invariant.                                                          *)
(***************************************************************************)

LEMMA InitLog == Init => LogInv /\ OfflineInv
<1> SUFFICES ASSUME Init PROVE LogInv /\ OfflineInv
    OBVIOUS
<1>1. DOMAIN rows = {} /\ rows \in Seq(EventRow)
    BY DEF Init
<1> USE LogAssumption
<1>2. TypeInv
    BY <1>1 DEF Init, TypeInv
<1>3. OrderInv /\ BackedInv /\ OnlineInv
    BY <1>1 DEF OrderInv, BackedInv, OnlineInv
<1>4. ExpiryInv /\ OfflineInv
    BY DEF Init, ExpiryInv, OfflineInv
<1> QED BY <1>2, <1>3, <1>4 DEF LogInv

\* A step that writes nothing.
Silent == UNCHANGED <<state, expiry, rows, unheard>>

LEMMA StepTellsOrIsSilent ==
    ASSUME LogInv, [Next]_vars
    PROVE  \/ \E kept, missed : Told(kept, missed)
           \/ /\ Silent /\ now \in Nat /\ now' \in now .. MaxTime /\ connected' \in BOOLEAN
              /\ now' = now \/ \A c \in Contacts : state[c] # "absent" => now' =< expiry[c]
<1>0. now \in Nat /\ now \in now .. MaxTime /\ connected \in BOOLEAN
    BY LogAssumption DEF LogInv, TypeInv
<1>1. ASSUME NEW c \in Contacts, Register(c) \/ Refresh(c) \/ Probe(c) \/ Unregister(c)
      PROVE  \E kept, missed : Told(kept, missed)
    BY <1>1, EventIsTold
<1>2. CASE Reconnect
    BY <1>2, ReconnectIsTold
<1>3. CASE Disconnect
    BY <1>0, <1>3 DEF Disconnect, Silent
<1>4. CASE Tick
    <2>1. /\ now \in Nat /\ MaxTime \in Nat /\ connected \in BOOLEAN
          /\ \A c \in Contacts : expiry[c] \in Nat
        BY LogAssumption DEF LogInv, TypeInv
    <2>2. /\ now < MaxTime /\ now' = now + 1
          /\ \A c \in Contacts : state[c] # "absent" => now < expiry[c]
          /\ UNCHANGED <<state, expiry, connected, rows, unheard>>
        BY <1>4 DEF Tick
    <2>3. now' \in now .. MaxTime
        BY <2>1, <2>2
    <2>4. \A c \in Contacts : state[c] # "absent" => now' =< expiry[c]
        BY <2>1, <2>2
    <2> QED BY <2>1, <2>2, <2>3, <2>4 DEF Silent
<1>5. CASE UNCHANGED vars
    BY <1>0, <1>5 DEF vars, Silent
<1> QED BY <1>1, <1>2, <1>3, <1>4, <1>5 DEF Next

LEMMA NextLog == LogInv /\ [Next]_vars => LogInv'
<1> SUFFICES ASSUME LogInv, [Next]_vars PROVE LogInv'
    OBVIOUS
<1>1. TypeInv /\ OrderInv /\ ExpiryInv /\ BackedInv /\ OnlineInv
    BY DEF LogInv
<1>2. ASSUME NEW kept, NEW missed, Told(kept, missed) PROVE LogInv'
    <2>1. TypeInv' /\ OrderInv'
        BY <1>1, <1>2, ToldKeepsOrder
    <2>2. ExpiryInv'
        BY <1>2 DEF Told
    <2>3. BackedInv'
        BY <1>1, <1>2, ToldKeepsBacked
    <2>4. OnlineInv'
        BY <1>1, <1>2, ToldKeepsOnline
    <2> QED BY <2>1, <2>2, <2>3, <2>4 DEF LogInv
<1>3. ASSUME Silent, now \in Nat, now' \in now .. MaxTime, connected' \in BOOLEAN,
             now' = now \/ \A c \in Contacts : state[c] # "absent" => now' =< expiry[c]
      PROVE  LogInv'
    <2>1. TypeInv'
        BY <1>1, <1>3, LogAssumption DEF TypeInv, Silent
    <2>2. OrderInv'
        <3>1. \A i \in DOMAIN rows : rows[i].time \in Nat
            BY <1>1, RowsShape
        <3> QED BY <1>1, <1>3, <3>1 DEF OrderInv, Silent
    <2>3. ExpiryInv'
        <3>1. expiry \in [Contacts -> Nat] /\ Lifetime \in Nat
            BY <1>1, LogAssumption DEF TypeInv
        <3> QED BY <1>1, <1>3, <3>1 DEF ExpiryInv, Silent
    <2>4. BackedInv'
        BY <1>1, <1>3 DEF BackedInv, Silent
    <2>5. OnlineInv'
        BY <1>1, <1>3 DEF OnlineInv, IsLast, Usable, Silent
    <2> QED BY <2>1, <2>2, <2>3, <2>4, <2>5 DEF LogInv
<1> QED BY <1>2, <1>3, StepTellsOrIsSilent

LEMMA NextOffline ==
    ASSUME OnePhoneEach, Qualified = Contacts
    PROVE  LogInv /\ OfflineInv /\ [Next]_vars => OfflineInv'
<1> SUFFICES ASSUME LogInv, OfflineInv, [Next]_vars PROVE OfflineInv'
    OBVIOUS
<1>1. ASSUME NEW kept, NEW missed, Told(kept, missed) PROVE OfflineInv'
    BY <1>1, ToldKeepsOffline DEF LogInv
<1>2. ASSUME Silent PROVE OfflineInv'
    BY <1>2 DEF OfflineInv, IsLast, Silent
<1> QED BY <1>1, <1>2, StepTellsOrIsSilent

\* The table is in order, backed by registrations, and up to date about
\* every extension whose last news was written.
THEOREM LogIsInvariant == Spec => []LogInv
BY InitLog, NextLog, PTL DEF Spec

\* TypeOK, the types of the state and the order of the rows: no row is of a
\* later time than a row written after it.
THEOREM TypeCorrect == Spec => []TypeOK
<1>1. LogInv => TypeOK
    <2> SUFFICES ASSUME LogInv PROVE TypeOK
        OBVIOUS
    <2>1. TypeInv /\ OrderInv
        BY DEF LogInv
    <2>2. ASSUME NEW i \in DOMAIN rows, NEW j \in 1 .. i PROVE rows[j].time =< rows[i].time
        <3>1. /\ DOMAIN rows = 1 .. Len(rows) /\ Len(rows) \in Nat
              /\ rows[i].time \in Nat
            BY <2>1, RowsShape
        <3>2. j \in DOMAIN rows
            BY <3>1
        <3>3. i = j \/ j < i
            BY <3>1
        <3> QED BY <2>1, <3>1, <3>2, <3>3 DEF OrderInv
    <2>3. \A i \in DOMAIN rows : rows[i].status \in Statuses
        BY <2>1, RowsShape
    <2> QED BY <2>1, <2>2, <2>3 DEF TypeOK, TypeInv, OrderInv
<1> QED BY <1>1, LogIsInvariant, PTL
-----------------------------------------------------------------------------
(***************************************************************************)
(* What the history can be relied on for.                                  *)
(***************************************************************************)

\* AgreeOffTheEdges: GetStatusAt, ListRegisteredAt and the note of GetCall say
\* the same of every extension at every instant, but for rows of one time and
\* the instant of an expiry.
THEOREM QueriesAgreeAlways == Spec => []AgreeOffTheEdges
<1>1. LogInv => AgreeOffTheEdges
    BY QueriesAgree DEF LogInv
<1> QED BY <1>1, LogIsInvariant, PTL

\* PagesPartition: the pages of ListEvents hold every row of the range once.
THEOREM PagesArePartition == Spec => []PagesPartition
<1>1. LogInv => PagesPartition
    BY PagesHoldEachRow DEF LogInv
<1> QED BY <1>1, LogIsInvariant, PTL

\* NoFalseOnline: what GetStatusAt reports as registered now can be reached, or
\* news of it was lost and its phone registered less than a lifetime ago,
\* whatever INSERTs fail and however often the session is lost.
THEOREM OnlineIsTrue == Spec => []NoFalseOnline
<1>1. ASSUME LogInv, NEW ep \in Endpoints, GetStatusAt(ep, now)
      PROVE  \/ Usable(ep)
             \/ ep \in unheard /\ \E c \in Contacts : Owner[c] = ep /\ now =< expiry[c]
    <2>1. TypeInv /\ OrderInv /\ BackedInv /\ OnlineInv
        BY <1>1 DEF LogInv
    <2> DEFINE i == Latest(Prior(ep, now))
    <2>2. /\ Prior(ep, now) # {}
          /\ IsRegistered(rows[i].status) /\ ~(rows[i].expire < now)
        BY <1>1 DEF GetStatusAt
    <2>3. i \in Prior(ep, now) /\ \A j \in Prior(ep, now) : j =< i
        BY <2>1, <2>2, LatestExists
    <2> HIDE DEF i
    <2>4. IsLast(ep, i)
        BY <2>1, <2>3 DEF IsLast, Prior, OrderInv
    <2>5. i \in DOMAIN rows /\ rows[i].endpoint = ep
        BY <2>4 DEF IsLast
    <2>6. CASE ep \notin unheard
        BY <2>1, <2>2, <2>4, <2>5, <2>6 DEF OnlineInv
    <2>7. CASE ep \in unheard
        <3>1. PICK c \in Contacts : Owner[c] = ep /\ rows[i].expire =< expiry[c]
            BY <2>1, <2>5 DEF BackedInv
        <3>2. rows[i].expire \in Nat /\ expiry[c] \in Nat /\ now \in Nat
            BY <2>1, <2>5, RowsShape DEF TypeInv
        <3>3. now =< expiry[c]
            BY <2>2, <3>1, <3>2
        <3> QED BY <2>7, <3>1, <3>3
    <2> QED BY <2>6, <2>7
<1>2. LogInv => NoFalseOnline
    BY <1>1 DEF NoFalseOnline
<1> QED BY <1>2, LogIsInvariant, PTL

\* NoFalseOffline, where each extension has one phone and Asterisk probes them
\* all: an extension that can be reached is reported as registered, once the
\* reconcile of a new session is done, unless the last news of it was lost.
THEOREM OfflineIsTrue ==
    ASSUME OnePhoneEach, Qualified = Contacts
    PROVE  Spec => []NoFalseOffline
<1>1. Spec => []OfflineInv
    BY InitLog, NextOffline, LogIsInvariant, PTL DEF Spec
<1>2. ASSUME LogInv, OfflineInv, NEW ep \in Endpoints \ unheard, Usable(ep)
      PROVE  GetStatusAt(ep, now)
    <2>1. TypeInv /\ OrderInv /\ ExpiryInv
        BY <1>2 DEF LogInv
    <2>2. PICK c \in Contacts : Owner[c] = ep /\ state[c] = "usable"
        BY <1>2 DEF Usable
    <2>3. PICK i \in DOMAIN rows : /\ IsLast(ep, i)
                                   /\ IsRegistered(rows[i].status)
                                   /\ rows[i].expire = expiry[c]
        BY <1>2, <2>2 DEF OfflineInv
    <2>4. Prior(ep, now) # {} /\ Latest(Prior(ep, now)) = i
        BY <2>1, <2>3, LatestNow
    <2>5. ~(rows[i].expire < now)
        BY <2>1, <2>2, <2>3 DEF ExpiryInv, TypeInv
    <2> QED BY <2>3, <2>4, <2>5 DEF GetStatusAt
<1>3. LogInv /\ OfflineInv => NoFalseOffline
    BY <1>2 DEF NoFalseOffline
<1> QED BY <1>1, <1>3, LogIsInvariant, PTL

\* PastIsFixed: no event, reconcile or outage changes what GetStatusAt answers
\* about an instant that is over.
THEOREM PastStaysFixed == Spec => PastIsFixed
<1> DEFINE Fixed == \A at \in 0 .. now - 1 : \A ep \in Endpoints :
                        GetStatusAt(ep, at)' = GetStatusAt(ep, at)
<1>1. ASSUME LogInv, LogInv', NEW kept, NEW missed, Told(kept, missed),
             NEW at \in 0 .. now - 1, NEW ep \in Endpoints
      PROVE  GetStatusAt(ep, at)' = GetStatusAt(ep, at)
    <2>1. TypeInv /\ OrderInv /\ TypeInv' /\ OrderInv' /\ now \in Nat
        BY <1>1 DEF LogInv, TypeInv
    <2>2. \A i \in DOMAIN rows' \ DOMAIN rows : rows'[i].time = now
        BY <1>1, <2>1, RowsGrow DEF Told, About
    <2>3. Prior(ep, at)' = Prior(ep, at)
        <3>1. ~(now =< at)
            BY <2>1
        <3> QED BY <1>1, <2>1, <2>2, <3>1, RowsGrow DEF Prior
    <2>4. CASE Prior(ep, at) = {}
        BY <2>3, <2>4 DEF GetStatusAt
    <2>5. CASE Prior(ep, at) # {}
        <3> DEFINE ids == Prior(ep, at)
                   m == Latest(ids)
        <3>1. m \in ids /\ \A j \in ids : j =< m
            BY <2>1, <2>5, LatestExists
        <3>2. ids \in SUBSET DOMAIN rows /\ ids \in SUBSET DOMAIN rows'
            BY <1>1, <2>1, RowsGrow DEF Prior
        <3>3. Latest(Prior(ep, at))' = m
            <4>1. LatestIsGreatest'
                BY <2>1, LatestIsLastNext
            <4> QED BY <2>3, <3>1, <3>2, <4>1 DEF LatestIsGreatest
        <3>4. rows'[m] = rows[m]
            BY <1>1, <2>1, <3>1, <3>2, RowsGrow
        <3> QED BY <2>3, <3>3, <3>4 DEF GetStatusAt, IsRegistered
    <2> QED BY <2>4, <2>5
<1>2. ASSUME Silent, NEW at, NEW ep PROVE GetStatusAt(ep, at)' = GetStatusAt(ep, at)
    BY <1>2 DEF Silent, GetStatusAt, Latest, Newer, Prior, IsRegistered
<1>3. LogInv /\ LogInv' /\ [Next]_vars => [Fixed]_vars
    BY <1>1, <1>2, StepTellsOrIsSilent
<1> QED BY <1>3, LogIsInvariant, PTL DEF Spec, PastIsFixed
=============================================================================
