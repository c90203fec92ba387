---------------------------- MODULE CallRecords ----------------------------
(***************************************************************************)
(* What is told of past calls: cdr_repo.go of internal/data and            *)
(* cdr_service.go, over the table cdr that Asterisk writes.                *)
(*                                                                         *)
(* One call is told of in many places: as a row of a list, by the filters  *)
(* of the list, in detail, and in the statistics (CallStatistics).  Each   *)
(* has its own query, written in SQL or computed in Go.  All of them are   *)
(* operators here.  The list is read in pages while the table grows.       *)
(*                                                                         *)
(* A channel name stands for its endpoint, without the number of the       *)
(* instance.  Names are numbers that sort like the strings: the empty      *)
(* string, Local/600@..., PJSIP/45-..., PJSIP/agent01-..., PJSIP/ITD-....  *)
(***************************************************************************)
EXTENDS Integers, SequencesExt, FiniteSetsExt

CONSTANTS
    Calls,      \* linkedids
    Groups,     \* Local channels of ring groups
    Numeric,    \* channels of extensions that are numbers
    Agents,     \* channels of extensions with letters
    Trunks,     \* channels without an extension
    Shapes,     \* rows Asterisk writes: [chan, dst, dstchan, disp, bill, rec]
    Date,       \* calldate of each place in the order (calldate, sequence)
    PageSize    \* of the list

None == 0
Names == {None} \cup Groups \cup Numeric \cup Agents \cup Trunks
Dispositions == {"ANSWERED", "NO ANSWER", "BUSY", "FAILED"}
Places == DOMAIN Date

ASSUME CallRecordsAssumption ==
    /\ Groups \cup Numeric \cup Agents \cup Trunks \subseteq Nat \ {None}
    /\ \A g \in Groups, x \in Numeric \cup Agents \cup Trunks : g < x
    /\ \A x \in Numeric, t \in Agents \cup Trunks : x < t
    /\ \A a \in Agents, t \in Trunks : a < t
    /\ Shapes \subseteq [chan : Names \ {None}, dst : Names, dstchan : Names,
                         disp : Dispositions, bill : Nat, rec : Nat]
    /\ Date \in Seq(Nat \ {0}) /\ Date # <<>>
    /\ \A p, q \in Places : p < q => Date[p] =< Date[q]
    /\ PageSize \in Nat \ {0}

VARIABLES
    cdr,        \* the table: a shape, a call and a place each
    step,       \* of the one that pages through the list: "new", "count", "list", "end"
    page,       \* the page it is at, from 0
    total,      \* the number of calls it was told last
    seen,       \* calls it was shown
    known,      \* history: calls there were when it began
    disturbed   \* history: one of them tied, a call moved, or the table grew under a page

vars == <<cdr, step, page, total, seen, known, disturbed>>

Always == [from |-> 1, to |-> Date[Len(Date)] + 1]
\* Nobody has begun to read.  What the queries return is checked then: every table
\* there can be is there before the reader begins, who changes nothing of it.
Unread == step = "new"

Windows == {w \in [from : 1 .. Always.to, to : 1 .. Always.to] : w.from < w.to}

Legs(c) == {r \in cdr : r.call = c}
LegsIn(w, c) == {r \in Legs(c) : w.from =< Date[r.at] /\ Date[r.at] < w.to}

\* ORDER BY calldate ASC, sequence ASC LIMIT 1
FirstOf(L) == CHOOSE r \in L : \A q \in L : r.at =< q.at

Disps(L) == {r.disp : r \in L}

\* CASE WHEN SUM(...) > 0 THEN ... ELSE 'NO ANSWER' END, in the order given.
FirstPresent(present, order) ==
    LET found == {i \in DOMAIN order : order[i] \in present}
    IN  IF found = {} THEN "NO ANSWER" ELSE order[Min(found)]

\* An ANSWERED row that came of a Dial, not of the Answer() before a prompt.
Real(r) == r.disp = "ANSWERED" /\ r.dstchan # None

\* The largest, or the default of an empty set.
MaxOr(S, default) == IF S = {} THEN default ELSE Max(S)

ExtractExtension(ch) == IF ch \in Groups \cup Numeric \cup Agents THEN ch ELSE None
-----------------------------------------------------------------------------
(* The list: ListCalls.                                                    *)

\* Slip: any ANSWERED row counts.
CountsAnyAnswer(L) == FirstPresent(Disps(L), <<"ANSWERED", "BUSY", "FAILED">>)

FinalDisposition(L) ==
    FirstPresent(Disps({r \in L : r.disp = "ANSWERED" => Real(r)}), <<"ANSWERED", "BUSY", "FAILED">>)

inferDirection(chan, dstchan) ==
    LET src == ExtractExtension(chan)
        dst == ExtractExtension(dstchan)
    IN  CASE src # None /\ dst # None /\ src # dst -> "internal"
          [] src = None /\ dst # None -> "inbound"
          [] src # None /\ dst = None -> "outbound"
          [] OTHER -> "unknown"

\* The pattern of the SQL: letters, a slash, something with a digit in it.
MatchesExtPattern(ch) == ch \in Groups \cup Numeric \cup Agents

\* The first leg is that of the whole call, in the window or not.
DirectionClause(direction, c) ==
    LET from == MatchesExtPattern(FirstOf(Legs(c)).chan)
        to == MatchesExtPattern(FirstOf(Legs(c)).dstchan)
    IN  CASE direction = "inbound" -> ~from /\ to
          [] direction = "outbound" -> from /\ ~to
          [] direction = "internal" -> from /\ to
          [] OTHER -> from \/ to

\* Slip: a busy member makes the call busy.
AnyBusy(disp, L) ==
    CASE disp = "ANSWERED" -> \E r \in L : Real(r)
      [] disp = "" -> TRUE
      [] OTHER -> disp \in Disps(L)

Having(disp, L) ==
    LET answered == \E r \in L : Real(r)
    IN  CASE disp = "" -> TRUE
          [] disp = "ANSWERED" -> answered
          [] disp = "BUSY" -> ~answered /\ "BUSY" \in Disps(L)
          [] disp = "FAILED" -> ~answered /\ "BUSY" \notin Disps(L) /\ "FAILED" \in Disps(L)
          [] disp = "NO ANSWER" -> ~answered /\ Disps(L) \cap {"BUSY", "FAILED"} = {}

\* The calls of a window; here a call that the list hides counts, too.
InWindow(w) == {c \in Calls : LegsIn(w, c) # {}}

\* The calls of the list; "" is no filter.
Listed(w, direction, disp) ==
    {c \in Calls : LegsIn(w, c) # {} /\ DirectionClause(direction, c) /\ Having(disp, LegsIn(w, c))}

\* A row of the list, and what Go makes of it.
ListRow(w, c) ==
    LET L == LegsIn(w, c)
        answered == {r \in L : r.disp = "ANSWERED"}
        ansDst == ExtractExtension(MaxOr({r.dstchan : r \in answered}, None))
        ansChan == ExtractExtension(MaxOr({r.chan : r \in answered}, None))
        first == FirstOf(Legs(c))
    IN  [first |-> Date[FirstOf(L).at],
         disp |-> FinalDisposition(L),
         bill |-> MaxOr({r.bill : r \in answered}, 0),
         legs |-> Cardinality(L),
         answerer |-> IF ansDst # None THEN ansDst ELSE ansChan,
         originator |-> ExtractExtension(first.chan),
         direction |-> inferDirection(first.chan, first.dstchan),
         recording |-> MaxOr({r.rec : r \in L}, None)]
-----------------------------------------------------------------------------
(* In detail: GetCall.                                                     *)

LegExtension(r) ==
    IF ExtractExtension(r.dstchan) # None THEN ExtractExtension(r.dstchan) ELSE ExtractExtension(r.chan)

\* The legs are gone through in order; the answerer is the first there is.
summarizeLegs(c) ==
    LET L == Legs(c)
        answered == {r \in L : Real(r)}
        with == {r \in answered : LegExtension(r) # None}
    IN  [first |-> Date[FirstOf(L).at],
         disp |-> IF answered # {} THEN "ANSWERED"
                  ELSE FirstPresent(Disps(L), <<"BUSY", "FAILED">>),
         bill |-> MaxOr({r.bill : r \in answered}, 0),
         legs |-> Cardinality(L),
         answerer |-> IF with = {} THEN None ELSE LegExtension(FirstOf(with)),
         originator |-> ExtractExtension(FirstOf(L).chan),
         direction |-> inferDirection(FirstOf(L).chan, FirstOf(L).dstchan),
         recording |-> FirstOf(L).rec]
-----------------------------------------------------------------------------
(* On the wire: cdr_service.go.                                            *)

Wire == {"UNSPECIFIED"} \cup Dispositions

\* The filter of a request; what it does not know is no filter.
dispositionToString(d) == IF d \in Dispositions THEN d ELSE ""

dispositionFromString(s) == IF s \in Dispositions THEN s ELSE "UNSPECIFIED"

\* An extension that is empty is left out; so is None.
callToProto(s) == [s EXCEPT !.disp = dispositionFromString(s.disp)]

\* The answers of ListCalls and of GetCall about one call.
CallRow(w, c) == callToProto(ListRow(w, c))
CallDetail(c) == callToProto(summarizeLegs(c))

-----------------------------------------------------------------------------
(* The table grows, and somebody pages through the list.                   *)

Place(c) == IF c \in Listed(Always, "", "") THEN ListRow(Always, c).first ELSE 0

\* Two calls share a date, so that ORDER BY leaves their order open.
Tied(K) == \E c \in K, d \in Listed(Always, "", "") : c # d /\ Place(c) = Place(d)

Init ==
    /\ cdr = {}
    /\ step = "new"
    /\ page = 0
    /\ total = 0
    /\ seen = {}
    /\ known = {}
    /\ disturbed = FALSE

\* Asterisk writes a leg when it is over, which need not be in order.
Write(c, p, s) ==
    /\ \A r \in cdr : r.at # p
    /\ cdr' = cdr \cup {[call |-> c, at |-> p, chan |-> s.chan, dst |-> s.dst,
                         dstchan |-> s.dstchan, disp |-> s.disp, bill |-> s.bill, rec |-> s.rec]}
    /\ UNCHANGED <<step, page, total, seen, known>>
    /\ disturbed' = \/ disturbed \/ step = "list"
                    \/ Tied(known)'
                    \/ \E l \in Listed(Always, "", "") : Place(l)' # Place(l)

\* The first query of ListCalls counts, ...
CountCalls ==
    /\ step \in {"new", "count"}
    /\ step' = "list"
    /\ total' = Cardinality(Listed(Always, "", ""))
    /\ IF step = "new"
       THEN known' = Listed(Always, "", "") /\ disturbed' = Tied(known')
       ELSE UNCHANGED <<known, disturbed>>
    /\ UNCHANGED <<cdr, page, seen>>

\* Slip: pages are counted from one.
FromOne == (page + 1) * PageSize

Offset == page * PageSize

\* The newest first; ties in any order.
NewestFirst ==
    {s \in SetToSeqs(Listed(Always, "", "")) :
        \A i, j \in DOMAIN s : i < j => Place(s[i]) >= Place(s[j])}

\* The pager of the page ends where the total it was told ends.
NoMorePages == page' * PageSize >= total

\* ... the second fetches the page; the reader turns to the next.
ReadPage ==
    /\ step = "list"
    /\ \E s \in NewestFirst :
           seen' = seen \cup {s[i] : i \in DOMAIN s \cap (Offset + 1 .. Offset + PageSize)}
    /\ page' = page + 1
    /\ step' = IF NoMorePages THEN "end" ELSE "count"
    /\ UNCHANGED <<cdr, total, known, disturbed>>

Next ==
    \/ \E c \in Calls, p \in Places, s \in Shapes : Write(c, p, s)
    \/ CountCalls
    \/ ReadPage

Spec == Init /\ [][Next]_vars
-----------------------------------------------------------------------------
(* What the answers promise of each other.                                 *)

TypeOK ==
    /\ cdr \subseteq [call : Calls, at : Places, chan : Names, dst : Names, dstchan : Names,
                      disp : Dispositions, bill : Nat, rec : Nat]
    /\ step \in {"new", "count", "list", "end"}
    /\ page \in Nat /\ total \in Nat
    /\ seen \subseteq Calls /\ known \subseteq Calls
    /\ disturbed \in BOOLEAN

\* The exceptions.  An Answer() of the dialplan left a row of its own; ...
SystemAnswered(c) == \E r \in Legs(c) : r.disp = "ANSWERED" /\ r.dstchan = None

\* ... more than one leg was answered, as in a transfer; ...
AnsweredTwice(c) == \E q, r \in Legs(c) : q # r /\ Real(q) /\ Real(r)

\* ... an extension called itself.
SelfCall(c) ==
    LET first == FirstOf(Legs(c))
    IN  ExtractExtension(first.chan) # None /\ ExtractExtension(first.chan) = ExtractExtension(first.dstchan)

\* A call in detail is the call as it is listed, as long as the window of the
\* list holds all of it: when it began, how it ended, who called, who answered,
\* from where to where.
DrillAgrees ==
    Unread => \A w \in Windows : \A c \in Listed(w, "", "") :
        LegsIn(w, c) = Legs(c) =>
            LET row == CallRow(w, c)
                sum == CallDetail(c)
            IN  /\ row.first = sum.first
                /\ row.disp = sum.disp
                /\ row.legs = sum.legs
                /\ row.originator = sum.originator
                /\ row.direction = sum.direction
                /\ ~SystemAnswered(c) =>
                       /\ row.bill = sum.bill
                       /\ ~AnsweredTwice(c) => row.answerer = sum.answerer

\* A filter by disposition keeps the calls that the list shows with it, whatever
\* else is filtered by.  A filter by direction likewise, though one is inferred in
\* SQL and the other in Go; and without one exactly the calls of unknown direction
\* are hidden.
FiltersAgree ==
    Unread => \A w \in Windows :
        /\ \A direction \in {"", "inbound", "outbound", "internal"} :
               LET shown == [c \in Listed(w, direction, "") |-> CallRow(w, c).disp]
               IN  \A disp \in Wire :
                       Listed(w, direction, dispositionToString(disp))
                           = {c \in DOMAIN shown : disp = "UNSPECIFIED" \/ shown[c] = disp}
        /\ \A c \in InWindow(w) : ~SelfCall(c) =>
               LET shown == CallRow(w, c).direction
               IN  /\ \A direction \in {"inbound", "outbound", "internal"} :
                          c \in Listed(w, direction, "") <=> shown = direction
                   /\ c \in Listed(w, "", "") <=> shown # "unknown"

\* Who pages to the end has seen every call there was at the beginning, though
\* calls end all the while, unless one of these tied, a call of the list moved when
\* an earlier leg of its was written, or the table grew between the two queries of
\* a page.
NoCallSkipped == step = "end" /\ ~disturbed => known \subseteq seen
=============================================================================
