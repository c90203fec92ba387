--------------------------- MODULE CallStatistics ---------------------------
(***************************************************************************)
(* More of what is told of the calls of CallRecords: the numbers that      *)
(* stats_repo.go and stats_service.go give of the fleet, of a ring group   *)
(* and of an extension, and the recording that server/recordings.go plays. *)
(*                                                                         *)
(* A row of the statistics is about a window, the drill-down of an         *)
(* extension about the same calls counted by other queries.  A recording   *)
(* is named in the list, in detail and by the handler, each in its own way.*)
(***************************************************************************)
EXTENDS CallRecords

CONSTANTS
    Matches,      \* pairs <<x, y>> of extensions, y LIKE '%x%'
    DrillLimit,   \* rows the drill-down reads (200)
    MissedLimit,  \* missed calls a ring group shows (100)
    Calendar      \* of each date: [hour, day] in Sofia, [utcDay] in UTC

ASSUME CallStatisticsAssumption ==
    /\ Matches \subseteq Numeric \X Numeric
    /\ \A x \in Numeric : <<x, x>> \in Matches
    /\ DrillLimit \in Nat \ {0} /\ MissedLimit \in Nat
    /\ Calendar \in [{Date[p] : p \in Places} -> [hour : 0 .. 23, day : Nat, utcDay : Nat]]

Rows(w) == UNION {LegsIn(w, c) : c \in Calls}
When(L) == Date[FirstOf(L).at]
SumOver(S, f(_)) == MapThenSumSet(f, S)
-----------------------------------------------------------------------------
(* The fleet and the ring groups.                                          *)

\* Slip: one busy member outweighs the one that answered.
BusyFirst(L) == FirstPresent(Disps(L), <<"BUSY", "ANSWERED", "FAILED">>)

\* final_disposition of Overview and of the extensions.
Outcome(L) == FirstPresent(Disps(L), <<"ANSWERED", "BUSY", "FAILED">>)

Overview(w) == [d \in Dispositions |-> {c \in InWindow(w) : Outcome(LegsIn(w, c)) = d}]

\* bucketExpr: calls by the key of the date of their first leg.
Buckets(w, calls, key) ==
    LET in(k) == {c \in calls : key[When(LegsIn(w, c))] = k}
        of(k, d) == Cardinality({c \in in(k) : Outcome(LegsIn(w, c)) = d})
    IN  [k \in {key[When(LegsIn(w, c))] : c \in calls} |->
            [total |-> Cardinality(in(k)),
             answered |-> of(k, "ANSWERED"),
             missed |-> of(k, "NO ANSWER")]]

Day == [d \in DOMAIN Calendar |-> Calendar[d].day]
Hour == [d \in DOMAIN Calendar |-> Calendar[d].hour]

\* A histogram of the days of Sofia, as are those of hours and weeks.
overviewSeries(w) == Buckets(w, InWindow(w), Day)

\* disp of RingGroupStats; the precedence is its own.
GroupOutcome(L) == FirstPresent(Disps(L), <<"ANSWERED", "NO ANSWER", "BUSY", "FAILED">>)

RoutedTo(w, g) == {c \in Calls : \E r \in LegsIn(w, c) : r.dst = g \/ r.dstchan = g}

\* The missed calls of a ring group, of which the code keeps the last hundred.
MissedBy(w, g) == {c \in RoutedTo(w, g) : GroupOutcome(LegsIn(w, c)) # "ANSWERED"}

OverviewResponse(w) ==
    LET by == Overview(w)
    IN  [total |-> Cardinality(InWindow(w)),
         answered |-> Cardinality(by["ANSWERED"]),
         missed |-> Cardinality(by["NO ANSWER"]),
         busy |-> Cardinality(by["BUSY"]),
         failed |-> Cardinality(by["FAILED"])]

\* The newest missed calls; among equals any.
MissedLists(w, g) ==
    LET missed == MissedBy(w, g)
        when(c) == When(LegsIn(w, c))
    IN  {M \in SUBSET missed :
            /\ Cardinality(M) = Min({MissedLimit, Cardinality(missed)})
            /\ \A c \in M, d \in missed \ M : when(c) >= when(d)}

RingGroupStats(w, g) ==
    LET of(d) == {c \in RoutedTo(w, g) : GroupOutcome(LegsIn(w, c)) = d}
    IN  [total |-> Cardinality(RoutedTo(w, g)),
         answered |-> Cardinality(of("ANSWERED")),
         noAnswer |-> Cardinality(of("NO ANSWER")),
         allBusy |-> Cardinality(of("BUSY")),
         failed |-> Cardinality(of("FAILED"))]
-----------------------------------------------------------------------------
(* An extension in the list of extensions.                                 *)

\* The number a channel name holds, as SUBSTRING_INDEX and '^[0-9]+$' find it.
NumberIn(ch) == IF ch \in Numeric THEN ch ELSE None

\* Calls and the extensions that originated or answered them.
Parties(w) ==
    LET rows == UNION {LegsIn(w, c) : c \in Calls}
    IN       {<<r.call, NumberIn(r.chan)>> : r \in rows}
        \cup {<<r.call, NumberIn(r.dstchan)>> : r \in {q \in rows : q.disp = "ANSWERED"}}

ListExtensionStats(w) ==
    LET P == {p \in Parties(w) : p[2] # None}
    IN  [x \in {p[2] : p \in P} |-> {p[1] : p \in {q \in P : q[2] = x}}]

\* Slip: members that only rang are parties, as they once were.
AnyLeg(w, x) == {c \in Calls : \E r \in LegsIn(w, c) : r.chan = x \/ r.dstchan = x}

\* extensionLinkedIDFilter, by LIKE '%/x-%'.
FilteredBy(w, x) ==
    {c \in Calls : \E r \in LegsIn(w, c) : r.chan = x \/ (r.disp = "ANSWERED" /\ r.dstchan = x)}

\* From the least channel and the least dstchannel of the legs.
StatsDirection(L) ==
    LET from == Min({r.chan : r \in L}) \in Numeric
        to == Min({r.dstchan : r \in L}) \in Numeric
    IN  CASE from /\ ~to -> "outbound"
          [] ~from /\ to -> "inbound"
          [] from /\ to -> "internal"
          [] OTHER -> "unknown"

AnsweredBy(w, x) == {c \in Calls : \E r \in LegsIn(w, c) : r.disp = "ANSWERED" /\ r.dstchan = x}
OriginatedBy(w, x) == {c \in Calls : \E r \in LegsIn(w, c) : r.chan = x}

DirectedAs(direction, w, K) == {c \in K : StatsDirection(LegsIn(w, c)) = direction}

Handled(w, x) ==
    DirectedAs("inbound", w, AnsweredBy(w, x)) \cup DirectedAs("outbound", w, OriginatedBy(w, x))

\* One of its calls in the sums: the longest answered leg.
Billsec(w, c) == MaxOr({r.bill : r \in {q \in LegsIn(w, c) : q.disp = "ANSWERED"}}, 0)

extensionStatToProto(w, x) ==
    LET calls == ListExtensionStats(w)[x]
        of(d) == {c \in calls : Outcome(LegsIn(w, c)) = d}
    IN  [total |-> Cardinality(calls),
         answered |-> Cardinality(of("ANSWERED")),
         missed |-> Cardinality(of("NO ANSWER")),
         inbound |-> Cardinality(DirectedAs("inbound", w, AnsweredBy(w, x))),
         outbound |-> Cardinality(DirectedAs("outbound", w, OriginatedBy(w, x))),
         talk |-> SumOver(of("ANSWERED"), LAMBDA c : Billsec(w, c))]

NoStat == [total |-> 0, answered |-> 0, missed |-> 0, inbound |-> 0, outbound |-> 0, talk |-> 0]

\* The second query of the list, for the pager.
countExtensions(w) ==
    Cardinality(({NumberIn(r.chan) : r \in Rows(w)}
        \cup {NumberIn(r.dstchan) : r \in {q \in Rows(w) : q.disp = "ANSWERED"}}) \ {None})

\* The rows that decorateBusiestHour counts for an extension: where it was
\* dialled, answered or not, and where it dialled nothing.
RowsOf(w, x) == {r \in Rows(w) : r.dstchan = x \/ (r.dstchan = None /\ r.chan = x)}

\* The hours it can come out as; 0 where there is nothing to count.
BusiestHours(w, x) ==
    LET at(h) == Cardinality({r \in RowsOf(w, x) : Hour[Date[r.at]] = h})
        hours == {Hour[Date[r.at]] : r \in RowsOf(w, x)}
    IN  IF hours = {} THEN {0} ELSE {h \in hours : \A o \in hours : at(o) =< at(h)}
-----------------------------------------------------------------------------
(* An extension drilled down.                                              *)

\* The summary is looked for among the first rows of the list, in the order of
\* the number of calls, of the extensions that match its number.
DrillSummaries(w, x) ==
    LET stats == ListExtensionStats(w)
        calls(y) == Cardinality(stats[y])
        rivals == {y \in DOMAIN stats \ {x} : <<x, y>> \in Matches}
        ahead == {y \in rivals : calls(y) > calls(x)}
        level == {y \in rivals : calls(y) >= calls(x)}
    IN  IF x \notin DOMAIN stats THEN {NoStat}
        ELSE    (IF Cardinality(ahead) < DrillLimit THEN {extensionStatToProto(w, x)} ELSE {})
           \cup (IF Cardinality(level) >= DrillLimit THEN {NoStat} ELSE {})

extensionSeries(w, x) == Buckets(w, FilteredBy(w, x), Day)

\* Always 24 of them.
extensionHourOfDay(w, x) ==
    LET byHour == Buckets(w, FilteredBy(w, x), Hour)
    IN  [h \in 0 .. 23 |-> IF h \in DOMAIN byHour THEN byHour[h]
                           ELSE [total |-> 0, answered |-> 0, missed |-> 0]]
-----------------------------------------------------------------------------
(* Recordings.                                                             *)

\* What the PBX has on its disk: a file for each recorded leg, in the directory
\* of the day on which the leg began, in the PBX's own time.
Files == {[dir |-> Calendar[Date[r.at]].day, name |-> r.rec] : r \in {q \in cdr : q.rec # None}}

\* Slip: only the directory itself is looked into.
BaseOnly(r) == {f \in Files : f.dir = 0 /\ f.name = r.rec}

\* The directory itself (0), then that of the day in UTC.
resolvePath(r) == {f \in Files : f.dir \in {0, Calendar[Date[r.at]].utcDay} /\ f.name = r.rec}

\* Serve: the first recorded leg names the file; {} is RECORDING_NOT_FOUND.
Serve(c) ==
    LET recorded == {r \in Legs(c) : r.rec # None}
    IN  IF recorded = {} THEN {} ELSE resolvePath(FirstOf(recorded))
-----------------------------------------------------------------------------
(* What the numbers promise of each other.                                 *)

\* What the buckets of a histogram count, all together.
Sum(buckets, field) == Cardinality(UNION {{k} \X (1 .. buckets[k][field]) : k \in DOMAIN buckets})

\* The overview counts a call once, under the disposition the list shows, and its
\* totals and its histogram add up to the calls though the legs of one fall into
\* several buckets; a ring group misses just the calls through it that are not
\* shown as answered, and shows all of these, or the newest.
StatsAgree ==
    Unread => \A w \in Windows :
        /\ \A c \in Listed(w, "", "") :
               ~SystemAnswered(c) => c \in Overview(w)[FinalDisposition(LegsIn(w, c))]
        /\ LET o == OverviewResponse(w)
           IN  /\ o.total = o.answered + o.missed + o.busy + o.failed
               /\ Sum(overviewSeries(w), "total") = o.total
               /\ Sum(overviewSeries(w), "answered") = o.answered
        /\ \A g \in Groups :
               LET s == RingGroupStats(w, g)
               IN  /\ s.total = s.answered + s.noAnswer + s.allBusy + s.failed
                   /\ \A c \in RoutedTo(w, g) : ~SystemAnswered(c) =>
                          (c \in MissedBy(w, g) <=> FinalDisposition(LegsIn(w, c)) # "ANSWERED")
                   /\ \A M \in MissedLists(w, g) :
                          Cardinality(M) = Min({MissedLimit, s.total - s.answered})

\* All legs are from one kind of party to one kind of party, an extension that
\* is a number, or something that is no extension at all.
Plain(L) ==
    /\ \E from \in {Numeric, Trunks} : \A r \in L : r.chan \in from
    /\ \E to \in {Numeric, Trunks \cup {None}} : \A r \in L : r.dstchan \in to

\* The exceptions of the busiest hour, which is one of rows: an extension rang in
\* vain, or it dialled somebody, or a call of its has several rows.
OneRowEach(w, x) ==
    /\ \A r \in Rows(w) : r.dstchan = x => r.disp = "ANSWERED" /\ r.chan # x
    /\ \A r \in Rows(w) : r.chan = x => r.dstchan = None
    /\ \A c \in FilteredBy(w, x) : Cardinality(LegsIn(w, c)) = 1

Busiest(hours) == {h \in DOMAIN hours : \A o \in DOMAIN hours : hours[o].total =< hours[h].total}

\* The drill-down of an extension repeats its row of the list, as long as no
\* more extensions match its number than are read; both of its histograms add
\* up to that row, though other queries fill them; the pager counts the rows
\* there are; a call in and a call out is one that the list of calls shows as
\* such, but for calls of legs of several kinds; and the busiest hour is the
\* highest of the histogram, as long as each call is one row.
ExtensionAgrees ==
    Unread => \A w \in Windows :
        LET stats == ListExtensionStats(w)
        IN  /\ countExtensions(w) = Cardinality(DOMAIN stats)
            /\ \A c \in InWindow(w) : Plain(LegsIn(w, c)) /\ LegsIn(w, c) = Legs(c) /\ ~SelfCall(c) =>
                   StatsDirection(LegsIn(w, c)) = CallRow(w, c).direction
            /\ \A x \in Numeric :
                   LET row == IF x \in DOMAIN stats THEN extensionStatToProto(w, x) ELSE NoStat
                       hours == extensionHourOfDay(w, x)
                       series == extensionSeries(w, x)
                       matching == {y \in DOMAIN stats : <<x, y>> \in Matches}
                   IN  /\ FilteredBy(w, x) = IF x \in DOMAIN stats THEN stats[x] ELSE {}
                       /\ Cardinality(matching) =< DrillLimit => DrillSummaries(w, x) = {row}
                       /\ \A b \in {hours, series} :
                              /\ Sum(b, "total") = row.total
                              /\ Sum(b, "answered") = row.answered
                              /\ Sum(b, "missed") = row.missed
                       /\ row.inbound + row.outbound =< row.total
                       /\ row.inbound + row.outbound = Cardinality(Handled(w, x))
                       /\ row.total > 0 /\ OneRowEach(w, x) => BusiestHours(w, x) = Busiest(hours)

\* A call that the list says was recorded can be played: one file is found, the
\* one that is named, unless the calls' days in UTC and on the PBX differ, or two
\* legs were recorded.  And the detail offers it, unless only a later leg was.
RecordingFound ==
    Unread => \A c \in Listed(Always, "", "") :
        LET row == CallRow(Always, c)
            recorded == {r \in Legs(c) : r.rec # None}
            night == \E r \in recorded : Calendar[Date[r.at]].day # Calendar[Date[r.at]].utcDay
        IN  /\ row.recording = None => Serve(c) = {}
            /\ row.recording # None /\ ~night => Serve(c) # {}
            /\ Cardinality({r.rec : r \in recorded}) = 1 =>
                   \A f \in Serve(c) : f.name = row.recording
            /\ FirstOf(Legs(c)).rec # None /\ Cardinality({r.rec : r \in recorded}) = 1 =>
                   CallDetail(c).recording = row.recording
=============================================================================
