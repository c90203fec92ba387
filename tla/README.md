# Verification of go-tangra-asterisk

TLA+ models of the stateful parts of this repository, TLC runs that check them on
small instances, and TLAPS proofs of what must hold for every instance. Paths
below are relative to the root of the repository.

## The system

`go-tangra-asterisk` sits beside an Asterisk PBX. It follows the calls that are up,
keeps a history of the registrations of phones, answers questions about past
calls from the PBX's own CDR database, and exports metrics.

| part | state | operations | talks to |
|---|---|---|---|
| AMI listener, `internal/ami` | one TCP session with Asterisk, its reader, a reconcile goroutine and a pinger | `Run`, `session`, `awaitResponse`, `dispatch`, `reconcile`, `Stop` | Asterisk; calls the registry's `Apply*` and `Reset`, and `Insert` of the registration history |
| live call registry, `internal/calls/registry.go` | `channels`, `byCall` under `mu` | `Apply*`, `Reset`, `Snapshot` | called by the listener; hands every change to `publish` |
| event fan-out, same file | `subs` (buffered channels) under `subMu` | `Subscribe`, `Unsubscribe`, `publish` | one subscriber per stream request |
| stream handler, `internal/server/calls_stream.go` | the position of one HTTP request | snapshot, subscribe, select loop, keepalive | browser (server-sent events) |
| REST snapshot, `internal/service/live_calls_service.go` | none | `ListActiveCalls` | registry, browser |
| dashboard page, `frontend/src/views/dashboards/index.vue` | a map of calls, timers, an EventSource | `applySnapshot`, `applyEvent`, `connectStream`, `loadLiveCallsSnapshot` | stream handler, REST |
| registration history, `internal/data/pjsip_reg_repo.go` | table `pjsip_registration_events` | `Insert`, `GetStatusAt`, `ListRegisteredAt`, `ListEvents` | written by the listener, read by the services |
| quality collector, `internal/exporter/quality` | watermark, counters, cached probe of the columns | `New`, `Collect` | Prometheus; `ListLegsWithQoSSince` of the CDR repository |
| CDR queries and statistics, `internal/data/cdr_repo.go`, `stats_repo.go` | none but the probe | `ListCalls`, `GetCall`, aggregates | the PBX's MySQL |
| Asterisk exporter, `internal/exporter` | an AMI connection per scrape | `Collect`, `Action`, `ListAction` | Asterisk, Prometheus |
| RTP statistics, `internal/data/rtpqos.go` | none | `ParseRTPQoS`, `quality`, `mesToMOS` | the quality collector, the CDR queries |
| process, `cmd/server`, `internal/data/config.go`, `mysql.go` | the configuration, the MySQL pools, the listener's context | `LoadConfig`, `NewMySQLClients`, `EnsurePJSIPRegistrationTable`, `newApp`, cleanup | admin service, MySQL, all other parts |
| Prometheus proxy, `internal/data/prometheus.go`, `dashboard_service.go` | none | `Query`, `QueryRange` | Prometheus, the dashboard |
| recordings and directory, `internal/server/recordings.go`, `directory.go` | none | `ServeHTTP`, `resolvePath` | the CDR database, the spool of recordings |
| other services, `internal/service` | none | one handler per request | the repositories |

What is hard in it, and what each part must therefore get right:

- **Registry.** Two maps that must agree after every event of a protocol that repeats
  itself, refreshes and resets. Every live leg is in exactly one call; every change
  is announced, in the right kind of event, with the call as it now is.
- **Fan-out.** The goroutine that reads AMI publishes while handlers subscribe and leave.
  It must not block, send on a closed channel or leave a hole in what a subscriber sees.
- **Stream and page.** A snapshot and the changes that follow it come from two critical
  sections, and from two endpoints; what the page shows must become what is true.
- **Listener.** Reset, the list of channels and the events that overlap it are applied by
  two goroutines; connections break or fall silent at any step; cancellation must end it.
- **Registration history.** State is inferred from events, with outages and failed inserts
  between them; two queries must give one answer.
- **Quality collector.** A watermark over rows that are written long after the time they
  carry, read in pages, over restarts.
- **Exporter.** One deadline over many round trips; a phase that fails must cost neither
  the others nor the truth of `up`, and leave no session in Asterisk.
- **CDR queries.** What became of a call is worked out five times, in SQL and in Go, by the
  list, its filters, the detail, the overview and the ring groups; the answers must agree
  while the table grows.

- **Statistics.** The same calls are counted by half a dozen queries, into totals, histograms,
  lists and drill-downs with limits of their own, across midnights and time zones; the numbers
  must add up.
- **Process.** Settings come from three sources by rules that differ; the start can fail at
  any step, with pools open; the end closes what is still in use; and an answer given while
  something is away must say why.

`PROJECT.json` lists these hazards line by line with the properties aimed at them.

## The modules

| module | models | state and actions |
|---|---|---|
| `Registry` | `internal/calls/registry.go` without the fan-out | `channels`, `byCall` as in the code; one action per `Apply*` and for `Reset`. `published` is the event of the step; `mirror` is what a consumer of all events believes. |
| `Feed` | nothing; the promise of a fan-out | a log, and readers that join at its end, read in order, and are cut off or leave |
| `Broadcast` | `Subscribe`, `Unsubscribe`, `publish`, the select loop of `ServeHTTP` | one step per lock section, channel operation and socket write; implements `Feed` |
| `Dashboard` | `applySnapshot`, `applyEvent` of the page | operators over the page's map |
| `CallStream` | registry, handlers and pages together | EXTENDS `Registry`; the event of a step waits between the registry's locks and the fan-out; the fan-out is the feed that `Broadcast` implements; disconnection, timers, REST |
| `Listener` | `Run`, `session`, `reconcile`, and an Asterisk and a network that fail | `pc` is the place of `Run`, `recon` that of each session's goroutine, `wire` the frames under way. Of the registry only the set of known channels is kept. |
| `RegistrationLog` | rows written by events and reconciles; the three queries, the answers `registration_service.go` makes of them and the note `cdr_service.go` puts beside a leg | `rows` in id order; Asterisk's contacts with their expiry; sessions that come and go; inserts that fail |
| `QualityCollector` | `New`, `Collect`, `probeQoSColumns`, `ListLegsWithQoSSince` | `calldate`, `row` belong to the PBX, `lastSeen`, `probe`, `counted` to the collector; a scrape is one step, for `Collect` holds the mutex and reads with one query |
| `Scrape` | `Collect`, `scrape` and its phases, `Dial`, `Action`, `ListAction`, `Login`, `Close` | `at` and `k` are the place of the scrape in its script of actions; requests queue for `c.mu`; Asterisk accepts, rejects, delays or forgets, the connection breaks. Of the rows of a list only the number is kept. |
| `CallRecords` | the queries of `cdr_repo.go` and `stats_repo.go` that say what became of a call, the two queries of a page of the list, and their translation to the wire | operators over `cdr`, the set of legs, which grows while a reader pages; a leg has one of a few typical shapes and a place, which orders dates and sequence |
| `CallStatistics` | EXTENDS `CallRecords`: `stats_repo.go`, `stats_service.go`, `recordings.go` | the overview, the ring groups, the extensions with their hours, series and drill-down, and the file that is played; operators over the same `cdr` |
| `CallQuality` | EXTENDS `QualityCollector`: `rtpqos.go`, `observe`, `recordSide` | the counters and histograms a scrape adds to; `CollectAndObserve` is `Collect` with what it observes of each row |
| `Exposition` | EXTENDS `Scrape`: what `collectCore`, `collectChannels`, `collectSIPPeers`, `collectPJSIPEndpoints`, `collectPJSIPContacts`, `collectQueues` make of their rows | a sample is its metric, labels and value; operators over the rows of a list |
| `Service` | `config.go`, `mysql.go`, `cmd/server`, `prometheus.go`, and the errors of `internal/service` and `internal/server` | `stage` is the place of the start or the end, `pools` and `listener` what is open; databases, Prometheus and the admin service come and go; one action per request, whose answer is its code and reason |
| `MC...` | small instances: symmetries, views, values of constants | |
| `...Proofs` | theorems | |

Definitions marked *Slip* in a comment are plausible bugs. No specification uses them;
each replaces the definition after it to show that a property notices.

External parts (Asterisk, the network, the clock, the browser's EventSource) are
modelled from how the code uses them and are marked external in the map.

## The runs

| run | expected | question and bounds |
|---|---|---|
| `registry_calls` | pass | Three Uniqueids in any grouping into calls (a Linkedid is one of them), a bridge, one cleaned field, two clock ticks. Three legs are the least for which order within a call, a middle hangup and two calls at once all occur. |
| `registry_resync` | pass | Two Uniqueids that may be announced again while live, and resets at any time. |
| `broadcast` | pass | Two handlers, a buffer of two, three events: one fills the buffer, a second handler is dropped while the first reads. Safety, refinement of `Feed`, and liveness. |
| `callstream` | pass | Two channels, one page, a buffer of one, disconnections, and one fault at any moment: a `Reset`, a late REST answer, or a Linkedid that comes back (`MaxFaults`). Pages share nothing but the registry, so one is enough; one fault is enough for each to meet every state of the stream, not for two to meet. The registry's clock stands still: legs of one instant are ordered by their Uniqueids, and the second to come may still be the first of the call. |
| `callstream_gap` | violation | see below |
| `listener` | pass | Three sessions, two channels, two changes, two frames awaited at login. The third session sees the leftovers of one that was itself started over. |
| `reglog` | pass | Two phones with an extension each, a lifetime of one tick, two ticks, three rows; rows may be lost, also those of a reconcile. Expiry, ties of two and three rows, and outages all occur. |
| `reglog_unqualified` | violation | see below |
| `quality` | pass | Three calls, pages of two, four instants, one restart, queries that fail; one row was good on both sides, one was heard in one direction and had no peer, of one no score arrived (`ThreeRows`). Two fill a page and a third can tie with its end. |
| `scrape` | pass | Two requests, so that one waits; a list that must exist (`channels`) and one that need not (`queues`), which are the two kinds; two rows, so that a list can break off in its middle; a timeout of two ticks, so that a deadline can fall before, in and after any phase. When a scrape reports, `SeriesAddUp` is asked of every list of as many rows of `SmallRows`, in which the fields differ where the code tells them apart, blank ones among them. Safety and liveness. |
| `calls` | pass | Three calls, three legs in every assignment to calls, eleven shapes (`TypicalShapes`: a prompt, ring group members, a Local channel, a trunk that fails, calls in, out and inside, an extension that calls itself, the voice mailbox), dates `<<1, 2, 2>>` on the two sides of a midnight (`AroundMidnight`: a day of the PBX that is not the day in UTC), pages of one, a drill-down that reads one row of two (`DrillLimit`) and a list of missed calls of two. Three legs hold every pair of outcomes with a third in any order, and two share a date. |
| `service` | pass | Every pair of a file (absent, broken, minimal, full) and an environment that sets, omits or blanks each setting, 648 in all; a failure at any step of the start; an end; every request while at most one of the databases, Prometheus and the admin service is away. One outage at a time, since no answer depends on two. The process ends, so deadlock is not checked. |

`registry_calls` and `registry_resync` are symmetric in Uniqueids, bridges and values, and
`callstream` besides uses a view without the histories only `Registry`'s own
properties read. In `reglog` the two phones are interchangeable, and the view keeps of a
row's status only whether it counts as registered, which is all the queries read.
`calls` is symmetric in the calls.
Symmetry and views are used only where no liveness is checked. Deadlock is not
checked where the bounded environment simply runs out.

A run checks what its question needs: `registry_calls` what holds without resets,
`registry_resync` what holds with them. The type invariants, and `GapFree`, `NoLeak` and
`DropMeansMiss` of the fan-out, are stated and not in a run: TLC agreed to each on the
instance of its run, and those of `Registry`, `Broadcast`, `QualityCollector`, `Scrape`,
`RegistrationLog`, `CallRecords` and `Listener` are proved.

### What the properties say

- `IndexAgrees`, `LiveCallsMirrored`, `NothingLingers`, `OriginatingLegFirst`,
  `StartedIsNews`, `NewsIsStarted`, `LastHangupEnds`: the registry against its own
  comments. `NothingLingers`, `StartedIsNews` and `OriginatingLegFirst` are checked
  without resets and refreshes: `Reset` publishes nothing, so a consumer keeps what it
  wiped, and a refreshed channel gets a new `CreatedAt`, so the originating leg may
  stop being element 0. With `Relinks = TRUE` (a known Uniqueid under another Linkedid)
  `IndexAgrees` and `LastHangupEnds` fail: the old index entry stays.
- `NoPanic`, `NoLeak`, `GapFree`, `MissMeansDrop`, `DropMeansMiss`, `PublishReturns`,
  `DroppedHandlerReturns`, `ImplementsFeed`: the fan-out.
  `DroppedHandlerReturns` assumes of the client that it does not stall a write for ever:
  a handler notices that it was dropped only between two writes, and the server sets
  no write timeout.
- `ShownIsLive`: a page that has received everything is right about every call outside
  `doubt`. `doubt` names the four ways it can be wrong: a change between snapshot and
  subscription, a `Reset`, a late REST answer, and a removal timer that outlives the
  return of its call. `EndedStaysEnded`: an ended row is shown as live again only if such a
  call lives, its end is still under way (in the stream, or after a cut in the next one), or
  the page is in `doubt` about it.
- `InSync`, `CatchesUp`, `RunReturns`: the listener. The first two except what a late reconcile of
  a session that is over wiped (the history `wiped`, see below). `RunReturns` has one exception, by name:
  the read of the login response has no deadline, so a peer that goes silent there holds
  `Run` for as long as the connection stays up.
- `NoFalseOffline`, `NoFalseOnline`: the present state inferred from the rows, where the last news
  was written; and where it was not, for how long the answer may be wrong. They are about one contact per extension: the last row of any contact
  speaks for the extension, so with two phones on one extension the first to leave
  takes it offline. `AgreeOffTheEdges`: `GetStatusAt` and `ListRegisteredAt` agree unless
  two rows share the latest time (the list then repeats or adds an extension) or the
  question is about the very instant of an expiry; so do the service's answers, and the
  note `GetCall` puts beside a dialled extension. `PagesPartition`: the pages of the history hold
  each event once. `PastIsFixed`: what was answered about an earlier instant stays the answer.
- `NeverTwice`, `OnlyTiesAreSkipped`, `CatchesUp`: the collector. Their exceptions are what the
  code gives up: rows that tie with the end of a full page, rows from before a restart,
  and everything once the first query for the columns has failed (`sync.Once` keeps
  that answer). `MetricsAddUp`: each row a process counted is in one band of its own side and at
  most one of its peer's, a known band stands for one or two observed scores, a histogram
  holds no more than its side's rows, and the band is the worse direction's for every pair of scores.
- `RowsAreWhole`, `UpIsTrue`, `OneSession`, `InTime`, `Served`: the exporter. What is
  reported is what Asterisk listed, `up` is 1 exactly if nothing is missing, a rejected
  phase costs no other, one session at a time and none left behind, and every
  request is answered though Asterisk need not answer anything. `SeriesAddUp`: no series is sent
  twice for rows Asterisk names once, and the grouped gauges add up to the single ones.
- `DrillAgrees`, `FiltersAgree`, `StatsAgree`, `ExtensionAgrees`: the answers about one call agree with each
  other, but for three kinds of calls, by name: `SystemAnswered`, `AnsweredTwice`, `SelfCall`.
  Totals are the sums of their parts and of both histograms, though other queries fill these;
  the drill-down repeats the row of the list while no more extensions match than it reads;
  a direction agrees with the list's for calls whose legs are of one kind (`Plain`) and all in the
  window; the busiest hour is the highest of the histogram while each call is one row.
- `RecordingFound`: what the list says was recorded can be played, and is what it named, unless
  the call's day differs between the PBX and UTC, or several legs were recorded; the detail
  offers it if the first leg was recorded.
- `NoCallSkipped`: paging by offset while calls end. Its exception, `disturbed`, is a tie in the
  order, a call of the list that moved, or a row that was written between the count
  and the fetch of a page.
- `RunsAsConfigured`: while there are endpoints, the environment has won for every setting it can
  win for and each database asked for has its pool; a start that failed and a process that
  ended keep no pool and no listener; a row about a registration is lost to a closed pool only
  between the cleanup and the cancellation of the listener. `TruthfulAnswers`: a part is said
  to be disabled only if the environment does not set it, MySQL to be unavailable only if a
  database is (or the range is inverted), a request to be wrong only if it is, and success means
  that what was asked could be read; the directory and the calls of a listener that
  is off are the exceptions.

### What disagrees with the code's own words

- `callstream_gap`: `ServeHTTP` takes the snapshot and then subscribes; a call that
  changes in between stays wrong on the page until the next event about it.
- `reglog_unqualified`: a contact list says `NonQualified`, the code knows `Unqualified`: after
  a reconnect a phone that is not probed is offline until it registers again.

Met while modelling, and kept in the models as what the code does:

- `listener.go:251`: nothing ties the reconcile goroutine to its session. One that is scheduled late
  calls `Reset` after the next session has seeded the registry, against "stale state from a
  previous (dropped) session" (249-250).
- `quality/collector.go:175`: the watermark is a start time and rows appear at the end of calls. A long
  call whose row appears after that of a shorter, later one lies below the watermark and is
  never read, against "Pulls all new cdr rows" (139).
- The exporter's "WHOLE-scrape deadline" (`exporter.go:51`) does not hold for the banner, which is
  given `Timeout` of its own: a scrape may hold `c.mu` for twice as long.
- `ListAction` does not look at the ActionID of the first message, and `collectCore` takes a
  rejection for an answer. With one action at a time on a fresh connection neither
  changes what is reported.
- A row that an `Answer()` of the dialplan left (`ANSWERED`, no `dstchannel`) is not an answer for
  the list and the detail, but is one for the overview and for ring groups ("at least
  one member picked up", `stats_repo.go:733`), and the `billsec` and answerer of the list.
- Without a direction filter the list hides calls of unknown direction, among them those
  whose first leg is such a row with a trunk as its channel.
- A call whose legs fall into two windows is counted in both, in each by the legs there.
- Statistics of an extension: the direction of a call is that of the least channel name of its
  legs (`MIN(channel)`, `stats_repo.go:278`), not of its first leg; the busiest hour counts rows where all
  else counts calls (437); the drill-down looks among the first 200 extensions whose number
  contains the one asked for (578), and is empty for one beyond them.
- The recording's name is looked up by the day of the call in UTC (`recordings.go:148`) where all statistics use the
  PBX's zone, so calls around midnight have none; the detail shows the recording of the first leg
  only (`cdr_repo.go:575`) where the list shows any.
- A row without RTP statistics is left out by the query, so it is never in the counter that is
  "Always counted" (`quality/collector.go:183-186`); `ParseRTPQoS` returns nil for a blank string only, against "nil when
  the string is empty or unparseable" (`rtpqos.go:70`).
- `pjsip_endpoint_up` is 1 for "On Hold" and "Ring" also (`pjsip.go:17`), which its help text does not name
  (`exporter/collector/collector.go:148`).
- Of the file only the two DSNs, the pool's sizes and the timeout count (`config.go:129`): its tangra DSN,
  Prometheus and AMI sections are not copied. Whether the registration endpoints say `AMI_DISABLED` is decided by
  the tangra DSN, as `README.md:79-80` has it, and not by the AMI host, as `configs/data.yaml:30-32` has it.
- `Query` takes the first element of a scalar result, its time, for the pair of time and value, so that
  a scalar always fails, against `dashboard.proto:45-46`; a NaN in a
  range arrives as a measured 0, which an instant query marks as missing (`dashboard.proto:55-56`).
- `MYSQL_UNAVAILABLE` is sent with code 500; the proto declares 503 (`asterisk_error.proto:14`). A range that ends
  before it begins is answered with it too. The directory answers an empty 200 when its query fails.
- `main.go:73` closes the pools before the listener's context is cancelled, so that the last events of a
  run may find no database.

## Fairness

- `Broadcast`: the publisher's goroutine goes on (weak); a handler's `select` does not pass
  over a ready case for ever (strong: Go chooses among ready cases at random), and a
  cancelled request is noticed likewise. Nothing is assumed of clients except where a
  property says so (`ClientReads`), nor of Asterisk.
- `Listener`: `Run` and the reconcile goroutines go on, deadlines that the code has set pass, and an
  Asterisk that is alive answers (weak). Nothing of dialling, faults, changes, cancellation.
- `QualityCollector`, `CallQuality`: Prometheus keeps scraping and the database does not fail for
  ever (weak fairness of a scrape that succeeds).
- `Scrape`: the goroutine that holds `c.mu` goes on and time passes (weak); the mutex passes over no
  waiter for ever (strong; Go's mutex hands over to a starving waiter). Nothing of
  Asterisk or the network: the deadlines suffice.
- The other specifications are about safety and have none.

## Proofs

Every constant is arbitrary within the named assumptions of its module: any number of calls,
subscribers, pages, contacts, sessions, requests or rows, any buffer, timeout or bound. A theorem
that needs more than these assumptions names it as a hypothesis.

**`CallStreamProofs`, about the registry.** `TypeCorrect` holds for every environment, relinking included. Under
`~Relinks`: `IndexCorrect`, `MirrorCorrect`, and, without resets,
`NothingLingersWithoutReset`. `IndexAgrees` is not enough to show that an update is
announced with the right call: the invariant `IInv` adds that the mirror of a live
call is the view of its channels, and that a call is live exactly when its list is not
empty. Lemmas about lists (`RemoveStringProperties`, `IndexedProperties`) say what
`removeString` and the insertion do to a list without repetitions. From the same
invariant the action properties: `NewsStarts` and `LastHangupEndsCall` across resets and
refreshes, `StartIsNews` without resets. `OriginatingLegComesFirst` needs `~Refreshes`, for a
refresh gives a channel a new `CreatedAt`; its invariant `OrderInv` says that along each list of
`byCall` no leg is older than the one before it.

**`BroadcastProofs`.** From one invariant, types plus `MapInv` (who is in the map, closed,
todo or dead at each place of the publisher and of each handler) plus `DeliveryInv`
(what was written, is being written and is buffered is an unbroken run, and how far it
reaches in each phase of the publisher): `NeverPanics`, `NeverLeaks`, `DeliversInOrder`,
`MissingOneDrops`, `DropsOnlyWhoMissed`, `TypeCorrect`, and `RefinesFeed`, that every step
is a step of `Feed` or a stutter. `NoPanic` alone is not inductive: a publisher that drops
a subscriber must be known to find its channel open or its entry gone.

**`CallStreamProofs`, about the pages.** `SettledPageIsRight` and `EndedRowStaysEnded` under `~Relinks`,
for any number of pages and faults. The registry's invariant carries over, for every step of the
composition is one of the registry or leaves it alone. What a page shows says nothing while
events are under way; the invariant is that what it has still to read, from its queue
and from the publisher, makes up for what it shows: of each call outside `doubt`, the last event
under way tells the registry's state, and if there is none the row does.

**`ListenerProofs`.** `RegistryIsInSync`. What a queue of frames does to the registry is a fold; `FoldDecides`
shows that it is decided, channel by channel, by the last frame about the channel.
The invariant is about that frame: it tells the truth (`WireIsTrue`); after the reset, what the registry
has and no frame mentions is up (`NoGhost`); after the list, what is up is brought by a frame or
is known and mentioned by none (`NoneLost`).
`SessionsInOrder` and `LoggedIn` say which goroutine of which session can still act.

**`RegistrationLogProofs`.** The rows are in the order of their times, so that the latest of a prior time is the one
with the greatest id; no row promises more than some phone of its extension has registered for; and where the
last news was written, a last row that counts as registered is of an extension that can be reached (`LogInv`). From it `QueriesAgreeAlways`,
`PagesArePartition`, `OnlineIsTrue` and `PastStaysFixed`. `OfflineIsTrue` is proved where each
extension has one phone (`OnePhoneEach`) and all are probed (`Qualified = Contacts`). Without either it is
false of the code: `reglog_unqualified` shows the one, the other is the shared extension above.

**`CallQualityProofs`.** `CountsOnce`: a counted row lies at or below the watermark and the query
reads above it (`CountedIsBelow`), whatever ties, fails or restarts; `WrittenBegan` (a row belongs
to a call that began) is what keeps a later `Begin` from lifting a counted row above it. `SkipsOnlyTies`: a page
that leaves out a readable row is full, and sorted, so the row is at its end.
`TypeCorrect`: the watermark never lies before the start of the process or in the future.
`StepCounts`: every step that measures is a step of the collector that only
counts, so that `MeasuresOnce` and `MeasuresAllButTies` follow for any rows.
`WorstOfBoth`: for every pair of scores, the band of a call is the band of the worse direction that was
received. `MetricsAgree`: the counters are the tally of the rows that were counted since the process started (`TalliedInv`),
so that they add up as its parts do; sums over sets are shown to add (`SumOfParts`, `SumOfTwo`) and the curve from
R to MOS to rise between the values at which it is cut off (`CurveRises`).

**`ScrapeProofs`.** One invariant for every list, limit and behaviour of Asterisk and of the network, in parts: where a
scrape is and what it holds there (`ControlInv`), how long each operation may take (`TimeInv`), what the messages
under way can still be, and what has been reported of each list so far. From it `ClosesItsConnection`,
`ReportsWholeLists`, `UpTellsTheTruth`, `HoldsTheLockBriefly`. Each list is enabled at most once
(`IsInjective(Lists)`, as `ScrapeOptions` is a record of switches).
`SamplesAddUp`: `SeriesAddUp` for rows with any fields, in any number. A total is the number of pairs of a
sample and a number up to its value, so that samples with values add up as sets do; the rows of a group are numbered,
which is what its gauge counts (`Numbered`, `GroupsAddUp`). Assumed of the rows is what `strconv.ParseInt` gives: the time
of a contact is an integer or absent.

**`ServiceProofs`.** `ConfiguredRun`: for every set of pairs of a file and an environment, and every order of failures.
The invariant says for each stage of the start which pools are open, that `cfg` is the result
of `LoadConfig` from the stage after it on (`EnvironmentFirst` says what that is), and when the listener may run.
`AnswersAreTruthful`: what each code and reason means is a table of the state it was given in, and no step
after an answer leaves it standing for another state.

**`CallRecordsProofs`.** `PagerMissesNothing`, for any number of calls, rows and pages: what was there at the beginning
and was not shown is below the next page (`PagingInv`: at least `page * PageSize` calls are above it). `NoCallSkipped`
says nothing before the end, so it is not inductive. The step that writes a row shows what the exception must
be: not only that a call known at the beginning moved, but that any call of the list did. A new call may be above
a known one, and move below it when an earlier leg of its is written; then the known one is pulled up
past the page that is read next, which an instance with four places shows.
The queries are compared for every table with rows of any shape: `DetailAgreesWithList`, `FiltersAgreeWithList`,
`RecordingsFound`, `StatsAgreeWithList` and `ExtensionAgreesWithItself` follow from the types and from the finiteness of the
table alone. Each precedence
of dispositions is worked out once (`PresentInOrder`, `DispositionsAre`); that a histogram adds up is that the sizes of
the parts of a set do (`SumOfParts`, `BucketsAddUp`). Of an extension, the rows that make it party to a call (`Party`) are
what its list, its pager and its filter have in common (`StatsAre`).

Model-checked only: all liveness (`PublishReturns`, `DroppedHandlerReturns`, `RunReturns`, `CatchesUp`,
`Served`), which the prover does not reach.

## Not modelled

- Of the CDR queries: averages, shares and display names, the filters by source, destination and
  extension, the timeline of a call and its pickup times, the probe of the optional columns but for
  the collector's.
- Of the exporter: the gauges of `CoreStatus` but the two that count calls, two of a queue's three counters,
  the version it caches, `NextEvent` (nothing calls it). A histogram keeps its number of
  observations, not their values.
- Of the process: where the configuration lies (`configDir`), the middleware for mTLS, claims and audit and
  the registration client's retries, which are libraries outside this repository, and the end
  of open streams at shutdown, which is the framework's.
- Of the recordings: checks of paths, MIME types and ranges of bytes.
- The other pages of the frontend (forms and tables over REST answers, with no shared state),
  generated code, deployment files.
- Left out of the modelled parts: formatting and logging, addresses and user agents, `UpdatedAt`,
  the pinger's traffic, statistics cards of the dashboard.

## Plan

1. Done: the live-call path (`Registry`, `Broadcast`, `Feed`, `CallStream`, `Dashboard`,
   `Listener`), the registration history, the quality collector, the exporter's scrape, the
   CDR queries; proofs about `Registry`, `Broadcast` and `QualityCollector`.
2. Done: the statistics and recordings (`CallStatistics`), what the collectors make of their rows (`CallQuality`,
   `Exposition`), configuration, start, end and answers (`Service`); proofs about `CallQuality` and `Service`.
3. Done: proofs about `CallStream`, `Listener`, `RegistrationLog` and `Scrape`, the action properties of `Registry` and its
   order of legs, `MetricsAddUp`, `TruthfulAnswers` and `SeriesAddUp`; paging, and the agreement of list, filters,
   detail, recordings, statistics and extensions, for every set of legs.
4. Left: every safety property of a run is a theorem; what comes next is more of the system, such as the
   filters and averages named under "Not modelled", and steps the prover cannot take, which are the liveness properties.
