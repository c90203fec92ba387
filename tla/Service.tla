------------------------------- MODULE Service -------------------------------
(***************************************************************************)
(* The process around the parts: its configuration (data/config.go), its   *)
(* start and end (cmd/server, data/mysql.go), and what its endpoints say   *)
(* while a database or Prometheus comes and goes (internal/service,        *)
(* internal/server, data/prometheus.go).                                   *)
(*                                                                         *)
(* A value of a setting only shows where it comes from.  An answer is its  *)
(* code and reason; contents are the subject of other modules.             *)
(***************************************************************************)
EXTENDS Naturals, FiniteSets, Sequences

CONSTANTS
    Blank,      \* a setting that is missing or empty; no answer yet
    Configured  \* the pairs of a data.yaml and an environment considered

Keys == {"cdr_dsn", "config_dsn", "tangra_dsn", "query_timeout", "prometheus_url", "ami_host", "ami_port"}

ASSUME ServiceAssumption ==
    /\ Blank \notin {"default", "file", "space", "junk", "env"}
    /\ \A pair \in Configured :
           /\ pair.file.read \in {"ok", "absent", "broken"}
           /\ pair.file.says \in [Keys -> {Blank, "file"}]
           /\ pair.env \in [Keys -> {Blank, "space", "junk", "env"}]
           /\ \A k \in Keys \ {"ami_port"} : pair.env[k] # "junk"   \* a port that is no number

VARIABLES
    source,     \* the file and the environment
    cfg,        \* what LoadConfig made of them, Blank before
    stage,      \* how far the process has got
    pools,      \* open connection pools
    listener,   \* "none", "off", "running", "cancelled"
    up,         \* the services that can be reached
    lost,       \* history: stages in which a row was lost to a closed pool
    answer      \* the last request and what it was told

vars == <<source, cfg, stage, pools, listener, up, lost, answer>>

Databases == {"cdr", "config", "tangra"}

Init ==
    /\ source \in Configured
    /\ cfg = Blank
    /\ stage = "certificates"
    /\ pools = {}
    /\ listener = "none"
    /\ up = Databases \cup {"prometheus", "admin"}
    /\ lost = {}
    /\ answer = Blank
-----------------------------------------------------------------------------
(* Configuration.                                                          *)

Default == [k \in Keys |-> IF k \in {"query_timeout", "ami_port"} THEN "default" ELSE Blank]

\* applyAsteriskDefaults; the sizes of the pools go the way of query_timeout.
Merged == {"cdr_dsn", "config_dsn", "query_timeout"}

FromFile(k) ==
    IF source.file.read = "ok" /\ k \in Merged /\ source.file.says[k] # Blank
    THEN source.file.says[k] ELSE Default[k]

\* The environment variable of a setting, trimmed unless it is a DSN; a port
\* that is no number counts for nothing, and query_timeout has none.
FromEnv(k) ==
    LET v == source.env[k]
    IN  IF \/ k = "query_timeout"
           \/ v = "space" /\ k \notin {"cdr_dsn", "config_dsn", "tangra_dsn"}
           \/ v = "junk" /\ k = "ami_port"
        THEN Blank ELSE v

LoadConfig == [k \in Keys |-> IF FromEnv(k) # Blank THEN FromEnv(k) ELSE FromFile(k)]

Unstarted == UNCHANGED <<source, listener, up, lost, answer>>

\* initApp: certificates, configuration, pools, repositories and services, the
\* registration client; an error ends it.
Certificates ==
    /\ stage = "certificates"
    /\ stage' \in {"load", "failed"}
    /\ UNCHANGED <<cfg, pools>> /\ Unstarted

Load ==
    /\ stage = "load"
    /\ cfg' = LoadConfig
    /\ stage' = IF source.file.read = "broken" \/ cfg'["cdr_dsn"] = Blank \/ cfg'["config_dsn"] = Blank
                THEN "failed" ELSE "cdr"
    /\ UNCHANGED pools /\ Unstarted
-----------------------------------------------------------------------------
(* Start and end.                                                          *)

\* What follows the pool of a database.
After(db) ==
    CASE db = "cdr" -> "config"
      [] db = "config" -> IF cfg["tangra_dsn"] = Blank THEN "register" ELSE "tangra"
      [] db = "tangra" -> "migrate"

\* openPool: a pool is kept when its DSN parses and the database answers.
Reachable(db) ==
    /\ db \in up
    /\ cfg[CASE db = "cdr" -> "cdr_dsn" [] db = "config" -> "config_dsn" [] db = "tangra" -> "tangra_dsn"]
           \in {"file", "env"}

OpenPool(db) ==
    /\ stage = db
    /\ Reachable(db)
    /\ pools' = pools \cup {db}
    /\ stage' = After(db)
    /\ UNCHANGED cfg /\ Unstarted

\* Slip: a failing start leaves the pools it has opened.
ForgetsTheOthers(db) == {}

\* The pools NewMySQLClients closes when it fails over db.
ClosedAfter(db) ==
    CASE db = "cdr" -> {}
      [] db = "config" -> {"cdr"}
      [] db = "tangra" -> {"cdr", "config"}
      [] db = "migrate" -> {"cdr", "config", "tangra"}

OpenFails(db) ==
    /\ stage = db
    /\ ~Reachable(db)
    /\ pools' = pools \ ClosedAfter(db)
    /\ stage' = "failed"
    /\ UNCHANGED cfg /\ Unstarted

Migrate ==
    /\ stage = "migrate"
    /\ \/ "tangra" \in up /\ stage' = "register" /\ UNCHANGED pools
       \/ stage' = "failed" /\ pools' = pools \ ClosedAfter("migrate")
    /\ UNCHANGED cfg /\ Unstarted

\* NewRegistrationClient fails: initApp cleans up itself.
RegisterFails ==
    /\ stage = "register"
    /\ "admin" \notin up
    /\ stage' = "failed"
    /\ pools' = {}
    /\ UNCHANGED cfg /\ Unstarted

\* newApp: the listener is started when AMI is configured, then the servers.  Its
\* other condition always holds: there is always a registry.
NewApp ==
    /\ stage = "register"
    /\ stage' = "serving"
    /\ listener' = IF cfg["ami_host"] # Blank THEN "running" ELSE "off"
    /\ UNCHANGED <<source, cfg, pools, up, lost, answer>>

\* bootstrap.RunApp: the servers end or fail, then the cleanup runs,
Ended ==
    /\ stage = "serving"
    /\ stage' = "stopped"
    /\ answer' = Blank
    /\ UNCHANGED <<source, cfg, pools, listener, up, lost>>

Cleanup ==
    /\ stage = "stopped"
    /\ stage' = "cleaned"
    /\ pools' = {}
    /\ UNCHANGED cfg /\ Unstarted

\* and only then runApp's own deferred cancellation of the listener.
Exit ==
    /\ stage = "cleaned"
    /\ stage' = "exited"
    /\ listener' = IF listener = "running" THEN "cancelled" ELSE listener
    /\ UNCHANGED <<source, cfg, pools, up, lost, answer>>

\* An event about a registration; without a pool of the module's own every
\* Insert is refused, and nothing was promised.
Insert ==
    /\ listener = "running"
    /\ cfg["tangra_dsn"] # Blank /\ "tangra" \notin pools
    /\ lost' = lost \cup {stage}
    /\ UNCHANGED <<source, cfg, stage, pools, listener, up, answer>>
-----------------------------------------------------------------------------
(* Answers.                                                                *)

OK == [code |-> 200, reason |-> ""]
Err(code, reason) == [code |-> code, reason |-> reason]

StatsOps == {"Overview", "ListExtensionStats", "GetExtensionStats", "RingGroupStats"}
RegistrationOps == {"GetRegistrationStatus", "ListRegistrationEvents", "ListRegisteredAt"}
DashboardOps == {"InstantQuery", "RangeQuery"}
FileOps == {"directory", "recording", "metrics"}
Ranged == StatsOps \cup {"ListCalls", "ListRegistrationEvents", "RangeQuery"}

\* `args' is "ok", "inverted" (from is not before to) or "incomplete"; `found'
\* whether there is such a call or file; `reply' what Prometheus evaluates to.
Requests ==
    {r \in [op : StatsOps \cup RegistrationOps \cup DashboardOps \cup FileOps
                     \cup {"ListCalls", "GetCall", "ListActiveCalls"},
            args : {"ok", "inverted", "incomplete"}, found : BOOLEAN,
            reply : {"number", "NaN", "scalar"}] :
        /\ r.args = "inverted" => r.op \in Ranged
        /\ r.args = "incomplete" => r.op \notin FileOps \cup {"ListRegisteredAt", "ListActiveCalls"}
        /\ ~r.found => r.op \in {"GetCall", "recording"}
        /\ r.reply # "number" => r.op \in DashboardOps
        /\ r.reply = "scalar" => r.op = "InstantQuery"}

Query(db, result) == IF db \in up THEN result ELSE Err(500, "MYSQL_UNAVAILABLE")

\* The repositories refuse an inverted range, which the services report as an
\* error of MySQL.
Stats(r) == IF r.args = "inverted" THEN Err(500, "MYSQL_UNAVAILABLE") ELSE Query("cdr", OK)

Calls(r) ==
    IF r.args = "inverted" THEN Err(400, "INVALID_TIME_RANGE")
    ELSE Query("cdr", IF r.found THEN OK ELSE Err(404, "CALL_NOT_FOUND"))

\* Slip: it is the AMI host that decides, as configs/data.yaml has it.
AsTheListener(r) ==
    IF cfg["ami_host"] = Blank THEN Err(503, "AMI_DISABLED")
    ELSE IF r.args = "inverted" THEN Err(500, "MYSQL_UNAVAILABLE")
    ELSE Query("tangra", OK)

Registrations(r) ==
    IF cfg["tangra_dsn"] = Blank THEN Err(503, "AMI_DISABLED")
    ELSE IF r.args = "inverted" THEN Err(500, "MYSQL_UNAVAILABLE")
    ELSE Query("tangra", OK)

\* decodeSample: a value that is no number is zero, and said to be none.
decodeSample(reply) == [value |-> IF reply = "NaN" THEN "zero" ELSE reply, hasValue |-> reply # "NaN"]

\* Query and QueryRange: Prometheus itself refuses an inverted range, and a
\* scalar is decoded as a list of series, which it is not.
QueryFails(r) == "prometheus" \notin up \/ r.args = "inverted" \/ r.reply = "scalar"

\* InstantQuery and RangeQuery, of which the second loses what says that a
\* sample is none.
Dashboard(r) ==
    IF cfg["prometheus_url"] = Blank THEN Err(503, "PROMETHEUS_DISABLED")
    ELSE IF QueryFails(r) THEN Err(500, "PROMETHEUS_QUERY_FAILED")
    ELSE LET s == decodeSample(r.reply)
         IN  [code |-> 200, reason |-> "",
              shown |-> IF r.op = "RangeQuery" \/ s.hasValue THEN s.value ELSE "missing"]

\* The directory answers with nothing when its query fails.
Directory == OK

Recording(r) == Query("cdr", IF r.found THEN OK ELSE Err(404, "RECORDING_NOT_FOUND"))

\* Handler: without AMI there is none, and nothing else is at /metrics.
Metrics == IF cfg["ami_host"] = Blank THEN Err(404, "") ELSE OK

Files(r) ==
    CASE r.op = "directory" -> Directory
      [] r.op = "recording" -> Recording(r)
      [] r.op = "metrics" -> Metrics

\* protoValidator comes before every service.
Answer(r) ==
    CASE r.args = "incomplete" -> Err(400, "VALIDATOR")
      [] r.args # "incomplete" /\ r.op \in StatsOps -> Stats(r)
      [] r.args # "incomplete" /\ r.op \in {"ListCalls", "GetCall"} -> Calls(r)
      [] r.args # "incomplete" /\ r.op \in RegistrationOps -> Registrations(r)
      [] r.args # "incomplete" /\ r.op \in DashboardOps -> Dashboard(r)
      [] r.op \in FileOps -> Files(r)
      [] r.op = "ListActiveCalls" -> OK

Request(r) ==
    /\ stage = "serving"
    /\ answer = Blank
    /\ answer' = [request |-> r, told |-> Answer(r)]
    /\ UNCHANGED <<source, cfg, stage, pools, listener, up, lost>>

\* Services go and come back, one at a time.
Outage(s) ==
    /\ Cardinality(up) = 5
    /\ up' = up \ {s} /\ answer' = Blank
    /\ UNCHANGED <<source, cfg, stage, pools, listener, lost>>

Recovery(s) ==
    /\ s \notin up
    /\ up' = up \cup {s} /\ answer' = Blank
    /\ UNCHANGED <<source, cfg, stage, pools, listener, lost>>

Next ==
    \/ Certificates \/ Load
    \/ \E db \in Databases : OpenPool(db) \/ OpenFails(db)
    \/ Migrate \/ RegisterFails \/ NewApp
    \/ Ended \/ Cleanup \/ Exit
    \/ Insert
    \/ \E r \in Requests : Request(r)
    \/ \E s \in Databases \cup {"prometheus", "admin"} : Outage(s) \/ Recovery(s)

Spec == Init /\ [][Next]_vars
-----------------------------------------------------------------------------
(* What can be relied on.                                                  *)

TypeOK ==
    /\ cfg = Blank \/ cfg \in [Keys -> {Blank, "default", "file", "space", "junk", "env"}]
    /\ stage \in {"certificates", "load", "migrate", "register", "serving", "stopped",
                  "cleaned", "exited", "failed"} \cup Databases
    /\ pools \subseteq Databases
    /\ listener \in {"none", "off", "running", "cancelled"}
    /\ up \subseteq Databases \cup {"prometheus", "admin"}

\* The process has what its configuration asks for, and keeps nothing longer.
\* As long as there are endpoints, the environment has been heeded in every
\* setting and each database asked for has its pool; a start that fails at any
\* point and an end leave no pool open and no listener running; and a row about a
\* registration is lost to a closed pool only after the end, between the cleanup
\* and the cancellation of the listener.
RunsAsConfigured ==
    /\ stage \in {"serving", "stopped"} =>
           /\ \A k \in Keys : source.env[k] = "env" /\ k # "query_timeout" => cfg[k] = "env"
           /\ pools = {"cdr", "config"} \cup IF cfg["tangra_dsn"] = Blank THEN {} ELSE {"tangra"}
    /\ stage \in {"failed", "exited"} => pools = {} /\ listener # "running"
    /\ lost \subseteq {"cleaned"}

\* What an endpoint says is why.  A part that is said to be disabled is not set
\* in the environment (data.yaml counts for the two DSNs and the pools only, so
\* what is set there alone is overlooked); MySQL is said to be unavailable when
\* a database is, or the range is inverted; a request that is said to be wrong
\* is; and success means that what it speaks of could be read, apart from the
\* directory, which is then empty, and from the live calls, which are empty when
\* the listener is off.  A sample that is no number is shown as missing, but in
\* a range, where it is zero.
TruthfulAnswers ==
    answer # Blank =>
        LET r == answer.request
            told == answer.told
            set(k) == source.env[k] = "env"
        IN  /\ told.reason = "AMI_DISABLED" => ~set("tangra_dsn")
            /\ told.reason = "PROMETHEUS_DISABLED" => ~set("prometheus_url")
            /\ told.reason = "MYSQL_UNAVAILABLE" => ~(Databases \subseteq up) \/ r.args = "inverted"
            /\ told.reason = "PROMETHEUS_QUERY_FAILED" =>
                   /\ set("prometheus_url")
                   /\ "prometheus" \notin up \/ r.args = "inverted" \/ r.reply = "scalar"
            /\ told.code \in {400, 404} => r.args # "ok" \/ ~r.found \/ (r.op = "metrics" /\ ~set("ami_host"))
            /\ told.code = 200 =>
                   /\ r.args # "incomplete"
                   /\ r.op \in StatsOps \cup {"ListCalls", "GetCall", "recording"} => "cdr" \in up
                   /\ r.op \in RegistrationOps => set("tangra_dsn") /\ "tangra" \in up
                   /\ r.op \in DashboardOps => set("prometheus_url") /\ "prometheus" \in up
                   /\ r.op = "InstantQuery" /\ r.reply = "NaN" => told.shown = "missing"
=============================================================================
