---------------------------- MODULE ServiceProofs ----------------------------
(***************************************************************************)
(* That the process of Service runs as it is configured, whatever the file *)
(* and the environment say and whenever a database or the registration     *)
(* fails.                                                                  *)
(***************************************************************************)
EXTENDS Service, TLAPS

\* The pools the configuration asks for.
Wanted == {"cdr", "config"} \cup IF cfg["tangra_dsn"] = Blank THEN {} ELSE {"tangra"}

\* At each stage the pools opened before it are open and no others, and from the
\* first of them on the configuration is what LoadConfig made.
Invariant ==
    /\ stage \in {"certificates", "load", "cdr", "failed", "cleaned", "exited"} => pools = {}
    /\ stage = "config" => pools = {"cdr"}
    /\ stage = "tangra" => pools = {"cdr", "config"} /\ cfg["tangra_dsn"] # Blank
    /\ stage = "migrate" => pools = {"cdr", "config", "tangra"} /\ cfg["tangra_dsn"] # Blank
    /\ stage \in {"register", "serving", "stopped"} => pools = Wanted
    /\ stage \in {"cdr", "config", "tangra", "migrate", "register", "serving", "stopped"} =>
           cfg = LoadConfig
    /\ listener = "running" => stage \in {"serving", "stopped", "cleaned"}
    /\ stage \in {"certificates", "load", "cdr", "config", "tangra", "migrate", "register",
                  "serving", "stopped", "cleaned", "exited", "failed"}
    /\ lost \subseteq {"cleaned"}

\* The module's own database is used only if the environment sets it, and an
\* answer is the one that the request gets in the present state.
AnswerInv ==
    /\ source \in Configured
    /\ stage \in {"migrate", "register", "serving", "stopped"} /\ cfg["tangra_dsn"] # Blank
           => source.env["tangra_dsn"] = "env"
    /\ answer # Blank =>
           /\ stage = "serving"
           /\ \E r \in Requests : answer = [request |-> r, told |-> Answer(r)]

\* A variable of the environment that names a source is what LoadConfig takes.
LEMMA EnvironmentFirst ==
    ASSUME NEW k \in Keys, k # "query_timeout", source.env[k] = "env"
    PROVE  LoadConfig[k] = "env"
  <1>1. FromEnv(k) = "env"
    BY DEF FromEnv
  <1>2. "env" # Blank
    BY ServiceAssumption
  <1> QED  BY <1>1, <1>2 DEF LoadConfig

\* Only LoadConfig reads the source, and no step changes it.
LEMMA StepKeeps == Invariant /\ [Next]_vars => Invariant'
  <1> SUFFICES ASSUME Invariant, [Next]_vars PROVE Invariant'
    OBVIOUS
  <1> USE DEF Invariant, Wanted, Unstarted
  <1>1. source' = source => LoadConfig' = LoadConfig
    BY DEF LoadConfig, FromEnv, FromFile
  <1>2. CASE Certificates
    BY <1>2 DEF Certificates
  <1>3. CASE Load
    BY <1>1, <1>3 DEF Load
  <1>4. ASSUME NEW db \in Databases, OpenPool(db) PROVE Invariant'
    BY <1>1, <1>4 DEF OpenPool, After, Databases
  <1>5. ASSUME NEW db \in Databases, OpenFails(db) PROVE Invariant'
    BY <1>5 DEF OpenFails, ClosedAfter, Databases
  <1>6. CASE Migrate
    BY <1>1, <1>6 DEF Migrate, ClosedAfter
  <1>7. CASE RegisterFails
    BY <1>7 DEF RegisterFails
  <1>8. CASE NewApp
    BY <1>1, <1>8 DEF NewApp
  <1>9. CASE Ended
    BY <1>1, <1>9 DEF Ended
  <1>10. CASE Cleanup
    BY <1>10 DEF Cleanup
  <1>11. CASE Exit
    BY <1>11 DEF Exit
  <1>12. CASE Insert
    BY <1>1, <1>12 DEF Insert
  <1>13. ASSUME NEW r \in Requests, Request(r) PROVE Invariant'
    BY <1>1, <1>13 DEF Request
  <1>14. ASSUME NEW s, Outage(s) \/ Recovery(s) PROVE Invariant'
    BY <1>1, <1>14 DEF Outage, Recovery
  <1>15. CASE UNCHANGED vars
    BY <1>1, <1>15 DEF vars
  <1> QED
    BY <1>2, <1>3, <1>4, <1>5, <1>6, <1>7, <1>8, <1>9, <1>10, <1>11, <1>12, <1>13, <1>14, <1>15 DEF Next

\* The process has the pools and settings its configuration asks for as long as
\* it has endpoints, closes what it opened when it fails or ends, and loses rows
\* to a closed pool only after the end.
THEOREM ConfiguredRun == Spec => []RunsAsConfigured
  <1>1. Init => Invariant
    BY DEF Init, Invariant, Wanted
  <1>2. Invariant => RunsAsConfigured
    BY EnvironmentFirst DEF Invariant, Wanted, RunsAsConfigured
  <1> QED  BY <1>1, <1>2, StepKeeps, PTL DEF Spec
-----------------------------------------------------------------------------
(***************************************************************************)
(* Answers.                                                                *)
(***************************************************************************)

\* Where LoadConfig gets the parts from that only the environment sets.
LEMMA EnvironmentOnly ==
    ASSUME source \in Configured
    PROVE  /\ \A k \in {"prometheus_url", "ami_host"} :
                  LoadConfig[k] # Blank <=> source.env[k] = "env"
           /\ LoadConfig["tangra_dsn"] = source.env["tangra_dsn"]
  <1>1. /\ source.env \in [Keys -> {Blank, "space", "junk", "env"}]
        /\ \A k \in Keys \ {"ami_port"} : source.env[k] # "junk"
        /\ Blank \notin {"default", "file", "space", "junk", "env"}
    BY ServiceAssumption
  <1>2. {"prometheus_url", "ami_host", "tangra_dsn"} \subseteq Keys
    BY DEF Keys
  <1>3. \A k \in {"prometheus_url", "ami_host", "tangra_dsn"} : FromFile(k) = Blank
    BY <1>2 DEF FromFile, Merged, Default
  <1>4. ASSUME NEW k \in {"prometheus_url", "ami_host"}
        PROVE  LoadConfig[k] # Blank <=> source.env[k] = "env"
    <2>1. FromEnv(k) = IF source.env[k] = "space" THEN Blank ELSE source.env[k]
      BY DEF FromEnv
    <2>2. LoadConfig[k] = IF FromEnv(k) # Blank THEN FromEnv(k) ELSE Blank
      BY <1>2, <1>3 DEF LoadConfig
    <2>3. source.env[k] \in {Blank, "space", "env"}
      BY <1>1, <1>2
    <2> QED  BY <1>1, <2>1, <2>2, <2>3
  <1>5. LoadConfig["tangra_dsn"] = source.env["tangra_dsn"]
    <2>1. FromEnv("tangra_dsn") = source.env["tangra_dsn"]
      BY DEF FromEnv
    <2> QED  BY <1>2, <1>3, <2>1 DEF LoadConfig
  <1> QED  BY <1>4, <1>5

\* An answer depends on the configuration and on what is up.
LEMMA AnswerKept ==
    ASSUME UNCHANGED <<cfg, up>>, NEW r \in Requests
    PROVE  Answer(r)' = Answer(r)
  BY DEF Answer, Stats, Calls, Registrations, Dashboard, QueryFails, Files, Directory,
         Recording, Metrics, Query, OK, Err, decodeSample

LEMMA AnswerStepKeeps == Invariant /\ AnswerInv /\ [Next]_vars => AnswerInv'
  <1> SUFFICES ASSUME Invariant, AnswerInv, [Next]_vars PROVE AnswerInv'
    OBVIOUS
  <1> DEFINE OwnDatabase == stage \in {"migrate", "register", "serving", "stopped"}
                            /\ cfg["tangra_dsn"] # Blank => source.env["tangra_dsn"] = "env"
             Asked == answer # Blank => /\ stage = "serving"
                                        /\ \E r \in Requests : answer = [request |-> r, told |-> Answer(r)]
  <1>1. source \in Configured /\ OwnDatabase /\ Asked
    BY DEF AnswerInv
  <1>2. source' = source
    BY DEF Next, Certificates, Load, OpenPool, OpenFails, Migrate, RegisterFails, NewApp, Ended,
           Cleanup, Exit, Insert, Request, Outage, Recovery, Unstarted, vars
  <1>3. OwnDatabase'
    <2>1. ASSUME NEW db \in Databases, OpenPool(db) PROVE OwnDatabase'
      <3>1. CASE db = "cdr"
        BY <2>1, <3>1 DEF OpenPool, After, Unstarted
      <3>2. CASE db = "config"
        BY <2>1, <3>2 DEF OpenPool, After, Unstarted
      <3>3. CASE db = "tangra"
        <4>1. cfg = LoadConfig /\ cfg["tangra_dsn"] \in {"file", "env"}
          BY <2>1, <3>3 DEF OpenPool, Reachable, Invariant
        <4>2. source.env["tangra_dsn"] \in {"file", "env"}
          BY <1>1, <4>1, EnvironmentOnly
        <4>3. source.env["tangra_dsn"] # "file"
          BY <1>1, ServiceAssumption DEF Keys
        <4> QED  BY <1>2, <4>2, <4>3
      <3> QED  BY <2>1, <3>1, <3>2, <3>3 DEF Databases
    <2>2. CASE Migrate
      BY <1>1, <1>2, <2>2 DEF Migrate
    <2>3. CASE NewApp \/ Ended
      BY <1>1, <1>2, <2>3 DEF NewApp, Ended
    <2>4. CASE Certificates \/ Load \/ RegisterFails \/ Cleanup \/ Exit
      BY <2>4 DEF Certificates, Load, RegisterFails, Cleanup, Exit
    <2>5. ASSUME NEW db \in Databases, OpenFails(db) PROVE OwnDatabase'
      BY <2>5 DEF OpenFails
    <2>6. CASE Insert \/ UNCHANGED vars
      BY <1>1, <1>2, <2>6 DEF Insert, vars
    <2>7. ASSUME NEW r \in Requests, Request(r) PROVE OwnDatabase'
      BY <1>1, <1>2, <2>7 DEF Request
    <2>8. ASSUME NEW s, Outage(s) \/ Recovery(s) PROVE OwnDatabase'
      BY <1>1, <1>2, <2>8 DEF Outage, Recovery
    <2> HIDE DEF OwnDatabase
    <2> QED  BY <2>1, <2>2, <2>3, <2>4, <2>5, <2>6, <2>7, <2>8 DEF Next
  <1>4. Asked'
    <2>1. ASSUME stage # "serving", answer' = answer PROVE Asked'
      BY <1>1, <2>1
    <2>2. ASSUME UNCHANGED <<cfg, stage, up, answer>> PROVE Asked'
      <3>1. \A r \in Requests : Answer(r)' = Answer(r)
        BY <2>2, AnswerKept
      <3> QED  BY <1>1, <2>2, <3>1
    <2>3. ASSUME answer' = Blank PROVE Asked'
      BY <2>3
    <2>4. ASSUME NEW r \in Requests, Request(r) PROVE Asked'
      <3>1. Answer(r)' = Answer(r)
        BY <2>4, AnswerKept DEF Request
      <3> QED  BY <2>4, <3>1 DEF Request
    <2> HIDE DEF Asked
    <2>5. CASE Certificates \/ Load \/ Migrate \/ RegisterFails \/ NewApp \/ Cleanup \/ Exit
      BY <2>1, <2>5 DEF Certificates, Load, Migrate, RegisterFails, NewApp, Cleanup, Exit, Unstarted
    <2>6. ASSUME NEW db \in Databases, OpenPool(db) \/ OpenFails(db) PROVE Asked'
      BY <2>1, <2>6 DEF OpenPool, OpenFails, Databases, Unstarted
    <2>7. CASE Insert \/ UNCHANGED vars
      BY <2>2, <2>7 DEF Insert, vars
    <2>8. CASE Ended
      BY <2>3, <2>8 DEF Ended
    <2>9. ASSUME NEW s, Outage(s) \/ Recovery(s) PROVE Asked'
      BY <2>3, <2>9 DEF Outage, Recovery
    <2> QED  BY <2>4, <2>5, <2>6, <2>7, <2>8, <2>9 DEF Next
  <1> QED  BY <1>1, <1>2, <1>3, <1>4 DEF AnswerInv

\* The answers there are, each with what it means.
Means(r, told) ==
    LET set(k) == source.env[k] = "env"
    IN  \/ told = Err(400, "VALIDATOR") /\ r.args = "incomplete"
        \/ /\ told = Err(500, "MYSQL_UNAVAILABLE") /\ r.op \notin DashboardOps
           /\ ~(Databases \subseteq up) \/ r.args = "inverted"
        \/ told = Err(400, "INVALID_TIME_RANGE") /\ r.args = "inverted"
        \/ told = Err(404, "CALL_NOT_FOUND") /\ ~r.found
        \/ told = Err(404, "RECORDING_NOT_FOUND") /\ ~r.found
        \/ told = Err(404, "") /\ r.op = "metrics" /\ ~set("ami_host")
        \/ told = Err(503, "AMI_DISABLED") /\ ~set("tangra_dsn")
        \/ told = Err(503, "PROMETHEUS_DISABLED") /\ ~set("prometheus_url")
        \/ told = Err(500, "PROMETHEUS_QUERY_FAILED") /\ set("prometheus_url") /\ QueryFails(r)
        \/ /\ told = OK /\ r.args # "incomplete" /\ r.op \notin DashboardOps
           /\ r.op \in StatsOps \cup {"ListCalls", "GetCall", "recording"} => "cdr" \in up
           /\ r.op \in RegistrationOps => set("tangra_dsn") /\ "tangra" \in up
        \/ /\ r.args # "incomplete" /\ r.op \in DashboardOps
           /\ set("prometheus_url") /\ ~QueryFails(r)
           /\ \E shown : /\ told = [code |-> 200, reason |-> "", shown |-> shown]
                         /\ r.op = "InstantQuery" /\ r.reply = "NaN" => shown = "missing"

LEMMA AnswerMeans ==
    ASSUME Invariant, AnswerInv, stage = "serving", NEW r \in Requests
    PROVE  Means(r, Answer(r))
  <1> DEFINE set(k) == source.env[k] = "env"
  <1>1. /\ cfg["prometheus_url"] # Blank <=> set("prometheus_url")
        /\ cfg["ami_host"] # Blank <=> set("ami_host")
        /\ cfg["tangra_dsn"] # Blank <=> set("tangra_dsn")
    <2>1. cfg = LoadConfig
      BY DEF Invariant
    <2>2. "env" # Blank
      BY ServiceAssumption
    <2> QED  BY <2>1, <2>2, EnvironmentOnly DEF AnswerInv
  <1>2. /\ r.args = "incomplete" => r.op \notin FileOps \cup {"ListActiveCalls"}
        /\ r.op \in StatsOps \cup RegistrationOps \cup DashboardOps \cup FileOps
                       \cup {"ListCalls", "GetCall", "ListActiveCalls"}
    BY DEF Requests
  <1> USE DEF StatsOps, RegistrationOps, DashboardOps, FileOps, Databases, Means
  <1>3. CASE r.args = "incomplete"
    <2>1. Answer(r) = Err(400, "VALIDATOR")
      BY <1>2, <1>3 DEF Answer
    <2> QED  BY <1>3, <2>1
  <1>4. CASE r.args # "incomplete" /\ r.op \in StatsOps
    <2>1. Answer(r) = Stats(r)
      BY <1>4 DEF Answer
    <2> QED  BY <1>4, <2>1 DEF Stats, Query
  <1>5. CASE r.args # "incomplete" /\ r.op \in {"ListCalls", "GetCall"}
    <2>1. Answer(r) = Calls(r)
      BY <1>5 DEF Answer
    <2> QED  BY <1>5, <2>1 DEF Calls, Query
  <1>6. CASE r.args # "incomplete" /\ r.op \in RegistrationOps
    <2>1. Answer(r) = Registrations(r)
      BY <1>6 DEF Answer
    <2> QED  BY <1>1, <1>6, <2>1 DEF Registrations, Query
  <1>7. CASE r.args # "incomplete" /\ r.op \in DashboardOps
    <2>1. Answer(r) = Dashboard(r)
      BY <1>7 DEF Answer
    <2>2. CASE ~set("prometheus_url") \/ QueryFails(r)
      BY <1>1, <2>1, <2>2 DEF Dashboard
    <2>3. CASE set("prometheus_url") /\ ~QueryFails(r)
      <3> DEFINE sample == decodeSample(r.reply)
                 shown == IF r.op = "RangeQuery" \/ sample.hasValue THEN sample.value ELSE "missing"
      <3>1. Answer(r) = [code |-> 200, reason |-> "", shown |-> shown]
        BY <1>1, <2>1, <2>3 DEF Dashboard
      <3>2. r.reply = "NaN" => ~sample.hasValue
        BY DEF decodeSample
      <3>3. r.op = "InstantQuery" /\ r.reply = "NaN" => shown = "missing"
        BY <3>2
      <3> HIDE DEF shown
      <3> QED  BY <1>7, <2>3, <3>1, <3>3
    <2> QED  BY <2>2, <2>3
  <1>8. CASE r.op \in FileOps
    <2>1. Answer(r) = Files(r) /\ r.args # "incomplete"
      BY <1>2, <1>8 DEF Answer
    <2> QED  BY <1>1, <1>8, <2>1 DEF Files, Directory, Recording, Metrics, Query
  <1>9. CASE r.args # "incomplete" /\ r.op = "ListActiveCalls"
    <2>1. Answer(r) = OK
      BY <1>9 DEF Answer
    <2> QED  BY <1>9, <2>1
  <1> QED  BY <1>2, <1>3, <1>4, <1>5, <1>6, <1>7, <1>8, <1>9

LEMMA MeaningIsTrue ==
    ASSUME NEW r, NEW told, Means(r, told), answer = [request |-> r, told |-> told]
    PROVE  TruthfulAnswers
  <1> DEFINE Reasons == {"AMI_DISABLED", "PROMETHEUS_DISABLED", "MYSQL_UNAVAILABLE",
                         "PROMETHEUS_QUERY_FAILED"}
  <1>1. answer.request = r /\ answer.told = told
    OBVIOUS
  <1>2. ASSUME NEW code, NEW reason, told = Err(code, reason)
        PROVE  told.code = code /\ told.reason = reason
    BY <1>2 DEF Err
  <1>3. ASSUME told = OK
        PROVE  told.code = 200 /\ told.reason = ""
    BY <1>3 DEF OK
  <1>4. ASSUME NEW shown, told = [code |-> 200, reason |-> "", shown |-> shown]
        PROVE  told.code = 200 /\ told.reason = "" /\ told.shown = shown
    BY <1>4
  <1> USE <1>1 DEF TruthfulAnswers, StatsOps, RegistrationOps, DashboardOps
  <1>5. CASE told = Err(400, "VALIDATOR") /\ r.args = "incomplete"
    <2>1. told.code = 400 /\ told.reason = "VALIDATOR"
      BY <1>2, <1>5
    <2> QED  BY <1>5, <2>1
  <1>6. CASE told = Err(500, "MYSQL_UNAVAILABLE") /\ (~(Databases \subseteq up) \/ r.args = "inverted")
    <2>1. told.code = 500 /\ told.reason = "MYSQL_UNAVAILABLE"
      BY <1>2, <1>6
    <2> QED  BY <1>6, <2>1
  <1>7. CASE told = Err(400, "INVALID_TIME_RANGE") /\ r.args = "inverted"
    <2>1. told.code = 400 /\ told.reason = "INVALID_TIME_RANGE"
      BY <1>2, <1>7
    <2> QED  BY <1>7, <2>1
  <1>8. CASE told = Err(404, "CALL_NOT_FOUND") /\ ~r.found
    <2>1. told.code = 404 /\ told.reason = "CALL_NOT_FOUND"
      BY <1>2, <1>8
    <2> QED  BY <1>8, <2>1
  <1>9. CASE told = Err(404, "RECORDING_NOT_FOUND") /\ ~r.found
    <2>1. told.code = 404 /\ told.reason = "RECORDING_NOT_FOUND"
      BY <1>2, <1>9
    <2> QED  BY <1>9, <2>1
  <1>10. CASE told = Err(404, "") /\ r.op = "metrics" /\ source.env["ami_host"] # "env"
    <2>1. told.code = 404
      BY <1>2, <1>10
    <2>2. told.code # 200
      BY <2>1
    <2>3. told.reason \notin Reasons
      <3>1. told.reason = ""
        BY <1>2, <1>10
      <3> QED  BY <3>1
    <2> QED  BY <1>10, <2>2, <2>3
  <1>11. CASE told = Err(503, "AMI_DISABLED") /\ source.env["tangra_dsn"] # "env"
    <2>1. told.code = 503 /\ told.reason = "AMI_DISABLED"
      BY <1>2, <1>11
    <2> QED  BY <1>11, <2>1
  <1>12. CASE told = Err(503, "PROMETHEUS_DISABLED") /\ source.env["prometheus_url"] # "env"
    <2>1. told.code = 503 /\ told.reason = "PROMETHEUS_DISABLED"
      BY <1>2, <1>12
    <2> QED  BY <1>12, <2>1
  <1>13. CASE told = Err(500, "PROMETHEUS_QUERY_FAILED") /\ source.env["prometheus_url"] = "env" /\ QueryFails(r)
    <2>1. told.code = 500 /\ told.reason = "PROMETHEUS_QUERY_FAILED"
      BY <1>2, <1>13
    <2> QED  BY <1>13, <2>1 DEF QueryFails
  <1>14. CASE /\ told = OK /\ r.args # "incomplete" /\ r.op \notin DashboardOps
              /\ r.op \in StatsOps \cup {"ListCalls", "GetCall", "recording"} => "cdr" \in up
              /\ r.op \in RegistrationOps => source.env["tangra_dsn"] = "env" /\ "tangra" \in up
    <2>1. told.code = 200
      BY <1>3, <1>14
    <2>2. told.code \notin {400, 404}
      BY <2>1
    <2>3. told.reason \notin Reasons
      <3>1. told.reason = ""
        BY <1>3, <1>14
      <3> QED  BY <3>1
    <2> QED  BY <1>14, <2>2, <2>3
  <1>15. ASSUME NEW shown, told = [code |-> 200, reason |-> "", shown |-> shown],
                r.op = "InstantQuery" /\ r.reply = "NaN" => shown = "missing",
                r.args # "incomplete", r.op \in DashboardOps,
                source.env["prometheus_url"] = "env", ~QueryFails(r)
         PROVE  TruthfulAnswers
    <2>1. told.code = 200
      BY <1>4, <1>15
    <2>2. told.code \notin {400, 404}
      BY <2>1
    <2>3. told.reason \notin Reasons
      <3>1. told.reason = ""
        BY <1>4, <1>15
      <3> QED  BY <3>1
    <2>4. told.shown = shown
      BY <1>4, <1>15
    <2> QED  BY <1>15, <2>2, <2>3, <2>4 DEF QueryFails
  <1> HIDE DEF TruthfulAnswers
  <1> QED
    BY <1>5, <1>6, <1>7, <1>8, <1>9, <1>10, <1>11, <1>12, <1>13, <1>14, <1>15 DEF Means

\* What an endpoint says is why, whatever is configured, comes and goes: the
\* reasons named are the actual ones, and success means that what was asked for
\* could be read.
THEOREM AnswersAreTruthful == Spec => []TruthfulAnswers
  <1>1. Init => Invariant /\ AnswerInv
    BY DEF Init, Invariant, Wanted, AnswerInv
  <1>2. Invariant /\ AnswerInv => TruthfulAnswers
    BY AnswerMeans, MeaningIsTrue DEF AnswerInv, TruthfulAnswers
  <1> QED  BY <1>1, <1>2, StepKeeps, AnswerStepKeeps, PTL DEF Spec
=============================================================================
