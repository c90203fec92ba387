------------------------------ MODULE MCService ------------------------------
(***************************************************************************)
(* Small instances of Service for TLC.                                     *)
(***************************************************************************)
EXTENDS Service

\* A file that is missing, broken, minimal or full, and an environment in which
\* each part is set, left out or set to nothing but spaces.
SmallConfigurations ==
    LET minimal == [k \in Keys |-> IF k \in {"cdr_dsn", "config_dsn"} THEN "file" ELSE Blank]
        full == [k \in Keys |-> "file"]
        files == [read : {"ok"}, says : {minimal, full}] \cup [read : {"absent", "broken"}, says : {full}]
        envs == {e \in [Keys -> {Blank, "space", "junk", "env"}] :
                    /\ e["cdr_dsn"] = Blank \/ (e["cdr_dsn"] = "env" /\ e["config_dsn"] = "env")
                    /\ e["config_dsn"] \in {Blank, "env"}
                    /\ e["query_timeout"] = Blank
                    /\ e["ami_port"] \in {Blank, "junk"}
                    /\ \A k \in {"tangra_dsn", "prometheus_url", "ami_host"} : e[k] # "junk"}
    IN  [file : files, env : envs]
=============================================================================
