---------------------------- MODULE MCBootstrap ----------------------------
(***************************************************************************)
(* A plain service with a database, for every list of required sources; and *)
(* the same with any two of its settings changed.                           *)
(***************************************************************************)
EXTENDS Bootstrap

CONSTANTS s1, s2, p1, typo

Source(key, dialect) ==
    [key |-> key, dialect |-> dialect, poolMin |-> NoNumber, poolMax |-> 10,
     connectionUrl |-> Unset, connectString |-> "db", user |-> "app", password |-> Unset,
     passwordEnv |-> "CORE_DB_PASSWORD", externalAuth |-> FALSE]

Json(form, first) == [form |-> form, list |-> <<first, Source(s2, "oracle"), Source(p1, "postgres")>>]

First == Source(s1, "oracle")

Lists ==
    {[form |-> Unset, list |-> <<>>], [form |-> "malformed", list |-> <<>>],
     [form |-> "array", list |-> <<>>], Json("array", Source(s2, "oracle")),
     Json("object", [First EXCEPT !.connectionUrl = "bare", !.user = Unset]),
     Json("array", [First EXCEPT !.externalAuth = TRUE, !.user = Unset, !.passwordEnv = Unset]),
     Json("array", [First EXCEPT !.passwordEnv = Unset]),
     Json("array", [First EXCEPT !.user = "empty"]), Json("array", [First EXCEPT !.poolMax = 1]),
     Json("array", [First EXCEPT !.password = "inJson", !.poolMax = 1, !.poolMin = 1]),
     Json("array", [First EXCEPT !.connectString = Unset, !.connectionUrl = "withLogin"])}

Plain ==
    [DATABASE_CONFIG_JSON |-> Json("array", First), CORE_DB_PASSWORD |-> "inEnv",
     DATABASE_PING_ON_BOOT |-> Unset, DATABASE_PING_REQUIRED_SOURCES |-> {},
     JWT_SECRET |-> "long", LOGGING_TO_FILE |-> Unset, LOGGING_FILE_NAME |-> Unset,
     LEGACY_LOG_FILE_NAME |-> Unset,
     LEGACY_FORWARD_ENABLED |-> Unset, LEGACY_TARGET_URL |-> Unset,
     LEGACY_FORWARD_PREFIXES |-> {"blank"}, SCHEDULER_ENABLED |-> Unset,
     SCHEDULER_TIMEZONE |-> Unset, TLS_ENABLED |-> Unset, TLS_KEY_FILE |-> "readable",
     TLS_CERT_FILE |-> "readable", TLS_CA_FILE |-> Unset, CLUSTER_ENABLED |-> Unset,
     CLUSTER_LEADER |-> Unset]

Forwarding == [Plain EXCEPT !.LEGACY_FORWARD_ENABLED = "true", !.LEGACY_TARGET_URL = "url",
                            !.LEGACY_FORWARD_PREFIXES = {"blank", "legacy"}]
Clustering == [Plain EXCEPT !.CLUSTER_ENABLED = "yes", !.SCHEDULER_ENABLED = "true",
                            !.DATABASE_PING_ON_BOOT = "no"]

Alternatives ==
    [CORE_DB_PASSWORD |-> {Unset}, DATABASE_PING_ON_BOOT |-> {"no", "maybe"},
     JWT_SECRET |-> {"short"}, LOGGING_TO_FILE |-> {"no", "maybe"},
     LOGGING_FILE_NAME |-> {"legacy-forward.log"},
     LEGACY_LOG_FILE_NAME |-> {"app.log", "blank", "sub/legacy.log"},
     LEGACY_FORWARD_ENABLED |-> {"blank", "true", "maybe"}, LEGACY_TARGET_URL |-> {Unset, "noUrl"},
     LEGACY_FORWARD_PREFIXES |-> {{}, {"legacy"}},
     SCHEDULER_ENABLED |-> {"yes", "maybe"}, SCHEDULER_TIMEZONE |-> {"noZone"},
     TLS_ENABLED |-> {"true", "blank"}, TLS_KEY_FILE |-> {"blank", "missing"},
     TLS_CERT_FILE |-> {"hollow", Unset}, TLS_CA_FILE |-> {"readable", "missing"},
     CLUSTER_ENABLED |-> {"true", "no", "maybe"}, CLUSTER_LEADER |-> {"true"},
     DATABASE_CONFIG_JSON |-> Lists]

Changed(environments) ==
    environments \cup
    UNION {{[e EXCEPT ![name] = value] : value \in Alternatives[name]} :
             e \in environments, name \in DOMAIN Alternatives}

MCEnvironments ==
    {[Plain EXCEPT !.DATABASE_PING_REQUIRED_SOURCES = keys] :
        keys \in SUBSET {s1, s2, p1, typo, "blank"}}
    \cup Changed({[Clustering EXCEPT !.CLUSTER_LEADER = leader] : leader \in {"true", "false"}})
    \cup Changed(Changed({Plain, Forwarding, Clustering}))
=============================================================================
