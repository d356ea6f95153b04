------------------------------- MODULE Config -------------------------------
(***************************************************************************)
(* loadConfig: the environment read, converted and validated, for the       *)
(* variables whose rules reach across fields, and what the TLS loader and   *)
(* the pool attributes make of the result.  A variable is Unset, "blank",   *)
(* or has a value; a flag stays the text it is.  Of a list only the set of  *)
(* its entries matters.                                                     *)
(***************************************************************************)
EXTENDS Integers, Sequences, FiniteSets

Unset == "unset"
NoNumber == -9

EnvString(value) == IF value = "blank" THEN Unset ELSE value

EnvBool(value) ==
    IF value \in {"true", "yes"} THEN "true"
    ELSE IF value \in {"false", "no"} THEN "false" ELSE EnvString(value)

EnvList(value) == value \ {"blank"}

Default(value, default) == IF value = Unset THEN default ELSE value

IsFlag(value) == value \in {"true", "false"}

-----------------------------------------------------------------------------
(* One operator per namespace of hydrate(), with the schema's defaults, and *)
(* one for the rules of its schema.                                         *)

(* A password that is not in the JSON may be in a variable it names.        *)
ResolveSecretRefs(env, source) ==
    IF source.password = Unset /\ source.passwordEnv # Unset
      THEN [source EXCEPT !.password = env.CORE_DB_PASSWORD]
      ELSE source

(* The JSON is a list, an object that holds one, or neither.                *)
ParseSources(env) ==
    LET json == env.DATABASE_CONFIG_JSON
    IN  [i \in DOMAIN json.list |-> ResolveSecretRefs(env, json.list[i])]

HasAll(source, fields) == \A f \in fields : source[f] # Unset

PoolMin(source) ==
    IF source.poolMin # NoNumber THEN source.poolMin
    ELSE IF source.dialect = "oracle" THEN 2 ELSE 0

ValidSource(source) ==
    /\ source.key # "empty"
    /\ PoolMin(source) >= 0 /\ source.poolMax >= 1
    /\ source.dialect = "oracle" =>
         /\ \A f \in {"connectionUrl", "connectString", "user", "password", "passwordEnv"} :
               source[f] # "empty"
         /\ \/ source.connectionUrl # Unset
            \/ source.externalAuth /\ HasAll(source, {"connectString"})
            \/ HasAll(source, {"connectString", "user", "password"})
         /\ PoolMin(source) <= source.poolMax

DatabaseOf(env) ==
    [present |-> env.DATABASE_CONFIG_JSON.form # Unset,
     sources |-> ParseSources(env),
     pingOnBoot |-> Default(EnvBool(env.DATABASE_PING_ON_BOOT), "true"),
     requiredSources |-> EnvList(env.DATABASE_PING_REQUIRED_SOURCES)]

(* Without sources nothing of this namespace is looked at.                  *)
ValidDatabase(env, database) ==
    database.present =>
        /\ env.DATABASE_CONFIG_JSON.form \in {"array", "object"}
        /\ Len(database.sources) >= 1
        /\ \A i \in DOMAIN database.sources : ValidSource(database.sources[i])
        /\ Cardinality({database.sources[i].key : i \in DOMAIN database.sources})
              = Len(database.sources)
        /\ IsFlag(database.pingOnBoot)

JwtOf(env) == [secret |-> EnvString(env.JWT_SECRET)]

ValidJwt(jwt) == jwt.secret \notin {Unset, "short"}

LegacyOf(env) ==
    [forwardEnabled |-> Default(EnvBool(env.LEGACY_FORWARD_ENABLED), "false"),
     targetUrl |-> EnvString(env.LEGACY_TARGET_URL),
     forwardPrefixes |-> EnvList(env.LEGACY_FORWARD_PREFIXES),
     logFileName |-> Default(EnvString(env.LEGACY_LOG_FILE_NAME), "legacy-forward.log")]

IsBareName(name) == name # "sub/legacy.log"

ValidLegacy(legacy) ==
    /\ IsFlag(legacy.forwardEnabled)
    /\ IsBareName(legacy.logFileName)
    /\ legacy.forwardEnabled = "true" => legacy.targetUrl # Unset /\ legacy.forwardPrefixes # {}

SchedulerOf(env) ==
    [enabled |-> Default(EnvBool(env.SCHEDULER_ENABLED), "false"),
     timezone |-> Default(EnvString(env.SCHEDULER_TIMEZONE), "UTC")]

TlsOf(env) ==
    [enabled |-> Default(EnvBool(env.TLS_ENABLED), "false"),
     keyFile |-> EnvString(env.TLS_KEY_FILE),
     certFile |-> EnvString(env.TLS_CERT_FILE),
     caFile |-> EnvString(env.TLS_CA_FILE)]

ValidTls(tls) ==
    /\ IsFlag(tls.enabled)
    /\ tls.enabled = "true" => tls.keyFile # Unset /\ tls.certFile # Unset

ClusterOf(env) ==
    [enabled |-> Default(EnvBool(env.CLUSTER_ENABLED), "false"),
     isLeader |-> Default(EnvBool(env.CLUSTER_LEADER), "false")]

LoggingOf(env) ==
    [toFile |-> Default(EnvBool(env.LOGGING_TO_FILE), "true"),
     fileName |-> Default(EnvString(env.LOGGING_FILE_NAME), "app.log")]

ValidLogging(logging) == IsFlag(logging.toFile)

Hydrate(env) ==
    [database |-> DatabaseOf(env), jwt |-> JwtOf(env), legacy |-> LegacyOf(env),
     scheduler |-> SchedulerOf(env), tls |-> TlsOf(env), cluster |-> ClusterOf(env),
     logging |-> LoggingOf(env)]

\* Mutant of LoadConfigFails: the two log files are not compared.
LoadConfigFails_OneLogFile(env) ==
    LET config == Hydrate(env)
    IN  ~ /\ ValidDatabase(env, config.database) /\ ValidJwt(config.jwt)
          /\ ValidLegacy(config.legacy) /\ ValidTls(config.tls) /\ ValidLogging(config.logging)
          /\ IsFlag(config.scheduler.enabled)
          /\ IsFlag(config.cluster.enabled) /\ IsFlag(config.cluster.isLeader)

LoadConfigFails(env) ==
    LET config == Hydrate(env)
    IN  ~ /\ ValidDatabase(env, config.database) /\ ValidJwt(config.jwt)
          /\ ValidLegacy(config.legacy) /\ ValidTls(config.tls) /\ ValidLogging(config.logging)
          /\ IsFlag(config.scheduler.enabled)
          /\ IsFlag(config.cluster.enabled) /\ IsFlag(config.cluster.isLeader)
          /\ config.legacy.logFileName # config.logging.fileName

-----------------------------------------------------------------------------
(* Where a logger writes: the console, or a file pino-roll rotates.         *)
CreateTransportTargets(logging) ==
    {"console"} \cup (IF logging.toFile = "true" THEN {logging.fileName} ELSE {})

CreateDedicatedFileTargets(logging, fileName) ==
    IF logging.toFile = "true" THEN {fileName} ELSE {"console"}

(* A path names a PEM file that is "readable", "missing" or "hollow".       *)
ReadPemFile(path) == path = "readable"

LoadTlsFails(tls) ==
    /\ tls.enabled = "true"
    /\ \/ ~ReadPemFile(tls.keyFile) \/ ~ReadPemFile(tls.certFile)
       \/ tls.caFile # Unset /\ ~ReadPemFile(tls.caFile)

(* A connection URL is "bare" or carries a login.                           *)
ParseOracleUrl(url) ==
    [user |-> IF url = "withLogin" THEN "inUrl" ELSE Unset,
     password |-> IF url = "withLogin" THEN "inUrl" ELSE Unset,
     connectString |-> "inUrl"]

NoCredentials == [user |-> Unset, password |-> Unset, connectString |-> Unset]

ToPoolAttributes(source) ==
    LET credentials == IF source.connectionUrl # Unset THEN ParseOracleUrl(source.connectionUrl)
                                                        ELSE NoCredentials
    IN  [user |-> IF source.externalAuth THEN Unset ELSE Default(source.user, credentials.user),
         password |-> IF source.externalAuth THEN Unset
                                             ELSE Default(source.password, credentials.password),
         connectString |-> Default(source.connectString, credentials.connectString),
         poolMin |-> PoolMin(source), poolMax |-> source.poolMax]
=============================================================================
