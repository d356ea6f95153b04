----------------------------- MODULE Bootstrap -----------------------------
(***************************************************************************)
(* main.ts, from the start of a process to the moment it serves: config,    *)
(* TLS files, the fork in the road of a cluster's primary, the container    *)
(* with its database sources (DatabaseBoot), the legacy forwarder, the jobs *)
(* and the port.  Whatever fails on the way ends in process.exit(1).        *)
(***************************************************************************)
EXTENDS DatabaseBoot, Config

CONSTANTS
    Environments,  \* environments a process may be started in
    Jobs           \* scheduled jobs the code declares

(* What a source may say in the JSON: a field is a text, Unset, or "empty". *)
SourceSettings ==
    [key : Sources \cup UnknownKeys \cup {"empty"}, dialect : {"oracle", "postgres"},
     poolMin : Int, poolMax : Int, connectionUrl : STRING, connectString : STRING, user : STRING,
     password : STRING, passwordEnv : {Unset, "empty", "CORE_DB_PASSWORD"}, externalAuth : BOOLEAN]

ASSUME EnvironmentAssumption ==
    \A e \in Environments : e.DATABASE_CONFIG_JSON.list \in Seq(SourceSettings)

VARIABLES
    env, isPrimary, portFree,  \* how the process was started
    stage,      \* where bootstrap() is
    forwarder,  \* where the forwarder in the middleware chain logs, {} without one
    jobs        \* cron jobs started

started == <<env, isPrimary, portFree>>
bootstrapVars == <<started, stage, forwarder, jobs>>
processVars == <<allVars, bootstrapVars>>

Settings == Hydrate(env)
Clustered == Settings.cluster.enabled = "true"

KeysOf(database, dialects) ==
    {database.sources[i].key :
        i \in {k \in DOMAIN database.sources : database.sources[k].dialect \in dialects}}

(* Calls and Placeholders are the sources of a list that validates.  Only a *)
(* clustered primary forks workers, and it sets CLUSTER_LEADER for each.    *)
BootstrapInit ==
    /\ env \in Environments
    /\ isPrimary \in BOOLEAN /\ portFree \in BOOLEAN
    /\ isPrimary => env.CLUSTER_LEADER = Unset
    /\ ~isPrimary => Clustered /\ env.CLUSTER_LEADER \in {"true", "false"}
    /\ Settings.database.present /\ ~LoadConfigFails(env) =>
         /\ KeysOf(Settings.database, {"oracle"}) = Implemented
         /\ KeysOf(Settings.database, {"postgres"}) = Placeholders
    /\ requiredSources = Settings.database.requiredSources
    /\ pingOnBoot = (Settings.database.pingOnBoot = "true")
    /\ BootInit
    /\ stage = "config"
    /\ forwarder = {}
    /\ jobs = {}

Goes(from, to) == stage = from /\ stage' = to

ReadConfig ==
    /\ Goes("config", IF LoadConfigFails(env) THEN "exited" ELSE "tls")
    /\ UNCHANGED <<allVars, started, forwarder, jobs>>

ReadTlsFiles ==
    /\ Goes("tls", IF LoadTlsFails(Settings.tls) THEN "exited"
                   ELSE IF Clustered /\ isPrimary THEN "primary" ELSE "container")
    /\ UNCHANGED <<allVars, started, forwarder, jobs>>

(* NestFactory.create waits for the ConnectionProvider factory, which       *)
(* leaves the manager alone when no sources are configured.                 *)
DatabaseStep(step) ==
    /\ stage = "container"
    /\ Settings.database.present
    /\ step
    /\ UNCHANGED bootstrapVars

ContainerBuilt ==
    /\ ~Settings.database.present \/ phase = "ready"
    /\ Goes("container", "forwarder")
    /\ UNCHANGED <<allVars, started, forwarder, jobs>>

ContainerFails ==
    /\ Settings.database.present /\ phase = "failed"
    /\ Goes("container", "exited")
    /\ UNCHANGED <<allVars, started, forwarder, jobs>>

ParsesAsUrl(text) == text # "noUrl"

Forwards == Settings.legacy.forwardEnabled = "true"

(* The constructor of LegacyForwarder parses the target; its log is a       *)
(* PinoFileLogger of its own.                                               *)
InstallForwarder ==
    /\ stage = "forwarder"
    /\ \/ /\ ~Forwards
          /\ stage' = "hooks" /\ UNCHANGED forwarder
       \/ /\ Forwards /\ ParsesAsUrl(Settings.legacy.targetUrl)
          /\ stage' = "hooks"
          /\ forwarder' = CreateDedicatedFileTargets(Settings.logging, Settings.legacy.logFileName)
       \/ /\ Forwards /\ ~ParsesAsUrl(Settings.legacy.targetUrl)
          /\ stage' = "exited" /\ UNCHANGED forwarder
    /\ UNCHANGED <<allVars, started, jobs>>

\* Mutant of RunsJobs: every worker starts the jobs.
RunsJobs_EveryWorker == Settings.scheduler.enabled = "true"

RunsJobs ==
    /\ Settings.scheduler.enabled = "true"
    /\ Clustered => Settings.cluster.isLeader = "true"

CronJobThrows == Jobs # {} /\ Settings.scheduler.timezone = "noZone"

(* JobScheduler.onApplicationBootstrap, inside listen() and before the port *)
(* is bound: CronJob refuses a timezone it does not know.                   *)
OnApplicationBootstrap ==
    /\ stage = "hooks"
    /\ \/ ~RunsJobs /\ stage' = "binding" /\ UNCHANGED jobs
       \/ RunsJobs /\ CronJobThrows /\ stage' = "exited" /\ UNCHANGED jobs
       \/ RunsJobs /\ ~CronJobThrows /\ stage' = "binding" /\ jobs' = Jobs
    /\ UNCHANGED <<allVars, started, forwarder>>

(* The shutdown handlers are installed in the turn listen() resolves in.    *)
Listen ==
    /\ Goes("binding", IF portFree THEN "serving" ELSE "exited")
    /\ UNCHANGED <<allVars, started, forwarder, jobs>>

BootstrapStep ==
    \/ ReadConfig \/ ReadTlsFiles
    \/ DatabaseStep(BootStep) \/ ContainerBuilt \/ ContainerFails
    \/ InstallForwarder \/ OnApplicationBootstrap \/ Listen

BootstrapNext == BootstrapStep \/ DatabaseStep(PingSettles)

BootstrapSpec == BootstrapInit /\ [][BootstrapNext]_processVars

(* The process takes its steps: timers fire and microtasks run.  A ping is  *)
(* only known to settle if it has a timeout.                                *)
BootstrapFairSpec ==
    /\ BootstrapSpec
    /\ WF_processVars(BootstrapStep)
    /\ TimeoutMs > 0 => WF_processVars(DatabaseStep(PingSettles))

-----------------------------------------------------------------------------
(* What the settings must be for a service to make sense, said of the       *)
(* variables themselves.                                                    *)
Given(value) == value \notin {Unset, "blank"}
On(value) == value \in {"true", "yes"}
Readable(value) == value \in {Unset, "blank", "true", "yes", "false", "no"}

FileName(variable, usual) == IF Given(env[variable]) THEN env[variable] ELSE usual

Password(source) ==
    IF source.password = Unset /\ source.passwordEnv # Unset THEN env.CORE_DB_PASSWORD
                                                            ELSE source.password

CanLogIn(source) ==
    /\ "empty" \notin {source.connectionUrl, source.connectString, source.user, source.passwordEnv,
                      Password(source)}
    /\ \/ source.connectionUrl # Unset
       \/ /\ source.connectString # Unset
          /\ source.externalAuth \/ (source.user # Unset /\ Password(source) # Unset)

(* An Oracle pool that says nothing of its smallest size keeps 2 sessions.  *)
Sized(source) ==
    /\ source.poolMax >= 1
    /\ source.poolMin # NoNumber => source.poolMin >= 0
    /\ source.dialect = "oracle" =>
         (IF source.poolMin = NoNumber THEN 2 ELSE source.poolMin) <= source.poolMax

Coherent ==
    /\ \A flag \in {"LEGACY_FORWARD_ENABLED", "TLS_ENABLED", "CLUSTER_ENABLED", "SCHEDULER_ENABLED",
                   "LOGGING_TO_FILE"} :
          Readable(env[flag])
    /\ On(env.LEGACY_FORWARD_ENABLED) =>
         Given(env.LEGACY_TARGET_URL) /\ env.LEGACY_FORWARD_PREFIXES \ {"blank"} # {}
    /\ On(env.TLS_ENABLED) => Given(env.TLS_KEY_FILE) /\ Given(env.TLS_CERT_FILE)
    /\ env.LEGACY_LOG_FILE_NAME # "sub/legacy.log"
    /\ FileName("LEGACY_LOG_FILE_NAME", "legacy-forward.log") # FileName("LOGGING_FILE_NAME", "app.log")
    /\ Given(env.JWT_SECRET) /\ env.JWT_SECRET # "short"
    /\ env.DATABASE_CONFIG_JSON.form # Unset =>
         LET list == env.DATABASE_CONFIG_JSON.list
         IN  /\ env.DATABASE_CONFIG_JSON.form \in {"array", "object"}
             /\ list # <<>>
             /\ \A i, j \in DOMAIN list : list[i].key = list[j].key => i = j
             /\ \A i \in DOMAIN list : list[i].key # "empty" /\ Sized(list[i])
             /\ \A i \in DOMAIN list : list[i].dialect = "oracle" => CanLogIn(list[i])
             /\ Readable(env.DATABASE_PING_ON_BOOT)

(* A process opens nothing, and forks no worker, on settings that do not    *)
(* make sense; and one that gives up does so for a cause: such settings, a  *)
(* file, a database, a port, or the two values no schema looks into.        *)
SettingsDecide ==
    /\ clients # {} \/ forwarder # {} \/ jobs # {} \/ stage \in {"primary", "serving"} => Coherent
    /\ stage = "exited" =>
         \/ ~Coherent \/ LoadTlsFails(Settings.tls) \/ phase = "failed" \/ ~portFree
         \/ On(env.LEGACY_FORWARD_ENABLED) /\ env.LEGACY_TARGET_URL = "noUrl"
         \/ On(env.SCHEDULER_ENABLED) /\ env.SCHEDULER_TIMEZONE = "noZone"

(* A forwarder that is asked for logs to its file, or to the console when   *)
(* the environment wants no files.                                          *)
ForwarderLog ==
    IF ~On(env.LEGACY_FORWARD_ENABLED) THEN {}
    ELSE IF Given(env.LOGGING_TO_FILE) /\ ~On(env.LOGGING_TO_FILE) THEN {"console"}
    ELSE {FileName("LEGACY_LOG_FILE_NAME", "legacy-forward.log")}

(* A process that serves has all that its settings ask for and nothing they *)
(* do not: the forwarder with its log, which no application logger of the   *)
(* process rotates; all jobs, in the one process of its cluster that is to  *)
(* run them, and none in another; and one client per source, none of them   *)
(* still being pinged.                                                      *)
ServesAsConfigured ==
    stage = "serving" =>
        /\ forwarder = ForwarderLog
        /\ forwarder \cap CreateTransportTargets(Settings.logging) \subseteq {"console"}
        /\ jobs = IF On(env.SCHEDULER_ENABLED) /\ (isPrimary \/ On(env.CLUSTER_LEADER))
                    THEN Jobs ELSE {}
        /\ Settings.database.present =>
             /\ clients = Sources
             /\ \A s \in Implemented : at[s] \notin {"inside", "queued", "woken"}
             /\ \A i \in DOMAIN Settings.database.sources :
                   Settings.database.sources[i].dialect = "oracle" =>
                     ToPoolAttributes(Settings.database.sources[i]).connectString # Unset

(* Whatever files, databases and ports do, a process comes to serve, to be  *)
(* the primary, or to exit, if pings have a timeout.                        *)
BootComesToAnEnd == TimeoutMs > 0 => <>(stage \in {"serving", "primary", "exited"})
=============================================================================
