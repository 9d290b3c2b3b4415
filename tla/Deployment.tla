------------------------------ MODULE Deployment ------------------------------
(***************************************************************************)
(* A deployed server: processes that a supervisor starts and restarts,     *)
(* each with the settings it read, and the check that refuses to serve     *)
(* with a schema that is not at the head of the installed migrations.      *)
(* Meanwhile the configuration changes, releases are installed, and the    *)
(* migrations of SchemaMigration run.                                      *)
(***************************************************************************)
EXTENDS SchemaMigration, FiniteSets

CONSTANTS
    Process,     \* the supervised server processes
    Config,      \* what the environment and the .env file may say
    NoConfig     \* not a configuration

ASSUME ConfigAssumption == NoConfig \notin Config

VARIABLES
    configured,  \* the present configuration
    installed,   \* the head revision of the installed release
    phase,       \* how far each process is
    cached,      \* the settings get_settings() has cached in it
    settings,    \* the settings its application was built with
    code,        \* the release it has loaded
    read,        \* the revision it found in the database
    outdated     \* whether a release or a schema came after its start

processVars == <<phase, cached, settings, code, read, outdated>>
vars == <<schemaVars, configured, installed, processVars>>

Phase == {"down", "imported", "starting", "checking", "serving", "refused"}

-----------------------------------------------------------------------------
(* Settings                                                                *)

(* A text may refer to a variable: with it, its value, or "" if the        *)
(* variable is not set; without a value its text is the default of the     *)
(* reference, or the reference itself.                                     *)
Expand(t) == IF t.value = "" THEN t.text ELSE t.value

(* The smallest value of each number.                                      *)
Minimum ==
    [db_pool_size |-> 1, db_pool_max_overflow |-> 0, db_pool_timeout |-> 1,
     db_pool_recycle_seconds |-> 60, db_statement_timeout_ms |-> 0,
     api_rate_limit_max_requests |-> 1, retention_days |-> 1,
     retention_check_interval_hours |-> 1, retention_check_jitter_minutes |-> 0,
     history_max_entries |-> 1, history_check_interval_hours |-> 1,
     history_check_jitter_minutes |-> 0, max_json_field_mb |-> 1,
     max_request_body_mb |-> 1]

Maximum ==
    [db_pool_recycle_seconds |-> 86400, db_statement_timeout_ms |-> 3600000]

FieldsValid(c) ==
    /\ \A f \in DOMAIN Minimum : c.numbers[f] >= Minimum[f]
    /\ \A f \in DOMAIN Maximum : c.numbers[f] <= Maximum[f]

(* The validators run in this order and see what the earlier ones left.    *)
_expand_env_vars(c) ==
    [c EXCEPT !.app_prefix = [value |-> "", text |-> Expand(@)],
              !.log_level = [value |-> "", text |-> Expand(@)]]

_require_deployment(c) == c.deployment

_check_database_uri(c) == c.database_uri

Rooted == {"/", "/fact_inventory"}

_check_app_prefix(c) == c.app_prefix.text \in Rooted

JSON_FIELD_NAMES ==
    {"system_facts", "package_facts", "local_facts", "client_facts"}

\* Mutant: the body need not be larger than the fields, only as large.
_check_body_size_weak(c) ==
    c.numbers.max_request_body_mb >=
        Cardinality(JSON_FIELD_NAMES) * c.numbers.max_json_field_mb

_check_body_size(c) ==
    c.numbers.max_request_body_mb >
        Cardinality(JSON_FIELD_NAMES) * c.numbers.max_json_field_mb

Validates(c) ==
    /\ FieldsValid(c)
    /\ LET s == _expand_env_vars(c) IN
       /\ _require_deployment(s) /\ _check_database_uri(s)
       /\ _check_app_prefix(s) /\ _check_body_size(s)

Settings(c) == _expand_env_vars(c)

LOG_LEVEL_MAP == {"DEBUG", "INFO", "WARNING", "ERROR", "CRITICAL"}

(* create_app fails for an unknown level and for a job interval under a    *)
(* minute or a negative jitter.                                            *)
get_structlog_config(s) == s.debug \/ s.log_level.text \in LOG_LEVEL_MAP

AsyncBackgroundJobPlugin(hours, minutes) == hours * 3600 >= 60 /\ minutes * 60 >= 0

create_app(s) ==
    /\ AsyncBackgroundJobPlugin(s.numbers.retention_check_interval_hours,
                                s.numbers.retention_check_jitter_minutes)
    /\ AsyncBackgroundJobPlugin(s.numbers.history_check_interval_hours,
                                s.numbers.history_check_jitter_minutes)
    /\ get_structlog_config(s)

-----------------------------------------------------------------------------
InitDeployment ==
    /\ Init
    /\ configured \in Config
    /\ installed = 2
    /\ phase = [p \in Process |-> "down"]
    /\ cached = [p \in Process |-> NoConfig]
    /\ settings = [p \in Process |-> NoConfig]
    /\ code = [p \in Process |-> 0]
    /\ read = [p \in Process |-> 0]
    /\ outdated = [p \in Process |-> FALSE]

(* Operators change the configuration and install releases.                *)
Configure(c) ==
    /\ configured' = c
    /\ UNCHANGED <<schemaVars, installed, processVars>>

Install(head) ==
    /\ installed' = head /\ head # installed
    /\ outdated' = [p \in Process |-> phase[p] # "down"]
    /\ UNCHANGED <<schemaVars, configured, phase, cached, settings, code, read>>

Migrate(m) ==
    /\ MigrationStep(m)
    /\ outdated' = [p \in Process |->
                      outdated[p] \/ (database' # database /\ phase[p] # "down")]
    /\ UNCHANGED <<configured, installed, phase, cached, settings, code, read>>

(* Importing the package builds its module-level app, which reads and      *)
(* caches the settings; an error ends the process.                         *)
Import(p) ==
    /\ phase[p] = "down"
    /\ code' = [code EXCEPT ![p] = installed]
    /\ IF Validates(configured) /\ create_app(Settings(configured))
       THEN /\ phase' = [phase EXCEPT ![p] = "imported"]
            /\ cached' = [cached EXCEPT ![p] = Settings(configured)]
       ELSE /\ phase' = [phase EXCEPT ![p] = "refused"]
            /\ UNCHANGED cached
    /\ UNCHANGED <<schemaVars, configured, installed, settings, read, outdated>>

\* Mutant: get_settings is not cached.
FactoryUncached(p) ==
    /\ phase[p] = "imported"
    /\ IF Validates(configured) /\ create_app(Settings(configured))
       THEN /\ phase' = [phase EXCEPT ![p] = "starting"]
            /\ settings' = [settings EXCEPT ![p] = Settings(configured)]
       ELSE /\ phase' = [phase EXCEPT ![p] = "refused"]
            /\ UNCHANGED settings
    /\ UNCHANGED <<schemaVars, configured, installed, cached, code, read, outdated>>

(* The ASGI server calls app_factory, which finds the cached settings.     *)
Factory(p) ==
    /\ phase[p] = "imported"
    /\ phase' = [phase EXCEPT ![p] = "starting"]
    /\ settings' = [settings EXCEPT ![p] = cached[p]]
    /\ UNCHANGED <<schemaVars, configured, installed, cached, code, read, outdated>>

get_database_revision(p) ==
    /\ phase[p] = "starting"
    /\ phase' = [phase EXCEPT ![p] = "checking"]
    /\ read' = [read EXCEPT ![p] = database.revision]
    /\ UNCHANGED <<schemaVars, configured, installed, cached, settings, code,
                   outdated>>

(* No connection, or the statement times out: the startup hook raises.     *)
get_database_revision_fails(p) ==
    /\ phase[p] = "starting"
    /\ phase' = [phase EXCEPT ![p] = "refused"]
    /\ UNCHANGED <<schemaVars, configured, installed, cached, settings, code,
                   read, outdated>>

\* Mutant: any revision will do.
check_any_revision(p) ==
    /\ phase[p] = "checking"
    /\ phase' = [phase EXCEPT ![p] = IF read[p] # 0 THEN "serving" ELSE "refused"]
    /\ UNCHANGED <<schemaVars, configured, installed, cached, settings, code,
                   read, outdated>>

(* The head is that of the scripts on disk, whatever code is loaded.       *)
check_migrations_up_to_date(p) ==
    /\ phase[p] = "checking"
    /\ phase' = [phase EXCEPT ![p] =
                    IF read[p] = installed THEN "serving" ELSE "refused"]
    /\ UNCHANGED <<schemaVars, configured, installed, cached, settings, code,
                   read, outdated>>

\* Mutant: a process that refused to start lingers.
ExitUnlessRefused(p) ==
    /\ phase[p] \notin {"down", "refused"}
    /\ phase' = [phase EXCEPT ![p] = "down"]
    /\ cached' = [cached EXCEPT ![p] = NoConfig]
    /\ settings' = [settings EXCEPT ![p] = NoConfig]
    /\ code' = [code EXCEPT ![p] = 0]
    /\ read' = [read EXCEPT ![p] = 0]
    /\ outdated' = [outdated EXCEPT ![p] = FALSE]
    /\ UNCHANGED <<schemaVars, configured, installed>>

(* A process ends: stopped, killed, or after an error.                     *)
Exit(p) ==
    /\ phase[p] # "down"
    /\ phase' = [phase EXCEPT ![p] = "down"]
    /\ cached' = [cached EXCEPT ![p] = NoConfig]
    /\ settings' = [settings EXCEPT ![p] = NoConfig]
    /\ code' = [code EXCEPT ![p] = 0]
    /\ read' = [read EXCEPT ![p] = 0]
    /\ outdated' = [outdated EXCEPT ![p] = FALSE]
    /\ UNCHANGED <<schemaVars, configured, installed>>

ProcessStep(p) ==
    \/ Import(p) \/ Factory(p)
    \/ get_database_revision(p) \/ get_database_revision_fails(p)
    \/ check_migrations_up_to_date(p) \/ Exit(p)

Next ==
    \/ \E c \in Config : Configure(c)
    \/ \E head \in Revision \ {0} : Install(head)
    \/ \E m \in Migrator : Migrate(m)
    \/ \E p \in Process : ProcessStep(p)

Spec == InitDeployment /\ [][Next]_vars

(***************************************************************************)
(* Fairness: the supervisor restarts a process that ended, and a process   *)
(* that refused does end.  A start may fail or be killed any number of     *)
(* times, but not always at the same step.                                 *)
(***************************************************************************)
FairSpec ==
    /\ Spec
    /\ \A p \in Process :
         /\ WF_vars(Import(p))
         /\ WF_vars(phase[p] = "refused" /\ Exit(p))
         /\ SF_vars(Factory(p))
         /\ SF_vars(get_database_revision(p))
         /\ SF_vars(check_migrations_up_to_date(p))

-----------------------------------------------------------------------------
(* The type invariant; migrations stay between the revisions there are.    *)
TypeOK ==
    /\ database \in [revision : Revision, relations : SUBSET Relation]
    /\ \A m \in Migrator :
         \/ migration[m] = Idle
         \/ migration[m] \in [phase : {"running"}, goal : Revision,
                              base : Revision, at : Revision, done : 0..7,
                              relations : SUBSET Relation]
    /\ phase \in [Process -> Phase]
    /\ code \in [Process -> Revision] /\ read \in [Process -> Revision]
    /\ configured \in Config /\ installed \in Revision

Built == {"starting", "checking", "serving"}

(***************************************************************************)
(* A process serves with a schema other than its own code's only if a      *)
(* migration was committed or a release installed since it started: the    *)
(* check holds no lock and is made once, and reads the head from the disk. *)
(***************************************************************************)
DriftExplained ==
    \A p \in Process :
        phase[p] = "serving" /\ code[p] # database.revision => outdated[p]

(***************************************************************************)
(* All parts of a process use one configuration, although the app is built *)
(* twice and the .env file may change in between: what get_settings()      *)
(* returns later is what the application was built with.  And it is usable *)
(* whatever references it holds: a rooted prefix, a known level, and a     *)
(* body limit that lets four fields of the largest size through.           *)
(***************************************************************************)
UsableSettings ==
    \A p \in Process : phase[p] \in Built =>
        /\ settings[p] = cached[p]
        /\ settings[p].app_prefix.text \in Rooted
        /\ settings[p].debug \/ settings[p].log_level.text \in LOG_LEVEL_MAP
        /\ settings[p].numbers.max_request_body_mb
              > Cardinality(JSON_FIELD_NAMES)
                * settings[p].numbers.max_json_field_mb

(***************************************************************************)
(* Once a valid configuration and the schema of the installed release are  *)
(* in place for good, every process serves again and again.                *)
(***************************************************************************)
InPlace ==
    /\ Validates(configured) /\ create_app(Settings(configured))
    /\ database.revision = installed

ServesAgain ==
    \A p \in Process : <>[]InPlace => []<>(phase[p] = "serving")
=============================================================================
