---------------------------- MODULE SchemaMigration ----------------------------
(***************************************************************************)
(* The Alembic migrations on PostgreSQL: each run takes the database from  *)
(* its revision to another, statement by statement in one transaction.     *)
(* Runs may be concurrent, may fail, and may be killed at any point.       *)
(***************************************************************************)
EXTENDS Integers, Sequences

CONSTANT
    Migrator     \* who runs "database upgrade" or "downgrade"

VARIABLES
    database,    \* the committed revision and relations
    migration    \* the transaction of each migrator

schemaVars == <<database, migration>>

(* The revisions in order: none, 000000000000 and 000000000001.            *)
Revision == 0..2

CMDB_VIEWS ==
    <<"cmdb_host_interfaces_private",
      "cmdb_host_interfaces",
      "cmdb_host_interface_ipv4_addresses",
      "cmdb_host_interface_ipv6_addresses",
      "cmdb_host_hardware",
      "cmdb_host_storage_devices",
      "cmdb_host_os_info">>

View == {CMDB_VIEWS[i] : i \in DOMAIN CMDB_VIEWS}

(* The indexes of fact_inventory, and its partitions, stand for themselves *)
(* as one relation each with their table.                                  *)
Tables == {"fact_inventory", "ix_fact_inventory", "background_job_lock"}

Relation == Tables \cup View

(* What a relation is defined over.                                        *)
Base(r) ==
    CASE r \in {"cmdb_host_interfaces",
                "cmdb_host_interface_ipv4_addresses",
                "cmdb_host_interface_ipv6_addresses"} ->
             {"cmdb_host_interfaces_private"}
      [] r \in {"cmdb_host_interfaces_private", "cmdb_host_hardware",
                "cmdb_host_storage_devices", "cmdb_host_os_info",
                "ix_fact_inventory"} -> {"fact_inventory"}
      [] r \in {"fact_inventory", "background_job_lock"} -> {}

(* The relations a script creates, and those it drops, in its order.       *)
Upgrade(to) ==
    IF to = 1
    THEN <<"fact_inventory", "ix_fact_inventory", "background_job_lock">>
    ELSE CMDB_VIEWS

\* Mutant: the views are dropped in the order they were created in.
DowngradeForward(from) ==
    IF from = 1 THEN <<"background_job_lock", "fact_inventory">> ELSE CMDB_VIEWS

Downgrade(from) ==
    IF from = 1 THEN <<"background_job_lock", "fact_inventory">>
    ELSE [i \in DOMAIN CMDB_VIEWS |-> CMDB_VIEWS[8 - i]]

(* CREATE TABLE refuses what exists; CREATE OR REPLACE VIEW does not.      *)
CanCreate(r, R) == Base(r) \subseteq R /\ (r \in Tables => r \notin R)

(* DROP TABLE refuses what is missing, DROP VIEW IF EXISTS does not; both  *)
(* refuse what views depend on.  A table takes its indexes along.          *)
CanDrop(r, R) ==
    /\ r \in Tables => r \in R
    /\ \A v \in View \cap R : r \notin Base(v)

WithoutIndexes(r, R) ==
    R \ IF r = "fact_inventory" THEN {r, "ix_fact_inventory"} ELSE {r}

Idle == [phase |-> "idle"]

Running(m) == migration[m].phase = "running"

(* The statements between two revisions.                                   *)
Upwards(t) == t.at < t.goal

Script(t) == IF Upwards(t) THEN Upgrade(t.at + 1) ELSE Downgrade(t.at)

Init ==
    /\ database = [revision |-> 0, relations |-> {}]
    /\ migration = [m \in Migrator |-> Idle]

-----------------------------------------------------------------------------
Begin(m, goal) ==
    /\ migration[m] = Idle /\ goal # database.revision
    /\ migration' = [migration EXCEPT ![m] =
                       [phase |-> "running", goal |-> goal, done |-> 0,
                        base |-> database.revision, at |-> database.revision,
                        relations |-> database.relations]]
    /\ UNCHANGED database

(* Another run has committed meanwhile.  This one waited for its locks and *)
(* now finds a relation it creates, or not the version row it replaces.    *)
Overtaken(m) == migration[m].base # database.revision

Rollback(m) ==
    /\ migration' = [migration EXCEPT ![m] = Idle]
    /\ UNCHANGED database

Executes(t, r) ==
    IF Upwards(t) THEN CanCreate(r, t.relations) ELSE CanDrop(r, t.relations)

After(t, r) ==
    IF Upwards(t) THEN t.relations \cup {r} ELSE WithoutIndexes(r, t.relations)

\* Mutant: every statement commits on its own.
StatementCommits(m) ==
    LET t == migration[m]
        r == Script(t)[t.done + 1]
    IN  /\ Running(m) /\ t.at # t.goal /\ t.done + 1 \in DOMAIN Script(t)
        /\ IF Overtaken(m) \/ ~Executes(t, r) THEN Rollback(m)
           ELSE /\ migration' = [migration EXCEPT ![m].done = @ + 1,
                                                  ![m].relations = After(t, r)]
                /\ database' = [database EXCEPT !.relations = After(t, r)]

(* A statement that fails ends the run.                                    *)
Statement(m) ==
    LET t == migration[m]
        r == Script(t)[t.done + 1]
    IN  /\ Running(m) /\ t.at # t.goal /\ t.done + 1 \in DOMAIN Script(t)
        /\ IF Overtaken(m) \/ ~Executes(t, r) THEN Rollback(m)
           ELSE /\ migration' = [migration EXCEPT ![m].done = @ + 1,
                                                  ![m].relations = After(t, r)]
                /\ UNCHANGED database

\* Mutant: counts a script that was not applied.
StampFurther(m) ==
    LET t == migration[m] IN
    /\ Running(m) /\ t.at # t.goal /\ t.done + 1 \notin DOMAIN Script(t)
    /\ IF Overtaken(m) THEN Rollback(m)
       ELSE /\ migration' = [migration EXCEPT
                               ![m].at = IF Upwards(t) THEN @ + 2 ELSE @ - 1,
                               ![m].done = 0]
            /\ UNCHANGED database

(* After each script Alembic stamps its revision in the version table.     *)
Stamp(m) ==
    LET t == migration[m] IN
    /\ Running(m) /\ t.at # t.goal /\ t.done + 1 \notin DOMAIN Script(t)
    /\ IF Overtaken(m) THEN Rollback(m)
       ELSE /\ migration' = [migration EXCEPT
                               ![m].at = IF Upwards(t) THEN @ + 1 ELSE @ - 1,
                               ![m].done = 0]
            /\ UNCHANGED database

Commit(m) ==
    LET t == migration[m] IN
    /\ Running(m) /\ t.at = t.goal
    /\ IF Overtaken(m) THEN Rollback(m)
       ELSE /\ migration' = [migration EXCEPT ![m] = Idle]
            /\ database' = [revision |-> t.at, relations |-> t.relations]

(* Killed, or its connection is lost.                                      *)
Abort(m) == Running(m) /\ Rollback(m)

MigrationStep(m) ==
    \/ \E goal \in Revision : Begin(m, goal)
    \/ Statement(m) \/ Stamp(m) \/ Commit(m) \/ Abort(m)

-----------------------------------------------------------------------------
Relations(revision) ==
    (IF revision >= 1 THEN Tables ELSE {}) \cup (IF revision = 2 THEN View ELSE {})

(***************************************************************************)
(* The version table tells the truth: the committed relations are exactly  *)
(* those of the stamped revision, although runs are killed between         *)
(* statements, fail, or run at the same time.                              *)
(***************************************************************************)
SchemaMatchesRevision == database.relations = Relations(database.revision)

(***************************************************************************)
(* Every script applies from start to end: a run that nobody overtook      *)
(* never meets a statement the database refuses, in either direction.      *)
(***************************************************************************)
ScriptsApply ==
    \A m \in Migrator :
        LET t == migration[m] IN
        /\ Running(m) /\ ~Overtaken(m)
        /\ t.at # t.goal /\ t.done + 1 \in DOMAIN Script(t)
        => Executes(t, Script(t)[t.done + 1])
=============================================================================
