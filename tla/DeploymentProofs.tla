--------------------------- MODULE DeploymentProofs ---------------------------
(***************************************************************************)
(* Proofs about the migrations and the processes of Deployment, for every  *)
(* set of migrators, processes and configurations.                         *)
(***************************************************************************)
EXTENDS Deployment, TLAPS

-----------------------------------------------------------------------------
(* The scripts                                                             *)

(* What a transaction has made of the relations of the revision it is at.  *)
Progress(t) ==
    IF t.at < t.goal
    THEN Relations(t.at) \cup {Script(t)[i] : i \in 1..t.done}
    ELSE IF t.at > t.goal
    THEN {x \in Relations(t.at) :
             \A i \in 1..t.done : x \in WithoutIndexes(Script(t)[i], {x})}
    ELSE Relations(t.at)

Transaction ==
    [phase : {"running"}, goal : Revision, base : Revision, at : Revision,
     done : 0..7, relations : SUBSET Relation]

Consistent(t) ==
    /\ t \in Transaction
    /\ t.done = 0 \/ (t.at # t.goal /\ t.done \in DOMAIN Script(t))
    /\ t.relations = Progress(t)

LEMMA ScriptDomain ==
    ASSUME NEW t \in Transaction, t.at # t.goal
    PROVE  /\ DOMAIN Script(t) \in {1..2, 1..3, 1..7}
           /\ \A i \in DOMAIN Script(t) : Script(t)[i] \in Relation
  <1>1. DOMAIN CMDB_VIEWS = 1..7 /\ \A i \in 1..7 : CMDB_VIEWS[i] \in View
    BY DEF CMDB_VIEWS, View
  <1>2. /\ DOMAIN Upgrade(1) = 1..3 /\ \A i \in 1..3 : Upgrade(1)[i] \in Relation
        /\ DOMAIN Downgrade(1) = 1..2
        /\ \A i \in 1..2 : Downgrade(1)[i] \in Relation
    BY DEF Upgrade, Downgrade, Relation, Tables
  <1>3. /\ Upgrade(2) = CMDB_VIEWS
        /\ DOMAIN Downgrade(2) = 1..7
        /\ \A i \in 1..7 : Downgrade(2)[i] = CMDB_VIEWS[8 - i] /\ 8 - i \in 1..7
    BY <1>1 DEF Upgrade, Downgrade
  <1>4. Script(t) \in {Upgrade(1), Upgrade(2), Downgrade(1), Downgrade(2)}
    BY DEF Script, Upwards, Transaction, Revision
  <1> QED BY <1>1, <1>2, <1>3, <1>4 DEF Relation

(* A script that ran to its end has made the relations of the next         *)
(* revision.                                                               *)
LEMMA ScriptComplete ==
    ASSUME NEW t, Consistent(t), t.at # t.goal,
           t.done + 1 \notin DOMAIN Script(t)
    PROVE  t.relations = Relations(IF Upwards(t) THEN t.at + 1 ELSE t.at - 1)
  <1>1. t \in Transaction
    BY DEF Consistent
  <1>2. CASE t.at = 0
    BY <1>1, <1>2 DEF Consistent, Transaction, Progress, Script, Upgrade, Upwards,
                      Relations, Tables, Revision
  <1>3. CASE t.at = 1 /\ t.goal = 2
    BY <1>1, <1>3 DEF Consistent, Transaction, Progress, Script, Upgrade, Upwards,
                      Relations, View, CMDB_VIEWS
  <1>4. CASE t.at = 1 /\ t.goal = 0
    BY <1>1, <1>4 DEF Consistent, Transaction, Progress, Script, Downgrade,
                      Upwards, Relations, Tables, WithoutIndexes
  <1>5. CASE t.at = 2
    <2>1. t.relations = {x \in Relations(2) :
             \A i \in 1..7 : x \in WithoutIndexes(CMDB_VIEWS[8 - i], {x})}
      <3>1. DOMAIN CMDB_VIEWS = 1..7
        BY DEF CMDB_VIEWS
      <3>2. t.at > t.goal /\ Script(t) = Downgrade(2)
        BY <1>1, <1>5 DEF Transaction, Revision, Script, Upwards
      <3>3. Script(t) = [i \in 1..7 |-> CMDB_VIEWS[8 - i]]
        BY <3>1, <3>2 DEF Downgrade
      <3>4. t.done = 7
        BY <1>1, <3>3 DEF Consistent, Transaction
      <3>5. t.relations = {x \in Relations(2) :
               \A i \in 1..7 : x \in WithoutIndexes(Script(t)[i], {x})}
        BY <1>1, <1>5, <3>2, <3>4 DEF Consistent, Progress, Transaction, Revision
      <3> QED BY <3>3, <3>5
    <2>2. \A i \in 1..7 : CMDB_VIEWS[8 - i] \in View /\ CMDB_VIEWS[8 - i] # "fact_inventory"
      BY DEF View, CMDB_VIEWS
    <2>3. \A v \in View : \E i \in 1..7 : v = CMDB_VIEWS[8 - i]
      BY DEF View, CMDB_VIEWS
    <2>4. Tables \cap View = {}
      BY DEF Tables, View, CMDB_VIEWS
    <2> QED BY <1>1, <1>5, <2>1, <2>2, <2>3, <2>4
            DEF Relations, WithoutIndexes, Upwards, Transaction, Revision
  <1> QED BY <1>1, <1>2, <1>3, <1>4, <1>5 DEF Transaction, Revision

(* The next statement of a script applies.                                 *)
LEMMA ScriptApplies ==
    ASSUME NEW t, Consistent(t), t.at # t.goal, t.done + 1 \in DOMAIN Script(t)
    PROVE  Executes(t, Script(t)[t.done + 1])
  <1>1. t \in Transaction
    BY DEF Consistent
  <1>2. CASE t.at = 0
    BY <1>1, <1>2 DEF Consistent, Transaction, Progress, Script, Upgrade, Upwards,
                      Relations, Tables, View, CMDB_VIEWS, Revision, Executes,
                      CanCreate, Base
  <1>3. CASE t.at = 1 /\ t.goal = 2
    <2>1. Script(t) = CMDB_VIEWS /\ Upwards(t)
      BY <1>1, <1>3 DEF Script, Upgrade, Upwards
    <2>2. t.relations = Tables \cup {CMDB_VIEWS[i] : i \in 1..t.done}
      BY <1>1, <1>3, <2>1 DEF Consistent, Progress, Relations
    <2>3. t.done \in 0..6
      BY <1>1, <2>1 DEF Transaction, CMDB_VIEWS
    <2>4. \A k \in 1..7 : CMDB_VIEWS[k] \notin Tables
      BY DEF CMDB_VIEWS, Tables
    <2>5. \A k \in 2..7 : Base(CMDB_VIEWS[k]) \subseteq Tables \cup {CMDB_VIEWS[1]}
      BY DEF CMDB_VIEWS, Tables, Base
    <2>6. Base(CMDB_VIEWS[1]) \subseteq Tables
      BY DEF CMDB_VIEWS, Tables, Base
    <2>7. Base(CMDB_VIEWS[t.done + 1]) \subseteq t.relations
      <3>1. CASE t.done = 0
        BY <3>1, <2>2, <2>6
      <3>2. CASE t.done # 0
        <4>1. CMDB_VIEWS[1] \in t.relations /\ Tables \subseteq t.relations
          BY <2>2, <2>3, <3>2
        <4>2. t.done + 1 \in 2..7
          BY <2>3, <3>2
        <4> QED BY <2>5, <4>1, <4>2
      <3> QED BY <3>1, <3>2
    <2> QED BY <2>1, <2>3, <2>4, <2>7 DEF Executes, CanCreate
  <1>4. CASE t.at = 1 /\ t.goal = 0
    BY <1>1, <1>4 DEF Consistent, Transaction, Progress, Script, Downgrade,
                      Upwards, Relations, Tables, View, CMDB_VIEWS,
                      WithoutIndexes, Executes, CanDrop, Base
  <1>5. CASE t.at = 2
    <2>1. DOMAIN CMDB_VIEWS = 1..7
      BY DEF CMDB_VIEWS
    <2>2. t.at > t.goal /\ ~Upwards(t) /\ Script(t) = Downgrade(2)
      BY <1>1, <1>5 DEF Transaction, Revision, Script, Upwards
    <2>3. Script(t) = [i \in 1..7 |-> CMDB_VIEWS[8 - i]]
      BY <2>1, <2>2 DEF Downgrade
    <2>4. t.done \in 0..6
      BY <1>1, <2>3 DEF Transaction
    <2>5. t.relations = {x \in Relations(2) :
             \A i \in 1..t.done : x \in WithoutIndexes(CMDB_VIEWS[8 - i], {x})}
      <3>1. t.relations = {x \in Relations(2) :
               \A i \in 1..t.done : x \in WithoutIndexes(Script(t)[i], {x})}
        BY <1>1, <1>5, <2>2 DEF Consistent, Progress, Transaction, Revision
      <3>2. \A i \in 1..t.done : Script(t)[i] = CMDB_VIEWS[8 - i]
        BY <2>3, <2>4
      <3> QED BY <3>1, <3>2
    <2>6. \A k \in 1..7 : CMDB_VIEWS[k] \notin Tables /\ CMDB_VIEWS[k] # "fact_inventory"
      BY DEF CMDB_VIEWS, Tables
    <2>7. \A v \in View : \A k \in 2..7 : CMDB_VIEWS[k] \notin Base(v)
      BY DEF View, CMDB_VIEWS, Base
    <2>8. \A v \in View \cap t.relations : CMDB_VIEWS[8 - (t.done + 1)] \notin Base(v)
      <3>1. CASE t.done = 6
        <4>1. \A k \in 2..7 : CMDB_VIEWS[k] \notin t.relations
          <5> TAKE k \in 2..7
          <5>1. 8 - k \in 1..t.done /\ CMDB_VIEWS[8 - (8 - k)] = CMDB_VIEWS[k]
            BY <3>1
          <5> QED BY <5>1, <2>5, <2>6 DEF WithoutIndexes
        <4>2. \A v \in View \cap t.relations : v = CMDB_VIEWS[1]
          BY <2>1, <4>1 DEF View
        <4>3. CMDB_VIEWS[1] \notin Base(CMDB_VIEWS[1])
          BY DEF CMDB_VIEWS, Base
        <4> QED BY <3>1, <4>2, <4>3
      <3>2. CASE t.done # 6
        <4>1. 8 - (t.done + 1) \in 2..7
          BY <2>4, <3>2
        <4> QED BY <2>7, <4>1
      <3> QED BY <3>1, <3>2
    <2>9. Script(t)[t.done + 1] = CMDB_VIEWS[8 - (t.done + 1)]
             /\ 8 - (t.done + 1) \in 1..7
      BY <2>3, <2>4
    <2> QED BY <2>2, <2>6, <2>8, <2>9 DEF Executes, CanDrop
  <1> QED BY <1>1, <1>2, <1>3, <1>4, <1>5 DEF Transaction, Revision

-----------------------------------------------------------------------------
(* The migrations                                                          *)

SchemaInv ==
    /\ database \in [revision : Revision, relations : SUBSET Relation]
    /\ SchemaMatchesRevision
    /\ DOMAIN migration = Migrator
    /\ \A m \in Migrator : migration[m] = Idle \/ Consistent(migration[m])

LEMMA RelationsType == \A r \in Revision : Relations(r) \in SUBSET Relation
  BY DEF Relations, Relation

(* A transaction that has executed nothing of its script has the relations *)
(* of the revision it is at.                                               *)
LEMMA NoProgress ==
    ASSUME NEW t, t.done = 0
    PROVE  Progress(t) = Relations(t.at)
  <1>1. 1..t.done = {}
    OBVIOUS
  <1>2. {Script(t)[i] : i \in 1..t.done} = {}
    BY <1>1
  <1>3. {x \in Relations(t.at) :
            \A i \in 1..t.done : x \in WithoutIndexes(Script(t)[i], {x})}
          = Relations(t.at)
    BY <1>1
  <1> QED BY <1>2, <1>3, Zenon DEF Progress

LEMMA IdleOrRunning ==
    ASSUME SchemaInv, NEW m \in Migrator, Running(m)
    PROVE  Consistent(migration[m]) /\ migration[m] \in Transaction
  <1>1. migration[m] # Idle
    BY DEF Running, Idle
  <1> QED BY <1>1 DEF SchemaInv, Consistent

(* A transaction that begins has made nothing yet.                         *)
LEMMA BeginConsistent ==
    ASSUME SchemaInv, NEW m \in Migrator, NEW goal \in Revision, Begin(m, goal)
    PROVE  SchemaInv'
  <1> DEFINE t == [phase |-> "running", goal |-> goal, done |-> 0,
                   base |-> database.revision, at |-> database.revision,
                   relations |-> database.relations]
  <1>1. /\ migration' = [migration EXCEPT ![m] = t] /\ UNCHANGED database
        /\ goal # database.revision
    BY DEF Begin
  <1>2. t \in Transaction
    BY DEF SchemaInv, Transaction
  <1>3. t.relations = Relations(t.at) /\ t.done = 0 /\ t.at \in Revision
    BY DEF SchemaInv, SchemaMatchesRevision
  <1>4. t.relations = Progress(t)
    <2> HIDE DEF t
    <2> QED BY <1>3, NoProgress
  <1>5. Consistent(t)
    BY <1>2, <1>3, <1>4 DEF Consistent
  <1> HIDE DEF t
  <1> QED BY <1>1, <1>5 DEF SchemaInv, SchemaMatchesRevision

LEMMA RollbackConsistent ==
    ASSUME SchemaInv, NEW m \in Migrator, Rollback(m)
    PROVE  SchemaInv'
  BY DEF SchemaInv, SchemaMatchesRevision, Rollback

(* A statement that applies adds to the progress.                          *)
LEMMA StatementConsistent ==
    ASSUME SchemaInv, NEW m \in Migrator, Statement(m)
    PROVE  SchemaInv'
  <1> DEFINE t == migration[m]
             r == Script(t)[t.done + 1]
             u == [t EXCEPT !.done = @ + 1, !.relations = After(t, r)]
  <1>1. CASE Rollback(m)
    BY <1>1, RollbackConsistent
  <1>2. CASE ~Rollback(m)
    <2>1. /\ migration' = [migration EXCEPT ![m] = u] /\ UNCHANGED database
          /\ Running(m) /\ t.at # t.goal /\ t.done + 1 \in DOMAIN Script(t)
      BY <1>2 DEF Statement, SchemaInv
    <2>2. Consistent(t) /\ t \in Transaction
      BY <2>1, IdleOrRunning
    <2>3. r \in Relation /\ DOMAIN Script(t) \in {1..2, 1..3, 1..7}
      BY <2>1, <2>2, ScriptDomain
    <2> HIDE DEF t, r
    <2>4. After(t, r) \in SUBSET Relation
      BY <2>2, <2>3 DEF After, WithoutIndexes, Transaction
    <2>5. /\ u \in Transaction /\ u.done = t.done + 1 /\ u.at = t.at
          /\ u.goal = t.goal /\ u.relations = After(t, r)
      <3>1. t.done + 1 \in 0..7
        <4>1. t.done + 1 \in DOMAIN Script(t)
          BY <2>1 DEF t
        <4> QED BY <2>3, <4>1
      <3> DEFINE R == After(t, r)
                 d == t.done + 1
      <3>2. u = [t EXCEPT !.done = d, !.relations = R]
        BY <2>2 DEF Transaction
      <3> HIDE DEF R, d, u
      <3>3. R \in SUBSET Relation /\ d \in 0..7
        BY <2>4, <3>1 DEF R, d
      <3>4. /\ u \in Transaction /\ u.done = d /\ u.at = t.at
            /\ u.goal = t.goal /\ u.relations = R
        BY <2>2, <3>2, <3>3 DEF Transaction
      <3> QED BY <3>4 DEF R, d
    <2>6. Script(u) = Script(t)
      BY <2>5 DEF Script, Upwards
    <2>7. 1..u.done = (1..t.done) \cup {u.done}
      BY <2>2, <2>5 DEF Transaction
    <2>8. r = Script(t)[u.done]
      BY <2>5 DEF r
    <2> HIDE DEF u
    <2>9. u.relations = Progress(u)
      <3>1. t.at \in Int /\ t.goal \in Int
        BY <2>2 DEF Transaction, Revision
      <3>2. CASE t.at < t.goal
        BY <2>2, <2>5, <2>6, <2>7, <2>8, <3>2
           DEF Consistent, Progress, After, Upwards
      <3>3. CASE t.at > t.goal
        BY <2>2, <2>5, <2>6, <2>7, <2>8, <3>1, <3>3
           DEF Consistent, Progress, After, Upwards, WithoutIndexes
      <3> QED BY <2>1, <3>1, <3>2, <3>3 DEF t
    <2>10. Consistent(u)
      BY <2>1, <2>5, <2>6, <2>9 DEF Consistent, t
    <2> QED BY <2>1, <2>10 DEF SchemaInv, SchemaMatchesRevision
  <1> QED BY <1>1, <1>2

(* A complete script arrives at the next revision with its relations.      *)
LEMMA StampConsistent ==
    ASSUME SchemaInv, NEW m \in Migrator, Stamp(m)
    PROVE  SchemaInv'
  <1> DEFINE t == migration[m]
             n == IF Upwards(t) THEN t.at + 1 ELSE t.at - 1
             u == [t EXCEPT !.at = n, !.done = 0]
  <1>1. CASE Rollback(m)
    BY <1>1, RollbackConsistent
  <1>2. CASE ~Rollback(m)
    <2>1. /\ migration' = [migration EXCEPT ![m] = u] /\ UNCHANGED database
          /\ Running(m) /\ t.at # t.goal /\ t.done + 1 \notin DOMAIN Script(t)
      BY <1>2 DEF Stamp, SchemaInv
    <2>2. Consistent(t) /\ t \in Transaction
      BY <2>1, IdleOrRunning
    <2>3. t.relations = Relations(n)
      BY <2>1, <2>2, ScriptComplete
    <2> HIDE DEF t
    <2>4. n \in Revision
      BY <2>1, <2>2 DEF Transaction, Revision, Upwards, t
    <2> HIDE DEF n
    <2>5. /\ u \in Transaction /\ u.done = 0 /\ u.at = n
          /\ u.relations = Relations(n)
      <3> DEFINE z == 0
      <3>1. u = [t EXCEPT !.at = n, !.done = z] /\ z \in 0..7
        OBVIOUS
      <3> HIDE DEF u, z
      <3>2. /\ u \in Transaction /\ u.done = z /\ u.at = n
            /\ u.relations = t.relations
        BY <2>2, <2>4, <3>1 DEF Transaction
      <3> QED BY <2>3, <3>2 DEF z
    <2> HIDE DEF u
    <2>6. Consistent(u)
      BY <2>5, NoProgress DEF Consistent
    <2> QED BY <2>1, <2>6 DEF SchemaInv, SchemaMatchesRevision
  <1> QED BY <1>1, <1>2

LEMMA CommitConsistent ==
    ASSUME SchemaInv, NEW m \in Migrator, Commit(m)
    PROVE  SchemaInv'
  <1> DEFINE t == migration[m]
  <1>1. CASE Rollback(m)
    BY <1>1, RollbackConsistent
  <1>2. CASE ~Rollback(m)
    <2>1. /\ migration' = [migration EXCEPT ![m] = Idle]
          /\ database' = [revision |-> t.at, relations |-> t.relations]
          /\ Running(m) /\ t.at = t.goal
      BY <1>2 DEF Commit, SchemaInv
    <2>2. Consistent(t) /\ t \in Transaction
      BY <2>1, IdleOrRunning
    <2> HIDE DEF t
    <2>3. t.relations = Relations(t.at) /\ t.at \in Revision
      BY <2>1, <2>2 DEF Consistent, Progress, Transaction, Revision, t
    <2>4. t.relations \in SUBSET Relation
      BY <2>2 DEF Transaction
    <2> QED BY <2>1, <2>3, <2>4 DEF SchemaInv, SchemaMatchesRevision
  <1> QED BY <1>1, <1>2

LEMMA MigrationStepConsistent ==
    ASSUME SchemaInv, NEW m \in Migrator, MigrationStep(m)
    PROVE  SchemaInv'
  BY BeginConsistent, StatementConsistent, StampConsistent, CommitConsistent,
     RollbackConsistent DEF MigrationStep, Abort

LEMMA SchemaInvariant == Spec => []SchemaInv
  <1>1. InitDeployment => SchemaInv
    <2>1. Init => database.revision = 0 /\ database.relations = {}
      BY DEF Init
    <2>2. Relations(0) = {}
      BY DEF Relations
    <2> QED BY <2>1, <2>2 DEF InitDeployment, Init, SchemaInv,
                              SchemaMatchesRevision, Revision
  <1>2. SchemaInv /\ [Next]_vars => SchemaInv'
    <2>1. SchemaInv /\ UNCHANGED schemaVars => SchemaInv'
      BY DEF SchemaInv, SchemaMatchesRevision, schemaVars
    <2>2. [Next]_vars => UNCHANGED schemaVars \/ \E m \in Migrator : MigrationStep(m)
      BY DEF Next, Configure, Install, Migrate, ProcessStep, Import, Factory,
             get_database_revision, get_database_revision_fails,
             check_migrations_up_to_date, Exit, vars
    <2> QED BY <2>1, <2>2, MigrationStepConsistent
  <1> QED BY <1>1, <1>2, PTL DEF Spec

(***************************************************************************)
(* SchemaMatchesRevision for any number of migrators at a time.            *)
(***************************************************************************)
THEOREM SchemaSafety == Spec => []SchemaMatchesRevision
  BY SchemaInvariant, PTL DEF SchemaInv

(***************************************************************************)
(* ScriptsApply for any number of migrators at a time.                     *)
(***************************************************************************)
THEOREM ScriptSafety == Spec => []ScriptsApply
  <1>1. SchemaInv => ScriptsApply
    BY IdleOrRunning, ScriptApplies DEF ScriptsApply
  <1> QED BY <1>1, SchemaInvariant, PTL

-----------------------------------------------------------------------------
(* The processes                                                           *)

Past == {"imported"} \cup Built

(* What the check has established, until something changed it.             *)
DriftInv ==
    /\ phase \in [Process -> Phase]
    /\ code \in [Process -> Revision] /\ read \in [Process -> Revision]
    /\ outdated \in [Process -> BOOLEAN]
    /\ installed \in Revision /\ database.revision \in Revision
    /\ \A p \in Process : ~outdated[p] =>
         /\ phase[p] \in Past => code[p] = installed
         /\ phase[p] \in {"checking", "serving"} => read[p] = database.revision
         /\ phase[p] = "serving" => read[p] = installed

LEMMA DriftInvariant == Spec => []DriftInv
  <1>1. InitDeployment => DriftInv
    BY DEF InitDeployment, Init, DriftInv, Revision, Phase, Past, Built
  <1>2. SchemaInv /\ SchemaInv' /\ DriftInv /\ [Next]_vars => DriftInv'
    <2> SUFFICES ASSUME SchemaInv, SchemaInv', DriftInv, [Next]_vars
                 PROVE  DriftInv'
      OBVIOUS
    <2>0. database.revision \in Revision /\ database.revision' \in Revision
      BY DEF SchemaInv
    <2>1. CASE UNCHANGED vars
      BY <2>1 DEF DriftInv, vars, schemaVars, processVars
    <2>2. ASSUME NEW c \in Config, Configure(c)
          PROVE  DriftInv'
      BY <2>2 DEF DriftInv, Configure, schemaVars, processVars
    <2>3. ASSUME NEW head \in Revision \ {0}, Install(head)
          PROVE  DriftInv'
      <3>1. \A p \in Process : ~outdated'[p] => phase'[p] = "down"
        BY <2>3 DEF DriftInv, Install
      <3>2. /\ outdated' \in [Process -> BOOLEAN] /\ installed' \in Revision
            /\ UNCHANGED <<database, phase, code, read>>
        BY <2>3 DEF DriftInv, Install, schemaVars
      <3> QED BY <3>1, <3>2 DEF DriftInv, Past, Built
    <2>4. ASSUME NEW m \in Migrator, Migrate(m)
          PROVE  DriftInv'
      <3>1. /\ outdated' \in [Process -> BOOLEAN]
            /\ UNCHANGED <<installed, phase, code, read>>
        BY <2>4 DEF DriftInv, Migrate
      <3>2. ASSUME NEW p \in Process, ~outdated'[p]
            PROVE  ~outdated[p] /\ (phase[p] = "down" \/ database' = database)
        BY <2>4, <3>2 DEF DriftInv, Migrate
      <3> QED BY <2>0, <3>1, <3>2 DEF DriftInv, Past, Built
    <2>5. ASSUME NEW p \in Process, ProcessStep(p)
          PROVE  DriftInv'
      <3>1. CASE Import(p)
        BY <3>1 DEF DriftInv, Import, Past, Built, Phase, schemaVars
      <3>2. CASE Factory(p)
        BY <3>2 DEF DriftInv, Factory, Past, Built, Phase, schemaVars
      <3>3. CASE get_database_revision(p)
        BY <3>3 DEF DriftInv, get_database_revision, Past, Built, Phase, schemaVars
      <3>4. CASE get_database_revision_fails(p)
        BY <3>4 DEF DriftInv, get_database_revision_fails, Past, Built, Phase,
                    schemaVars
      <3>5. CASE check_migrations_up_to_date(p)
        BY <3>5 DEF DriftInv, check_migrations_up_to_date, Past, Built, Phase,
                    schemaVars
      <3>6. CASE Exit(p)
        BY <3>6 DEF DriftInv, Exit, Past, Built, Phase, Revision, schemaVars
      <3> QED BY <2>5, <3>1, <3>2, <3>3, <3>4, <3>5, <3>6 DEF ProcessStep
    <2> QED BY <2>1, <2>2, <2>3, <2>4, <2>5 DEF Next
  <1> QED BY <1>1, <1>2, SchemaInvariant, PTL DEF Spec

(***************************************************************************)
(* DriftExplained for any number of processes, migrators and releases      *)
(* installed: the unlocked check at startup rules out any other drift.     *)
(***************************************************************************)
THEOREM DriftSafety == Spec => []DriftExplained
  <1>1. DriftInv => DriftExplained
    BY DEF DriftInv, DriftExplained, Past, Built
  <1> QED BY <1>1, DriftInvariant, PTL

(* What a process has cached are the settings of a configuration that      *)
(* validated and that an application could be built with; what its         *)
(* application has is what it has cached.                                  *)
Sound(s) == \E c \in Config : s = Settings(c) /\ Validates(c) /\ create_app(s)

SettingsInv ==
    /\ configured \in Config
    /\ phase \in [Process -> Phase]
    /\ cached \in [Process -> {s \in {Settings(c) : c \in Config} : Sound(s)}
                                \cup {NoConfig}]
    /\ DOMAIN settings = Process
    /\ \A p \in Process :
         /\ phase[p] \in Past => Sound(cached[p])
         /\ phase[p] \in Built => settings[p] = cached[p]

LEMMA SettingsInvariant == Spec => []SettingsInv
  <1>1. InitDeployment => SettingsInv
    BY DEF InitDeployment, SettingsInv, Phase, Past, Built
  <1>2. SettingsInv /\ [Next]_vars => SettingsInv'
    <2> SUFFICES ASSUME SettingsInv, [Next]_vars PROVE SettingsInv'
      OBVIOUS
    <2>1. CASE UNCHANGED vars
      BY <2>1 DEF SettingsInv, vars, processVars
    <2>2. CASE \E c \in Config : Configure(c)
      BY <2>2 DEF SettingsInv, Configure, processVars
    <2>3. CASE \E head \in Revision \ {0} : Install(head)
      BY <2>3 DEF SettingsInv, Install
    <2>4. CASE \E m \in Migrator : Migrate(m)
      BY <2>4 DEF SettingsInv, Migrate
    <2>5. ASSUME NEW p \in Process, ProcessStep(p)
          PROVE  SettingsInv'
      <3>1. CASE Import(p)
        <4>1. CASE Validates(configured) /\ create_app(Settings(configured))
          <5>1. Sound(Settings(configured))
            BY <4>1 DEF SettingsInv, Sound
          <5>2. /\ phase' = [phase EXCEPT ![p] = "imported"]
                /\ cached' = [cached EXCEPT ![p] = Settings(configured)]
                /\ UNCHANGED <<configured, settings>>
            BY <3>1, <4>1 DEF Import
          <5> QED BY <5>1, <5>2 DEF SettingsInv, Phase, Past, Built
        <4>2. CASE ~(Validates(configured) /\ create_app(Settings(configured)))
          <5>1. /\ phase' = [phase EXCEPT ![p] = "refused"]
                /\ UNCHANGED <<configured, cached, settings>>
            BY <3>1, <4>2 DEF Import
          <5> QED BY <5>1 DEF SettingsInv, Phase, Past, Built
        <4> QED BY <4>1, <4>2
      <3>2. CASE Factory(p)
        BY <3>2 DEF SettingsInv, Factory, Past, Built, Phase
      <3>3. CASE get_database_revision(p)
        BY <3>3 DEF SettingsInv, get_database_revision, Past, Built, Phase
      <3>4. CASE get_database_revision_fails(p)
        BY <3>4 DEF SettingsInv, get_database_revision_fails, Past, Built, Phase
      <3>5. CASE check_migrations_up_to_date(p)
        BY <3>5 DEF SettingsInv, check_migrations_up_to_date, Past, Built, Phase
      <3>6. CASE Exit(p)
        BY <3>6 DEF SettingsInv, Exit, Past, Built, Phase
      <3> QED BY <2>5, <3>1, <3>2, <3>3, <3>4, <3>5, <3>6 DEF ProcessStep
    <2> QED BY <2>1, <2>2, <2>3, <2>4, <2>5 DEF Next
  <1> QED BY <1>1, <1>2, PTL DEF Spec

(***************************************************************************)
(* UsableSettings for every set of configurations, however often the       *)
(* present one changes: the cache is read once, and the checks that run    *)
(* after the expansion cover all that was expanded.                        *)
(***************************************************************************)
THEOREM SettingsSafety == Spec => []UsableSettings
  <1>1. ASSUME NEW c \in Config, Validates(c), create_app(Settings(c))
        PROVE  /\ Settings(c).app_prefix.text \in Rooted
               /\ Settings(c).debug \/ Settings(c).log_level.text \in LOG_LEVEL_MAP
               /\ Settings(c).numbers.max_request_body_mb
                     > Cardinality(JSON_FIELD_NAMES)
                       * Settings(c).numbers.max_json_field_mb
    <2> DEFINE s == Settings(c)
    <2>1. _check_app_prefix(s) /\ _check_body_size(s) /\ get_structlog_config(s)
      BY <1>1, Zenon DEF Validates, create_app, Settings
    <2> HIDE DEF s
    <2>2. /\ s.app_prefix.text \in Rooted
          /\ s.debug \/ s.log_level.text \in LOG_LEVEL_MAP
          /\ s.numbers.max_request_body_mb
                > Cardinality(JSON_FIELD_NAMES) * s.numbers.max_json_field_mb
      BY <2>1, Zenon DEF _check_app_prefix, _check_body_size, get_structlog_config
    <2> QED BY <2>2 DEF s
  <1>2. SettingsInv => UsableSettings
    <2> SUFFICES ASSUME SettingsInv, NEW p \in Process, phase[p] \in Built
                 PROVE  UsableSettings!(p)
      BY DEF UsableSettings
    <2>1. PICK c \in Config : /\ settings[p] = Settings(c) /\ Validates(c)
                              /\ create_app(Settings(c))
      BY DEF SettingsInv, Sound, Past
    <2>2. settings[p] = cached[p]
      BY DEF SettingsInv
    <2> QED BY <1>1, <2>1, <2>2
  <1> QED BY <1>2, SettingsInvariant, PTL

(***************************************************************************)
(* TypeOK for every value of the constants.                                *)
(***************************************************************************)
THEOREM DeploymentTypes == Spec => []TypeOK
  <1>1. SchemaInv /\ DriftInv /\ SettingsInv => TypeOK
    BY DEF SchemaInv, DriftInv, SettingsInv, TypeOK, Consistent, Transaction
  <1> QED BY <1>1, SchemaInvariant, DriftInvariant, SettingsInvariant, PTL
=============================================================================
