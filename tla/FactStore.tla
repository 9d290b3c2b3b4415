------------------------------ MODULE FactStore ------------------------------
(***************************************************************************)
(* The fact_inventory table under FactInventoryRepository: submissions     *)
(* that append rows and the two clean-up jobs that delete them in batches, *)
(* all in transactions of their own at READ COMMITTED.                     *)
(*                                                                         *)
(* A clean-up transaction selects the keys of a batch in one statement and *)
(* deletes them in another; inserts and other clean-ups commit in between. *)
(* More than one instance of a job may be active: ExclusiveJob shows how   *)
(* two workers can overlap.                                                *)
(***************************************************************************)
EXTENDS Integers, FiniteSets

CONSTANTS
    Client,         \* client addresses
    Id,             \* row ids, ordered as UUIDs are
    RetentionDays,  \* settings.retention_days; one tick of the clock is a day
    MaxEntries,     \* settings.history_max_entries
    BatchSize,      \* RETENTION_BATCH_SIZE
    RetentionJob,   \* instances of the retention clean-up
    HistoryJob,     \* instances of the history clean-up
    MaxClock        \* bound on the clock

(***************************************************************************)
(* TimeRetentionPolicy and HistoryRetentionPolicy raise ValueError for     *)
(* values outside their ranges, before anything is deleted.                *)
(***************************************************************************)
ASSUME PolicyAssumption ==
    /\ RetentionDays \in 1..3650
    /\ MaxEntries \in 1..1000

ASSUME StoreAssumption ==
    /\ Id \subseteq Nat
    /\ BatchSize \in Nat \ {0}
    /\ RetentionJob \cap HistoryJob = {}
    /\ MaxClock \in Nat

Job == RetentionJob \cup HistoryJob

VARIABLES
    clock,      \* datetime.now(UTC), in days
    facts,      \* the committed rows
    stored,     \* every row ever committed
    pending,    \* rows of insert transactions not yet committed
    phase,      \* idle; select, delete - that statement of a batch is next
    cutoff,     \* cutoff_datetime, read once per retention job
    keys        \* the selected batch

vars == <<clock, facts, stored, pending, phase, cutoff, keys>>

Row == [id : Id, client : Client, updatedAt : Nat]

Init ==
    /\ clock = 0
    /\ facts = {} /\ stored = {} /\ pending = {}
    /\ phase = [j \in Job |-> "idle"]
    /\ cutoff = [j \in Job |-> 0]
    /\ keys = [j \in Job |-> {}]

-----------------------------------------------------------------------------
(* Submissions                                                             *)

\* Mutant: the next id is chosen among the committed rows.
SubmitIdOfCommitted(c) ==
    /\ \E i \in Id \ {r.id : r \in stored} :
          pending' = pending \cup {[id |-> i, client |-> c, updatedAt |-> clock]}
    /\ UNCHANGED <<clock, facts, stored, phase, cutoff, keys>>

(* The INSERT is sent: updated_at is set by the application, not at commit; *)
(* the id is a fresh UUID.                                                 *)
Submit(c) ==
    /\ \E i \in Id \ {r.id : r \in stored \cup pending} :
          pending' = pending \cup {[id |-> i, client |-> c, updatedAt |-> clock]}
    /\ UNCHANGED <<clock, facts, stored, phase, cutoff, keys>>

CommitInsert(r) ==
    /\ pending' = pending \ {r}
    /\ facts' = facts \cup {r}
    /\ stored' = stored \cup {r}
    /\ UNCHANGED <<clock, phase, cutoff, keys>>

AbortInsert(r) ==
    /\ pending' = pending \ {r}
    /\ UNCHANGED <<clock, facts, stored, phase, cutoff, keys>>

-----------------------------------------------------------------------------
(* The batch queries                                                       *)

ExpiredKeys(S, limit) == {r \in S : r.updatedAt < limit}

(* Whether s is ranked before r: same client, by updated_at and id         *)
(* descending.                                                             *)
Outranks(s, r) ==
    /\ s.client = r.client
    /\ \/ s.updatedAt > r.updatedAt
       \/ s.updatedAt = r.updatedAt /\ s.id > r.id

NewerRows(r, S) == {s \in S : Outranks(s, r)}

OverLimit(S) ==
    {c \in Client : Cardinality({r \in S : r.client = c}) > MaxEntries}

\* Mutant: the ranking orders by updated_at and id ascending.
ExcessNewestFirst(S) ==
    {r \in S : /\ r.client \in OverLimit(S)
               /\ Cardinality({s \in S : /\ s.client = r.client
                                         /\ s # r
                                         /\ s \notin NewerRows(r, S)})
                    >= MaxEntries}

\* Mutant: off by one, rows of rank max_entries + 1 are kept.
ExcessBeyondNext(S) ==
    {r \in S : /\ r.client \in OverLimit(S)
               /\ Cardinality(NewerRows(r, S)) > MaxEntries}

(* Rows of row_number > max_entries, of the clients over the limit.        *)
ExcessHistoryKeys(S) ==
    {r \in S : /\ r.client \in OverLimit(S)
               /\ Cardinality(NewerRows(r, S)) >= MaxEntries}

Eligible(j) ==
    IF j \in RetentionJob THEN ExpiredKeys(facts, cutoff[j])
                          ELSE ExcessHistoryKeys(facts)

(* LIMIT without ORDER BY: any BatchSize of the rows, or all of them.      *)
IsBatch(K, S) ==
    /\ K \subseteq S
    /\ IF Cardinality(S) <= BatchSize THEN K = S ELSE Cardinality(K) = BatchSize

-----------------------------------------------------------------------------
(* The clean-up jobs                                                       *)

\* Mutant: the cutoff is now.
StartJobWithoutWindow(j) ==
    /\ phase[j] = "idle"
    /\ phase' = [phase EXCEPT ![j] = "select"]
    /\ cutoff' = [cutoff EXCEPT ![j] = IF j \in RetentionJob THEN clock ELSE 0]
    /\ UNCHANGED <<clock, facts, stored, pending, keys>>

StartJob(j) ==
    /\ phase[j] = "idle"
    /\ phase' = [phase EXCEPT ![j] = "select"]
    /\ cutoff' = [cutoff EXCEPT ![j] =
                    IF j \in RetentionJob THEN clock - RetentionDays ELSE 0]
    /\ UNCHANGED <<clock, facts, stored, pending, keys>>

(* An empty select ends the loop and the job.                              *)
SelectBatch(j) ==
    /\ phase[j] = "select"
    /\ \E K \in SUBSET Eligible(j) :
         /\ IsBatch(K, Eligible(j))
         /\ keys' = [keys EXCEPT ![j] = K]
         /\ phase' = [phase EXCEPT ![j] = IF K = {} THEN "idle" ELSE "delete"]
         /\ cutoff' = [cutoff EXCEPT ![j] = IF K = {} THEN 0 ELSE @]
    /\ UNCHANGED <<clock, facts, stored, pending>>

\* Mutant: the DELETE matches no row of the batch.
DeleteNothing(j) ==
    /\ phase[j] = "delete"
    /\ keys' = [keys EXCEPT ![j] = {}]
    /\ phase' = [phase EXCEPT ![j] = "select"]
    /\ UNCHANGED <<clock, facts, stored, pending, cutoff>>

(* Rows that are gone already are skipped; the batch is committed.         *)
DeleteBatch(j) ==
    /\ phase[j] = "delete"
    /\ facts' = facts \ keys[j]
    /\ keys' = [keys EXCEPT ![j] = {}]
    /\ phase' = [phase EXCEPT ![j] = "select"]
    /\ UNCHANGED <<clock, stored, pending, cutoff>>

(***************************************************************************)
(* A database error, a lost lease, a shutdown or a crash: the transaction  *)
(* in progress is rolled back, earlier batches stay deleted.               *)
(***************************************************************************)
JobFails(j) ==
    /\ phase[j] # "idle"
    /\ phase' = [phase EXCEPT ![j] = "idle"]
    /\ cutoff' = [cutoff EXCEPT ![j] = 0]
    /\ keys' = [keys EXCEPT ![j] = {}]
    /\ UNCHANGED <<clock, facts, stored, pending>>

Tick ==
    /\ clock < MaxClock
    /\ clock' = clock + 1
    /\ UNCHANGED <<facts, stored, pending, phase, cutoff, keys>>

Next ==
    \/ \E c \in Client : Submit(c)
    \/ \E r \in pending : CommitInsert(r) \/ AbortInsert(r)
    \/ \E j \in Job :
         StartJob(j) \/ SelectBatch(j) \/ DeleteBatch(j) \/ JobFails(j)
    \/ Tick

Spec == Init /\ [][Next]_vars

(***************************************************************************)
(* Fairness: run_forever starts every job again and again, and a job that  *)
(* runs gets on.  Strong fairness of its statements says that failures do  *)
(* not hit every one of them.                                              *)
(***************************************************************************)
FairSpec ==
    /\ Spec
    /\ \A j \in Job :
         /\ WF_vars(StartJob(j))
         /\ SF_vars(SelectBatch(j)) /\ SF_vars(DeleteBatch(j))

-----------------------------------------------------------------------------
(* The type invariant: rows are rows, and no two of them share an id.      *)
TypeOK ==
    /\ clock \in Nat
    /\ facts \subseteq Row /\ stored \subseteq Row /\ pending \subseteq Row
    /\ phase \in [Job -> {"idle", "select", "delete"}]
    /\ cutoff \in [Job -> Int]
    /\ keys \in [Job -> SUBSET Row]
    /\ \A r, s \in stored \cup pending : r.id = s.id => r = s

(***************************************************************************)
(* No clean-up, however it interleaves with inserts and with other clean-  *)
(* ups, deletes a row that is inside the retention window and among its    *)
(* client's newest max_entries: the keys a batch deletes were selected in  *)
(* an older state of the table.                                            *)
(***************************************************************************)
NewestKept ==
    \A r \in stored :
        /\ r.updatedAt >= clock - RetentionDays
        /\ Cardinality(NewerRows(r, stored)) < MaxEntries
        => r \in facts

(***************************************************************************)
(* FactStore implements FactRetention: beside NewestKept this says that a  *)
(* submission becomes readable in one step and dated no later than it was  *)
(* committed, that a clean-up deletes nothing but what the policies allow  *)
(* at that moment, and that no interleaving of inserts and batches brings  *)
(* a deleted row back.                                                     *)
(***************************************************************************)
Retention == INSTANCE FactRetention WITH
    Window   <- RetentionDays,
    Keep     <- MaxEntries,
    Outranks <- Outranks,
    today    <- clock,
    recorded <- stored,
    readable <- facts

ImplementsFactRetention == Retention!Spec

(* The duty of a job: no client over the limit, or no row older than the   *)
(* cutoff.                                                                 *)
DutyDone(j) ==
    IF j \in RetentionJob
    THEN \A r \in facts : r.updatedAt >= cutoff[j]
    ELSE \A c \in Client :
           Cardinality({r \in facts : r.client = c}) <= MaxEntries

(***************************************************************************)
(* A job that ends by itself (its select came back empty) has done its     *)
(* duty at that moment, whatever was inserted while it ran.                *)
(***************************************************************************)
CleanupComplete ==
    [][\A j \in Job : SelectBatch(j) /\ phase'[j] = "idle" => DutyDone(j)]_vars

(***************************************************************************)
(* The batch loop of a job ends once submissions do (the ids are finitely  *)
(* many): deleting what was selected gets the select closer to empty, also *)
(* when other clean-ups have deleted part of the batch.                    *)
(***************************************************************************)
JobEnds == \A j \in Job : phase[j] # "idle" ~> phase[j] = "idle"

(***************************************************************************)
(* Time and again no expired row is left, although jobs fail part way.     *)
(***************************************************************************)
ExpiredPurged ==
    []<>(\A r \in facts : r.updatedAt >= clock - RetentionDays)
=============================================================================
