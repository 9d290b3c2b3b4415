--------------------------- MODULE FactStoreProofs ---------------------------
(***************************************************************************)
(* Proofs about FactStore, for every set of clients, ids and job           *)
(* instances, every policy value and every batch size.                     *)
(*                                                                         *)
(* A row is Doomed once it is outside the retention window or has          *)
(* max_entries newer rows of its client among all rows ever stored.  Rows  *)
(* stay Doomed (the clock and stored only grow), so a batch selected in an *)
(* older state still holds Doomed rows only when it is deleted.            *)
(***************************************************************************)
EXTENDS FactStore, FiniteSetTheorems, WellFoundedInduction, TLAPS

Doomed(r) ==
    \/ r.updatedAt < clock - RetentionDays
    \/ Cardinality(NewerRows(r, stored)) >= MaxEntries

(* The tables: finitely many rows, and the live ones are among the stored. *)
TableInv ==
    /\ IsFiniteSet(stored)
    /\ facts \subseteq stored

(* What was deleted, and what is about to be, is Doomed.                   *)
DoomInv ==
    /\ \A r \in stored \ facts : Doomed(r)
    /\ \A j \in Job : keys[j] \subseteq stored /\ \A r \in keys[j] : Doomed(r)

(* A cutoff was computed in the past.                                      *)
CutoffInv ==
    \A j \in RetentionJob : phase[j] # "idle" => cutoff[j] <= clock - RetentionDays

(* A row in flight is new, and dated by a clock that has been read.        *)
PendingInv == \A r \in pending : r \notin stored /\ r.updatedAt <= clock

StoreInv == TypeOK /\ TableInv /\ DoomInv /\ CutoffInv /\ PendingInv

-----------------------------------------------------------------------------
(* The constants are natural numbers.                                      *)
LEMMA ConstantTypes ==
    /\ RetentionDays \in Nat /\ MaxEntries \in Nat \ {0}
    /\ \A x \in Id : x \in Nat
BY PolicyAssumption, StoreAssumption

-----------------------------------------------------------------------------
(* Type correctness                                                        *)

(* The empty table is well-typed.                                          *)
LEMMA StoreTypeInit == Init => TypeOK
BY ConstantTypes DEF Init, TypeOK

(* Every step keeps the types, and a fresh UUID keeps the ids unique.      *)
LEMMA StoreTypeStep == TypeOK /\ [Next]_vars => TypeOK'
<1> SUFFICES ASSUME TypeOK, [Next]_vars PROVE TypeOK'
    OBVIOUS
<1> USE ConstantTypes DEF TypeOK
<1>1. ASSUME NEW c \in Client, Submit(c) PROVE TypeOK'
  <2>1. PICK i \in Id \ {r.id : r \in stored \cup pending} :
           pending' = pending \cup {[id |-> i, client |-> c, updatedAt |-> clock]}
      BY <1>1 DEF Submit
  <2> DEFINE new == [id |-> i, client |-> c, updatedAt |-> clock]
  <2>2. new \in Row /\ new.id = i
      BY DEF Row
  <2>3. \A r \in stored \cup pending : r.id # i
      BY <2>1
  <2>4. stored' = stored /\ pending' = pending \cup {new}
      BY <1>1, <2>1 DEF Submit
  <2> HIDE DEF new
  <2>5. \A r, s \in (stored \cup pending)' : r.id = s.id => r = s
      BY <2>2, <2>3, <2>4
  <2>. QED BY <1>1, <2>2, <2>4, <2>5 DEF Submit
<1>2. ASSUME NEW r \in pending, CommitInsert(r) PROVE TypeOK'
  <2>1. (stored \cup pending)' \subseteq stored \cup pending
      BY <1>2 DEF CommitInsert
  <2>. QED BY <1>2, <2>1 DEF CommitInsert
<1>3. ASSUME NEW r \in pending, AbortInsert(r) PROVE TypeOK'
  <2>1. (stored \cup pending)' \subseteq stored \cup pending
      BY <1>3 DEF AbortInsert
  <2>. QED BY <1>3, <2>1 DEF AbortInsert
<1>4. ASSUME NEW j \in Job, StartJob(j) PROVE TypeOK'
    BY <1>4 DEF StartJob
<1>5. ASSUME NEW j \in Job, SelectBatch(j) PROVE TypeOK'
  <2>1. PICK K \in SUBSET Eligible(j) :
           /\ keys' = [keys EXCEPT ![j] = K]
           /\ phase' = [phase EXCEPT ![j] = IF K = {} THEN "idle" ELSE "delete"]
           /\ cutoff' = [cutoff EXCEPT ![j] = IF K = {} THEN 0 ELSE @]
      BY <1>5 DEF SelectBatch
  <2>2. K \in SUBSET Row
      BY DEF Eligible, ExpiredKeys, ExcessHistoryKeys
  <2>. QED BY <1>5, <2>1, <2>2 DEF SelectBatch
<1>6. ASSUME NEW j \in Job, DeleteBatch(j) PROVE TypeOK'
    BY <1>6 DEF DeleteBatch
<1>7. ASSUME NEW j \in Job, JobFails(j) PROVE TypeOK'
    BY <1>7 DEF JobFails
<1>8. CASE Tick
    BY <1>8 DEF Tick
<1>9. CASE UNCHANGED vars
    BY <1>9 DEF vars
<1>. QED BY <1>1, <1>2, <1>3, <1>4, <1>5, <1>6, <1>7, <1>8, <1>9 DEF Next

-----------------------------------------------------------------------------
(* Doomed rows stay doomed                                                 *)

(* A row's rank does not fall when rows are added.                         *)
LEMMA NewerRowsMonotone ==
    ASSUME NEW S, IsFiniteSet(S), NEW T \in SUBSET S, NEW r
    PROVE  /\ Cardinality(NewerRows(r, T)) \in Nat
           /\ Cardinality(NewerRows(r, T)) <= Cardinality(NewerRows(r, S))
           /\ Cardinality(NewerRows(r, S)) \in Nat
<1>1. NewerRows(r, S) \in SUBSET S /\ NewerRows(r, T) \in SUBSET NewerRows(r, S)
    BY DEF NewerRows, Outranks
<1>2. IsFiniteSet(NewerRows(r, S))
    BY <1>1, FS_Subset
<1>3. IsFiniteSet(NewerRows(r, T))
    BY <1>1, <1>2, FS_Subset
<1>. QED BY <1>1, <1>2, <1>3, FS_Subset, FS_CardinalityType

(* The set of rows ever stored only grows, one row at a time.              *)
LEMMA StoredGrows ==
    ASSUME TableInv, [Next]_vars
    PROVE  stored \subseteq stored' /\ IsFiniteSet(stored')
<1>1. ASSUME NEW r \in pending, CommitInsert(r)
      PROVE  stored \subseteq stored' /\ IsFiniteSet(stored')
    BY <1>1, FS_AddElement DEF CommitInsert, TableInv
<1>2. ASSUME stored' = stored
      PROVE  stored \subseteq stored' /\ IsFiniteSet(stored')
    BY <1>2 DEF TableInv
<1>. QED BY <1>1, <1>2
         DEF Next, Submit, AbortInsert, StartJob, SelectBatch, DeleteBatch,
             JobFails, Tick, vars

(* The clock does not go back.                                             *)
LEMMA ClockAdvances ==
    ASSUME TypeOK, [Next]_vars
    PROVE  clock' \in Nat /\ clock' >= clock
BY DEF TypeOK, Next, Submit, CommitInsert, AbortInsert, StartJob, SelectBatch,
       DeleteBatch, JobFails, Tick, vars

(* A row that may be deleted may be deleted at any later time.             *)
LEMMA DoomedForever ==
    ASSUME TypeOK, TableInv, [Next]_vars, NEW r \in stored, Doomed(r)
    PROVE  Doomed(r)'
<1>1. stored \in SUBSET stored' /\ IsFiniteSet(stored')
    BY StoredGrows
<1>2. /\ Cardinality(NewerRows(r, stored)) \in Nat
      /\ Cardinality(NewerRows(r, stored')) \in Nat
      /\ Cardinality(NewerRows(r, stored)) <= Cardinality(NewerRows(r, stored'))
    BY <1>1, NewerRowsMonotone
<1>3. clock \in Nat /\ clock' \in Nat /\ clock' >= clock /\ r.updatedAt \in Nat
    BY ClockAdvances DEF TypeOK, Row
<1>4. CASE r.updatedAt < clock - RetentionDays
    BY <1>3, <1>4, ConstantTypes DEF Doomed
<1>5. CASE Cardinality(NewerRows(r, stored)) >= MaxEntries
    BY <1>2, <1>5, ConstantTypes DEF Doomed
<1>. QED BY <1>4, <1>5 DEF Doomed

(* What a clean-up may select is doomed: a live row's rank among the live  *)
(* rows is at most its rank among all stored rows.                         *)
LEMMA EligibleDoomed ==
    ASSUME StoreInv, NEW j \in Job, phase[j] # "idle", NEW r \in Eligible(j)
    PROVE  r \in stored /\ Doomed(r)
<1>1. r \in facts /\ r \in stored
    BY DEF StoreInv, TableInv, Eligible, ExpiredKeys, ExcessHistoryKeys
<1>2. CASE j \in RetentionJob
  <2>1. r.updatedAt < cutoff[j] /\ cutoff[j] <= clock - RetentionDays
      BY <1>2 DEF StoreInv, CutoffInv, Eligible, ExpiredKeys
  <2>2. r.updatedAt \in Nat /\ cutoff[j] \in Int /\ clock \in Nat
      BY <1>1 DEF StoreInv, TypeOK, Row
  <2>. QED BY <1>1, <2>1, <2>2, ConstantTypes DEF Doomed
<1>3. CASE j \notin RetentionJob
  <2>1. Cardinality(NewerRows(r, facts)) >= MaxEntries
      BY <1>3 DEF Eligible, ExcessHistoryKeys
  <2>2. /\ Cardinality(NewerRows(r, facts)) \in Nat
        /\ Cardinality(NewerRows(r, stored)) \in Nat
        /\ Cardinality(NewerRows(r, facts)) <= Cardinality(NewerRows(r, stored))
      BY NewerRowsMonotone DEF StoreInv, TableInv
  <2>. QED BY <1>1, <2>1, <2>2, ConstantTypes DEF Doomed
<1>. QED BY <1>2, <1>3

-----------------------------------------------------------------------------
(* Every step leaves the live rows among the rows ever stored.             *)
LEMMA TableStep == StoreInv /\ [Next]_vars => TableInv'
<1> SUFFICES ASSUME StoreInv, [Next]_vars PROVE TableInv'
    OBVIOUS
<1>1. stored \subseteq stored' /\ IsFiniteSet(stored')
    BY StoredGrows DEF StoreInv
<1>2. facts' \subseteq stored'
    BY <1>1
    DEF StoreInv, TableInv, Next, Submit, CommitInsert, AbortInsert, StartJob,
        SelectBatch, DeleteBatch, JobFails, Tick, vars
<1>. QED BY <1>1, <1>2 DEF TableInv

(* The clock has moved on, if at all, since a cutoff was computed.         *)
LEMMA CutoffStep == StoreInv /\ [Next]_vars => CutoffInv'
<1> SUFFICES ASSUME StoreInv, [Next]_vars, NEW j \in RetentionJob, phase'[j] # "idle"
             PROVE  cutoff'[j] <= clock' - RetentionDays
    BY DEF CutoffInv
<1>1. clock \in Nat /\ clock' \in Nat /\ clock' >= clock /\ j \in Job
    BY ClockAdvances DEF StoreInv, TypeOK, Job
<1>2. CASE phase[j] # "idle" /\ cutoff'[j] = cutoff[j]
  <2>1. cutoff[j] <= clock - RetentionDays /\ cutoff[j] \in Int
      BY <1>1, <1>2 DEF StoreInv, CutoffInv, TypeOK
  <2>. QED BY <1>1, <1>2, <2>1, ConstantTypes
<1>3. CASE StartJob(j)
    BY <1>1, <1>3, ConstantTypes DEF StartJob, StoreInv, TypeOK
<1>4. StartJob(j) \/ (phase[j] # "idle" /\ cutoff'[j] = cutoff[j])
  <2> USE DEF StoreInv, TypeOK
  <2>1. ASSUME NEW k \in Job, StartJob(k) PROVE <1>4!1 \/ <1>4!2
      BY <1>1, <2>1 DEF StartJob
  <2>2. ASSUME NEW k \in Job, SelectBatch(k) PROVE <1>4!1 \/ <1>4!2
      BY <1>1, <2>2 DEF SelectBatch
  <2>3. ASSUME NEW k \in Job, DeleteBatch(k) PROVE <1>4!1 \/ <1>4!2
      BY <1>1, <2>3 DEF DeleteBatch
  <2>4. ASSUME NEW k \in Job, JobFails(k) PROVE <1>4!1 \/ <1>4!2
      BY <1>1, <2>4 DEF JobFails
  <2>. QED BY <2>1, <2>2, <2>3, <2>4
           DEF Next, Submit, CommitInsert, AbortInsert, Tick, vars
<1>. QED BY <1>2, <1>3, <1>4

(* Every step deletes and selects doomed rows only.                        *)
LEMMA DoomStep == StoreInv /\ [Next]_vars => DoomInv'
<1> SUFFICES ASSUME StoreInv, [Next]_vars PROVE DoomInv'
    OBVIOUS
<1>1. stored \subseteq stored'
    BY StoredGrows DEF StoreInv
<1>2. \A r \in stored : Doomed(r) => Doomed(r)'
    BY DoomedForever DEF StoreInv
<1>3. ASSUME NEW r \in stored' \ facts' PROVE Doomed(r)'
  <2>1. r \in stored /\ Doomed(r)
    <3> USE DEF StoreInv, DoomInv
    <3>1. ASSUME NEW k \in Job, DeleteBatch(k) PROVE r \in stored /\ Doomed(r)
        BY <1>3, <3>1 DEF DeleteBatch
    <3>2. ASSUME NEW p \in pending, CommitInsert(p) PROVE r \in stored /\ Doomed(r)
        BY <1>3, <3>2 DEF CommitInsert
    <3>3. CASE facts' = facts /\ stored' = stored
        BY <1>3, <3>3
    <3>. QED BY <3>1, <3>2, <3>3
             DEF Next, Submit, AbortInsert, StartJob, SelectBatch, JobFails,
                 Tick, vars
  <2>. QED BY <1>2, <2>1
<1>4. ASSUME NEW j \in Job, NEW r \in keys'[j] PROVE r \in stored' /\ Doomed(r)'
  <2>1. CASE r \in keys[j]
      BY <1>1, <1>2, <2>1 DEF StoreInv, DoomInv
  <2>2. CASE SelectBatch(j) /\ r \in Eligible(j)
      BY <1>1, <1>2, <2>2, EligibleDoomed DEF SelectBatch
  <2>3. r \in keys[j] \/ (SelectBatch(j) /\ r \in Eligible(j))
    <3> USE DEF StoreInv, TypeOK
    <3>1. ASSUME NEW k \in Job, SelectBatch(k) PROVE <2>3
        BY <1>4, <3>1 DEF SelectBatch
    <3>2. ASSUME NEW k \in Job, DeleteBatch(k) PROVE <2>3
        BY <1>4, <3>2 DEF DeleteBatch
    <3>3. ASSUME NEW k \in Job, JobFails(k) PROVE <2>3
        BY <1>4, <3>3 DEF JobFails
    <3>. QED BY <1>4, <3>1, <3>2, <3>3
             DEF Next, Submit, CommitInsert, AbortInsert, StartJob, Tick, vars
  <2>. QED BY <2>1, <2>2, <2>3
<1>. QED BY <1>3, <1>4 DEF DoomInv

(* A fresh UUID makes a row in flight differ from every stored one, and    *)
(* only one commit can store it.                                           *)
LEMMA PendingStep == StoreInv /\ [Next]_vars => PendingInv'
<1> SUFFICES ASSUME StoreInv, [Next]_vars, NEW r \in pending'
             PROVE  r \notin stored' /\ r.updatedAt <= clock'
    BY DEF PendingInv
<1>1. /\ TypeOK /\ PendingInv
      /\ clock \in Nat /\ clock' \in Nat /\ clock' >= clock
    BY ClockAdvances DEF StoreInv, TypeOK
<1>2. CASE r \in pending
  <2>1. r.updatedAt \in Nat /\ r.updatedAt <= clock /\ r \notin stored
      BY <1>1, <1>2 DEF TypeOK, PendingInv, Row
  <2>2. r \notin stored'
      BY <2>1, <1>2
      DEF Next, Submit, CommitInsert, AbortInsert, StartJob, SelectBatch,
          DeleteBatch, JobFails, Tick, vars
  <2>. QED BY <1>1, <2>1, <2>2
<1>3. CASE r \notin pending
  <2>1. PICK c \in Client : Submit(c)
      BY <1>3
      DEF Next, CommitInsert, AbortInsert, StartJob, SelectBatch, DeleteBatch,
          JobFails, Tick, vars
  <2>2. PICK i \in Id \ {s.id : s \in stored \cup pending} :
           pending' = pending
                        \cup {[id |-> i, client |-> c, updatedAt |-> clock]}
      BY <2>1 DEF Submit
  <2>3. r.id = i /\ r.updatedAt = clock
      BY <1>3, <2>2
  <2>4. stored' = stored /\ clock' = clock /\ r \notin stored
      BY <2>1, <2>2, <2>3 DEF Submit
  <2>. QED BY <1>1, <2>3, <2>4
<1>. QED BY <1>2, <1>3

(* The inductive invariant holds of the empty table.                       *)
LEMMA StoreInvInit == Init => StoreInv
<1> SUFFICES ASSUME Init PROVE StoreInv
    OBVIOUS
<1>. QED BY StoreTypeInit, FS_EmptySet
         DEF Init, StoreInv, TableInv, DoomInv, CutoffInv, PendingInv, Job

(* The inductive invariant is kept by every step.                          *)
LEMMA StoreInvStep == StoreInv /\ [Next]_vars => StoreInv'
BY StoreTypeStep, TableStep, DoomStep, CutoffStep, PendingStep DEF StoreInv

(* The inductive invariant holds in every reachable state.                 *)
THEOREM StoreInvariance == Spec => []StoreInv
BY StoreInvInit, StoreInvStep, PTL DEF Spec

(***************************************************************************)
(* TypeOK for every policy value and every number of clients and jobs.     *)
(***************************************************************************)
THEOREM StoreTypes == Spec => []TypeOK
<1>1. StoreInv => TypeOK
    BY DEF StoreInv
<1>. QED BY <1>1, StoreInvariance, PTL

(***************************************************************************)
(* No clean-up deletes a row inside the retention window that is among its *)
(* client's newest max_entries rows, however inserts and any number of     *)
(* clean-ups interleave (_delete_in_batches).                              *)
(***************************************************************************)
THEOREM NewestKeptSafety == Spec => []NewestKept
<1>1. StoreInv => NewestKept
  <2> SUFFICES ASSUME StoreInv, NEW r \in stored,
                      r.updatedAt >= clock - RetentionDays,
                      Cardinality(NewerRows(r, stored)) < MaxEntries,
                      r \notin facts
               PROVE  FALSE
      BY DEF NewestKept
  <2>1. Doomed(r)
      BY DEF StoreInv, DoomInv
  <2>2. r.updatedAt \in Nat /\ clock \in Nat
      BY DEF StoreInv, TypeOK, Row
  <2>3. Cardinality(NewerRows(r, stored)) \in Nat
      BY NewerRowsMonotone DEF StoreInv, TableInv
  <2>. QED BY <2>1, <2>2, <2>3, ConstantTypes DEF Doomed
<1>. QED BY <1>1, StoreInvariance, PTL
-----------------------------------------------------------------------------
(* The history query finds what exceeds the limit                          *)

(* A set of natural numbers that is not empty has a least element.         *)
LEMMA NatMinimum ==
    ASSUME NEW T \in SUBSET Nat, T # {}
    PROVE  \E m \in T : \A n \in T : m <= n
<1> DEFINE Less == OpToRel(<, Nat)
<1>1. IsWellFoundedOn(Less, Nat)
    BY NatLessThanWellFounded
<1>2. \A x, y \in Nat : x < y => <<x, y>> \in Less
    BY DEF OpToRel
<1> HIDE DEF Less
<1>3. PICK m \in T : \A n \in T : ~ (<<n, m>> \in Less)
    BY <1>1, WFMin
<1>4. \A n \in T : m <= n
  <2> SUFFICES ASSUME NEW n \in T, ~ (m <= n) PROVE FALSE
      OBVIOUS
  <2>1. m \in Nat /\ n \in Nat
      OBVIOUS
  <2>2. n < m
      BY <2>1
  <2>. QED BY <1>2, <1>3, <2>1, <2>2
<1>. QED BY <1>4

(* Of a client's rows, one is ranked last: every other row is ranked       *)
(* before it, because no two rows share an id.                             *)
LEMMA LastRanked ==
    ASSUME NEW S \in SUBSET Row, S # {}, NEW c,
           \A r \in S : r.client = c,
           \A r, s \in S : r.id = s.id => r = s
    PROVE  \E r \in S : NewerRows(r, S) = S \ {r}
<1>1. \A r \in S : r.id \in Nat /\ r.updatedAt \in Nat
    BY ConstantTypes DEF Row
<1>2. PICK u \in {r.updatedAt : r \in S} : \A t \in {r.updatedAt : r \in S} : u <= t
  <2>1. {r.updatedAt : r \in S} \in SUBSET Nat /\ {r.updatedAt : r \in S} # {}
      BY <1>1
  <2>. QED BY <2>1, NatMinimum
<1> DEFINE Oldest == {r \in S : r.updatedAt = u}
<1>3. PICK i \in {r.id : r \in Oldest} : \A k \in {r.id : r \in Oldest} : i <= k
  <2>1. {r.id : r \in Oldest} \in SUBSET Nat /\ {r.id : r \in Oldest} # {}
      BY <1>1, <1>2
  <2>. QED BY <2>1, NatMinimum
<1>4. PICK r \in S : r.updatedAt = u /\ r.id = i
    BY <1>3
<1>5. \A s \in S : s # r => s.updatedAt > u \/ (s.updatedAt = u /\ s.id > i)
  <2> SUFFICES ASSUME NEW s \in S, s # r
               PROVE  s.updatedAt > u \/ (s.updatedAt = u /\ s.id > i)
      OBVIOUS
  <2>1. u <= s.updatedAt /\ u \in Nat /\ s.updatedAt \in Nat
      BY <1>1, <1>2
  <2>2. s.id # i /\ s.id \in Nat /\ i \in Nat
      BY <1>1, <1>4
  <2>3. s.updatedAt = u => i <= s.id
      BY <1>3
  <2>. QED BY <2>1, <2>2, <2>3
<1>6. r \notin NewerRows(r, S)
    BY <1>1, <1>4 DEF NewerRows, Outranks
<1>7. NewerRows(r, S) = S \ {r}
    BY <1>4, <1>5, <1>6 DEF NewerRows, Outranks
<1>. QED BY <1>7

(* If no row is ranked beyond the limit, no client exceeds it.             *)
LEMMA ExcessFound ==
    ASSUME NEW S \in SUBSET Row, IsFiniteSet(S), NEW c \in Client,
           \A r, s \in S : r.id = s.id => r = s,
           ExcessHistoryKeys(S) = {}
    PROVE  Cardinality({r \in S : r.client = c}) <= MaxEntries
<1> DEFINE C == {r \in S : r.client = c}
<1>1. C \in SUBSET Row /\ C \in SUBSET S /\ IsFiniteSet(C)
    BY FS_Subset
<1>2. Cardinality(C) \in Nat
    BY <1>1, FS_CardinalityType
<1> SUFFICES ASSUME ~ (Cardinality(C) <= MaxEntries) PROVE FALSE
    OBVIOUS
<1>3. c \in OverLimit(S)
    BY <1>2, ConstantTypes DEF OverLimit
<1>4. C # {}
  <2> SUFFICES ASSUME C = {} PROVE FALSE
      OBVIOUS
  <2>1. Cardinality(C) = 0
      BY FS_EmptySet
  <2> HIDE DEF C
  <2>. QED BY <2>1, ConstantTypes
<1>5. PICK r \in C : NewerRows(r, C) = C \ {r}
    BY <1>1, <1>4, LastRanked
<1>6. NewerRows(r, S) = C \ {r}
    BY <1>5 DEF NewerRows, Outranks
<1>7. Cardinality(NewerRows(r, S)) = Cardinality(C) - 1
    BY <1>1, <1>6, FS_RemoveElement
<1>8. Cardinality(NewerRows(r, S)) >= MaxEntries
    BY <1>2, <1>7, ConstantTypes
<1>9. r \in ExcessHistoryKeys(S)
    BY <1>3, <1>8 DEF ExcessHistoryKeys
<1>. QED BY <1>9

(* An empty batch means that nothing is eligible.                          *)
LEMMA EmptyBatch ==
    ASSUME NEW S, IsBatch({}, S)
    PROVE  S = {}
BY FS_EmptySet, StoreAssumption DEF IsBatch

(* A select that ends a job has found nothing left to delete.              *)
LEMMA CleanupStep ==
    ASSUME StoreInv, NEW j \in Job, SelectBatch(j), phase'[j] = "idle"
    PROVE  DutyDone(j)
<1>1. Eligible(j) = {}
  <2>1. PICK K \in SUBSET Eligible(j) :
           /\ IsBatch(K, Eligible(j))
           /\ phase' = [phase EXCEPT ![j] = IF K = {} THEN "idle" ELSE "delete"]
      BY DEF SelectBatch
  <2>2. K = {}
      BY <2>1 DEF StoreInv, TypeOK
  <2>. QED BY <2>1, <2>2, EmptyBatch
<1>2. /\ facts \in SUBSET Row
      /\ IsFiniteSet(facts)
      /\ \A r, s \in facts : r.id = s.id => r = s
      /\ cutoff[j] \in Int
    BY FS_Subset DEF StoreInv, TypeOK, TableInv
<1>3. CASE j \in RetentionJob
  <2>1. \A r \in facts : ~ (r.updatedAt < cutoff[j]) /\ r.updatedAt \in Nat
      BY <1>1, <1>2, <1>3 DEF Eligible, ExpiredKeys, Row
  <2>. QED BY <1>2, <1>3, <2>1 DEF DutyDone
<1>4. CASE j \notin RetentionJob
  <2>1. ExcessHistoryKeys(facts) = {}
      BY <1>1, <1>4 DEF Eligible
  <2>. QED BY <1>2, <1>4, <2>1, ExcessFound DEF DutyDone
<1>. QED BY <1>3, <1>4

(***************************************************************************)
(* A clean-up that ends by itself leaves no client over the limit, or no   *)
(* row older than its cutoff (_excess_history_keys_query,                  *)
(* _expired_keys_query and the loop of _delete_in_batches).                *)
(***************************************************************************)
THEOREM CleanupCompleteness == Spec => CleanupComplete
<1>1. StoreInv /\ [Next]_vars
        => [\A j \in Job : SelectBatch(j) /\ phase'[j] = "idle" => DutyDone(j)]_vars
    BY CleanupStep
<1>. QED BY <1>1, StoreInvariance, PTL DEF Spec, CleanupComplete

-----------------------------------------------------------------------------
(* FactStore implements FactRetention                                      *)

(* A commit records the row.                                               *)
LEMMA CommitRecords ==
    ASSUME StoreInv, NEW r \in pending, CommitInsert(r)
    PROVE  Retention!Next
<1>1. r \notin stored /\ r.updatedAt <= clock
    BY DEF StoreInv, PendingInv
<1>2. Retention!Record(r)
    BY <1>1 DEF CommitInsert, Retention!Record
<1>3. r \in stored'
    BY DEF CommitInsert
<1>. QED BY <1>2, <1>3 DEF Retention!Next

(* A committed batch forgets rows the policies give up: each was Doomed    *)
(* when it was selected and still is.                                      *)
LEMMA BatchForgets ==
    ASSUME StoreInv, NEW j \in Job, DeleteBatch(j)
    PROVE  Retention!Next
<1>1. \A r \in facts \ facts' : Doomed(r)
    BY DEF StoreInv, DoomInv, DeleteBatch
<1>2. \A S : Retention!Cardinality(S) = Cardinality(S)
    BY DEF Retention!Cardinality, Cardinality
<1>3. \A r \in facts \ facts' : Retention!Expired(r) \/ Retention!Superseded(r)
    BY <1>1, <1>2
    DEF Doomed, NewerRows, Retention!Expired, Retention!Superseded
<1>4. Retention!Forget
    BY <1>3 DEF DeleteBatch, Retention!Forget
<1>. QED BY <1>4 DEF Retention!Next

(* Every step of FactStore is a step of FactRetention or leaves it alone.  *)
LEMMA RetentionStep ==
    ASSUME StoreInv, [Next]_vars
    PROVE  [Retention!Next]_Retention!retentionVars
<1>1. ASSUME NEW r \in pending, CommitInsert(r)
      PROVE  [Retention!Next]_Retention!retentionVars
    BY <1>1, CommitRecords
<1>2. ASSUME NEW j \in Job, DeleteBatch(j)
      PROVE  [Retention!Next]_Retention!retentionVars
    BY <1>2, BatchForgets
<1>3. CASE Tick
    BY <1>3 DEF Tick, Retention!Next, Retention!Tick
<1>4. ASSUME NEW c \in Client, Submit(c)
      PROVE  UNCHANGED Retention!retentionVars
    BY <1>4 DEF Submit, Retention!retentionVars
<1>5. ASSUME NEW r \in pending, AbortInsert(r)
      PROVE  UNCHANGED Retention!retentionVars
    BY <1>5 DEF AbortInsert, Retention!retentionVars
<1>6. ASSUME NEW j \in Job, StartJob(j) \/ SelectBatch(j) \/ JobFails(j)
      PROVE  UNCHANGED Retention!retentionVars
    BY <1>6 DEF StartJob, SelectBatch, JobFails, Retention!retentionVars
<1>7. CASE UNCHANGED vars
    BY <1>7 DEF vars, Retention!retentionVars
<1>. QED BY <1>1, <1>2, <1>3, <1>4, <1>5, <1>6, <1>7 DEF Next

(***************************************************************************)
(* The clean-ups keep the promise of FactRetention, for every policy, any  *)
(* number of clients and any number of job instances at once.              *)
(***************************************************************************)
THEOREM RetentionRefinement == Spec => ImplementsFactRetention
<1>1. Init => Retention!Init
    BY DEF Init, Retention!Init
<1>2. StoreInv /\ [Next]_vars => [Retention!Next]_Retention!retentionVars
    BY RetentionStep
<1>. QED BY <1>1, <1>2, StoreInvariance, PTL
         DEF Spec, ImplementsFactRetention, Retention!Spec

(***************************************************************************)
(* A deleted row never comes back: what FactRetention promises, carried    *)
(* over by the refinement.                                                 *)
(***************************************************************************)
THEOREM NoResurrection == Spec => Retention!ForgottenForGood
<1> DEFINE Gone == \A r \in stored \ facts : r \notin facts'
<1>1. [Retention!Next]_Retention!retentionVars => [Gone]_Retention!retentionVars
    BY DEF Retention!Next, Retention!Record, Retention!Forget, Retention!Tick
<1>. QED BY <1>1, RetentionRefinement, PTL
         DEF ImplementsFactRetention, Retention!Spec,
             Retention!ForgottenForGood
=============================================================================
