--------------------- MODULE BackgroundJobPluginProofs ---------------------
(***************************************************************************)
(* The scheduled jobs are instances of ExclusiveJob, so its theorems hold  *)
(* of them; and the loop survives every failure of its job.                *)
(***************************************************************************)
EXTENDS BackgroundJobPlugin, ExclusiveJobProofs

(* Every step of the scheduler is a step of ExclusiveJob or leaves it alone. *)
LEMMA PluginStepIsJobStep == [PluginNext]_allVars => [Next]_vars
<1>1. ASSUME NEW w \in Worker, Startup(w) PROVE Next
  BY <1>1 DEF Startup, Next
<1>2. ASSUME NEW w \in Worker, RunJob(w) PROVE Next
  BY <1>2 DEF RunJob, Next
<1>3. ASSUME NEW w \in Worker, JobStep(w) PROVE Next
  BY <1>3 DEF JobStep, Next
<1>4. ASSUME NEW w \in Worker, TaskStep(w) PROVE Next
  BY <1>4 DEF TaskStep, Next
<1>5. ASSUME NEW w \in Worker, Shutdown(w) PROVE Next
  BY <1>5 DEF Shutdown, Next
<1>6. ASSUME NEW w \in Worker, Closed(w) PROVE UNCHANGED vars
  BY <1>6 DEF Closed
<1>7. ASSUME NEW w \in Worker, ProcessEnds(w) PROVE Next
  BY <1>7 DEF ProcessEnds, Next
<1>8. PluginTick => Next
  BY DEF PluginTick, Next
<1>9. UNCHANGED allVars => UNCHANGED vars
  BY DEF allVars
<1>10. QED
  BY <1>1, <1>2, <1>3, <1>4, <1>5, <1>6, <1>7, <1>8, <1>9 DEF PluginNext

(***************************************************************************)
(* Every behaviour of the scheduler is a behaviour of ExclusiveJob.        *)
(***************************************************************************)
THEOREM PluginRefinement == PluginSpec => ImplementsExclusiveJob
<1>1. PluginInit => Init
  BY DEF PluginInit
<1>2. QED
  BY <1>1, PluginStepIsJobStep, PTL DEF PluginSpec, Spec, ImplementsExclusiveJob

(***************************************************************************)
(* What holds of ExclusiveJob holds of the deployed jobs: if their work    *)
(* runs twice, one of the two is on its way out ...                        *)
(***************************************************************************)
THEOREM PluginExclusion == PluginSpec => []Exclusion
  BY PluginRefinement, ExclusionSafety, PTL DEF ImplementsExclusiveJob

(***************************************************************************)
(* ... no worker takes or deletes the row of another ...                   *)
(***************************************************************************)
THEOREM PluginFencing == PluginSpec => Fencing
  BY PluginRefinement, FencingSafety, PTL DEF ImplementsExclusiveJob

(***************************************************************************)
(* ... and the scheduler keeps the promise of JobLease, by two refinements *)
(* one after the other.                                                    *)
(***************************************************************************)
THEOREM PluginLease == PluginSpec => ImplementsJobLease
  BY PluginRefinement, LeaseRefinement, PTL DEF ImplementsExclusiveJob

(***************************************************************************)
(* Until it is shut down, an application's task has not been cancelled.    *)
(***************************************************************************)
TaskInv(w) ==
    /\ pc[w] = "down" => app[w] = "off"
    /\ app[w] \in {"off", "running"} =>
          ~cancelled[w] /\ outcome[w] # "cancelled" /\ pc[w] # "stopped"
    /\ app[w] = "off" => pc[w] = "down"

PluginInv == PluginTypeOK /\ \A w \in Worker : TaskInv(w)

(* Every step keeps the scheduler's variables in their types.              *)
LEMMA PluginTypeStep == PluginTypeOK /\ [PluginNext]_allVars => PluginTypeOK'
<1> SUFFICES ASSUME PluginTypeOK, [PluginNext]_allVars PROVE PluginTypeOK'
  OBVIOUS
<1> USE DEF PluginTypeOK
<1>1. TypeOK'
  BY PluginStepIsJobStep, TypeStep
<1>2. ASSUME NEW w \in Worker, Sleeps(w)
      PROVE  wakeAt' \in [Worker -> Nat]
  <2>1. PICK d \in SleepTimes : wakeAt' = [wakeAt EXCEPT ![w] = clock + d]
    BY <1>2 DEF Sleeps
  <2>2. d \in Nat /\ clock \in Nat
    BY IntervalAssumption, JitterAssumption DEF SleepTimes, TypeOK
  <2>3. QED
    BY <2>1, <2>2
<1>3. CASE UNCHANGED allVars
  BY <1>1, <1>3 DEF allVars, pluginVars
<1>4. ASSUME NEW w \in Worker, Startup(w) PROVE PluginTypeOK'
  BY <1>1, <1>2, <1>4 DEF Startup
<1>5. ASSUME NEW w \in Worker, JobStep(w) PROVE PluginTypeOK'
  BY <1>1, <1>2, <1>5 DEF JobStep
<1>6. ASSUME NEW w \in Worker, RunJob(w) \/ TaskStep(w) PROVE PluginTypeOK'
  BY <1>1, <1>6 DEF RunJob, TaskStep, pluginVars
<1>7. ASSUME NEW w \in Worker, Shutdown(w) \/ Closed(w) \/ ProcessEnds(w)
      PROVE  PluginTypeOK'
  BY <1>1, <1>7 DEF Shutdown, Closed, ProcessEnds
<1>8. CASE PluginTick
  BY <1>1, <1>8 DEF PluginTick, pluginVars
<1>9. QED
  BY <1>3, <1>4, <1>5, <1>6, <1>7, <1>8 DEF PluginNext

(* The scheduler's inductive invariant is kept by every step.              *)
LEMMA PluginInvStep == PluginInv /\ [PluginNext]_allVars => PluginInv'
<1> SUFFICES ASSUME PluginInv, [PluginNext]_allVars, NEW w \in Worker
             PROVE  TaskInv(w)'
  BY PluginTypeStep DEF PluginInv
<1>1. PluginTypeOK /\ TypeOK /\ TaskInv(w)
  BY DEF PluginInv, PluginTypeOK
<1> USE DEF TaskInv, TypeOK, PluginTypeOK, PC, Acquiring, Releasing
<1>2. CASE UNCHANGED allVars
  BY <1>1, <1>2 DEF allVars, vars, jobVars, pluginVars
<1>3. ASSUME NEW u \in Worker, Startup(u) PROVE TaskInv(w)'
  BY <1>1, <1>3 DEF Startup, Restart
<1>4. ASSUME NEW u \in Worker, RunJob(u) PROVE TaskInv(w)'
  BY <1>1, <1>4 DEF RunJob, Begin, pluginVars
<1>5. ASSUME NEW u \in Worker, JobStep(u) PROVE TaskInv(w)'
  <2>1. Invocation(u) /\ UNCHANGED app
    BY <1>5 DEF JobStep
  <2>2. CASE Insert(u) \/ InsertConflict(u) \/ InsertError(u)
           \/ TakeOver(u) \/ StartTasks(u)
    BY <1>1, <2>1, <2>2 DEF Insert, InsertConflict, InsertError, TakeOver, StartTasks
  <2>3. CASE Skip(u) \/ AcquireError(u)
    BY <1>1, <2>1, <2>3 DEF Skip, AcquireError, Leave
  <2>4. CASE ReturnResult(u) \/ CancelWork(u) \/ RaiseLeaseLost(u)
    BY <1>1, <2>1, <2>4 DEF ReturnResult, CancelWork, RaiseLeaseLost
  <2>5. CASE JoinHeartbeat(u) \/ Release(u)
    BY <1>1, <2>1, <2>5 DEF JoinHeartbeat, Release
  <2>6. CASE Finish(u)
    BY <1>1, <2>1, <2>6 DEF Finish, Leave
  <2>7. QED
    BY <2>1, <2>2, <2>3, <2>4, <2>5, <2>6 DEF Invocation
<1>6. ASSUME NEW u \in Worker, TaskStep(u) PROVE TaskInv(w)'
  <2>1. UNCHANGED <<jobVars, pluginVars>>
    BY <1>6 DEF TaskStep, Heartbeat, HeartbeatStops, HeartbeatWakes,
       RefreshCommits, HeartbeatSucceeds, HeartbeatSuperseded, HeartbeatError,
       WorkEnds
  <2>2. QED
    BY <1>1, <2>1 DEF jobVars, pluginVars
<1>7. ASSUME NEW u \in Worker, Shutdown(u) PROVE TaskInv(w)'
  <2>1. CASE CancelOutside(u)
    BY <1>1, <1>7, <2>1 DEF Shutdown, Cancel, CancelOutside, Leave
  <2>2. CASE CancelWait(u) \/ CancelSuppressed(u)
    BY <1>1, <1>7, <2>2 DEF Shutdown, Cancel, CancelWait, CancelSuppressed
  <2>3. QED
    BY <1>7, <2>1, <2>2 DEF Shutdown, Cancel
<1>8. ASSUME NEW u \in Worker, Closed(u) PROVE TaskInv(w)'
  BY <1>1, <1>8 DEF Closed, vars, jobVars
<1>9. ASSUME NEW u \in Worker, ProcessEnds(u) PROVE TaskInv(w)'
  BY <1>1, <1>9 DEF ProcessEnds, Crash, Leave
<1>10. CASE PluginTick
  BY <1>1, <1>10 DEF PluginTick, Tick, jobVars, pluginVars
<1>11. QED
  BY <1>2, <1>3, <1>4, <1>5, <1>6, <1>7, <1>8, <1>9, <1>10 DEF PluginNext

LEMMA PluginInvariant == PluginSpec => []PluginInv
<1>1. PluginInit => PluginInv
  <2>1. ASSUME PluginInit PROVE wakeAt \in [Worker -> Nat]
    BY <2>1, IntervalAssumption, JitterAssumption DEF PluginInit, SleepTimes
  <2>2. QED
    BY <2>1, TypeInit DEF PluginInit, Init, PluginInv, PluginTypeOK, TaskInv
<1>2. QED
  BY <1>1, PluginInvStep, PTL DEF PluginSpec

(***************************************************************************)
(* PluginTypeOK for every number of workers, interval and jitter.          *)
(***************************************************************************)
THEOREM PluginTypes == PluginSpec => []PluginTypeOK
<1>1. PluginInv => PluginTypeOK
  BY DEF PluginInv
<1>2. QED
  BY <1>1, PluginInvariant, PTL

(***************************************************************************)
(* No failure of its job, lost lease or database error ends the task of an *)
(* application that has not been shut down.                                *)
(***************************************************************************)
THEOREM TaskSurvival == PluginSpec => []TaskSurvives
<1>1. PluginInv => TaskSurvives
  BY DEF PluginInv, TaskInv, TaskSurvives
<1>2. QED
  BY <1>1, PluginInvariant, PTL

(***************************************************************************)
(* WorkWatched: outside a shutdown nothing separates the work from the     *)
(* invocation that awaits it (WorkInv of ExclusiveJob, and TaskInv).       *)
(***************************************************************************)
THEOREM WorkIsWatched == PluginSpec => []WorkWatched
<1>1. IInv /\ PluginInv => WorkWatched
  <2> SUFFICES ASSUME IInv, PluginInv, NEW w \in Worker, Running(w)
               PROVE  \/ pc[w] \in {"waiting", "cancelling"}
                      \/ /\ app[w] \in {"stopping", "closed"}
                         /\ pc[w] \in {"joining", "stopped"} \cup Releasing
    BY DEF WorkWatched
  <2>1. PluginTypeOK /\ TaskInv(w) /\ WorkInv(w)
    BY DEF PluginInv, IInv
  <2>2. CASE Orphaned(w)
    BY <2>1, <2>2 DEF Orphaned, TaskInv, PluginTypeOK
  <2>3. CASE ~Orphaned(w)
    BY <2>1, <2>3 DEF WorkInv, Running
  <2>4. QED
    BY <2>2, <2>3
<1>2. PluginSpec => []IInv
  BY PluginRefinement, Invariance, PTL DEF ImplementsExclusiveJob
<1>3. QED
  BY <1>1, <1>2, PluginInvariant, PTL
=============================================================================
