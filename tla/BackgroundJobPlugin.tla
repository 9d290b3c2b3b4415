------------------------ MODULE BackgroundJobPlugin ------------------------
(***************************************************************************)
(* AsyncBackgroundJobPlugin driving ExclusiveJob: the lifespan hook starts *)
(* one task per application that runs run_forever - sleep, then the job -  *)
(* and on shutdown cancels that task once and awaits it.                   *)
(*                                                                         *)
(* A state with pc[w] = "idle" is run_forever in its sleep.  The job's     *)
(* outcome reaches run_forever through the steps of ExclusiveJob that      *)
(* return to "idle" (a result, 0, or an Exception, which is logged) or     *)
(* lead to "stopped" (CancelledError, which is raised again).              *)
(***************************************************************************)
EXTENDS ExclusiveJob

CONSTANT Jitter     \* jitter_seconds

ASSUME JitterAssumption == Jitter \in Nat

VARIABLES
    app,        \* the application's lifespan on each worker
    wakeAt      \* when the sleep of run_forever is over

pluginVars == <<app, wakeAt>>
allVars == <<vars, pluginVars>>

(* interval_seconds + secrets.randbelow(jitter_seconds + 1), in ticks.     *)
SleepTimes == {2 * (Interval + j) : j \in 0..Jitter}

Sleeps(w) == \E d \in SleepTimes : wakeAt' = [wakeAt EXCEPT ![w] = clock + d]

PluginInit ==
    /\ Init
    /\ app = [w \in Worker |-> "running"]
    /\ wakeAt \in [Worker -> SleepTimes]

(* The lifespan is entered: it creates the task, which sleeps first.       *)
Startup(w) ==
    /\ app[w] = "off"
    /\ Restart(w)
    /\ app' = [app EXCEPT ![w] = "running"]
    /\ Sleeps(w)

\* Mutant: the job is spawned, not awaited; it starts while one is running.
RunJobConcurrently(w) ==
    /\ app[w] # "off"
    /\ pc[w] \in {"idle", "waiting"}
    /\ clock >= wakeAt[w]
    /\ pc' = [pc EXCEPT ![w] = "insert"]
    /\ \E t \in Token \ TokensInUse : token' = [token EXCEPT ![w] = t]
    /\ startedAt' = [startedAt EXCEPT ![w] = clock]
    /\ UNCHANGED <<rowVars, clock, outcome, cancelled, work, hbVars,
                   pluginVars>>

RunJob(w) ==
    /\ app[w] # "off"
    /\ clock >= wakeAt[w]
    /\ Begin(w)
    /\ UNCHANGED pluginVars

\* Mutant: run_forever does not catch the job's exceptions.
JobStepEscaping(w) ==
    /\ IF pc[w] \in Releasing /\ outcome[w] = "leaseLost"
       THEN /\ Leave(w, "stopped")
            /\ UNCHANGED <<rowVars, clock, cancelled, work>>
       ELSE Invocation(w)
    /\ UNCHANGED pluginVars

(* The loop goes back to sleep when the job has returned or failed.        *)
JobStep(w) ==
    /\ Invocation(w)
    /\ IF pc'[w] = "idle" THEN Sleeps(w) ELSE UNCHANGED wakeAt
    /\ UNCHANGED app

TaskStep(w) ==
    /\ Heartbeat(w) \/ WorkEnds(w)
    /\ UNCHANGED pluginVars

(* The lifespan's finally block: task.cancel(), then `await task'.         *)
Shutdown(w) ==
    /\ app[w] = "running"
    /\ Cancel(w)
    /\ app' = [app EXCEPT ![w] = "stopping"]
    /\ UNCHANGED wakeAt

Closed(w) ==
    /\ app[w] = "stopping"
    /\ pc[w] = "stopped"
    /\ app' = [app EXCEPT ![w] = "closed"]
    /\ UNCHANGED <<vars, wakeAt>>

(* The process exits once it is closed, or is killed at any time.          *)
ProcessEnds(w) ==
    /\ app[w] # "off"
    /\ Crash(w)
    /\ app' = [app EXCEPT ![w] = "off"]
    /\ wakeAt' = [wakeAt EXCEPT ![w] = 0]

Oversleeps(w) == pc[w] = "idle" /\ clock >= wakeAt[w] + MaxDelay

PluginTick ==
    /\ \A w \in Worker : ~Oversleeps(w)
    /\ Tick
    /\ UNCHANGED pluginVars

PluginNext ==
    \/ \E w \in Worker :
         \/ Startup(w) \/ RunJob(w) \/ JobStep(w) \/ TaskStep(w)
         \/ Shutdown(w) \/ Closed(w) \/ ProcessEnds(w)
    \/ PluginTick

PluginSpec == PluginInit /\ [][PluginNext]_allVars

(***************************************************************************)
(* Fairness as in ExclusiveJob: ready steps are taken, cancelled work      *)
(* ends, time passes.  Nothing obliges an application to shut down.        *)
(***************************************************************************)
PluginProgress(w) ==
    \/ RunJob(w) \/ JobStep(w) \/ Closed(w)
    \/ Heartbeat(w) /\ UNCHANGED pluginVars
    \/ work[w] = "cancelling" /\ WorkEnds(w) /\ UNCHANGED pluginVars

FairPluginSpec ==
    /\ PluginSpec
    /\ WF_allVars(PluginTick)
    /\ \A w \in Worker : WF_allVars(PluginProgress(w))

-----------------------------------------------------------------------------
PluginTypeOK ==
    /\ TypeOK
    /\ app \in [Worker -> {"off", "running", "stopping", "closed"}]
    /\ wakeAt \in [Worker -> Nat]

(***************************************************************************)
(* The scheduler takes only steps of ExclusiveJob: it never starts an      *)
(* invocation beside one in progress and cancels it only once, so what     *)
(* holds of ExclusiveJob holds of the deployed jobs.                       *)
(***************************************************************************)
ImplementsExclusiveJob == Spec

(***************************************************************************)
(* Failures of the job "are caught ... and silently retried on the next    *)
(* interval" (run_forever): while its application runs, the task lives.    *)
(***************************************************************************)
TaskSurvives ==
    \A w \in Worker : app[w] = "running" => pc[w] \notin {"stopped", "down"}

(***************************************************************************)
(* While its application serves, the work of a job is awaited by its       *)
(* invocation: no failure, lost lease or retry leaves work behind that the *)
(* process's next invocation would run beside.  A shutdown may, but then   *)
(* the cancelled invocation is the last one of the process.                *)
(***************************************************************************)
WorkWatched ==
    \A w \in Worker : Running(w) =>
        \/ pc[w] \in {"waiting", "cancelling"}
        \/ /\ app[w] \in {"stopping", "closed"}
           /\ pc[w] \in {"joining", "stopped"} \cup Releasing

(***************************************************************************)
(* A shutdown that interrupts the wait for the work closes the             *)
(* application, whatever the database does to the release.                 *)
(***************************************************************************)
InterruptedJobCloses ==
    \A w \in Worker : app[w] = "stopping" /\ outcome[w] = "cancelled" ~>
        app[w] \in {"closed", "off"}

(***************************************************************************)
(* "CancelledError is re-raised immediately so the task responds correctly *)
(* to task.cancel() during application shutdown" (run_forever): a          *)
(* cancelled task does not go back to its sleep.  Does not hold: a         *)
(* cancellation that arrives while run_exclusive_background_job awaits its *)
(* cancelled work or, in its finally block, the lease wait task or the     *)
(* heartbeat, is suppressed there; the loop goes on, and the lifespan,     *)
(* which cancels only once, awaits it for ever.                            *)
(***************************************************************************)
CancelEndsLoop == \A w \in Worker : app[w] = "stopping" => pc[w] # "idle"
=============================================================================
