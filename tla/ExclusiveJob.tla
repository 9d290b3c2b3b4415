---------------------------- MODULE ExclusiveJob ----------------------------
(***************************************************************************)
(* run_exclusive_background_job and its heartbeat: the processes ("workers" *)
(* of one or more servers) that run the same job against one database.     *)
(*                                                                         *)
(* A worker makes one invocation at a time.  Inside a worker three asyncio *)
(* tasks interleave at their awaits: the invocation itself (pc), the work  *)
(* task (work) and the heartbeat task (hb).  Workers interleave freely.    *)
(* Any statement sent to the database may fail before or after it is       *)
(* committed, the process may be killed between any two steps, and the     *)
(* application's shutdown may cancel the invocation at any of its awaits.  *)
(***************************************************************************)
EXTENDS BackgroundJobLockRepository

CONSTANTS
    Worker,     \* the processes that run the job
    MaxDelay,   \* ticks by which a timer or a database call may be late
    MaxSkew,    \* ticks by which the clocks of two hosts may be apart
    Ahead,      \* ticks by which a host's clock is ahead of the slowest one
    MaxClock    \* bound on the clock

ASSUME TimeAssumption == MaxDelay \in Nat /\ MaxClock \in Nat

ASSUME SkewAssumption == MaxSkew \in Nat /\ Ahead \in [Worker -> 0..MaxSkew]

VARIABLES
    clock,        \* time, the same for every time.monotonic()
    pc,           \* where each invocation is
    token,        \* owner_token drawn by the invocation
    startedAt,    \* `now' of BackgroundJobLockRepository.acquire
    work,         \* the work task
    hb,           \* the heartbeat task
    hbSince,      \* since when it sleeps, or the `now' of its refresh
    refreshedAt,  \* last_successful_refresh
    lost,         \* lease_lost_event
    outcome,      \* how the try block was left
    cancelled     \* cancel() was called on the task running the invocation

jobVars  == <<pc, token, startedAt, outcome, cancelled>>
hbVars   == <<hb, hbSince, refreshedAt, lost>>
vars     == <<rowVars, clock, jobVars, work, hbVars>>

(***************************************************************************)
(* pc: idle - no invocation; insert, update - that statement of acquire is *)
(* in flight; acquired - the row is committed, its session is closing;     *)
(* waiting - in asyncio.wait; cancelling - awaiting the cancelled work;    *)
(* joining - in the finally block, awaiting the heartbeat; releasing - the *)
(* DELETE is in flight; released - its session is closing; stopped - the   *)
(* task was cancelled; down - the process is gone.                         *)
(***************************************************************************)
Acquiring == {"insert", "update", "acquired"}
Releasing == {"releasing", "released"}
PC == {"idle", "waiting", "cancelling", "joining", "stopped", "down"}
        \cup Acquiring \cup Releasing

(***************************************************************************)
(* hb: sleep - waiting for stop_event with a timeout; refresh - the UPDATE *)
(* is in flight; applied, refused - it is committed and matched the row, or *)
(* matched none, and the reply is on its way.                              *)
(***************************************************************************)
InRefresh == {"refresh", "applied", "refused"}
HB == {"none", "sleep", "done"} \cup InRefresh

StopEvent(w) == pc[w] \in {"joining"} \cup Releasing

Init ==
    /\ RowInit
    /\ clock = 0
    /\ pc = [w \in Worker |-> "idle"]
    /\ token = [w \in Worker |-> NoToken]
    /\ startedAt = [w \in Worker |-> 0]
    /\ work = [w \in Worker |-> "none"]
    /\ hb = [w \in Worker |-> "none"]
    /\ hbSince = [w \in Worker |-> 0]
    /\ refreshedAt = [w \in Worker |-> 0]
    /\ lost = [w \in Worker |-> FALSE]
    /\ outcome = [w \in Worker |-> "none"]
    /\ cancelled = [w \in Worker |-> FALSE]

(* What datetime.now(UTC) returned to a worker at time t.                  *)
Now(w, t) == t + Ahead[w]

-----------------------------------------------------------------------------
(* Acquisition                                                             *)

(***************************************************************************)
(* The invocation forgets its token and times; its caller goes to state    *)
(* `next'.  The work task is not part of it: see Cancel.                   *)
(***************************************************************************)
Leave(w, next) ==
    /\ pc' = [pc EXCEPT ![w] = next]
    /\ token' = [token EXCEPT ![w] = NoToken]
    /\ startedAt' = [startedAt EXCEPT ![w] = 0]
    /\ outcome' = [outcome EXCEPT ![w] = "none"]
    /\ hb' = [hb EXCEPT ![w] = "none"]
    /\ hbSince' = [hbSince EXCEPT ![w] = 0]
    /\ refreshedAt' = [refreshedAt EXCEPT ![w] = 0]
    /\ lost' = [lost EXCEPT ![w] = FALSE]

(***************************************************************************)
(* A fresh UUID is one that neither the row nor any worker remembers.      *)
(***************************************************************************)
TokensInUse == {rowToken} \cup {token[w] : w \in Worker}

Begin(w) ==
    /\ pc[w] = "idle"
    /\ pc' = [pc EXCEPT ![w] = "insert"]
    /\ \E t \in Token \ TokensInUse : token' = [token EXCEPT ![w] = t]
    /\ startedAt' = [startedAt EXCEPT ![w] = clock]
    /\ UNCHANGED <<rowVars, clock, outcome, cancelled, work, hbVars>>

Insert(w) ==
    /\ pc[w] = "insert"
    /\ InsertRow(token[w], Now(w, startedAt[w]))
    /\ pc' = [pc EXCEPT ![w] = "acquired"]
    /\ UNCHANGED <<clock, token, startedAt, outcome, cancelled, work, hbVars>>

\* Mutant: IntegrityError means the lock is held; no look at its age.
InsertConflictGivesUp(w) ==
    /\ pc[w] = "insert"
    /\ rowToken # NoToken
    /\ Leave(w, "idle")
    /\ UNCHANGED <<rowVars, clock, cancelled, work>>

InsertConflict(w) ==
    /\ pc[w] = "insert"
    /\ rowToken # NoToken
    /\ pc' = [pc EXCEPT ![w] = "update"]
    /\ UNCHANGED <<rowVars, clock, token, startedAt, outcome, cancelled, work,
                   hbVars>>

(***************************************************************************)
(* The repository wraps every error of the INSERT statement, the           *)
(* connection's included, as an IntegrityError: acquire goes on to its     *)
(* UPDATE, whether or not there is a row.                                  *)
(***************************************************************************)
InsertError(w) ==
    /\ pc[w] = "insert"
    /\ pc' = [pc EXCEPT ![w] = "update"]
    /\ UNCHANGED <<rowVars, clock, token, startedAt, outcome, cancelled, work,
                   hbVars>>

TakeOver(w) ==
    /\ pc[w] = "update"
    /\ TakeOverRow(token[w], Now(w, startedAt[w]))
    /\ pc' = [pc EXCEPT ![w] = "acquired"]
    /\ UNCHANGED <<clock, token, startedAt, outcome, cancelled, work, hbVars>>

(***************************************************************************)
(* The UPDATE matches no row: the row is not stale, has been released      *)
(* meanwhile or was never there.  acquire returns None, the job returns 0. *)
(***************************************************************************)
Skip(w) ==
    /\ pc[w] = "update"
    /\ ~IsStale(Now(w, startedAt[w]))
    /\ Leave(w, "idle")
    /\ UNCHANGED <<rowVars, clock, cancelled, work>>

(***************************************************************************)
(* Any other error, of a COMMIT or of the UPDATE, or the pool's timeout,   *)
(* leaves through acquire, with the statement committed ("acquired") or    *)
(* not.                                                                    *)
(***************************************************************************)
AcquireError(w) ==
    /\ pc[w] \in Acquiring
    /\ Leave(w, "idle")
    /\ UNCHANGED <<rowVars, clock, cancelled, work>>

StartTasks(w) ==
    /\ pc[w] = "acquired"
    /\ pc' = [pc EXCEPT ![w] = "waiting"]
    /\ work' = [work EXCEPT ![w] = "running"]
    /\ hb' = [hb EXCEPT ![w] = "sleep"]
    /\ hbSince' = [hbSince EXCEPT ![w] = clock]
    /\ refreshedAt' = [refreshedAt EXCEPT ![w] = clock]
    /\ startedAt' = [startedAt EXCEPT ![w] = 0]
    /\ UNCHANGED <<rowVars, clock, token, outcome, cancelled, lost>>

-----------------------------------------------------------------------------
(* The heartbeat task                                                      *)

(* The task ends, and with it its local variables.                         *)
EndHeartbeat(w) ==
    /\ hb' = [hb EXCEPT ![w] = "done"]
    /\ hbSince' = [hbSince EXCEPT ![w] = 0]
    /\ refreshedAt' = [refreshedAt EXCEPT ![w] = 0]

HeartbeatStops(w) ==
    /\ hb[w] = "sleep"
    /\ StopEvent(w)
    /\ EndHeartbeat(w)
    /\ UNCHANGED <<rowVars, clock, jobVars, work, lost>>

HeartbeatWakes(w) ==
    /\ hb[w] = "sleep"
    /\ ~StopEvent(w)
    /\ clock >= hbSince[w] + Interval
    /\ hb' = [hb EXCEPT ![w] = "refresh"]
    /\ hbSince' = [hbSince EXCEPT ![w] = clock]
    /\ UNCHANGED <<rowVars, clock, jobVars, work, refreshedAt, lost>>

(* The UPDATE of refresh is committed.                                     *)
RefreshCommits(w) ==
    /\ hb[w] = "refresh"
    /\ RefreshRow(token[w], Now(w, hbSince[w]))
    /\ hb' = [hb EXCEPT ![w] =
                IF RowMatches(token[w]) THEN "applied" ELSE "refused"]
    /\ UNCHANGED <<clock, jobVars, work, hbSince, refreshedAt, lost>>

HeartbeatSucceeds(w) ==
    /\ hb[w] = "applied"
    /\ hb' = [hb EXCEPT ![w] = "sleep"]
    /\ hbSince' = [hbSince EXCEPT ![w] = clock]
    /\ refreshedAt' = [refreshedAt EXCEPT ![w] = clock]
    /\ UNCHANGED <<rowVars, clock, jobVars, work, lost>>

LoseLease(w) ==
    /\ EndHeartbeat(w)
    /\ lost' = [lost EXCEPT ![w] = TRUE]

HeartbeatSuperseded(w) ==
    /\ hb[w] = "refused"
    /\ LoseLease(w)
    /\ UNCHANGED <<rowVars, clock, jobVars, work>>

\* Mutant: the heartbeat measures from its last attempt, not the last success.
RefreshExpiredSinceAttempt(w) == clock - hbSince[w] > StaleThreshold

(***************************************************************************)
(* The refresh raises, whether or not its UPDATE was committed.            *)
(***************************************************************************)
RefreshExpired(w) == clock - refreshedAt[w] > StaleThreshold

HeartbeatError(w) ==
    /\ hb[w] \in InRefresh
    /\ IF RefreshExpired(w)
       THEN LoseLease(w)
       ELSE /\ hb' = [hb EXCEPT ![w] = "sleep"]
            /\ hbSince' = [hbSince EXCEPT ![w] = clock]
            /\ UNCHANGED <<refreshedAt, lost>>
    /\ UNCHANGED <<rowVars, clock, jobVars, work>>

-----------------------------------------------------------------------------
(* The work task and the rest of the invocation                            *)

(***************************************************************************)
(* The work returns, raises, or ends its cancellation.  Nobody collects    *)
(* work that its invocation has left behind.                               *)
(***************************************************************************)
WorkEnds(w) ==
    /\ work[w] \in {"running", "cancelling"}
    /\ work' = [work EXCEPT ![w] =
                IF pc[w] \in {"waiting", "cancelling"} THEN "done" ELSE "none"]
    /\ UNCHANGED <<rowVars, clock, jobVars, hbVars>>

(* Work found done wins over a lost lease: its result is returned.         *)
ReturnResult(w) ==
    /\ pc[w] = "waiting"
    /\ work[w] = "done"
    /\ pc' = [pc EXCEPT ![w] = "joining"]
    /\ work' = [work EXCEPT ![w] = "none"]
    /\ outcome' = [outcome EXCEPT ![w] = "result"]
    /\ UNCHANGED <<rowVars, clock, token, startedAt, cancelled, hbVars>>

\* Mutant: asyncio.wait returns when both tasks are done.
CancelWorkWhenAllDone(w) ==
    /\ pc[w] = "waiting"
    /\ lost[w] /\ work[w] = "done"
    /\ pc' = [pc EXCEPT ![w] = "cancelling"]
    /\ UNCHANGED <<rowVars, clock, token, startedAt, outcome, cancelled, work,
                   hbVars>>

CancelWork(w) ==
    /\ pc[w] = "waiting"
    /\ lost[w]
    /\ work[w] # "done"
    /\ pc' = [pc EXCEPT ![w] = "cancelling"]
    /\ work' = [work EXCEPT ![w] = "cancelling"]
    /\ UNCHANGED <<rowVars, clock, token, startedAt, outcome, cancelled,
                   hbVars>>

\* Mutant: the cancelled work is not awaited.
RaiseLeaseLostAtOnce(w) ==
    /\ pc[w] = "cancelling"
    /\ pc' = [pc EXCEPT ![w] = "joining"]
    /\ outcome' = [outcome EXCEPT ![w] = "leaseLost"]
    /\ UNCHANGED <<rowVars, clock, token, startedAt, cancelled, work, hbVars>>

RaiseLeaseLost(w) ==
    /\ pc[w] = "cancelling"
    /\ work[w] = "done"
    /\ pc' = [pc EXCEPT ![w] = "joining"]
    /\ work' = [work EXCEPT ![w] = "none"]
    /\ outcome' = [outcome EXCEPT ![w] = "leaseLost"]
    /\ UNCHANGED <<rowVars, clock, token, startedAt, cancelled, hbVars>>

(***************************************************************************)
(* wait_for(heartbeat_task, timeout=5): the heartbeat ends by itself, or   *)
(* is cancelled in its refresh when the five seconds are over.  How long   *)
(* they are beside a database call is not modelled.                        *)
(***************************************************************************)
JoinHeartbeat(w) ==
    /\ pc[w] = "joining"
    /\ hb[w] \in {"done"} \cup InRefresh
    /\ pc' = [pc EXCEPT ![w] = "releasing"]
    /\ EndHeartbeat(w)
    /\ UNCHANGED <<rowVars, clock, token, startedAt, outcome, cancelled, work,
                   lost>>

Release(w) ==
    /\ pc[w] = "releasing"
    /\ DeleteRow(token[w])
    /\ pc' = [pc EXCEPT ![w] = "released"]
    /\ UNCHANGED <<clock, token, startedAt, outcome, cancelled, work, hbVars>>

\* Mutant: the finally block swallows the CancelledError.
FinishSwallowing(w) ==
    /\ pc[w] \in Releasing
    /\ Leave(w, "idle")
    /\ UNCHANGED <<rowVars, clock, cancelled, work>>

(***************************************************************************)
(* The finally block ends, its DELETE committed or its failure logged, and *)
(* the exception of the try block, if any, goes on: to run_forever, which  *)
(* survives every Exception, or as CancelledError to the end of the task.  *)
(***************************************************************************)
Finish(w) ==
    /\ pc[w] \in Releasing
    /\ Leave(w, IF outcome[w] = "cancelled" THEN "stopped" ELSE "idle")
    /\ UNCHANGED <<rowVars, clock, cancelled, work>>

-----------------------------------------------------------------------------
(* The environment: shutdown, crash and restart, time                      *)

(***************************************************************************)
(* The lifespan hook calls cancel() once, on the task that runs the        *)
(* invocation.  CancelledError is raised at the await the task is in:      *)
(*  - outside the try block it ends the task, and the row, if committed,   *)
(*    stays behind;                                                        *)
(*  - in asyncio.wait it starts the finally block; asyncio.wait does not   *)
(*    cancel the tasks it waits for, so the work task keeps running;       *)
(*  - awaiting the cancelled work it is passed on to the work, and what    *)
(*    comes back is suppressed;                                            *)
(*  - awaiting the lease wait task or the heartbeat it is suppressed, in   *)
(*    the second case after cancelling the heartbeat;                      *)
(*  - in the release it is not an Exception, so it ends the task.          *)
(***************************************************************************)
CancelOutside(w) ==
    /\ pc[w] \in {"idle"} \cup Acquiring \cup Releasing
    /\ Leave(w, "stopped")
    /\ UNCHANGED work

CancelWait(w) ==
    /\ pc[w] = "waiting"
    /\ pc' = [pc EXCEPT ![w] = "joining"]
    /\ outcome' = [outcome EXCEPT ![w] = "cancelled"]
    /\ work' = [work EXCEPT ![w] = IF @ = "done" THEN "none" ELSE @]
    /\ UNCHANGED <<token, startedAt, hbVars>>

CancelSuppressed(w) ==
    /\ pc[w] \in {"cancelling", "joining"}
    /\ \/ UNCHANGED <<hb, hbSince, refreshedAt>>
       \/ pc[w] = "joining" /\ EndHeartbeat(w)
    /\ UNCHANGED <<pc, token, startedAt, outcome, work, lost>>

Cancel(w) ==
    /\ ~cancelled[w]
    /\ cancelled' = [cancelled EXCEPT ![w] = TRUE]
    /\ CancelOutside(w) \/ CancelWait(w) \/ CancelSuppressed(w)
    /\ UNCHANGED <<rowVars, clock>>

(* The process is killed, or exits after its task has stopped.             *)
Crash(w) ==
    /\ pc[w] # "down"
    /\ Leave(w, "down")
    /\ work' = [work EXCEPT ![w] = "none"]
    /\ cancelled' = [cancelled EXCEPT ![w] = FALSE]
    /\ UNCHANGED <<rowVars, clock>>

Restart(w) ==
    /\ pc[w] = "down"
    /\ pc' = [pc EXCEPT ![w] = "idle"]
    /\ UNCHANGED <<rowVars, clock, token, startedAt, outcome, cancelled, work,
                   hbVars>>

(***************************************************************************)
(* Timeliness: MaxDelay bounds how late a timer fires and how long a       *)
(* database call lasts (the engine's pool, connect and statement timeouts *)
(* end it), and a task that is ready runs before time passes.              *)
(***************************************************************************)
Overdue(w) ==
    \/ pc[w] \in Acquiring /\ clock >= startedAt[w] + MaxDelay
    \/ hb[w] = "sleep" /\ clock >= hbSince[w] + Interval + MaxDelay
    \/ hb[w] \in InRefresh /\ clock >= hbSince[w] + MaxDelay
    \/ pc[w] = "waiting" /\ (lost[w] \/ work[w] = "done")

Tick ==
    /\ clock < MaxClock
    /\ \A w \in Worker : ~Overdue(w)
    /\ clock' = clock + 1
    /\ UNCHANGED <<rowVars, jobVars, work, hbVars>>

Heartbeat(w) ==
    \/ HeartbeatStops(w) \/ HeartbeatWakes(w) \/ RefreshCommits(w)
    \/ HeartbeatSucceeds(w) \/ HeartbeatSuperseded(w) \/ HeartbeatError(w)

Invocation(w) ==
    \/ Insert(w) \/ InsertConflict(w) \/ InsertError(w) \/ TakeOver(w)
    \/ Skip(w) \/ AcquireError(w) \/ StartTasks(w) \/ ReturnResult(w) \/ CancelWork(w)
    \/ RaiseLeaseLost(w) \/ JoinHeartbeat(w) \/ Release(w) \/ Finish(w)

Next ==
    \/ \E w \in Worker :
         \/ Begin(w) \/ Invocation(w) \/ Heartbeat(w) \/ WorkEnds(w)
         \/ Cancel(w) \/ Crash(w) \/ Restart(w)
    \/ Tick

Spec == Init /\ [][Next]_vars

(***************************************************************************)
(* Fairness: the event loop of a live process always gets to a next ready  *)
(* step of the invocation or its heartbeat, database calls end (the        *)
(* engine's timeouts), cancelled work ends, time passes however often      *)
(* processes restart, and a process that has exited is started again by    *)
(* its supervisor.  Work that is not cancelled may run for ever.  Strong   *)
(* fairness on the three steps of a takeover says that neither crashes nor *)
(* database errors defeat every attempt of every worker.                   *)
(***************************************************************************)
Progress(w) ==
    \/ Invocation(w) \/ Heartbeat(w) \/ Restart(w)
    \/ work[w] = "cancelling" /\ WorkEnds(w)
    \/ pc[w] = "stopped" /\ Crash(w)

Fairness ==
    /\ SF_vars(Tick)
    /\ \A w \in Worker : WF_vars(Progress(w))
    /\ SF_vars(\E w \in Worker : Begin(w))
    /\ SF_vars(\E w \in Worker : InsertConflict(w))
    /\ SF_vars(\E w \in Worker : TakeOver(w))

FairSpec == Spec /\ Fairness

-----------------------------------------------------------------------------
TypeOK ==
    /\ rowToken \in Token \cup {NoToken}
    /\ acquiredAt \in Nat
    /\ clock \in Nat
    /\ pc \in [Worker -> PC]
    /\ token \in [Worker -> Token \cup {NoToken}]
    /\ startedAt \in [Worker -> Nat]
    /\ work \in [Worker -> {"none", "running", "cancelling", "done"}]
    /\ hb \in [Worker -> HB]
    /\ hbSince \in [Worker -> Nat]
    /\ refreshedAt \in [Worker -> Nat]
    /\ lost \in [Worker -> BOOLEAN]
    /\ outcome \in [Worker -> {"none", "result", "leaseLost", "cancelled"}]
    /\ cancelled \in [Worker -> BOOLEAN]

(***************************************************************************)
(* A worker is supervised while its invocation waits for its work and has  *)
(* not been told to stop it.                                               *)
(***************************************************************************)
Running(w) == work[w] \in {"running", "cancelling"}
Supervised(w) == pc[w] = "waiting" /\ work[w] = "running" /\ ~lost[w]

(***************************************************************************)
(* A supervised worker loses its row to another one no earlier than the    *)
(* stale-lock window after its last confirmed refresh, less the time that  *)
(* refresh took and the difference of the clocks that dated and judged the *)
(* row: the heartbeat of a long job keeps it from being mistaken for a     *)
(* dead one (DESIGN.md, Protocol 3).                                       *)
(***************************************************************************)
LeaseHonoured ==
    \A w \in Worker : Supervised(w) /\ rowToken # token[w] =>
        clock + MaxDelay + MaxSkew >= refreshedAt[w] + StaleThreshold

(***************************************************************************)
(* ExclusiveJob implements JobLease: a supervised worker may rely on its   *)
(* lease from a confirmed call until the stale-lock window, less MaxDelay  *)
(* and MaxSkew, is over; the row says who owns the job.  Beside            *)
(* LeaseHonoured this says that neither an insert nor a takeover gives the *)
(* job away while anyone relies on it, that only an answer from the        *)
(* database extends a lease, and only for its owner, and that no worker    *)
(* ends the lease or the ownership of another.                             *)
(***************************************************************************)
LeaseWindow == StaleThreshold - MaxDelay - MaxSkew

Owner == {w \in Worker : token[w] = rowToken /\ rowToken # NoToken}

LeaseEnd(w) == IF Supervised(w) THEN refreshedAt[w] + LeaseWindow ELSE 0

Lease == INSTANCE JobLease WITH
    Window <- LeaseWindow,
    now    <- clock,
    owner  <- Owner,
    until  <- [w \in Worker |-> LeaseEnd(w)]

ImplementsJobLease == Lease!Spec

(***************************************************************************)
(* A worker that can no longer refresh stops being supervised one heartbeat *)
(* after the stale-lock window at the latest.  With LeaseHonoured this      *)
(* bounds how long two workers can overlap after a takeover.               *)
(***************************************************************************)
StandsDown ==
    \A w \in Worker : Supervised(w) =>
        clock <= refreshedAt[w] + StaleThreshold + Interval + 2 * MaxDelay

(***************************************************************************)
(* Exclusivity as far as the lease provides it.  If the work of the job    *)
(* runs twice, one of the two is on its way out: its lease is expiring, it *)
(* has lost the lease and is being cancelled, or shutdown cancelled its    *)
(* invocation, which leaves the work behind (see OneInstance).             *)
(***************************************************************************)
Expiring(w) == clock + MaxDelay + MaxSkew >= refreshedAt[w] + StaleThreshold

Orphaned(w) == cancelled[w] /\ pc[w] \in {"joining", "stopped"} \cup Releasing

Exclusion ==
    \A v, w \in Worker : v # w /\ Running(v) /\ Running(w) =>
        \E u \in {v, w} :
            \/ Supervised(u) /\ Expiring(u)
            \/ pc[u] \in {"waiting", "cancelling"} /\ lost[u]
            \/ Orphaned(u)

(***************************************************************************)
(* Fencing: a row changes hands or disappears only when it is stale for    *)
(* its new owner or when the invocation it belongs to releases it.  A      *)
(* superseded worker can do neither to the row of its replacement.         *)
(***************************************************************************)
RowFenced ==
    rowToken # NoToken /\ rowToken' # rowToken =>
        \/ \E w \in Worker : /\ token[w] = rowToken'
                             /\ acquiredAt + StaleThreshold <= Now(w, clock)
        \/ \E w \in Worker : pc[w] = "releasing" /\ token[w] = rowToken

Fencing == [][RowFenced]_vars

(***************************************************************************)
(* While a row exists its acquired_at never goes back, although it is      *)
(* always set to a `now' read before the statement ran, on one of several  *)
(* clocks: a slow refresh or takeover, or one by a host whose clock is     *)
(* behind, cannot make a live lock look older than it was.                 *)
(***************************************************************************)
RowAgesForward ==
    rowToken # NoToken /\ rowToken' # NoToken => acquiredAt' >= acquiredAt

AcquiredAtAdvances == [][RowAgesForward]_vars

(***************************************************************************)
(* The row is released only after the supervised work is over, on the      *)
(* normal path and after a lost lease.  (Not after an outer cancellation:  *)
(* see OneInstance.)                                                       *)
(***************************************************************************)
ReleasedAfterWork ==
    \A w \in Worker :
        pc[w] \in Releasing /\ outcome[w] # "cancelled" => ~Running(w)

(***************************************************************************)
(* A lost lease ends the invocation: the work is cancelled, awaited and    *)
(* the finally block gets to its end, whatever the database does and       *)
(* whenever shutdown cancels the invocation.                               *)
(***************************************************************************)
LeaseLossEndsInvocation ==
    \A w \in Worker : pc[w] = "waiting" /\ lost[w] ~>
        pc[w] \in {"idle", "stopped", "down"}

(***************************************************************************)
(* A row that belongs to no invocation, left by a crash, a failed release  *)
(* or a cancelled acquire, yields: nobody refreshes, releases or inherits  *)
(* it, and a challenger is turned away from a row only until it is one     *)
(* stale-lock window old, and MaxDelay, since its `now' is that late.      *)
(***************************************************************************)
Ownerless == rowToken # NoToken /\ \A w \in Worker : token[w] # rowToken

RowYields ==
    /\ Ownerless => \/ \E w \in Worker : TakeOver(w)
                    \/ Ownerless' /\ UNCHANGED rowVars
    /\ \A w \in Worker : Skip(w) /\ rowToken # NoToken =>
          clock < acquiredAt + StaleThreshold + MaxDelay

OwnerlessRowYields == [][RowYields]_vars

(***************************************************************************)
(* "A crashed worker cannot block a job permanently" (DESIGN.md): such a   *)
(* row is taken over, if the clock's bound leaves it the time to become    *)
(* stale.                                                                  *)
(***************************************************************************)
Abandoned == Ownerless /\ acquiredAt + StaleThreshold <= MaxClock

AbandonedLockRecovers == Abandoned ~> ~Abandoned

(***************************************************************************)
(* "Only one instance of a given background job runs at a time across all  *)
(* workers and servers" (lock.py, DESIGN.md Distributed Job Locking).      *)
(* Does not hold: cancelling the invocation in asyncio.wait leaves the     *)
(* work running and releases the row.                                      *)
(***************************************************************************)
OneInstance == \A v, w \in Worker : v # w => ~(Running(v) /\ Running(w))

(***************************************************************************)
(* Cancelling the work on lease loss "prevents the old worker from         *)
(* continuing cleanup after another worker has taken over" (DESIGN.md,     *)
(* Protocol 4).  Does not hold: a takeover is possible once the row is     *)
(* 2 * interval_seconds old, while the old worker's heartbeat, failing,    *)
(* gives up only later than that.                                          *)
(***************************************************************************)
OldWorkerStopped ==
    \A v, w \in Worker : v # w => ~(Supervised(v) /\ Supervised(w))
=============================================================================
