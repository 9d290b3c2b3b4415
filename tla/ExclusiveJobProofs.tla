------------------------- MODULE ExclusiveJobProofs -------------------------
(***************************************************************************)
(* The safety properties of ExclusiveJob, for every set of workers, every  *)
(* interval, every MaxDelay and MaxClock, and every choice of clocks no    *)
(* more than MaxSkew apart.                                                *)
(*                                                                         *)
(* The properties compare the row with what a worker believes about it, so *)
(* the inductive invariant says, for every phase of an invocation and of   *)
(* its heartbeat, how old its timestamps can be (TimeInv) and what the row *)
(* is if it is still the worker's (OwnerInv), or how much time must have   *)
(* passed if it is not (SupersededInv).                                    *)
(***************************************************************************)
EXTENDS ExclusiveJob, TLAPS

-----------------------------------------------------------------------------
(* The inductive invariant                                                 *)

Quiet == {"idle", "stopped", "down"}
HbActive == {"sleep"} \cup InRefresh

(* An invocation in progress has a token of its own.                       *)
TokenInv ==
    /\ \A w \in Worker : pc[w] \in Quiet <=> token[w] = NoToken
    /\ \A v, w \in Worker : v # w /\ token[v] # NoToken => token[v] # token[w]

(* Which tasks exist in which phase.                                       *)
PhaseInv(w) ==
    /\ pc[w] \in Quiet \cup Acquiring => hb[w] = "none" /\ ~lost[w]
    /\ pc[w] \in Releasing => hb[w] = "done"
    /\ pc[w] = "waiting" /\ ~lost[w] => hb[w] \in HbActive
    /\ pc[w] \in {"joining"} \cup Releasing /\ outcome[w] # "cancelled" =>
          work[w] = "none"

(* Who minds the work: the invocation, or nobody once it is orphaned.      *)
WorkInv(w) ==
    /\ work[w] # "none" => pc[w] \in {"waiting", "cancelling"} \/ Orphaned(w)
    /\ pc[w] = "waiting" => work[w] # "cancelling"
    /\ pc[w] = "cancelling" => lost[w]

(* How old the captured times are.                                         *)
TimeInv(w) ==
    /\ pc[w] \in Acquiring =>
          startedAt[w] <= clock /\ clock <= startedAt[w] + MaxDelay
    /\ hb[w] = "sleep" =>
          /\ hbSince[w] <= clock
          /\ clock <= hbSince[w] + Interval + MaxDelay
          /\ hbSince[w] <= refreshedAt[w] + StaleThreshold
    /\ hb[w] \in InRefresh =>
          /\ hbSince[w] <= clock
          /\ clock <= hbSince[w] + MaxDelay
          /\ hbSince[w] <= refreshedAt[w] + StaleThreshold
                               + Interval + MaxDelay
    /\ refreshedAt[w] <= clock

(* What the row is to a worker that still owns it ...                      *)
OwnerInv(w) ==
    rowToken = token[w] =>
        /\ pc[w] = "acquired" => acquiredAt = Now(w, startedAt[w])
        /\ hb[w] \in HbActive =>
              Now(w, refreshedAt[w]) <= acquiredAt + MaxDelay
        /\ hb[w] = "refresh" => acquiredAt <= Now(w, hbSince[w])
        /\ hb[w] = "applied" => acquiredAt = Now(w, hbSince[w])

(* ... and how long ago it was last its own to one that does not.          *)
SupersededInv(w) ==
    rowToken # token[w] =>
        /\ pc[w] = "acquired" =>
              clock + MaxSkew >= startedAt[w] + StaleThreshold
        /\ hb[w] \in HbActive =>
              clock + MaxDelay + MaxSkew >= refreshedAt[w] + StaleThreshold
        /\ hb[w] = "applied" =>
              clock + MaxSkew >= hbSince[w] + StaleThreshold

(* The row is not dated in the future of the host that owns it.            *)
RowInv ==
    \A w \in Worker : rowToken = token[w] /\ rowToken # NoToken =>
        acquiredAt <= Now(w, clock)

IInv ==
    /\ TypeOK
    /\ TokenInv
    /\ RowInv
    /\ \A w \in Worker :
         /\ PhaseInv(w) /\ WorkInv(w) /\ TimeInv(w)
         /\ OwnerInv(w) /\ SupersededInv(w)

(* The clocks, without the function set they are taken from.               *)
LEMMA SkewBound ==
  /\ MaxSkew \in Nat
  /\ \A w \in Worker : Ahead[w] \in Nat /\ Ahead[w] <= MaxSkew
  BY SkewAssumption

-----------------------------------------------------------------------------
(* Type correctness                                                        *)

(* The initial state of the table and the workers is well-typed.           *)
LEMMA TypeInit == Init => TypeOK
  BY DEF Init, TypeOK, RowInit, PC, HB

(* Every step keeps the variables in their types.                          *)
LEMMA TypeStep == TypeOK /\ [Next]_vars => TypeOK'
<1> SUFFICES ASSUME TypeOK, [Next]_vars PROVE TypeOK'
  OBVIOUS
<1> USE IntervalAssumption, TimeAssumption, SkewBound
    DEF Now, TypeOK, PC, HB, Acquiring, Releasing, InRefresh
<1>1. CASE UNCHANGED vars
  BY <1>1 DEF vars, rowVars, jobVars, hbVars
<1>2. ASSUME NEW w \in Worker, Begin(w) PROVE TypeOK'
  BY <1>2 DEF Begin, rowVars, hbVars
<1>3. ASSUME NEW w \in Worker, Invocation(w) PROVE TypeOK'
  <2>1. CASE Insert(w)
    BY <2>1 DEF Insert, InsertRow, hbVars
  <2>2. CASE InsertConflict(w) \/ InsertError(w)
    BY <2>2 DEF InsertConflict, InsertError, rowVars, hbVars
  <2>3. CASE TakeOver(w)
    BY <2>3 DEF TakeOver, TakeOverRow, hbVars
  <2>4. CASE Skip(w)
    BY <2>4 DEF Skip, Leave, rowVars
  <2>5. CASE AcquireError(w)
    BY <2>5 DEF AcquireError, Leave, rowVars
  <2>6. CASE StartTasks(w)
    BY <2>6 DEF StartTasks, rowVars
  <2>7. CASE ReturnResult(w)
    BY <2>7 DEF ReturnResult, rowVars, hbVars
  <2>8. CASE CancelWork(w)
    BY <2>8 DEF CancelWork, rowVars, hbVars
  <2>9. CASE RaiseLeaseLost(w)
    BY <2>9 DEF RaiseLeaseLost, rowVars, hbVars
  <2>10. CASE JoinHeartbeat(w)
    BY <2>10 DEF JoinHeartbeat, EndHeartbeat, rowVars
  <2>11. CASE Release(w)
    BY <2>11 DEF Release, DeleteRow, RowMatches, rowVars, hbVars
  <2>12. CASE Finish(w)
    BY <2>12 DEF Finish, Leave, rowVars
  <2>13. QED
    BY <1>3, <2>1, <2>2, <2>3, <2>4, <2>5, <2>6, <2>7, <2>8, <2>9, <2>10,
       <2>11, <2>12 DEF Invocation
<1>4. ASSUME NEW w \in Worker, Heartbeat(w) PROVE TypeOK'
  <2>1. CASE HeartbeatStops(w)
    BY <2>1 DEF HeartbeatStops, EndHeartbeat, rowVars, jobVars
  <2>2. CASE HeartbeatWakes(w)
    BY <2>2 DEF HeartbeatWakes, rowVars, jobVars
  <2>3. CASE RefreshCommits(w)
    BY <2>3 DEF RefreshCommits, RefreshRow, RowMatches, rowVars, jobVars
  <2>4. CASE HeartbeatSucceeds(w)
    BY <2>4 DEF HeartbeatSucceeds, rowVars, jobVars
  <2>5. CASE HeartbeatSuperseded(w)
    BY <2>5 DEF HeartbeatSuperseded, LoseLease, EndHeartbeat, rowVars, jobVars
  <2>6. CASE HeartbeatError(w)
    <3>1. CASE RefreshExpired(w)
      <4>1. LoseLease(w) /\ UNCHANGED <<rowVars, clock, jobVars, work>>
        BY <2>6, <3>1 DEF HeartbeatError
      <4>2. QED
        BY <4>1 DEF LoseLease, EndHeartbeat, rowVars, jobVars
    <3>2. CASE ~RefreshExpired(w)
      BY <2>6, <3>2 DEF HeartbeatError, rowVars, jobVars
    <3>3. QED
      BY <3>1, <3>2
  <2>7. QED
    BY <1>4, <2>1, <2>2, <2>3, <2>4, <2>5, <2>6 DEF Heartbeat
<1>5. ASSUME NEW w \in Worker, WorkEnds(w) PROVE TypeOK'
  BY <1>5 DEF WorkEnds, rowVars, jobVars, hbVars
<1>6. ASSUME NEW w \in Worker, Cancel(w) PROVE TypeOK'
  <2>1. CASE CancelOutside(w)
    BY <1>6, <2>1 DEF Cancel, CancelOutside, Leave, rowVars
  <2>2. CASE CancelWait(w)
    BY <1>6, <2>2 DEF Cancel, CancelWait, rowVars, hbVars
  <2>3. CASE CancelSuppressed(w)
    BY <1>6, <2>3 DEF Cancel, CancelSuppressed, EndHeartbeat, rowVars
  <2>4. QED
    BY <1>6, <2>1, <2>2, <2>3 DEF Cancel
<1>7. ASSUME NEW w \in Worker, Crash(w) PROVE TypeOK'
  BY <1>7 DEF Crash, Leave, rowVars
<1>8. ASSUME NEW w \in Worker, Restart(w) PROVE TypeOK'
  BY <1>8 DEF Restart, rowVars, hbVars
<1>9. CASE Tick
  BY <1>9 DEF Tick, rowVars, jobVars, hbVars
<1>10. QED
  BY <1>1, <1>2, <1>3, <1>4, <1>5, <1>6, <1>7, <1>8, <1>9 DEF Next

(***************************************************************************)
(* Every variable keeps its type: the phases of ExclusiveJob are the only  *)
(* ones its steps lead to, and no time goes below zero.                    *)
(***************************************************************************)
THEOREM TypeCorrect == Spec => []TypeOK
  BY TypeInit, TypeStep, PTL DEF Spec

-----------------------------------------------------------------------------
(* Every step preserves the inductive invariant                             *)

(***************************************************************************)
(* Fresh tokens and the end of an invocation keep the tokens apart.        *)
(***************************************************************************)
LEMMA TokenStep ==
  ASSUME TypeOK, TypeOK', TokenInv, [Next]_vars
  PROVE  TokenInv'
<1> USE DEF TypeOK, TokenInv, PC, HB, Acquiring, Releasing, InRefresh, Quiet
<1>1. CASE UNCHANGED vars
  BY <1>1 DEF vars, rowVars, jobVars, hbVars
<1>2. ASSUME NEW u \in Worker, Begin(u) PROVE TokenInv'
  <2>1. PICK t \in Token \ TokensInUse : token' = [token EXCEPT ![u] = t]
    BY <1>2 DEF Begin
  <2>2. t # NoToken /\ \A v \in Worker : token[v] # t
    BY <2>1, TokenAssumption DEF TokensInUse
  <2>3. QED
    BY <1>2, <2>1, <2>2 DEF Begin
<1>3. ASSUME NEW u \in Worker, Invocation(u) PROVE TokenInv'
  <2>1. CASE Insert(u)
    BY <2>1 DEF Insert, InsertRow, hbVars
  <2>2. CASE InsertConflict(u) \/ InsertError(u)
    BY <2>2 DEF InsertConflict, InsertError, rowVars, hbVars
  <2>3. CASE TakeOver(u)
    BY <2>3 DEF TakeOver, TakeOverRow, IsStale, hbVars
  <2>4. CASE Skip(u)
    BY <2>4 DEF Skip, Leave, rowVars
  <2>5. CASE AcquireError(u)
    BY <2>5 DEF AcquireError, Leave, rowVars
  <2>6. CASE StartTasks(u)
    BY <2>6 DEF StartTasks, rowVars
  <2>7. CASE ReturnResult(u)
    BY <2>7 DEF ReturnResult, rowVars, hbVars
  <2>8. CASE CancelWork(u)
    BY <2>8 DEF CancelWork, rowVars, hbVars
  <2>9. CASE RaiseLeaseLost(u)
    BY <2>9 DEF RaiseLeaseLost, rowVars, hbVars
  <2>10. CASE JoinHeartbeat(u)
    BY <2>10 DEF JoinHeartbeat, EndHeartbeat, rowVars
  <2>11. CASE Release(u)
    BY <2>11 DEF Release, DeleteRow, RowMatches, rowVars, hbVars
  <2>12. CASE Finish(u)
    BY <2>12 DEF Finish, Leave, rowVars
  <2>13. QED
    BY <1>3, <2>1, <2>2, <2>3, <2>4, <2>5, <2>6, <2>7, <2>8, <2>9, <2>10,
       <2>11, <2>12 DEF Invocation
<1>4. ASSUME NEW u \in Worker, Heartbeat(u) PROVE TokenInv'
  <2>1. CASE HeartbeatStops(u)
    BY <2>1 DEF HeartbeatStops, StopEvent, EndHeartbeat, rowVars, jobVars
  <2>2. CASE HeartbeatWakes(u)
    BY <2>2 DEF HeartbeatWakes, rowVars, jobVars
  <2>3. CASE RefreshCommits(u)
    BY <2>3 DEF RefreshCommits, RefreshRow, RowMatches, rowVars, jobVars
  <2>4. CASE HeartbeatSucceeds(u)
    BY <2>4 DEF HeartbeatSucceeds, rowVars, jobVars
  <2>5. CASE HeartbeatSuperseded(u)
    BY <2>5 DEF HeartbeatSuperseded, LoseLease, EndHeartbeat, rowVars, jobVars
  <2>6. CASE HeartbeatError(u)
    BY <2>6 DEF HeartbeatError, LoseLease, EndHeartbeat, RefreshExpired,
       rowVars, jobVars
  <2>7. QED
    BY <1>4, <2>1, <2>2, <2>3, <2>4, <2>5, <2>6 DEF Heartbeat
<1>5. ASSUME NEW u \in Worker, WorkEnds(u) PROVE TokenInv'
  BY <1>5 DEF WorkEnds, rowVars, jobVars, hbVars
<1>6. ASSUME NEW u \in Worker, Cancel(u) PROVE TokenInv'
  <2>1. CASE CancelOutside(u)
    BY <1>6, <2>1 DEF CancelOutside, Cancel, Leave, rowVars
  <2>2. CASE CancelWait(u)
    BY <1>6, <2>2 DEF CancelWait, Cancel, rowVars, hbVars
  <2>3. CASE CancelSuppressed(u)
    BY <1>6, <2>3 DEF CancelSuppressed, Cancel, EndHeartbeat, rowVars
  <2>4. QED
    BY <1>6, <2>1, <2>2, <2>3 DEF Cancel
<1>7. ASSUME NEW u \in Worker, Crash(u) PROVE TokenInv'
  BY <1>7 DEF Crash, Leave, rowVars
<1>8. ASSUME NEW u \in Worker, Restart(u) PROVE TokenInv'
  BY <1>8 DEF Restart, rowVars, hbVars
<1>9. CASE Tick
  BY <1>9 DEF Tick, rowVars, jobVars, hbVars
<1>10. QED
  BY <1>1, <1>2, <1>3, <1>4, <1>5, <1>6, <1>7, <1>8, <1>9 DEF Next

(***************************************************************************)
(* The phases of the invocation, its heartbeat and its work stay in step:  *)
(* the heartbeat is over before the release, and outside an outer          *)
(* cancellation so is the work.                                            *)
(***************************************************************************)
LEMMA PhaseStep ==
  ASSUME TypeOK, NEW w \in Worker, PhaseInv(w), [Next]_vars
  PROVE  PhaseInv(w)'
<1> USE DEF TypeOK, PhaseInv, HbActive, PC, HB, Acquiring, Releasing,
   InRefresh, Quiet
<1>1. CASE UNCHANGED vars
  BY <1>1 DEF vars, rowVars, jobVars, hbVars
<1>2. ASSUME NEW u \in Worker, Begin(u) PROVE PhaseInv(w)'
  BY <1>2 DEF Begin, rowVars, hbVars
<1>3. ASSUME NEW u \in Worker, Invocation(u) PROVE PhaseInv(w)'
  <2>1. CASE Insert(u)
    BY <2>1 DEF Insert, InsertRow, hbVars
  <2>2. CASE InsertConflict(u) \/ InsertError(u)
    BY <2>2 DEF InsertConflict, InsertError, rowVars, hbVars
  <2>3. CASE TakeOver(u)
    BY <2>3 DEF TakeOver, TakeOverRow, IsStale, hbVars
  <2>4. CASE Skip(u)
    BY <2>4 DEF Skip, Leave, rowVars
  <2>5. CASE AcquireError(u)
    BY <2>5 DEF AcquireError, Leave, rowVars
  <2>6. CASE StartTasks(u)
    BY <2>6 DEF StartTasks, rowVars
  <2>7. CASE ReturnResult(u)
    BY <2>7 DEF ReturnResult, rowVars, hbVars
  <2>8. CASE CancelWork(u)
    BY <2>8 DEF CancelWork, rowVars, hbVars
  <2>9. CASE RaiseLeaseLost(u)
    BY <2>9 DEF RaiseLeaseLost, rowVars, hbVars
  <2>10. CASE JoinHeartbeat(u)
    BY <2>10 DEF JoinHeartbeat, EndHeartbeat, rowVars
  <2>11. CASE Release(u)
    BY <2>11 DEF Release, DeleteRow, RowMatches, rowVars, hbVars
  <2>12. CASE Finish(u)
    BY <2>12 DEF Finish, Leave, rowVars
  <2>13. QED
    BY <1>3, <2>1, <2>2, <2>3, <2>4, <2>5, <2>6, <2>7, <2>8, <2>9, <2>10,
       <2>11, <2>12 DEF Invocation
<1>4. ASSUME NEW u \in Worker, Heartbeat(u) PROVE PhaseInv(w)'
  <2>1. CASE HeartbeatStops(u)
    BY <2>1 DEF HeartbeatStops, StopEvent, EndHeartbeat, rowVars, jobVars
  <2>2. CASE HeartbeatWakes(u)
    BY <2>2 DEF HeartbeatWakes, rowVars, jobVars
  <2>3. CASE RefreshCommits(u)
    BY <2>3 DEF RefreshCommits, RefreshRow, RowMatches, rowVars, jobVars
  <2>4. CASE HeartbeatSucceeds(u)
    BY <2>4 DEF HeartbeatSucceeds, rowVars, jobVars
  <2>5. CASE HeartbeatSuperseded(u)
    BY <2>5 DEF HeartbeatSuperseded, LoseLease, EndHeartbeat, rowVars, jobVars
  <2>6. CASE HeartbeatError(u)
    BY <2>6 DEF HeartbeatError, LoseLease, EndHeartbeat, RefreshExpired,
       rowVars, jobVars
  <2>7. QED
    BY <1>4, <2>1, <2>2, <2>3, <2>4, <2>5, <2>6 DEF Heartbeat
<1>5. ASSUME NEW u \in Worker, WorkEnds(u) PROVE PhaseInv(w)'
  BY <1>5 DEF WorkEnds, rowVars, jobVars, hbVars
<1>6. ASSUME NEW u \in Worker, Cancel(u) PROVE PhaseInv(w)'
  <2>1. CASE CancelOutside(u)
    BY <1>6, <2>1 DEF CancelOutside, Cancel, Leave, rowVars
  <2>2. CASE CancelWait(u)
    BY <1>6, <2>2 DEF CancelWait, Cancel, rowVars, hbVars
  <2>3. CASE CancelSuppressed(u)
    BY <1>6, <2>3 DEF CancelSuppressed, Cancel, EndHeartbeat, rowVars
  <2>4. QED
    BY <1>6, <2>1, <2>2, <2>3 DEF Cancel
<1>7. ASSUME NEW u \in Worker, Crash(u) PROVE PhaseInv(w)'
  BY <1>7 DEF Crash, Leave, rowVars
<1>8. ASSUME NEW u \in Worker, Restart(u) PROVE PhaseInv(w)'
  BY <1>8 DEF Restart, rowVars, hbVars
<1>9. CASE Tick
  BY <1>9 DEF Tick, rowVars, jobVars, hbVars, Overdue
<1>10. QED
  BY <1>1, <1>2, <1>3, <1>4, <1>5, <1>6, <1>7, <1>8, <1>9 DEF Next

(***************************************************************************)
(* Work is awaited by its invocation, and cancelled after a lost lease     *)
(* only; the work that nobody awaits is that of a cancelled invocation.    *)
(***************************************************************************)
LEMMA WorkStep ==
  ASSUME TypeOK, NEW w \in Worker, PhaseInv(w), WorkInv(w), [Next]_vars
  PROVE  WorkInv(w)'
<1> USE DEF TypeOK, PhaseInv, WorkInv, Orphaned, PC, Acquiring, Releasing,
   InRefresh, Quiet
<1>1. CASE UNCHANGED vars
  BY <1>1 DEF vars, rowVars, jobVars, hbVars
<1>2. ASSUME NEW u \in Worker, Begin(u) PROVE WorkInv(w)'
  BY <1>2 DEF Begin, rowVars, hbVars
<1>3. ASSUME NEW u \in Worker, Invocation(u) PROVE WorkInv(w)'
  <2>1. CASE Insert(u)
    BY <2>1 DEF Insert, InsertRow, hbVars
  <2>2. CASE InsertConflict(u) \/ InsertError(u)
    BY <2>2 DEF InsertConflict, InsertError, rowVars, hbVars
  <2>3. CASE TakeOver(u)
    BY <2>3 DEF TakeOver, TakeOverRow, IsStale, hbVars
  <2>4. CASE Skip(u)
    BY <2>4 DEF Skip, Leave, rowVars
  <2>5. CASE AcquireError(u)
    BY <2>5 DEF AcquireError, Leave, rowVars
  <2>6. CASE StartTasks(u)
    BY <2>6 DEF StartTasks, rowVars
  <2>7. CASE ReturnResult(u)
    BY <2>7 DEF ReturnResult, rowVars, hbVars
  <2>8. CASE CancelWork(u)
    BY <2>8 DEF CancelWork, rowVars, hbVars
  <2>9. CASE RaiseLeaseLost(u)
    BY <2>9 DEF RaiseLeaseLost, rowVars, hbVars
  <2>10. CASE JoinHeartbeat(u)
    BY <2>10 DEF JoinHeartbeat, EndHeartbeat, rowVars
  <2>11. CASE Release(u)
    BY <2>11 DEF Release, DeleteRow, RowMatches, rowVars, hbVars
  <2>12. CASE Finish(u)
    BY <2>12 DEF Finish, Leave, rowVars
  <2>13. QED
    BY <1>3, <2>1, <2>2, <2>3, <2>4, <2>5, <2>6, <2>7, <2>8, <2>9, <2>10,
       <2>11, <2>12 DEF Invocation
<1>4. ASSUME NEW u \in Worker, Heartbeat(u) PROVE WorkInv(w)'
  <2>1. CASE HeartbeatStops(u)
    BY <2>1 DEF HeartbeatStops, StopEvent, EndHeartbeat, rowVars, jobVars
  <2>2. CASE HeartbeatWakes(u)
    BY <2>2 DEF HeartbeatWakes, rowVars, jobVars
  <2>3. CASE RefreshCommits(u)
    BY <2>3 DEF RefreshCommits, RefreshRow, RowMatches, rowVars, jobVars
  <2>4. CASE HeartbeatSucceeds(u)
    BY <2>4 DEF HeartbeatSucceeds, rowVars, jobVars
  <2>5. CASE HeartbeatSuperseded(u)
    BY <2>5 DEF HeartbeatSuperseded, LoseLease, EndHeartbeat, rowVars, jobVars
  <2>6. CASE HeartbeatError(u)
    BY <2>6 DEF HeartbeatError, LoseLease, EndHeartbeat, RefreshExpired,
       rowVars, jobVars
  <2>7. QED
    BY <1>4, <2>1, <2>2, <2>3, <2>4, <2>5, <2>6 DEF Heartbeat
<1>5. ASSUME NEW u \in Worker, WorkEnds(u) PROVE WorkInv(w)'
  BY <1>5 DEF WorkEnds, rowVars, jobVars, hbVars
<1>6. ASSUME NEW u \in Worker, Cancel(u) PROVE WorkInv(w)'
  <2>1. CASE CancelOutside(u)
    BY <1>6, <2>1 DEF CancelOutside, Cancel, Leave, rowVars
  <2>2. CASE CancelWait(u)
    BY <1>6, <2>2 DEF CancelWait, Cancel, rowVars, hbVars
  <2>3. CASE CancelSuppressed(u)
    BY <1>6, <2>3 DEF CancelSuppressed, Cancel, EndHeartbeat, rowVars
  <2>4. QED
    BY <1>6, <2>1, <2>2, <2>3 DEF Cancel
<1>7. ASSUME NEW u \in Worker, Crash(u) PROVE WorkInv(w)'
  BY <1>7 DEF Crash, Leave, rowVars
<1>8. ASSUME NEW u \in Worker, Restart(u) PROVE WorkInv(w)'
  BY <1>8 DEF Restart, rowVars, hbVars
<1>9. CASE Tick
  BY <1>9 DEF Tick, rowVars, jobVars, hbVars, Overdue
<1>10. QED
  BY <1>1, <1>2, <1>3, <1>4, <1>5, <1>6, <1>7, <1>8, <1>9 DEF Next

(***************************************************************************)
(* The row is never dated in its owner's future: a `now' is read before it *)
(* is written, on the clock of the host that writes it.                    *)
(***************************************************************************)
LEMMA RowStep ==
  ASSUME TypeOK, TokenInv, RowInv, \A w \in Worker : TimeInv(w), [Next]_vars
  PROVE  RowInv'
<1> USE SkewBound DEF Now, TypeOK, TokenInv, RowInv, TimeInv, PC, HB,
   Acquiring, Releasing, InRefresh, Quiet
<1>1. CASE UNCHANGED vars
  BY <1>1 DEF vars, rowVars, jobVars, hbVars
<1>2. ASSUME NEW u \in Worker, Begin(u) PROVE RowInv'
  <2>1. PICK t \in Token \ TokensInUse : token' = [token EXCEPT ![u] = t]
    BY <1>2 DEF Begin
  <2>2. t # rowToken
    BY <2>1 DEF TokensInUse
  <2>3. QED
    BY <1>2, <2>1, <2>2 DEF Begin, rowVars
<1>3. ASSUME NEW u \in Worker, Invocation(u) PROVE RowInv'
  <2>1. CASE Insert(u)
    <3>1. /\ rowToken' = token[u] /\ acquiredAt' = Now(u, startedAt[u])
          /\ token' = token /\ clock' = clock /\ startedAt[u] <= clock
      BY <2>1 DEF Insert, InsertRow
    <3>2. \A w \in Worker :
            w # u => token[w] # rowToken' \/ rowToken' = NoToken
      BY <3>1
    <3>3. QED
      BY <3>1, <3>2
  <2>2. CASE InsertConflict(u) \/ InsertError(u)
    BY <2>2 DEF InsertConflict, InsertError, rowVars, hbVars
  <2>3. CASE TakeOver(u)
    <3>1. /\ rowToken' = token[u] /\ acquiredAt' = Now(u, startedAt[u])
          /\ token' = token /\ clock' = clock /\ startedAt[u] <= clock
      BY <2>3 DEF TakeOver, TakeOverRow
    <3>2. \A w \in Worker :
            w # u => token[w] # rowToken' \/ rowToken' = NoToken
      BY <3>1
    <3>3. QED
      BY <3>1, <3>2
  <2>4. CASE Skip(u)
    BY <2>4 DEF Skip, Leave, rowVars
  <2>5. CASE AcquireError(u)
    BY <2>5 DEF AcquireError, Leave, rowVars
  <2>6. CASE StartTasks(u)
    BY <2>6 DEF StartTasks, rowVars
  <2>7. CASE ReturnResult(u)
    BY <2>7 DEF ReturnResult, rowVars, hbVars
  <2>8. CASE CancelWork(u)
    BY <2>8 DEF CancelWork, rowVars, hbVars
  <2>9. CASE RaiseLeaseLost(u)
    BY <2>9 DEF RaiseLeaseLost, rowVars, hbVars
  <2>10. CASE JoinHeartbeat(u)
    BY <2>10 DEF JoinHeartbeat, EndHeartbeat, rowVars
  <2>11. CASE Release(u)
    BY <2>11 DEF Release, DeleteRow, RowMatches, rowVars, hbVars
  <2>12. CASE Finish(u)
    BY <2>12 DEF Finish, Leave, rowVars
  <2>13. QED
    BY <1>3, <2>1, <2>2, <2>3, <2>4, <2>5, <2>6, <2>7, <2>8, <2>9, <2>10,
       <2>11, <2>12 DEF Invocation
<1>4. ASSUME NEW u \in Worker, Heartbeat(u) PROVE RowInv'
  <2>1. CASE HeartbeatStops(u)
    BY <2>1 DEF HeartbeatStops, StopEvent, EndHeartbeat, rowVars, jobVars
  <2>2. CASE HeartbeatWakes(u)
    BY <2>2 DEF HeartbeatWakes, rowVars, jobVars
  <2>3. CASE RefreshCommits(u)
    BY <2>3 DEF RefreshCommits, RefreshRow, RowMatches, rowVars, jobVars
  <2>4. CASE HeartbeatSucceeds(u)
    BY <2>4 DEF HeartbeatSucceeds, rowVars, jobVars
  <2>5. CASE HeartbeatSuperseded(u)
    BY <2>5 DEF HeartbeatSuperseded, LoseLease, EndHeartbeat, rowVars, jobVars
  <2>6. CASE HeartbeatError(u)
    BY <2>6 DEF HeartbeatError, LoseLease, EndHeartbeat, RefreshExpired,
       rowVars, jobVars
  <2>7. QED
    BY <1>4, <2>1, <2>2, <2>3, <2>4, <2>5, <2>6 DEF Heartbeat
<1>5. ASSUME NEW u \in Worker, WorkEnds(u) PROVE RowInv'
  BY <1>5 DEF WorkEnds, rowVars, jobVars, hbVars
<1>6. ASSUME NEW u \in Worker, Cancel(u) PROVE RowInv'
  <2>1. CASE CancelOutside(u)
    BY <1>6, <2>1 DEF CancelOutside, Cancel, Leave, rowVars
  <2>2. CASE CancelWait(u)
    BY <1>6, <2>2 DEF CancelWait, Cancel, rowVars, hbVars
  <2>3. CASE CancelSuppressed(u)
    BY <1>6, <2>3 DEF CancelSuppressed, Cancel, EndHeartbeat, rowVars
  <2>4. QED
    BY <1>6, <2>1, <2>2, <2>3 DEF Cancel
<1>7. ASSUME NEW u \in Worker, Crash(u) PROVE RowInv'
  BY <1>7 DEF Crash, Leave, rowVars
<1>8. ASSUME NEW u \in Worker, Restart(u) PROVE RowInv'
  BY <1>8 DEF Restart, rowVars, hbVars
<1>9. CASE Tick
  BY <1>9 DEF Tick, rowVars, jobVars, hbVars
<1>10. QED
  BY <1>1, <1>2, <1>3, <1>4, <1>5, <1>6, <1>7, <1>8, <1>9 DEF Next

(***************************************************************************)
(* The captured times stay as recent as the delays allow, and a failing    *)
(* heartbeat sleeps only while it has not used up the stale-lock window.   *)
(***************************************************************************)
LEMMA TimeStep ==
  ASSUME TypeOK, NEW w \in Worker, PhaseInv(w), TimeInv(w), [Next]_vars
  PROVE  TimeInv(w)'
<1> USE IntervalAssumption, TimeAssumption DEF TypeOK, PhaseInv, TimeInv,
   StaleThreshold, PC, HB, Acquiring, Releasing, InRefresh, Quiet
<1>1. CASE UNCHANGED vars
  BY <1>1 DEF vars, rowVars, jobVars, hbVars
<1>2. ASSUME NEW u \in Worker, Begin(u) PROVE TimeInv(w)'
  BY <1>2 DEF Begin, rowVars, hbVars
<1>3. ASSUME NEW u \in Worker, Invocation(u) PROVE TimeInv(w)'
  <2>1. CASE Insert(u)
    BY <2>1 DEF Insert, InsertRow, hbVars
  <2>2. CASE InsertConflict(u) \/ InsertError(u)
    BY <2>2 DEF InsertConflict, InsertError, rowVars, hbVars
  <2>3. CASE TakeOver(u)
    BY <2>3 DEF TakeOver, TakeOverRow, IsStale, hbVars
  <2>4. CASE Skip(u)
    BY <2>4 DEF Skip, Leave, rowVars
  <2>5. CASE AcquireError(u)
    BY <2>5 DEF AcquireError, Leave, rowVars
  <2>6. CASE StartTasks(u)
    BY <2>6 DEF StartTasks, rowVars
  <2>7. CASE ReturnResult(u)
    BY <2>7 DEF ReturnResult, rowVars, hbVars
  <2>8. CASE CancelWork(u)
    BY <2>8 DEF CancelWork, rowVars, hbVars
  <2>9. CASE RaiseLeaseLost(u)
    BY <2>9 DEF RaiseLeaseLost, rowVars, hbVars
  <2>10. CASE JoinHeartbeat(u)
    BY <2>10 DEF JoinHeartbeat, EndHeartbeat, rowVars
  <2>11. CASE Release(u)
    BY <2>11 DEF Release, DeleteRow, RowMatches, rowVars, hbVars
  <2>12. CASE Finish(u)
    BY <2>12 DEF Finish, Leave, rowVars
  <2>13. QED
    BY <1>3, <2>1, <2>2, <2>3, <2>4, <2>5, <2>6, <2>7, <2>8, <2>9, <2>10,
       <2>11, <2>12 DEF Invocation
<1>4. ASSUME NEW u \in Worker, Heartbeat(u) PROVE TimeInv(w)'
  <2>1. CASE HeartbeatStops(u)
    BY <2>1 DEF HeartbeatStops, StopEvent, EndHeartbeat, rowVars, jobVars
  <2>2. CASE HeartbeatWakes(u)
    BY <2>2 DEF HeartbeatWakes, rowVars, jobVars
  <2>3. CASE RefreshCommits(u)
    BY <2>3 DEF RefreshCommits, RefreshRow, RowMatches, rowVars, jobVars
  <2>4. CASE HeartbeatSucceeds(u)
    BY <2>4 DEF HeartbeatSucceeds, rowVars, jobVars
  <2>5. CASE HeartbeatSuperseded(u)
    BY <2>5 DEF HeartbeatSuperseded, LoseLease, EndHeartbeat, rowVars, jobVars
  <2>6. CASE HeartbeatError(u)
    BY <2>6 DEF HeartbeatError, LoseLease, EndHeartbeat, RefreshExpired,
       rowVars, jobVars
  <2>7. QED
    BY <1>4, <2>1, <2>2, <2>3, <2>4, <2>5, <2>6 DEF Heartbeat
<1>5. ASSUME NEW u \in Worker, WorkEnds(u) PROVE TimeInv(w)'
  BY <1>5 DEF WorkEnds, rowVars, jobVars, hbVars
<1>6. ASSUME NEW u \in Worker, Cancel(u) PROVE TimeInv(w)'
  <2>1. CASE CancelOutside(u)
    BY <1>6, <2>1 DEF CancelOutside, Cancel, Leave, rowVars
  <2>2. CASE CancelWait(u)
    BY <1>6, <2>2 DEF CancelWait, Cancel, rowVars, hbVars
  <2>3. CASE CancelSuppressed(u)
    BY <1>6, <2>3 DEF CancelSuppressed, Cancel, EndHeartbeat, rowVars
  <2>4. QED
    BY <1>6, <2>1, <2>2, <2>3 DEF Cancel
<1>7. ASSUME NEW u \in Worker, Crash(u) PROVE TimeInv(w)'
  BY <1>7 DEF Crash, Leave, rowVars
<1>8. ASSUME NEW u \in Worker, Restart(u) PROVE TimeInv(w)'
  BY <1>8 DEF Restart, rowVars, hbVars
<1>9. CASE Tick
  BY <1>9 DEF Tick, rowVars, jobVars, hbVars, Overdue
<1>10. QED
  BY <1>1, <1>2, <1>3, <1>4, <1>5, <1>6, <1>7, <1>8, <1>9 DEF Next

(***************************************************************************)
(* What the owner of the row knows about acquired_at: only its own         *)
(* statements write it.                                                    *)
(***************************************************************************)
LEMMA OwnerStep ==
  ASSUME TypeOK, TokenInv, RowInv, NEW w \in Worker, \A v \in Worker :
         PhaseInv(v) /\ TimeInv(v), OwnerInv(w), [Next]_vars
  PROVE  OwnerInv(w)'
<1> USE IntervalAssumption, TimeAssumption, SkewBound DEF Now, TypeOK,
   TokenInv, RowInv,
   PhaseInv, TimeInv, OwnerInv, HbActive, StaleThreshold, PC, HB, Acquiring,
   Releasing, InRefresh, Quiet
<1>1. CASE UNCHANGED vars
  BY <1>1 DEF vars, rowVars, jobVars, hbVars
<1>2. ASSUME NEW u \in Worker, Begin(u) PROVE OwnerInv(w)'
  BY <1>2 DEF Begin, rowVars, hbVars
<1>3. ASSUME NEW u \in Worker, Invocation(u) PROVE OwnerInv(w)'
  <2>1. CASE Insert(u)
    <3>1. /\ rowToken' = token[u] /\ token[u] # NoToken
          /\ acquiredAt' = Now(u, startedAt[u])
      BY <2>1 DEF Insert, InsertRow
    <3>2. CASE u = w
      <4>1. hb'[w] = "none" /\ startedAt' = startedAt
        BY <2>1, <3>2 DEF Insert, hbVars
      <4>2. QED
        BY <3>1, <3>2, <4>1
    <3>3. CASE u # w
      <4>1. token'[w] # rowToken'
        BY <2>1, <3>1, <3>3 DEF Insert
      <4>2. QED
        BY <4>1
    <3>4. QED
      BY <3>2, <3>3
  <2>2. CASE InsertConflict(u) \/ InsertError(u)
    BY <2>2 DEF InsertConflict, InsertError, rowVars, hbVars
  <2>3. CASE TakeOver(u)
    <3>1. /\ rowToken' = token[u] /\ token[u] # NoToken
          /\ acquiredAt' = Now(u, startedAt[u])
      BY <2>3 DEF TakeOver, TakeOverRow
    <3>2. CASE u = w
      <4>1. hb'[w] = "none" /\ startedAt' = startedAt
        BY <2>3, <3>2 DEF TakeOver, hbVars
      <4>2. QED
        BY <3>1, <3>2, <4>1
    <3>3. CASE u # w
      <4>1. token'[w] # rowToken'
        BY <2>3, <3>1, <3>3 DEF TakeOver
      <4>2. QED
        BY <4>1
    <3>4. QED
      BY <3>2, <3>3
  <2>4. CASE Skip(u)
    BY <2>4 DEF Skip, Leave, rowVars
  <2>5. CASE AcquireError(u)
    BY <2>5 DEF AcquireError, Leave, rowVars
  <2>6. CASE StartTasks(u)
    BY <2>6 DEF StartTasks, rowVars
  <2>7. CASE ReturnResult(u)
    BY <2>7 DEF ReturnResult, rowVars, hbVars
  <2>8. CASE CancelWork(u)
    BY <2>8 DEF CancelWork, rowVars, hbVars
  <2>9. CASE RaiseLeaseLost(u)
    BY <2>9 DEF RaiseLeaseLost, rowVars, hbVars
  <2>10. CASE JoinHeartbeat(u)
    BY <2>10 DEF JoinHeartbeat, EndHeartbeat, rowVars
  <2>11. CASE Release(u)
    BY <2>11 DEF Release, DeleteRow, RowMatches, rowVars, hbVars
  <2>12. CASE Finish(u)
    BY <2>12 DEF Finish, Leave, rowVars
  <2>13. QED
    BY <1>3, <2>1, <2>2, <2>3, <2>4, <2>5, <2>6, <2>7, <2>8, <2>9, <2>10,
       <2>11, <2>12 DEF Invocation
<1>4. ASSUME NEW u \in Worker, Heartbeat(u) PROVE OwnerInv(w)'
  <2>1. CASE HeartbeatStops(u)
    BY <2>1 DEF HeartbeatStops, StopEvent, EndHeartbeat, rowVars, jobVars
  <2>2. CASE HeartbeatWakes(u)
    BY <2>2 DEF HeartbeatWakes, rowVars, jobVars
  <2>3. CASE RefreshCommits(u)
    BY <2>3 DEF RefreshCommits, RefreshRow, RowMatches, rowVars, jobVars
  <2>4. CASE HeartbeatSucceeds(u)
    BY <2>4 DEF HeartbeatSucceeds, rowVars, jobVars
  <2>5. CASE HeartbeatSuperseded(u)
    BY <2>5 DEF HeartbeatSuperseded, LoseLease, EndHeartbeat, rowVars, jobVars
  <2>6. CASE HeartbeatError(u)
    BY <2>6 DEF HeartbeatError, LoseLease, EndHeartbeat, RefreshExpired,
       rowVars, jobVars
  <2>7. QED
    BY <1>4, <2>1, <2>2, <2>3, <2>4, <2>5, <2>6 DEF Heartbeat
<1>5. ASSUME NEW u \in Worker, WorkEnds(u) PROVE OwnerInv(w)'
  BY <1>5 DEF WorkEnds, rowVars, jobVars, hbVars
<1>6. ASSUME NEW u \in Worker, Cancel(u) PROVE OwnerInv(w)'
  <2>1. CASE CancelOutside(u)
    BY <1>6, <2>1 DEF CancelOutside, Cancel, Leave, rowVars
  <2>2. CASE CancelWait(u)
    BY <1>6, <2>2 DEF CancelWait, Cancel, rowVars, hbVars
  <2>3. CASE CancelSuppressed(u)
    BY <1>6, <2>3 DEF CancelSuppressed, Cancel, EndHeartbeat, rowVars
  <2>4. QED
    BY <1>6, <2>1, <2>2, <2>3 DEF Cancel
<1>7. ASSUME NEW u \in Worker, Crash(u) PROVE OwnerInv(w)'
  BY <1>7 DEF Crash, Leave, rowVars
<1>8. ASSUME NEW u \in Worker, Restart(u) PROVE OwnerInv(w)'
  BY <1>8 DEF Restart, rowVars, hbVars
<1>9. CASE Tick
  BY <1>9 DEF Tick, rowVars, jobVars, hbVars
<1>10. QED
  BY <1>1, <1>2, <1>3, <1>4, <1>5, <1>6, <1>7, <1>8, <1>9 DEF Next

(***************************************************************************)
(* A worker loses its row to a takeover, which needs the row to be stale;  *)
(* from then on the clock only moves on.                                   *)
(***************************************************************************)
LEMMA SupersededStep ==
  ASSUME TypeOK, TokenInv, RowInv, NEW w \in Worker, \A v \in Worker :
         PhaseInv(v) /\ TimeInv(v), OwnerInv(w), SupersededInv(w), [Next]_vars
  PROVE  SupersededInv(w)'
<1> USE IntervalAssumption, TimeAssumption, SkewBound DEF Now, TypeOK,
   TokenInv, RowInv,
   PhaseInv, TimeInv, OwnerInv, SupersededInv, HbActive, StaleThreshold, PC,
   HB, Acquiring, Releasing, InRefresh, Quiet
<1>1. CASE UNCHANGED vars
  BY <1>1 DEF vars, rowVars, jobVars, hbVars
<1>2. ASSUME NEW u \in Worker, Begin(u) PROVE SupersededInv(w)'
  BY <1>2 DEF Begin, rowVars, hbVars
<1>3. ASSUME NEW u \in Worker, Invocation(u) PROVE SupersededInv(w)'
  <2>1. CASE Insert(u)
    BY <2>1 DEF Insert, InsertRow, hbVars
  <2>2. CASE InsertConflict(u) \/ InsertError(u)
    BY <2>2 DEF InsertConflict, InsertError, rowVars, hbVars
  <2>3. CASE TakeOver(u)
    BY <2>3 DEF TakeOver, TakeOverRow, IsStale, hbVars
  <2>4. CASE Skip(u)
    BY <2>4 DEF Skip, Leave, rowVars
  <2>5. CASE AcquireError(u)
    BY <2>5 DEF AcquireError, Leave, rowVars
  <2>6. CASE StartTasks(u)
    BY <2>6 DEF StartTasks, rowVars
  <2>7. CASE ReturnResult(u)
    BY <2>7 DEF ReturnResult, rowVars, hbVars
  <2>8. CASE CancelWork(u)
    BY <2>8 DEF CancelWork, rowVars, hbVars
  <2>9. CASE RaiseLeaseLost(u)
    BY <2>9 DEF RaiseLeaseLost, rowVars, hbVars
  <2>10. CASE JoinHeartbeat(u)
    BY <2>10 DEF JoinHeartbeat, EndHeartbeat, rowVars
  <2>11. CASE Release(u)
    BY <2>11 DEF Release, DeleteRow, RowMatches, rowVars, hbVars
  <2>12. CASE Finish(u)
    BY <2>12 DEF Finish, Leave, rowVars
  <2>13. QED
    BY <1>3, <2>1, <2>2, <2>3, <2>4, <2>5, <2>6, <2>7, <2>8, <2>9, <2>10,
       <2>11, <2>12 DEF Invocation
<1>4. ASSUME NEW u \in Worker, Heartbeat(u) PROVE SupersededInv(w)'
  <2>1. CASE HeartbeatStops(u)
    BY <2>1 DEF HeartbeatStops, StopEvent, EndHeartbeat, rowVars, jobVars
  <2>2. CASE HeartbeatWakes(u)
    BY <2>2 DEF HeartbeatWakes, rowVars, jobVars
  <2>3. CASE RefreshCommits(u)
    BY <2>3 DEF RefreshCommits, RefreshRow, RowMatches, rowVars, jobVars
  <2>4. CASE HeartbeatSucceeds(u)
    BY <2>4 DEF HeartbeatSucceeds, rowVars, jobVars
  <2>5. CASE HeartbeatSuperseded(u)
    BY <2>5 DEF HeartbeatSuperseded, LoseLease, EndHeartbeat, rowVars, jobVars
  <2>6. CASE HeartbeatError(u)
    BY <2>6 DEF HeartbeatError, LoseLease, EndHeartbeat, RefreshExpired,
       rowVars, jobVars
  <2>7. QED
    BY <1>4, <2>1, <2>2, <2>3, <2>4, <2>5, <2>6 DEF Heartbeat
<1>5. ASSUME NEW u \in Worker, WorkEnds(u) PROVE SupersededInv(w)'
  BY <1>5 DEF WorkEnds, rowVars, jobVars, hbVars
<1>6. ASSUME NEW u \in Worker, Cancel(u) PROVE SupersededInv(w)'
  <2>1. CASE CancelOutside(u)
    BY <1>6, <2>1 DEF CancelOutside, Cancel, Leave, rowVars
  <2>2. CASE CancelWait(u)
    BY <1>6, <2>2 DEF CancelWait, Cancel, rowVars, hbVars
  <2>3. CASE CancelSuppressed(u)
    BY <1>6, <2>3 DEF CancelSuppressed, Cancel, EndHeartbeat, rowVars
  <2>4. QED
    BY <1>6, <2>1, <2>2, <2>3 DEF Cancel
<1>7. ASSUME NEW u \in Worker, Crash(u) PROVE SupersededInv(w)'
  BY <1>7 DEF Crash, Leave, rowVars
<1>8. ASSUME NEW u \in Worker, Restart(u) PROVE SupersededInv(w)'
  BY <1>8 DEF Restart, rowVars, hbVars
<1>9. CASE Tick
  BY <1>9 DEF Tick, rowVars, jobVars, hbVars
<1>10. QED
  BY <1>1, <1>2, <1>3, <1>4, <1>5, <1>6, <1>7, <1>8, <1>9 DEF Next

(* The inductive invariant holds before the first invocation.              *)
LEMMA IInvInit == Init => IInv
  BY IntervalAssumption, TimeAssumption, SkewBound, TypeInit
     DEF Now, Init, RowInit, IInv, TokenInv, RowInv, PhaseInv, WorkInv,
         TimeInv, OwnerInv, SupersededInv, TypeOK, Quiet, Acquiring, Releasing, InRefresh,
         HbActive, StaleThreshold

(* The inductive invariant is kept by every step of every worker.          *)
LEMMA IInvStep == IInv /\ [Next]_vars => IInv'
<1> SUFFICES ASSUME IInv, [Next]_vars PROVE IInv'
  OBVIOUS
<1>1. TypeOK'
  BY TypeStep DEF IInv
<1>2. TokenInv'
  BY <1>1, TokenStep DEF IInv
<1>3. RowInv'
  BY RowStep DEF IInv
<1>4. ASSUME NEW w \in Worker
      PROVE  /\ PhaseInv(w)' /\ WorkInv(w)' /\ TimeInv(w)'
             /\ OwnerInv(w)' /\ SupersededInv(w)'
  <2>1. PhaseInv(w)' /\ WorkInv(w)' /\ TimeInv(w)'
    BY PhaseStep, WorkStep, TimeStep DEF IInv
  <2>2. OwnerInv(w)'
    BY OwnerStep DEF IInv
  <2>3. SupersededInv(w)'
    BY SupersededStep DEF IInv
  <2>4. QED
    BY <2>1, <2>2, <2>3
<1>5. QED
  BY <1>1, <1>2, <1>3, <1>4 DEF IInv

(* The inductive invariant holds in every state of the protocol.           *)
THEOREM Invariance == Spec => []IInv
  BY IInvInit, IInvStep, PTL DEF Spec

-----------------------------------------------------------------------------
(* The properties                                                          *)

(* A row is taken from a supervised worker only after its lease is over.   *)
LEMMA LeaseHonouredHolds == IInv => LeaseHonoured
  BY DEF IInv, LeaseHonoured, Supervised, PhaseInv, SupersededInv

(***************************************************************************)
(* A supervised worker keeps its row for the stale-lock window after its   *)
(* last confirmed refresh, less MaxDelay (acquire and refresh write a time *)
(* read before the call, the worker counts from its return) and MaxSkew    *)
(* (another host's clock decides when the row is stale).                   *)
(***************************************************************************)
THEOREM LeaseSafety == Spec => []LeaseHonoured
  BY Invariance, LeaseHonouredHolds, PTL

(* Supervision ends within a heartbeat and two delays of the lease.        *)
LEMMA StandsDownHolds == IInv => StandsDown
<1> SUFFICES ASSUME IInv, NEW w \in Worker, Supervised(w)
             PROVE  clock <= refreshedAt[w] + StaleThreshold
                               + Interval + 2 * MaxDelay
  BY DEF StandsDown
<1>1. hb[w] = "sleep" \/ hb[w] \in InRefresh
  BY DEF IInv, PhaseInv, Supervised, HbActive
<1>2. TypeOK /\ TimeInv(w)
  BY DEF IInv
<1>3. QED
  BY <1>1, <1>2, IntervalAssumption, TimeAssumption
     DEF TimeInv, TypeOK, StaleThreshold

(***************************************************************************)
(* A supervised worker has had a refresh confirmed within the stale-lock   *)
(* window, one heartbeat and two delays: otherwise it has stood down.      *)
(***************************************************************************)
THEOREM StandDownSafety == Spec => []StandsDown
  BY Invariance, StandsDownHolds, PTL

(* Two rows cannot exist: of two supervised workers one has lost the row.  *)
LEMMA SupervisedExclusive ==
  ASSUME IInv, NEW v \in Worker, NEW w \in Worker, v # w,
         Supervised(v), Supervised(w)
  PROVE  Expiring(v) \/ Expiring(w)
<1>1. token[v] # token[w]
  BY DEF IInv, TokenInv, Supervised, Quiet
<1>2. rowToken # token[v] \/ rowToken # token[w]
  BY <1>1
<1>3. QED
  BY <1>2, LeaseHonouredHolds DEF LeaseHonoured, Expiring

(* Work that runs is supervised, being stopped, or orphaned by a shutdown. *)
LEMMA RunningExplained ==
  ASSUME IInv, NEW w \in Worker, Running(w)
  PROVE  \/ Supervised(w)
         \/ pc[w] \in {"waiting", "cancelling"} /\ lost[w]
         \/ Orphaned(w)
<1>1. TypeOK /\ WorkInv(w)
  BY DEF IInv
<1>2. QED
  BY <1>1 DEF Running, Supervised, WorkInv, TypeOK

(* The cases together.                                                     *)
LEMMA ExclusionHolds == IInv => Exclusion
<1> SUFFICES ASSUME IInv, NEW v \in Worker, NEW w \in Worker, v # w,
                    Running(v), Running(w)
             PROVE  \E u \in {v, w} :
                      \/ Supervised(u) /\ Expiring(u)
                      \/ pc[u] \in {"waiting", "cancelling"} /\ lost[u]
                      \/ Orphaned(u)
  BY DEF Exclusion
<1>1. CASE Supervised(v) /\ Supervised(w)
  BY <1>1, SupervisedExclusive
<1>2. CASE ~(Supervised(v) /\ Supervised(w))
  BY <1>2, RunningExplained
<1>3. QED
  BY <1>1, <1>2

(***************************************************************************)
(* Whenever the work of the job runs twice, one of the two has gone        *)
(* without a confirmed refresh for nearly the stale-lock window, is being  *)
(* cancelled for it, or was left behind by a shutdown.                     *)
(***************************************************************************)
THEOREM ExclusionSafety == Spec => []Exclusion
  BY Invariance, ExclusionHolds, PTL

(* A release that no cancellation caused has collected its work.           *)
LEMMA ReleasedAfterWorkHolds == IInv => ReleasedAfterWork
  BY DEF IInv, ReleasedAfterWork, PhaseInv, Running, Releasing

(***************************************************************************)
(* Unless the invocation was cancelled from outside, its work is over when *)
(* its row is released.                                                    *)
(***************************************************************************)
THEOREM ReleaseSafety == Spec => []ReleasedAfterWork
  BY Invariance, ReleasedAfterWorkHolds, PTL

(***************************************************************************)
(* Only four statements write the row.                                     *)
(***************************************************************************)
RowWritten(u) == Insert(u) \/ TakeOver(u) \/ RefreshCommits(u) \/ Release(u)

(* Only the steps of acquire, refresh and release write the row.           *)
LEMMA RowWriters ==
  ASSUME [Next]_vars
  PROVE  UNCHANGED rowVars \/ \E u \in Worker : RowWritten(u)
<1>1. ASSUME NEW u \in Worker, Invocation(u)
      PROVE  UNCHANGED rowVars \/ RowWritten(u)
  BY <1>1 DEF Invocation, InsertConflict, InsertError, Skip, AcquireError,
     StartTasks, ReturnResult, CancelWork, RaiseLeaseLost, JoinHeartbeat, Finish,
     RowWritten
<1>2. ASSUME NEW u \in Worker, Heartbeat(u)
      PROVE  UNCHANGED rowVars \/ RowWritten(u)
  BY <1>2 DEF Heartbeat, HeartbeatStops, HeartbeatWakes, HeartbeatSucceeds,
     HeartbeatSuperseded, HeartbeatError, RowWritten
<1>3. QED
  BY <1>1, <1>2 DEF Next, vars, Begin, WorkEnds, Cancel, Crash, Restart, Tick

(* Each writer of the row respects its age or its owner.                   *)
LEMMA FencingStep == IInv /\ [Next]_vars => [RowFenced]_vars
<1> SUFFICES ASSUME IInv, [Next]_vars, rowToken # NoToken, rowToken' # rowToken
             PROVE  RowFenced
  BY DEF RowFenced
<1>1. PICK u \in Worker : RowWritten(u)
  BY RowWriters DEF rowVars
<1>2. TypeOK /\ TimeInv(u)
  BY DEF IInv
<1>3. CASE Insert(u)
  BY <1>3 DEF Insert, InsertRow
<1>4. CASE TakeOver(u)
  <2>1. rowToken' # NoToken
    BY <1>4 DEF TakeOver, TakeOverRow, IInv, TokenInv, Quiet
  <2>2. /\ acquiredAt <= Now(u, startedAt[u]) - StaleThreshold
        /\ startedAt[u] <= clock
    BY <1>2, <1>4 DEF TakeOver, TakeOverRow, IsStale, TimeInv, Acquiring
  <2>3. /\ acquiredAt \in Nat /\ startedAt[u] \in Nat /\ clock \in Nat
        /\ StaleThreshold \in Nat /\ Ahead[u] \in Nat
    BY <1>2, IntervalAssumption, SkewBound DEF TypeOK, StaleThreshold
  <2>4. acquiredAt + StaleThreshold <= Now(u, clock)
    BY <2>2, <2>3 DEF Now
  <2>5. token[u] = rowToken'
    BY <1>4 DEF TakeOver, TakeOverRow
  <2>6. QED
    BY <2>4, <2>5 DEF RowFenced
<1>5. CASE RefreshCommits(u)
  BY <1>5 DEF RefreshCommits, RefreshRow, rowVars
<1>6. CASE Release(u)
  BY <1>6 DEF Release, DeleteRow, RowMatches, RowFenced, rowVars
<1>7. QED
  BY <1>1, <1>3, <1>4, <1>5, <1>6 DEF RowWritten

(***************************************************************************)
(* No step of any worker takes a row from its owner before it is stale or  *)
(* deletes a row of another.                                               *)
(***************************************************************************)
THEOREM FencingSafety == Spec => Fencing
  BY Invariance, FencingStep, PTL DEF Spec, Fencing

(* Each writer of the row sets acquired_at to a later time than it finds.  *)
LEMMA AcquiredAtStep == IInv /\ [Next]_vars => [RowAgesForward]_vars
<1> SUFFICES ASSUME IInv, [Next]_vars, rowToken # NoToken, rowToken' # NoToken,
                    acquiredAt' # acquiredAt
             PROVE  acquiredAt' >= acquiredAt
  BY DEF RowAgesForward, IInv, TypeOK
<1>1. PICK u \in Worker : RowWritten(u)
  BY RowWriters DEF rowVars
<1>2. TypeOK /\ TimeInv(u) /\ OwnerInv(u)
  BY DEF IInv
<1>3. CASE Insert(u)
  BY <1>3 DEF Insert, InsertRow
<1>4. CASE TakeOver(u)
  <2>1. /\ acquiredAt <= Now(u, startedAt[u]) - StaleThreshold
        /\ acquiredAt' = Now(u, startedAt[u])
    BY <1>4 DEF TakeOver, TakeOverRow, IsStale
  <2>2. /\ acquiredAt \in Nat /\ Now(u, startedAt[u]) \in Nat
        /\ StaleThreshold \in Nat
    BY <1>2, IntervalAssumption, SkewBound DEF Now, TypeOK, StaleThreshold
  <2>3. QED
    BY <2>1, <2>2
<1>5. CASE RefreshCommits(u)
  BY <1>2, <1>5, SkewBound
     DEF Now, RefreshCommits, RefreshRow, RowMatches, rowVars, OwnerInv, TypeOK
<1>6. CASE Release(u)
  BY <1>6 DEF Release, DeleteRow, RowMatches, rowVars
<1>7. QED
  BY <1>1, <1>3, <1>4, <1>5, <1>6 DEF RowWritten

(***************************************************************************)
(* The acquired_at of an existing row never goes back.                     *)
(***************************************************************************)
THEOREM AcquiredAtSafety == Spec => AcquiredAtAdvances
  BY Invariance, AcquiredAtStep, PTL DEF Spec, AcquiredAtAdvances

(* A token is kept, forgotten, or drawn fresh: none is drawn that is in    *)
(* the row.                                                                *)
LEMMA TokenSources ==
  ASSUME TypeOK, [Next]_vars, NEW w \in Worker
  PROVE  token'[w] \in {token[w], NoToken} \/ token'[w] # rowToken
<1>0. token \in [Worker -> Token \cup {NoToken}]
  BY DEF TypeOK
<1>1. ASSUME NEW u \in Worker, Begin(u)
      PROVE  token'[w] \in {token[w], NoToken} \/ token'[w] # rowToken
  BY <1>0, <1>1 DEF Begin, TokensInUse
<1>2. ASSUME NEW u \in Worker,
             UNCHANGED token \/ token' = [token EXCEPT ![u] = NoToken]
      PROVE  token'[w] \in {token[w], NoToken}
  BY <1>0, <1>2
<1>3. ASSUME NEW u \in Worker, Invocation(u)
      PROVE  UNCHANGED token \/ token' = [token EXCEPT ![u] = NoToken]
  BY <1>3 DEF Invocation, Insert, InsertConflict, InsertError, TakeOver, Skip,
     AcquireError, StartTasks, ReturnResult, CancelWork, RaiseLeaseLost, JoinHeartbeat,
     Release, Finish, Leave, jobVars
<1>4. ASSUME NEW u \in Worker, Heartbeat(u)
      PROVE  UNCHANGED token
  BY <1>4 DEF Heartbeat, HeartbeatStops, HeartbeatWakes, RefreshCommits,
     HeartbeatSucceeds, HeartbeatSuperseded, HeartbeatError, jobVars
<1>5. ASSUME NEW u \in Worker,
             WorkEnds(u) \/ Cancel(u) \/ Crash(u) \/ Restart(u)
      PROVE  UNCHANGED token \/ token' = [token EXCEPT ![u] = NoToken]
  BY <1>5 DEF WorkEnds, Cancel, CancelOutside, CancelWait, CancelSuppressed,
     Crash, Restart, Leave, jobVars
<1>6. CASE Tick \/ UNCHANGED vars
  BY <1>6 DEF Tick, vars, jobVars
<1>7. QED
  BY <1>1, <1>2, <1>3, <1>4, <1>5, <1>6 DEF Next

(* An ownerless row is nobody's to refresh or to release ...               *)
LEMMA OwnerlessStep ==
  ASSUME IInv, [Next]_vars, Ownerless
  PROVE  (\E w \in Worker : TakeOver(w)) \/ (Ownerless' /\ UNCHANGED rowVars)
<1>1. TypeOK /\ rowToken # NoToken /\ \A w \in Worker : token[w] # rowToken
  BY DEF IInv, Ownerless
<1>2. ASSUME UNCHANGED rowVars PROVE Ownerless'
  <2>1. \A w \in Worker : token'[w] # rowToken
    BY <1>1, TokenSources
  <2>2. QED
    BY <1>1, <1>2, <2>1 DEF Ownerless, rowVars
<1>3. ASSUME NEW u \in Worker, RowWritten(u)
      PROVE  TakeOver(u) \/ UNCHANGED rowVars
  <2>1. CASE Insert(u)
    BY <1>1, <2>1 DEF Insert, InsertRow
  <2>2. CASE RefreshCommits(u)
    BY <1>1, <2>2 DEF RefreshCommits, RefreshRow, RowMatches
  <2>3. CASE Release(u)
    BY <1>1, <2>3 DEF Release, DeleteRow, RowMatches
  <2>4. QED
    BY <1>3, <2>1, <2>2, <2>3 DEF RowWritten
<1>4. QED
  BY <1>2, <1>3, RowWriters

(* ... and a challenger whose `now' is recent enough finds it stale.       *)
LEMMA SkippedEarly ==
  ASSUME IInv, NEW w \in Worker, Skip(w), rowToken # NoToken
  PROVE  clock < acquiredAt + StaleThreshold + MaxDelay
<1>1. TypeOK /\ TimeInv(w)
  BY DEF IInv
<1>2. /\ acquiredAt \in Nat /\ startedAt[w] \in Nat /\ clock \in Nat
      /\ StaleThreshold \in Nat /\ Ahead[w] \in Nat /\ MaxDelay \in Nat
  BY <1>1, IntervalAssumption, TimeAssumption, SkewBound
     DEF TypeOK, StaleThreshold
<1>3. clock <= startedAt[w] + MaxDelay
  BY <1>1 DEF Skip, TimeInv, Acquiring
<1>4. acquiredAt > startedAt[w] + Ahead[w] - StaleThreshold
  BY <1>2 DEF Skip, IsStale, Now
<1>5. QED
  BY <1>2, <1>3, <1>4

(***************************************************************************)
(* The safety half of recovery, for any number of workers: a row that a    *)
(* crash, a failed release or a cancelled acquire left behind stays as it  *)
(* is until a challenger takes it, and none is turned away from it later   *)
(* than the stale-lock window and MaxDelay after its date.                 *)
(***************************************************************************)
THEOREM RecoverySafety == Spec => OwnerlessRowYields
<1>1. IInv /\ [Next]_vars => [RowYields]_vars
  BY OwnerlessStep, SkippedEarly DEF RowYields
<1>2. QED
  BY <1>1, Invariance, PTL DEF Spec, OwnerlessRowYields

-----------------------------------------------------------------------------
(* ExclusiveJob implements JobLease                                        *)

Until == [w \in Worker |-> LeaseEnd(w)]
UntilVars(w) == <<pc[w], work[w], lost[w], refreshedAt[w]>>

(***************************************************************************)
(* A step after which u is not supervised and that leaves the row and the  *)
(* other workers alone: at most, u forgets its token.                      *)
(***************************************************************************)
Quits(u) ==
    /\ ~Supervised(u)'
    /\ \A v \in Worker : v # u => UNCHANGED UntilVars(v)
    /\ \/ token' = token
       \/ token' = [token EXCEPT ![u] = NoToken]
    /\ UNCHANGED <<rowVars, clock>>

(* For the lease such a step is a worker that gives up.                    *)
LEMMA QuitsGivesUp ==
  ASSUME TypeOK, NEW u \in Worker, Quits(u)
  PROVE  Lease!GiveUp(u)
<1>1. Until' = [Until EXCEPT ![u] = 0]
  <2>1. LeaseEnd(u)' = 0
    BY DEF Quits, LeaseEnd
  <2>2. ASSUME NEW v \in Worker, v # u PROVE LeaseEnd(v)' = LeaseEnd(v)
    BY <2>2 DEF Quits, LeaseEnd, Supervised, UntilVars
  <2>3. QED
    BY <2>1, <2>2 DEF Until
<1>2. Owner' \in {Owner, Owner \ {u}}
  <2>1. CASE token' = token
    BY <2>1 DEF Quits, Owner, rowVars
  <2>2. CASE token' = [token EXCEPT ![u] = NoToken]
    <3>1. rowToken' = rowToken /\ \A v \in Worker :
             token'[v] = IF v = u THEN NoToken ELSE token[v]
      BY <2>2 DEF Quits, TypeOK, rowVars
    <3>2. Owner' = Owner \ {u}
      BY <3>1 DEF Owner
    <3>3. QED
      BY <3>2
  <2>3. QED
    BY <2>1, <2>2 DEF Quits
<1>3. QED
  BY <1>1, <1>2 DEF Lease!GiveUp, Quits, Until

(* Most steps of an invocation, and its end in any way, are such steps.    *)
LEMMA QuittingSteps ==
  ASSUME TypeOK, NEW u \in Worker, PhaseInv(u),
         \/ InsertConflict(u) \/ InsertError(u) \/ Skip(u) \/ AcquireError(u)
         \/ ReturnResult(u) \/ CancelWork(u) \/ RaiseLeaseLost(u) \/ JoinHeartbeat(u) \/ Finish(u)
         \/ HeartbeatStops(u) \/ HeartbeatSuperseded(u)
         \/ WorkEnds(u) \/ Cancel(u) \/ Crash(u) \/ Restart(u)
  PROVE  Quits(u)
<1> USE DEF Quits, Supervised, UntilVars, TypeOK, rowVars, PC
<1>1. CASE InsertConflict(u) \/ InsertError(u) \/ ReturnResult(u) \/ CancelWork(u)
           \/ RaiseLeaseLost(u)
  BY <1>1 DEF InsertConflict, InsertError, ReturnResult, CancelWork,
     RaiseLeaseLost, hbVars
<1>2. CASE Skip(u) \/ AcquireError(u) \/ Finish(u) \/ Crash(u)
  BY <1>2 DEF Skip, AcquireError, Finish, Crash, Leave
<1>3. CASE JoinHeartbeat(u)
  BY <1>3 DEF JoinHeartbeat, EndHeartbeat
<1>4. CASE HeartbeatStops(u)
  BY <1>4 DEF HeartbeatStops, EndHeartbeat, StopEvent, Releasing, jobVars
<1>5. CASE HeartbeatSuperseded(u)
  BY <1>5 DEF HeartbeatSuperseded, LoseLease, EndHeartbeat, jobVars
<1>6. CASE WorkEnds(u) \/ Restart(u)
  BY <1>6 DEF WorkEnds, Restart, jobVars, hbVars
<1>7. CASE Cancel(u)
  <2>1. CASE CancelOutside(u)
    BY <1>7, <2>1 DEF Cancel, CancelOutside, Leave
  <2>2. CASE CancelWait(u)
    BY <1>7, <2>2 DEF Cancel, CancelWait, hbVars
  <2>3. CASE CancelSuppressed(u)
    BY <1>7, <2>3 DEF Cancel, CancelSuppressed, EndHeartbeat
  <2>4. QED
    BY <1>7, <2>1, <2>2, <2>3 DEF Cancel
<1>8. QED
  BY <1>1, <1>2, <1>3, <1>4, <1>5, <1>6, <1>7

(* A new row, or a stale one taken over, is a grant: nobody relies on the  *)
(* lease any more.                                                         *)
LEMMA AcquireGrants ==
  ASSUME IInv, IInv', NEW u \in Worker, Insert(u) \/ TakeOver(u)
  PROVE  Lease!Grant(u)
<1>0. LeaseHonoured'
  BY LeaseHonouredHolds, PTL
<1> USE DEF IInv, TypeOK
<1>1. /\ token' = token /\ clock' = clock /\ rowToken' = token[u]
      /\ \A v \in Worker : ~Supervised(v) \/ v # u
      /\ pc' = [pc EXCEPT ![u] = "acquired"]
      /\ UNCHANGED <<work, lost, refreshedAt>>
  BY DEF Insert, InsertRow, TakeOver, TakeOverRow, hbVars, Supervised
<1>2. token[u] # NoToken /\ \A v \in Worker : v # u => token[v] # token[u]
  BY <1>1 DEF Insert, TakeOver, TokenInv, Quiet
<1>3. ASSUME NEW v \in Worker PROVE LeaseEnd(v)' = LeaseEnd(v)
  BY <1>1 DEF LeaseEnd, Supervised, Insert, TakeOver, PC
<1>4. ASSUME NEW v \in Worker PROVE ~(LeaseEnd(v) > clock)
  <2>1. CASE Supervised(v)
    <3>1. Supervised(v)' /\ rowToken' # token'[v]
      BY <1>1, <1>2, <2>1 DEF Supervised
    <3>2. clock + MaxDelay + MaxSkew >= refreshedAt[v] + StaleThreshold
      BY <1>0, <1>1, <3>1 DEF LeaseHonoured
    <3>3. QED
      BY <2>1, <3>2, IntervalAssumption, TimeAssumption, SkewBound
         DEF LeaseEnd, LeaseWindow, StaleThreshold
  <2>2. CASE ~Supervised(v)
    BY <2>2 DEF LeaseEnd
  <2>3. QED
    BY <2>1, <2>2
<1>5. Owner' = {u}
  BY <1>1, <1>2 DEF Owner
<1>6. Until' = Until
  BY <1>3 DEF Until
<1>7. QED
  BY <1>1, <1>4, <1>5, <1>6 DEF Lease!Grant, Lease!Relies, Until

(* The start of the work and a successful refresh confirm the lease.       *)
LEMMA AnswerConfirms ==
  ASSUME IInv, IInv', NEW u \in Worker, StartTasks(u) \/ HeartbeatSucceeds(u)
  PROVE  [Lease!Next]_Lease!leaseVars
<1>0. LeaseHonoured'
  BY LeaseHonouredHolds, PTL
<1> USE DEF IInv, TypeOK
<1>1. /\ UNCHANGED <<rowVars, clock, token>>
      /\ refreshedAt' = [refreshedAt EXCEPT ![u] = clock]
      /\ \A v \in Worker : v # u => UNCHANGED UntilVars(v)
  BY DEF StartTasks, HeartbeatSucceeds, jobVars, UntilVars
<1>2. Owner' = Owner
  BY <1>1 DEF Owner, rowVars
<1>3. ASSUME NEW v \in Worker, v # u PROVE LeaseEnd(v)' = LeaseEnd(v)
  BY <1>1, <1>3 DEF LeaseEnd, Supervised, UntilVars
<1>4. CASE Supervised(u)'
  <2>1. LeaseEnd(u)' = clock + LeaseWindow
    BY <1>1, <1>4 DEF LeaseEnd
  <2>2. u \in Owner \/ LeaseWindow <= 0
    <3>1. CASE rowToken = token[u]
      <4>1. token[u] # NoToken
        BY <1>1, <1>4 DEF TokenInv, Supervised, Quiet
      <4>2. QED
        BY <3>1, <4>1 DEF Owner
    <3>2. CASE rowToken # token[u]
      <4>1. rowToken' # token'[u] /\ clock' = clock /\ refreshedAt'[u] = clock
        BY <1>1, <3>2 DEF rowVars
      <4>2. clock + MaxDelay + MaxSkew >= clock + StaleThreshold
        BY <1>0, <1>4, <4>1 DEF LeaseHonoured
      <4>3. QED
        BY <4>2, IntervalAssumption, TimeAssumption, SkewBound
           DEF LeaseWindow, StaleThreshold
    <3>3. QED
      BY <3>1, <3>2
  <2>3. Until' = [Until EXCEPT ![u] = clock + LeaseWindow]
    BY <1>3, <2>1 DEF Until
  <2>4. Lease!Confirm(u)
    BY <1>1, <1>2, <2>2, <2>3 DEF Lease!Confirm, Until
  <2>5. QED
    BY <2>4 DEF Lease!Next
<1>5. CASE ~Supervised(u)'
  <2>1. Quits(u)
    BY <1>1, <1>5 DEF Quits
  <2>2. QED
    BY <2>1, QuitsGivesUp DEF Lease!Next
<1>6. QED
  BY <1>4, <1>5

(* A release deletes only the row of the worker itself.                    *)
LEMMA ReleaseGivesUp ==
  ASSUME IInv, NEW u \in Worker, Release(u)
  PROVE  Lease!GiveUp(u)
<1> USE DEF IInv, TypeOK
<1>1. /\ UNCHANGED <<clock, token, work, lost, refreshedAt>>
      /\ pc' = [pc EXCEPT ![u] = "released"]
      /\ ~Supervised(u)
  BY DEF Release, hbVars, Supervised
<1>2. ASSUME NEW v \in Worker PROVE LeaseEnd(v)' = LeaseEnd(v)
  BY <1>1 DEF LeaseEnd, Supervised
<1>3. Until' = [Until EXCEPT ![u] = 0]
  BY <1>1, <1>2 DEF Until, LeaseEnd
<1>4. Owner' \in {Owner, Owner \ {u}}
  <2>1. CASE RowMatches(token[u])
    <3>1. rowToken' = NoToken /\ rowToken = token[u]
      BY <2>1 DEF Release, DeleteRow, RowMatches
    <3>2. token[u] # NoToken
      BY DEF Release, TokenInv, Quiet
    <3>3. Owner = {u} /\ Owner' = {}
      BY <3>1, <3>2 DEF Owner, TokenInv
    <3>4. QED
      BY <3>3
  <2>2. CASE ~RowMatches(token[u])
    BY <1>1, <2>2 DEF Release, DeleteRow, Owner, rowVars
  <2>3. QED
    BY <2>1, <2>2
<1>5. QED
  BY <1>1, <1>3, <1>4 DEF Lease!GiveUp, Until

(* A step that changes neither the owner nor a lease is no step of JobLease. *)
LEMMA LeaseUnchanged ==
  ASSUME TypeOK, rowToken' = rowToken, token' = token, clock' = clock,
         \A v \in Worker : UNCHANGED UntilVars(v)
  PROVE  UNCHANGED Lease!leaseVars
<1>1. Owner' = Owner
  BY DEF Owner
<1>2. ASSUME NEW v \in Worker PROVE LeaseEnd(v)' = LeaseEnd(v)
  BY DEF LeaseEnd, Supervised, UntilVars
<1>3. QED
  BY <1>1, <1>2 DEF Lease!leaseVars

(* Every step of ExclusiveJob is a step of JobLease or leaves it alone.    *)
LEMMA LeaseStep ==
  ASSUME IInv, IInv', [Next]_vars
  PROVE  [Lease!Next]_Lease!leaseVars
<1>1. TypeOK /\ \A w \in Worker : PhaseInv(w)
  BY DEF IInv
<1>2. ASSUME NEW u \in Worker, Begin(u) PROVE UNCHANGED Lease!leaseVars
  <2>1. PICK t \in Token \ TokensInUse : token' = [token EXCEPT ![u] = t]
    BY <1>2 DEF Begin
  <2>2. t # rowToken /\ token[u] = NoToken /\ rowToken' = rowToken
    BY <1>2, <2>1 DEF Begin, TokensInUse, IInv, TokenInv, Quiet, rowVars
  <2>3. Owner' = Owner
    BY <1>1, <2>1, <2>2 DEF Owner, TypeOK
  <2>4. ASSUME NEW v \in Worker PROVE LeaseEnd(v)' = LeaseEnd(v)
    BY <1>1, <1>2 DEF Begin, LeaseEnd, Supervised, TypeOK, hbVars
  <2>5. clock' = clock
    BY <1>2 DEF Begin
  <2>6. QED
    BY <2>3, <2>4, <2>5 DEF Lease!leaseVars
<1>3. ASSUME NEW u \in Worker, Insert(u) \/ TakeOver(u)
      PROVE  [Lease!Next]_Lease!leaseVars
  BY <1>3, AcquireGrants DEF Lease!Next
<1>4. ASSUME NEW u \in Worker, StartTasks(u) \/ HeartbeatSucceeds(u)
      PROVE  [Lease!Next]_Lease!leaseVars
  BY <1>4, AnswerConfirms
<1>5. ASSUME NEW u \in Worker, Release(u) PROVE [Lease!Next]_Lease!leaseVars
  BY <1>5, ReleaseGivesUp DEF Lease!Next
<1>6. ASSUME NEW u \in Worker,
             \/ InsertConflict(u) \/ InsertError(u) \/ Skip(u) \/ AcquireError(u)
             \/ ReturnResult(u) \/ CancelWork(u) \/ RaiseLeaseLost(u)
             \/ JoinHeartbeat(u) \/ Finish(u) \/ HeartbeatStops(u)
             \/ HeartbeatSuperseded(u) \/ WorkEnds(u) \/ Cancel(u)
             \/ Crash(u) \/ Restart(u)
      PROVE  [Lease!Next]_Lease!leaseVars
  BY <1>1, <1>6, QuittingSteps, QuitsGivesUp DEF Lease!Next
<1>7. ASSUME NEW u \in Worker, HeartbeatWakes(u) \/ RefreshCommits(u)
      PROVE  UNCHANGED Lease!leaseVars
  <2>1. rowToken' = rowToken
    BY <1>7 DEF HeartbeatWakes, RefreshCommits, RefreshRow, rowVars
  <2>2. QED
    BY <1>1, <1>7, <2>1, LeaseUnchanged
       DEF HeartbeatWakes, RefreshCommits, UntilVars, jobVars
<1>8. ASSUME NEW u \in Worker, HeartbeatError(u)
      PROVE  [Lease!Next]_Lease!leaseVars
  <2>1. CASE RefreshExpired(u)
    <3>1. Quits(u)
      BY <1>1, <1>8, <2>1 DEF HeartbeatError, LoseLease, EndHeartbeat, Quits,
         Supervised, UntilVars, TypeOK, jobVars
    <3>2. QED
      BY <1>1, <3>1, QuitsGivesUp DEF Lease!Next
  <2>2. CASE ~RefreshExpired(u)
    BY <1>1, <1>8, <2>2, LeaseUnchanged
       DEF HeartbeatError, UntilVars, rowVars, jobVars
  <2>3. QED
    BY <2>1, <2>2
<1>9. CASE Tick
  <2>1. clock' = clock + 1 /\ UNCHANGED <<rowVars, jobVars, work, hbVars>>
    BY <1>9 DEF Tick
  <2>2. Owner' = Owner /\ \A v \in Worker : LeaseEnd(v)' = LeaseEnd(v)
    BY <2>1 DEF Owner, LeaseEnd, Supervised, rowVars, jobVars, hbVars
  <2>3. Lease!Tick
    BY <2>1, <2>2 DEF Lease!Tick
  <2>4. QED
    BY <2>3 DEF Lease!Next
<1>10. CASE UNCHANGED vars
  BY <1>1, <1>10, LeaseUnchanged DEF vars, UntilVars, rowVars, jobVars, hbVars
<1>11. QED
  BY <1>2, <1>3, <1>4, <1>5, <1>6, <1>7, <1>8, <1>9, <1>10
     DEF Next, Invocation, Heartbeat

(***************************************************************************)
(* The lock keeps the promise of JobLease, for every number of workers,    *)
(* every delay and every difference of clocks: nobody is given the job     *)
(* while another may rely on having it.                                    *)
(***************************************************************************)
THEOREM LeaseRefinement == Spec => ImplementsJobLease
<1>1. Init => Lease!Init
  BY DEF Init, RowInit, Lease!Init, Owner, LeaseEnd, Supervised
<1>2. IInv /\ IInv' /\ [Next]_vars => [Lease!Next]_Lease!leaseVars
  BY LeaseStep
<1>3. QED
  BY <1>1, <1>2, Invariance, PTL DEF Spec, ImplementsJobLease, Lease!Spec

-----------------------------------------------------------------------------
(* What JobLease promises, for ExclusiveJob                                *)

(* JobLease with its proofs, under the same mapping.                       *)
Promise == INSTANCE JobLeaseProofs WITH
    Window <- LeaseWindow,
    now    <- clock,
    owner  <- Owner,
    until  <- [w \in Worker |-> LeaseEnd(w)]

(***************************************************************************)
(* A worker that relies on its lease owns the row, and nobody else does:   *)
(* the theorem of JobLease, carried over by the refinement.                *)
(***************************************************************************)
THEOREM LeasePromise == Spec => []Lease!OneRelies
<1>1. LeaseWindow \in Int
  BY IntervalAssumption, TimeAssumption, SkewBound
     DEF LeaseWindow, StaleThreshold
<1>2. Promise!Spec => []Promise!OneRelies
  BY <1>1, Promise!LeaseExclusive
<1>3. Lease!Init => Promise!Init
  BY DEF Promise!Init, Lease!Init
<1>4. [Lease!Next]_Lease!leaseVars => [Promise!Next]_Promise!leaseVars
  BY DEF Lease!Next, Promise!Next, Lease!Tick, Promise!Tick, Lease!Grant,
     Promise!Grant, Lease!Relies, Promise!Relies, Lease!Confirm,
     Promise!Confirm, Lease!GiveUp, Promise!GiveUp, Lease!leaseVars,
     Promise!leaseVars
<1>5. Promise!OneRelies => Lease!OneRelies
  BY DEF Promise!OneRelies, Lease!OneRelies, Promise!Relies, Lease!Relies
<1>6. QED
  BY <1>2, <1>3, <1>4, <1>5, LeaseRefinement, PTL
     DEF ImplementsJobLease, Lease!Spec, Promise!Spec
=============================================================================
