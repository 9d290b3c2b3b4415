--------------------- MODULE BackgroundJobLockRepository ---------------------
(***************************************************************************)
(* The background_job_lock table as the methods of                         *)
(* BackgroundJobLockRepository use it, for one job name.  The unique index *)
(* on the name leaves at most one row, so the table is two variables: the  *)
(* owner token of the row (NoToken when there is none) and its             *)
(* acquired_at.  Each operator below is one committed transaction; acquire *)
(* is two of them, because it commits or rolls back the INSERT before it   *)
(* issues the conditional UPDATE.                                          *)
(*                                                                         *)
(* Time is counted in ticks of half a second, so that interval_seconds / 2 *)
(* is a whole number of ticks.                                             *)
(***************************************************************************)
EXTENDS Integers

CONSTANTS
    Token,      \* the UUIDs uuid4() can draw
    NoToken,    \* not a UUID: the token of a row that does not exist
    Interval    \* interval_seconds, the configured run interval of the job

ASSUME TokenAssumption == NoToken \notin Token

(***************************************************************************)
(* run_exclusive_background_job raises ValueError before it touches the    *)
(* table when the interval is not positive.                                *)
(***************************************************************************)
ASSUME IntervalAssumption == Interval \in Nat \ {0}

VARIABLES
    rowToken,   \* owner_token of the row, NoToken when there is no row
    acquiredAt  \* acquired_at of the row, 0 when there is no row

rowVars == <<rowToken, acquiredAt>>

StaleThreshold == 4 * Interval      \* 2 * interval_seconds, in ticks

RowInit == rowToken = NoToken /\ acquiredAt = 0

InsertRow(t, now) ==
    /\ rowToken = NoToken
    /\ rowToken' = t
    /\ acquiredAt' = now

\* Mutant: the lock goes stale after one interval.
IsStaleAfterOneInterval(now) ==
    rowToken # NoToken /\ acquiredAt <= now - 2 * Interval

\* Mutant: the comparison of the WHERE is strict.
IsStaleStrictly(now) ==
    rowToken # NoToken /\ acquiredAt < now - StaleThreshold

(***************************************************************************)
(* The WHERE of the takeover: stale_threshold was computed from the `now'  *)
(* read when acquire was entered, not when the UPDATE runs.                *)
(***************************************************************************)
IsStale(now) ==
    /\ rowToken # NoToken
    /\ acquiredAt <= now - StaleThreshold

\* Mutant: the takeover does not rotate the owner token.
TakeOverRowKeepingToken(t, now) ==
    /\ IsStale(now)
    /\ acquiredAt' = now
    /\ UNCHANGED rowToken

TakeOverRow(t, now) ==
    /\ IsStale(now)
    /\ rowToken' = t
    /\ acquiredAt' = now

\* Mutant: the WHERE of refresh and release is on the name alone.
RowExists(t) == rowToken # NoToken

(* The WHERE of refresh and release.                                       *)
RowMatches(t) == rowToken = t

\* Mutant: refresh writes the stale threshold for the time.
RefreshRowWithThreshold(t, now) ==
    IF RowMatches(t)
    THEN acquiredAt' = now - StaleThreshold /\ UNCHANGED rowToken
    ELSE UNCHANGED rowVars

RefreshRow(t, now) ==
    IF RowMatches(t)
    THEN acquiredAt' = now /\ UNCHANGED rowToken
    ELSE UNCHANGED rowVars

\* Mutant: release deletes by name, whoever owns the row.
DeleteAnyRow(t) == rowToken' = NoToken /\ acquiredAt' = 0

DeleteRow(t) ==
    IF RowMatches(t)
    THEN rowToken' = NoToken /\ acquiredAt' = 0
    ELSE UNCHANGED rowVars
=============================================================================
