------------------------------- MODULE JobStore -------------------------------
(***************************************************************************)
(* The jobs table of apps/sumweave/internal/jobs/store.go: one row per      *)
(* observed message, and what each conditional UPDATE of the store requires *)
(* of the row and writes into it.  Every operator here is one SQL           *)
(* statement; the interleaving of statements is the business of JobWorker.  *)
(*                                                                          *)
(* Times are numbers of a discrete clock.  Columns that no statement of the *)
(* store ever reads back (type, requester, schedule metadata, created_at,   *)
(* completed_at, last_attempt_time) are left out; error_code stands for the *)
(* three error columns, which are always written together.                  *)
(*                                                                          *)
(* A definition Name_Variant, here and in the other modules, is Name with a *)
(* fault seeded into it; it only serves to see a property fail.             *)
(***************************************************************************)
EXTENDS Integers

CONSTANTS StaleRunningAge,   \* WorkerConfig.StaleRunningAge, in clock units
          MaxAttempts        \* WorkerConfig.MaxAttempts

ASSUME JobStoreAssumption ==
    /\ StaleRunningAge \in Nat \ {0, 1}  \* recoveryInterval is at most half of it
    /\ MaxAttempts \in Nat \ {0}         \* normalizeWorkerConfig

NoTime   == -1   \* SQL NULL, the nil *time.Time
NoWorker == ""   \* worker_id of a row nobody claims

\* "absent" stands for a message without a row: the projection is created lazily.
Statuses == {"absent", "queued", "running", "succeeded", "failed"}
Terminal == {"succeeded", "failed"}

ErrorCodes == {"none", "job_execution_failed", "business_failure",
               "stale_running_requeued", "stale_running_attempts_exhausted"}

Times == Nat \cup {NoTime}

\* A claim is what a worker remembers of the row it claimed: the Job value that
\* ClaimQueued returns, of which later statements use worker_id and started_at.
NoClaim == [worker |-> NoWorker, startedAt |-> NoTime]

NoRow == [status    |-> "absent",  worker    |-> NoWorker,
          startedAt |-> NoTime,    queuedAt  |-> NoTime,
          updatedAt |-> NoTime,    attempts  |-> 0,
          error     |-> "none"]

-----------------------------------------------------------------------------
\* MaterializeQueued's INSERT ... ON CONFLICT (id) DO NOTHING.
Materialized(r, now) ==
    IF r.status = "absent"
    THEN [NoRow EXCEPT !.status = "queued", !.queuedAt = now, !.updatedAt = now]
    ELSE r

\* attempt_count is only ever compared with MaxAttempts, so it may stop there.
NextAttempt(n) == IF n < MaxAttempts THEN n + 1 ELSE n

\* ClaimQueued: WHERE status = 'queued'.
Claimable(r) == r.status = "queued"

Claimed(r, worker, now) ==
    [r EXCEPT !.status = "running", !.worker = worker,
              !.attempts = NextAttempt(@),
              !.startedAt = now, !.updatedAt = now]

\* The Job that a SELECT returns, as a claim.
ClaimOf(r) == [worker |-> r.worker, startedAt |-> r.startedAt]

HoldsClaim_AnyStatus(r, c) ==
    c.startedAt # NoTime /\ r.worker = c.worker /\ r.startedAt = c.startedAt

\* WHERE status = 'running' AND worker_id = ? AND started_at = ?; a comparison
\* with a NULL started_at selects nothing.
HoldsClaim(r, c) ==
    /\ r.status = "running"
    /\ c.startedAt # NoTime
    /\ r.worker = c.worker
    /\ r.startedAt = c.startedAt

Finished_KeepsError(r, status, worker, error, now) ==
    [r EXCEPT !.status = status, !.worker = worker, !.updatedAt = now,
              !.error = IF error = "none" THEN @ ELSE error]

\* terminalStateUpdates: the error columns are reset before a new error is set.
Finished(r, status, worker, error, now) ==
    [r EXCEPT !.status = status, !.worker = worker, !.error = error, !.updatedAt = now]

\* RequeueRunning keeps the error columns and the attempt count.
Requeued(r, now) ==
    [r EXCEPT !.status = "queued", !.worker = NoWorker, !.startedAt = NoTime,
              !.queuedAt = now, !.updatedAt = now]

\* RenewRunning.
Renewed(r, now) == [r EXCEPT !.updatedAt = now]

StillRequeued_AnyStatus(r, queuedAt) == r.queuedAt = queuedAt

\* FinalizeRetryExhausted: WHERE status = 'queued' AND queued_at = ?.
StillRequeued(r, queuedAt) == r.status = "queued" /\ r.queuedAt = queuedAt

IsStale_TooEarly(r, now) == r.status = "running" /\ r.updatedAt + StaleRunningAge <= now + 1

\* RecoverStaleRunning's SELECT: status = 'running' AND updated_at <= now - age.
IsStale(r, now) == r.status = "running" /\ r.updatedAt + StaleRunningAge <= now

SameClaim_AnyUpdate(r, listed) == HoldsClaim(r, ClaimOf(listed))

\* recoverStaleRunningModel: the UPDATE matches only the row as it was listed.
SameClaim(r, listed) ==
    /\ HoldsClaim(r, ClaimOf(listed))
    /\ r.updatedAt = listed.updatedAt

\* The attempt count that decides between the two outcomes is the listed one.
Recovered(r, listed, now) ==
    IF listed.attempts >= MaxAttempts
    THEN [r EXCEPT !.status = "failed", !.updatedAt = now,
                   !.error = "stale_running_attempts_exhausted"]
    ELSE [Requeued(r, now) EXCEPT !.error = "stale_running_requeued"]
=============================================================================
