------------------------------ MODULE JobWorker ------------------------------
(***************************************************************************)
(* The job-observed consumer of apps/sumweave: worker processes that take   *)
(* messages of one topic from the dispatch transport, materialize and claim *)
(* the job row of each, run its handler, and write the outcome back, with   *)
(* the router's retry and dead-letter policy around it and the periodic     *)
(* renewal and recovery of claims beside it (jobs/worker.go, jobs/store.go, *)
(* appdispatch/router.go).                                                  *)
(*                                                                          *)
(* One step is one SQL statement or one in-memory section under the         *)
(* worker's mutex.  A message is its position in the topic, and its job row *)
(* has the same identity.  The subscriber is Watermill's (external): it     *)
(* reads a batch under the lock on the group's offsets row, hands over one  *)
(* message at a time, resends a message that is nacked, and commits the     *)
(* position of the last acknowledged message when the batch ends.           *)
(***************************************************************************)
EXTENDS JobStore

CONSTANTS Procs,              \* worker processes
          DeliveriesPerProc,  \* handler goroutines a process can have at once
          NumMessages,        \* messages published on the topic
          Malformed,          \* messages whose payload the handler cannot decode
          MaxRetries,         \* routerMaxRetries
          FaultKinds,         \* which faults of the environment may happen
          MaxFaults,          \* bound on their number
          MaxClock,           \* bound on the clock
          FaultHorizon,       \* faults happen before this time
          Prompt,             \* timing assumption: see Tick
          NoProc, NoSlot

FaultNames == {"store", "crash", "abandon", "transaction", "renew", "recover", "deadletter"}

Messages == 1 .. NumMessages
Slots    == Procs \X (1 .. DeliveriesPerProc)

ASSUME JobWorkerAssumption ==
    /\ DeliveriesPerProc \in Nat \ {0}
    /\ NumMessages \in Nat
    /\ Malformed \subseteq Messages
    /\ MaxRetries \in Nat
    /\ FaultKinds \subseteq FaultNames
    /\ MaxFaults \in Nat
    /\ MaxClock \in Nat
    /\ FaultHorizon \in Nat
    /\ Prompt \in BOOLEAN
    /\ NoProc \notin Procs
    /\ NoSlot \notin Slots

VARIABLES
    clock,        \* wall clock shared by all processes
    row,          \* jobs table: message -> row
    offset,       \* committed offset_acked of the consumer group
    lock,         \* process whose open transaction holds the offsets row
    cursor,       \* last message acknowledged inside that transaction
    out,          \* delivery the subscriber is waiting for
    dlv,          \* handler goroutines: slot -> delivery
    claims,       \* Worker.claims of each process: process -> message -> claim
    due,          \* recovery ticker of the process has fired
    rec,          \* recovery goroutine of each process
    deadLettered, \* messages with a copy on the dead-letter topic
    unqueuedAcks, \* messages acknowledged because of ErrJobNotQueued
    faults        \* faults so far

transport == <<offset, lock, cursor, out>>
recovery  == <<due, rec>>
vars == <<clock, row, transport, dlv, claims, recovery, deadLettered, unqueuedAcks, faults>>

\* Every process is wired without a WorkerID and gets the same default.
WorkerID == "jobs-worker"

-----------------------------------------------------------------------------
(* State of a delivery.  result holds the handler's verdict while a claim is *)
(* held, and afterwards what processObserved returned: "done" (nil), "error" *)
(* or "transient" (an error that knows how to finalize the job).             *)

Steps == {"idle", "insert", "read", "claim", "reread", "handler", "persist",
          "requeue", "release", "retry", "finalize", "poison"}

Results == {"none", "succeeded", "failed", "transient", "panic", "done", "error"}

Claims == [worker : {NoWorker, WorkerID}, startedAt : Times]

IdleDelivery == [pc |-> "idle", msg |-> 0, tries |-> 0, live |-> TRUE,
                 claim |-> NoClaim, queuedAt |-> NoTime, result |-> "none"]

\* boot: the recovery that Run performs before it starts the router.
IdleRecovery  == [pc |-> "idle", now |-> 0, listed |-> [m \in Messages |-> NoRow],
                  boot |-> FALSE]
StartRecovery(boot) == [IdleRecovery EXCEPT !.pc = "list", !.boot = boot]

\* A failed recovery is logged; at boot it ends the process, which is started again.
FailedRecovery(p) == IF rec[p].boot THEN StartRecovery(TRUE) ELSE IdleRecovery

At(d, pc) == dlv[d].pc = pc
Msg(d)    == dlv[d].msg
Row(d)    == row[Msg(d)]

SetRow(d, r) == [row EXCEPT ![Msg(d)] = r]
Goto(d, pc)  == dlv' = [dlv EXCEPT ![d].pc = pc]

\* processObserved returns an error (or, through Recoverer, panicked).
Return(d, result) == dlv' = [dlv EXCEPT ![d].pc = "retry", ![d].result = result]

\* executeClaimedObserved returns; the deferred releaseClaim is next.  The claim
\* goes out of scope, and queuedAt survives only in the finalize closure.
Release(d, result) ==
    dlv' = [dlv EXCEPT ![d].pc = "release", ![d].result = result, ![d].claim = NoClaim,
                       ![d].queuedAt = IF result = "transient" THEN @ ELSE NoTime]

\* A fault of the environment.  A run that checks progress leaves at least
\* StaleRunningAge units of the clock after FaultHorizon to recover from faults.
Fault(kind) ==
    /\ kind \in FaultKinds
    /\ faults < MaxFaults
    /\ clock < FaultHorizon
    /\ faults' = faults + 1

\* A store call returns an error.  A call made with a cancelled context always
\* does.  The statement may have been applied all the same.
StoreError(d) == IF dlv[d].live THEN Fault("store") ELSE UNCHANGED faults

-----------------------------------------------------------------------------
Init ==
    /\ clock = 0
    /\ row = [m \in Messages |-> NoRow]
    /\ offset = 0 /\ cursor = 0 /\ lock = NoProc /\ out = NoSlot
    /\ dlv = [d \in Slots |-> IdleDelivery]
    /\ claims = [p \in Procs |-> [m \in Messages |-> NoClaim]]
    /\ due = [p \in Procs |-> FALSE]
    /\ rec = [p \in Procs |-> IdleRecovery]
    /\ deadLettered = {} /\ unqueuedAcks = {}
    /\ faults = 0

-----------------------------------------------------------------------------
(* The subscriber (external).                                                *)

\* SELECT ... FOR UPDATE on the group's offsets row, then the next messages.
BeginBatch(p) ==
    /\ lock = NoProc
    /\ ~rec[p].boot
    /\ offset < NumMessages
    /\ lock' = p /\ cursor' = offset
    /\ UNCHANGED <<clock, row, offset, out, dlv, claims, recovery,
                   deadLettered, unqueuedAcks, faults>>

\* Hands the next message to a handler goroutine; after a nack, the same again.
Deliver(d) ==
    /\ lock = d[1] /\ out = NoSlot
    /\ cursor < NumMessages
    /\ At(d, "idle")
    /\ out' = d
    /\ dlv' = [dlv EXCEPT ![d] = [IdleDelivery EXCEPT !.pc = "insert", !.msg = cursor + 1]]
    /\ UNCHANGED <<clock, row, offset, lock, cursor, claims, recovery,
                   deadLettered, unqueuedAcks, faults>>

\* The end of a batch: the position is committed and the lock released.
CommitBatch(p) ==
    /\ lock = p /\ out = NoSlot
    /\ cursor > offset
    /\ offset' = cursor /\ lock' = NoProc
    /\ UNCHANGED <<clock, row, cursor, out, dlv, claims, recovery,
                   deadLettered, unqueuedAcks, faults>>

\* The subscriber gives up waiting for a delivery (shutdown, or the default ack
\* deadline of a SubscriberConfig that sets none): the message's context is
\* cancelled, what was acknowledged before it is committed, and the message
\* will be delivered again while its handler may still be running.
Abandon(p) ==
    /\ lock = p /\ out # NoSlot
    /\ Fault("abandon")
    /\ dlv' = [dlv EXCEPT ![out].live = FALSE]
    /\ out' = NoSlot /\ offset' = cursor /\ lock' = NoProc
    /\ UNCHANGED <<clock, row, cursor, claims, recovery, deadLettered, unqueuedAcks>>

\* The connection of the batch's transaction breaks: the lock is released by the
\* server, nothing is committed, and the delivery goes on unaware.
LoseTransaction(p) ==
    /\ lock = p
    /\ Fault("transaction")
    /\ out' = NoSlot /\ lock' = NoProc
    /\ UNCHANGED <<clock, row, offset, cursor, dlv, claims, recovery,
                   deadLettered, unqueuedAcks>>

\* The delivery ends with an acknowledgement, which counts only while the
\* subscriber still waits for it.
Ack(d) ==
    /\ dlv' = [dlv EXCEPT ![d] = IdleDelivery]
    /\ IF out = d
       THEN cursor' = cursor + 1 /\ out' = NoSlot
       ELSE UNCHANGED <<cursor, out>>
    /\ UNCHANGED <<offset, lock>>

Nack(d) ==
    /\ dlv' = [dlv EXCEPT ![d] = IdleDelivery]
    /\ out' = IF out = d THEN NoSlot ELSE out
    /\ UNCHANGED <<offset, lock, cursor>>

-----------------------------------------------------------------------------
(* processObserved.                                                          *)

\* handler.metadata fails: nothing is persisted.
RejectPayload(d) ==
    /\ At(d, "insert")
    /\ Msg(d) \in Malformed
    /\ Return(d, "error")
    /\ UNCHANGED <<clock, row, transport, claims, recovery, deadLettered, unqueuedAcks, faults>>

\* MaterializeQueued, first statement.
Materialize(d) ==
    LET inserted == SetRow(d, Materialized(Row(d), clock)) IN
    /\ At(d, "insert")
    /\ Msg(d) \notin Malformed
    /\ \/ /\ dlv[d].live /\ UNCHANGED faults
          /\ row' = inserted
          /\ Goto(d, "read")
       \/ /\ StoreError(d)
          /\ row' \in {row, inserted}
          /\ Return(d, "error")
    /\ UNCHANGED <<clock, transport, claims, recovery, deadLettered, unqueuedAcks>>

LeftPending_Never(r) == FALSE

\* runningJobDeliveryError: a running job belongs to another delivery.
LeftPending(r) == r.status = "running"

\* MaterializeQueued, second statement, and the decision on the row it reads:
\* a running job leaves the delivery pending, a terminal one ends it.
ReadMaterialized(d) ==
    /\ At(d, "read")
    /\ \/ /\ dlv[d].live /\ UNCHANGED faults
          /\ \/ LeftPending(Row(d)) /\ Nack(d)
             \/ ~LeftPending(Row(d)) /\ Row(d).status \notin {"absent", "queued"} /\ Ack(d)
             \/ Row(d).status = "queued" /\ Goto(d, "claim") /\ UNCHANGED transport
       \/ /\ StoreError(d)
          /\ Return(d, "error")
          /\ UNCHANGED transport
    /\ UNCHANGED <<clock, row, claims, recovery, deadLettered, unqueuedAcks>>

\* ClaimQueued, its UPDATE.  Losing the race acknowledges the message.
Claim(d) ==
    LET claimed == SetRow(d, Claimed(Row(d), WorkerID, clock)) IN
    /\ At(d, "claim")
    /\ \/ /\ dlv[d].live /\ UNCHANGED faults
          /\ Claimable(Row(d))
          /\ row' = claimed
          /\ Goto(d, "reread")
          /\ UNCHANGED <<transport, unqueuedAcks>>
       \/ /\ dlv[d].live /\ UNCHANGED faults
          /\ ~Claimable(Row(d))
          /\ Ack(d)
          /\ unqueuedAcks' = unqueuedAcks \cup {Msg(d)}
          /\ UNCHANGED row
       \/ /\ StoreError(d)
          /\ row' \in {row} \cup (IF Claimable(Row(d)) THEN {claimed} ELSE {})
          /\ Return(d, "error")
          /\ UNCHANGED <<transport, unqueuedAcks>>
    /\ UNCHANGED <<clock, claims, recovery, deadLettered>>

Tracked_Nowhere(d, claim) == claims

Tracked(d, claim) == [claims EXCEPT ![d[1]][Msg(d)] = claim]

\* ClaimQueued reads the row again and returns what it finds; trackClaim
\* remembers that as the claim, and the handler starts.
TrackClaim(d) ==
    LET claim == ClaimOf(Row(d)) IN
    /\ At(d, "reread")
    /\ \/ /\ dlv[d].live /\ UNCHANGED faults
          /\ dlv' = [dlv EXCEPT ![d].pc = "handler", ![d].claim = claim]
          /\ claims' = Tracked(d, claim)
       \/ /\ StoreError(d)
          /\ Return(d, "error")
          /\ UNCHANGED claims
    /\ UNCHANGED <<clock, row, transport, recovery, deadLettered, unqueuedAcks>>

\* The handler returns nil or a business failure (persist it), another error, or
\* panics (requeue).  queuedAt is read from the clock before the requeue.
HandlerReturns(d) ==
    /\ At(d, "handler")
    /\ \/ \E verdict \in {"succeeded", "failed"} :
            dlv' = [dlv EXCEPT ![d].pc = "persist", ![d].result = verdict]
       \/ \E verdict \in {"transient", "panic"} :
            dlv' = [dlv EXCEPT ![d].pc = "requeue", ![d].result = verdict, ![d].queuedAt = clock]
    /\ UNCHANGED <<clock, row, transport, claims, recovery, deadLettered, unqueuedAcks, faults>>

VerdictError(verdict) == IF verdict = "failed" THEN "business_failure" ELSE "none"

\* persistTerminalState inside persistTerminal's loop: repeated on any error but
\* ErrJobClaimLost for as long as the context lives.
PersistTerminal(d) ==
    LET verdict  == dlv[d].result
        finished == SetRow(d, Finished(Row(d), verdict, WorkerID, VerdictError(verdict), clock))
        holds    == HoldsClaim(Row(d), dlv[d].claim) IN
    /\ At(d, "persist")
    /\ \/ /\ dlv[d].live /\ UNCHANGED faults
          /\ holds
          /\ row' = finished
          /\ Release(d, "done")
       \/ /\ dlv[d].live /\ UNCHANGED faults
          /\ ~holds
          /\ UNCHANGED row
          /\ Release(d, "error")
       \/ /\ StoreError(d)
          /\ row' \in {row} \cup (IF holds THEN {finished} ELSE {})
          /\ IF dlv[d].live THEN UNCHANGED dlv ELSE Release(d, "error")
    /\ UNCHANGED <<clock, transport, claims, recovery, deadLettered, unqueuedAcks>>

\* RequeueRunning after a transient error ignores a cancelled context; after a
\* panic it does not.  Only a requeue that succeeded after a transient error
\* yields an error that can finalize the job later.
RequeueRunning(d) ==
    LET requeued == SetRow(d, Requeued(Row(d), dlv[d].queuedAt))
        holds    == HoldsClaim(Row(d), dlv[d].claim)
        panicked == dlv[d].result = "panic" IN
    /\ At(d, "requeue")
    /\ \/ /\ dlv[d].live \/ ~panicked
          /\ UNCHANGED faults
          /\ holds
          /\ row' = requeued
          /\ Release(d, IF panicked THEN "error" ELSE "transient")
       \/ /\ dlv[d].live \/ ~panicked
          /\ UNCHANGED faults
          /\ ~holds
          /\ UNCHANGED row
          /\ Release(d, "error")
       \/ /\ IF panicked THEN StoreError(d) ELSE Fault("store")
          /\ row' \in {row} \cup (IF holds THEN {requeued} ELSE {})
          /\ Release(d, "error")
    /\ UNCHANGED <<clock, transport, claims, recovery, deadLettered, unqueuedAcks>>

\* The deferred releaseClaim forgets whatever claim the process tracks for the
\* job; then the delivery is acknowledged or its error reaches the router.
ReleaseClaim(d) ==
    /\ At(d, "release")
    /\ claims' = [claims EXCEPT ![d[1]][Msg(d)] = NoClaim]
    /\ \/ dlv[d].result = "done" /\ Ack(d)
       \/ dlv[d].result # "done" /\ Goto(d, "retry") /\ UNCHANGED transport
    /\ UNCHANGED <<clock, row, recovery, deadLettered, unqueuedAcks, faults>>

-----------------------------------------------------------------------------
(* The router's middleware: Retry, OnRetriesExhausted, PoisonQueue.          *)

RetriesLeft_OffByOne(d) == dlv[d].tries <= MaxRetries

RetriesLeft(d) == dlv[d].tries < MaxRetries

\* A cancelled context is noticed while waiting for the next try; after the last
\* one an error that can finalize the job does so.
Retry(d) ==
    /\ At(d, "retry")
    /\ \/ ~dlv[d].live /\ RetriesLeft(d) /\ Goto(d, "poison")
       \/ /\ dlv[d].live /\ RetriesLeft(d)
          /\ dlv' = [dlv EXCEPT ![d] = [IdleDelivery EXCEPT !.pc = "insert", !.msg = Msg(d),
                                                           !.tries = dlv[d].tries + 1]]
       \/ /\ ~RetriesLeft(d)
          /\ Goto(d, IF dlv[d].result = "transient" THEN "finalize" ELSE "poison")
    /\ UNCHANGED <<clock, row, transport, claims, recovery, deadLettered, unqueuedAcks, faults>>

\* FinalizeRetryExhausted, in the same loop as PersistTerminal.  A lost claim is
\* only logged: the message is dead-lettered either way.
FinalizeRetryExhausted(d) ==
    LET failed  == SetRow(d, Finished(Row(d), "failed", WorkerID, "job_execution_failed", clock))
        matches == StillRequeued(Row(d), dlv[d].queuedAt) IN
    /\ At(d, "finalize")
    /\ \/ /\ dlv[d].live /\ UNCHANGED faults
          /\ row' = IF matches THEN failed ELSE row
          /\ Goto(d, "poison")
       \/ /\ StoreError(d)
          /\ row' \in {row} \cup (IF matches THEN {failed} ELSE {})
          /\ IF dlv[d].live THEN UNCHANGED dlv ELSE Goto(d, "poison")
    /\ UNCHANGED <<clock, transport, claims, recovery, deadLettered, unqueuedAcks>>

\* The dead-letter copy is published, then the message acknowledged; if the
\* publication fails the message stays pending.
PublishDeadLetter(d) ==
    /\ At(d, "poison")
    /\ \/ /\ deadLettered' = deadLettered \cup {Msg(d)}
          /\ Ack(d)
          /\ UNCHANGED faults
       \/ /\ IF dlv[d].live THEN Fault("deadletter") ELSE UNCHANGED faults
          /\ Nack(d)
          /\ UNCHANGED deadLettered
    /\ UNCHANGED <<clock, row, claims, recovery, unqueuedAcks>>

-----------------------------------------------------------------------------
(* recoverStaleRunningPeriodically, one goroutine per process.               *)

\* renewRunningClaims: one RenewRunning per tracked claim, before the recovery.
RenewClaims(p) ==
    LET renewable == {m \in Messages : HoldsClaim(row[m], claims[p][m])} IN
    /\ due[p] /\ rec[p].pc = "idle"
    /\ \E failed \in SUBSET renewable :
         /\ IF failed = {} THEN UNCHANGED faults ELSE Fault("renew")
         /\ row' = [m \in Messages |->
                      IF m \in renewable \ failed THEN Renewed(row[m], clock) ELSE row[m]]
    /\ due' = [due EXCEPT ![p] = FALSE]
    /\ rec' = [rec EXCEPT ![p] = StartRecovery(FALSE)]
    /\ UNCHANGED <<clock, transport, dlv, claims, deadLettered, unqueuedAcks>>

StaleRows_AtBootOnly(p) == {m \in Messages : rec[p].boot /\ IsStale(row[m], clock)}

StaleRows(p) == {m \in Messages : IsStale(row[m], clock)}

\* RecoverStaleRunning reads the clock and lists the stale rows.
ListStale(p) ==
    LET stale == StaleRows(p) IN
    /\ rec[p].pc = "list"
    /\ \/ /\ rec' = [rec EXCEPT ![p] =
                  IF stale = {}
                  THEN IdleRecovery
                  ELSE [pc |-> "recover", now |-> clock, boot |-> rec[p].boot,
                        listed |-> [m \in Messages |-> IF m \in stale THEN row[m] ELSE NoRow]]]
          /\ UNCHANGED faults
       \/ /\ Fault("recover")
          /\ rec' = [rec EXCEPT ![p] = FailedRecovery(p)]
    /\ UNCHANGED <<clock, row, transport, dlv, claims, due, deadLettered, unqueuedAcks>>

\* recoverStaleRunningModel for one listed row; a row that changed is left alone.
RecoverRow(p, m) ==
    LET listed    == rec[p].listed[m]
        recovered == [row EXCEPT ![m] = IF SameClaim(@, listed)
                                        THEN Recovered(@, listed, rec[p].now) ELSE @] IN
    /\ rec[p].pc = "recover"
    /\ listed # NoRow
    /\ \/ /\ row' = recovered
          /\ rec' = [rec EXCEPT ![p].listed[m] = NoRow]
          /\ UNCHANGED faults
       \/ /\ Fault("recover")
          /\ row' \in {row, recovered}
          /\ rec' = [rec EXCEPT ![p] = FailedRecovery(p)]
    /\ UNCHANGED <<clock, transport, dlv, claims, due, deadLettered, unqueuedAcks>>

EndRecovery(p) ==
    /\ rec[p].pc = "recover"
    /\ \A m \in Messages : rec[p].listed[m] = NoRow
    /\ rec' = [rec EXCEPT ![p] = IdleRecovery]
    /\ UNCHANGED <<clock, row, transport, dlv, claims, due, deadLettered, unqueuedAcks, faults>>

-----------------------------------------------------------------------------
(* The environment.                                                          *)

\* Process p dies and is started again.  Its goroutines, tracked claims and open
\* transaction are gone; Run begins with a recovery that renews nothing.
Crash(p) ==
    /\ Fault("crash")
    /\ dlv' = [d \in Slots |-> IF d[1] = p THEN IdleDelivery ELSE dlv[d]]
    /\ claims' = [claims EXCEPT ![p] = [m \in Messages |-> NoClaim]]
    /\ rec' = [rec EXCEPT ![p] = StartRecovery(TRUE)]
    /\ due' = [due EXCEPT ![p] = FALSE]
    /\ IF lock = p THEN lock' = NoProc /\ out' = NoSlot ELSE UNCHANGED <<lock, out>>
    /\ UNCHANGED <<clock, row, offset, cursor, deadLettered, unqueuedAcks>>

\* A unit of time is the recovery interval, so each tick makes the recovery of
\* every process due whose ticker has been started.  Under Prompt no unit passes while a process has its
\* recovery still to do or a claim committed but not yet tracked: the ticker
\* keeps up, and a claim's read-back takes less than half the stale age.
PromptTick ==
    /\ \A p \in Procs : ~due[p] /\ rec[p].pc = "idle"
    /\ \A d \in Slots : ~At(d, "reread")

\* Time after FaultHorizon is kept for recovery: it passes only once cancelled
\* deliveries have returned and finished ones have released their claims.
TickBound ==
    /\ clock < MaxClock
    /\ clock < FaultHorizon \/ \A d \in Slots : dlv[d].live /\ ~At(d, "release")

Tick ==
    /\ TickBound
    /\ Prompt => PromptTick
    /\ clock' = clock + 1
    /\ due' = [p \in Procs |-> ~rec[p].boot]
    /\ UNCHANGED <<row, transport, dlv, claims, rec, deadLettered, unqueuedAcks, faults>>

-----------------------------------------------------------------------------
Process(d) ==
    \/ RejectPayload(d) \/ Materialize(d) \/ ReadMaterialized(d) \/ Claim(d)
    \/ TrackClaim(d) \/ HandlerReturns(d) \/ PersistTerminal(d) \/ RequeueRunning(d)
    \/ ReleaseClaim(d) \/ Retry(d) \/ FinalizeRetryExhausted(d) \/ PublishDeadLetter(d)

Recovery(p) ==
    \/ RenewClaims(p) \/ ListStale(p) \/ EndRecovery(p)
    \/ \E m \in Messages : RecoverRow(p, m)

Next ==
    \/ \E d \in Slots : Deliver(d) \/ Process(d)
    \/ \E p \in Procs : BeginBatch(p) \/ CommitBatch(p) \/ Recovery(p)
    \/ \E p \in Procs : Abandon(p) \/ LoseTransaction(p) \/ Crash(p)
    \/ Tick

Spec == Init /\ [][Next]_vars

\* Goroutines that can run do run, handlers return, the subscriber polls, the
\* ticker fires.  Faults have no fairness.
Fairness ==
    /\ \A d \in Slots : WF_vars(Process(d)) /\ WF_vars(Deliver(d))
    /\ \A p \in Procs : WF_vars(BeginBatch(p)) /\ WF_vars(CommitBatch(p)) /\ WF_vars(Recovery(p))
    /\ WF_vars(Tick)

FairSpec == Spec /\ Fairness

-----------------------------------------------------------------------------
(* Properties.                                                               *)

RowType == [status : Statuses, worker : {NoWorker, WorkerID}, startedAt : Times,
            queuedAt : Times, updatedAt : Times, attempts : 0 .. MaxAttempts,
            error : ErrorCodes]

DeliveryType == [pc : Steps, msg : 0 .. NumMessages, tries : 0 .. MaxRetries, live : BOOLEAN,
                 claim : Claims, queuedAt : Times, result : Results]

RecoveryType == [pc : {"idle", "list", "recover"}, now : Nat, listed : [Messages -> RowType],
                 boot : BOOLEAN]

\* The values the variables take: rows of the jobs table, positions of the
\* consumer group, program counters of the worker's goroutines.
TypeOK ==
    /\ clock \in Nat
    /\ row \in [Messages -> RowType]
    /\ offset \in 0 .. NumMessages
    /\ cursor \in 0 .. NumMessages
    /\ lock \in Procs \cup {NoProc}
    /\ out \in Slots \cup {NoSlot}
    /\ dlv \in [Slots -> DeliveryType]
    /\ claims \in [Procs -> [Messages -> Claims]]
    /\ due \in [Procs -> BOOLEAN]
    /\ rec \in [Procs -> RecoveryType]
    /\ deadLettered \subseteq Messages
    /\ unqueuedAcks \subseteq Messages
    /\ faults \in Nat

\* A message is acknowledged only when its job is terminal, or after its
\* dead-letter copy was published, or when ClaimQueued found the job taken
\* (processObserved's nil for ErrJobNotQueued).
Settled(m) == row[m].status \in Terminal \/ m \in deadLettered \/ m \in unqueuedAcks

AckJustified == \A m \in Messages : m <= cursor \/ m <= offset => Settled(m)

\* A terminal job row is never written again, by whatever delivery, retry or
\* recovery is still under way (the WHERE clauses of store.go).
TerminalAbsorbing ==
    [][\A m \in Messages : row[m].status \in Terminal => row'[m] = row[m]]_vars

\* A job stops running only through the delivery that holds its claim, or
\* because it is stale at that very moment: recovery, which lists first and
\* updates later, never takes a claim that was renewed or replaced in between.
ByHolder(m) == \E d \in Slots : /\ Msg(d) = m
                               /\ dlv[d].pc \in {"persist", "requeue"}
                               /\ HoldsClaim(row[m], dlv[d].claim)

OnlyHolderOrStale ==
    [][\A m \in Messages : row[m].status = "running" /\ row'[m].status # "running"
                             => IsStale(row[m], clock) \/ ByHolder(m)]_vars

\* Every step of the workers, of recovery and of the faults is, on each job, a
\* step of the lifecycle that the jobs API promises, or leaves it alone.
Lifecycle == INSTANCE JobLifecycle
             WITH Jobs     <- Messages,
                  status   <- [m \in Messages |-> row[m].status],
                  attempts <- [m \in Messages |-> row[m].attempts]

ImplementsLifecycle == Lifecycle!Spec

\* The error columns tell the outcome: a succeeded job shows no error, not even
\* that of an earlier stale attempt, and a failed one shows a failure.
ErrorMatchesOutcome ==
    \A m \in Messages :
        /\ row[m].status = "succeeded" => row[m].error = "none"
        /\ row[m].status = "failed" => row[m].error \notin {"none", "stale_running_requeued"}

\* While the recovery ticker keeps up, a handler runs alone for its job, and under
\* its own claim on the row from the moment it is invoked until it returns,
\* whatever deliveries are abandoned, lost or repeated.
NoConcurrentExecution ==
    \A d \in Slots : At(d, "handler") =>
        /\ HoldsClaim(Row(d), dlv[d].claim)
        /\ \A e \in Slots \ {d} : ~(At(e, "handler") /\ Msg(e) = Msg(d))

\* Faults being finite, every message is acknowledged in the end: a running job
\* whose worker is gone blocks its topic only until recovery releases it.
EventuallyAcked == <>(offset = NumMessages)

\* "Active handlers renew their claims before recovery" (docs/ARCHITECTURE.md):
\* the process of a running handler tracks the claim that handler holds.
ActiveClaimTracked ==
    \A d \in Slots : At(d, "handler") /\ HoldsClaim(Row(d), dlv[d].claim)
                         => claims[d[1]][Msg(d)] = dlv[d].claim

\* A panic is processed "through the same bounded retry and dead-letter policy as a
\* returned error" (openspec/specs/domain-event-pubsub), after which the job of a
\* returned error is failed: no dead-lettered job still says it will run.
DeadLetteredNotQueued ==
    \A m \in Messages : m \in deadLettered /\ m <= offset => row[m].status # "queued"

\* "a running projection MUST remain pending or recoverable"
\* (openspec/specs/durable-jobs): a job that recovery gives back can still be
\* delivered, unless it was dead-lettered.
NoStrandedJob ==
    \A m \in Messages : m <= offset /\ m \notin deadLettered => row[m].status # "queued"
=============================================================================
