--------------------------- MODULE JobWorkerProofs ---------------------------
(* Theorems about JobWorker, for any number of processes, messages, retries   *)
(* and faults, and any clock: its types, then the safety properties that its  *)
(* runs check on small instances.                                             *)
EXTENDS JobWorker, TLAPS

-----------------------------------------------------------------------------
(* The statements of the store on one row.                                   *)

\* The initial values are of their types.
LEMMA NoRowType == NoRow \in RowType
  BY JobStoreAssumption DEF NoRow, RowType, Times, NoTime, NoWorker, Statuses, ErrorCodes

\* No claim is a claim.
LEMMA NoClaimType == NoClaim \in Claims
  BY DEF NoClaim, Claims, Times, NoTime, NoWorker

\* An idle goroutine is a delivery.
LEMMA IdleDeliveryType == IdleDelivery \in DeliveryType
  BY JobWorkerAssumption, NoClaimType DEF IdleDelivery, DeliveryType, Times, Steps, Results

\* An idle recovery, or one about to start, is a recovery.
LEMMA IdleRecoveryType ==
    /\ IdleRecovery \in RecoveryType
    /\ \A boot \in BOOLEAN : StartRecovery(boot) \in RecoveryType
  BY NoRowType DEF IdleRecovery, StartRecovery, RecoveryType

\* Every statement of the store writes a row of the jobs table.
LEMMA StatementType ==
    ASSUME NEW r \in RowType, NEW now \in Times
    PROVE  /\ Materialized(r, now) \in RowType
           /\ Claimed(r, WorkerID, now) \in RowType
           /\ ClaimOf(r) \in Claims
           /\ \A s \in Terminal, e \in ErrorCodes : Finished(r, s, WorkerID, e, now) \in RowType
           /\ Requeued(r, now) \in RowType
           /\ Renewed(r, now) \in RowType
           /\ \A listed \in RowType : Recovered(r, listed, now) \in RowType
  <1> USE JobStoreAssumption
  <1>1. Materialized(r, now) \in RowType
    BY NoRowType DEF Materialized, RowType, Statuses, NoRow
  <1>2. Claimed(r, WorkerID, now) \in RowType
    <2>1. NextAttempt(r.attempts) \in 0 .. MaxAttempts
      BY DEF NextAttempt, RowType
    <2> QED BY <2>1 DEF Claimed, RowType, Statuses
  <1>3. ClaimOf(r) \in Claims
    BY DEF ClaimOf, RowType, Claims
  <1>4. \A s \in Terminal, e \in ErrorCodes : Finished(r, s, WorkerID, e, now) \in RowType
    BY DEF Finished, RowType, Statuses, Terminal
  <1>5. Requeued(r, now) \in RowType
    BY DEF Requeued, RowType, Statuses, Times, NoTime, NoWorker
  <1>6. Renewed(r, now) \in RowType
    BY DEF Renewed, RowType
  <1>7. \A listed \in RowType : Recovered(r, listed, now) \in RowType
    BY <1>5 DEF Recovered, RowType, Statuses, ErrorCodes
  <1> QED BY <1>1, <1>2, <1>3, <1>4, <1>5, <1>6, <1>7

-----------------------------------------------------------------------------
(* Type correctness.                                                         *)

\* A delivery that is under way has a message, and a verdict when it persists
\* one; the one the subscriber waits for is the next message of its batch.
ActiveHasMessage == \A d \in Slots : dlv[d].pc # "idle" => dlv[d].msg \in Messages
PersistsVerdict  == \A d \in Slots : dlv[d].pc = "persist" => dlv[d].result \in Terminal
OutIsNext == out # NoSlot => /\ dlv[out].pc # "idle"
                             /\ dlv[out].msg = cursor + 1
                             /\ lock = out[1]

TypeInv == TypeOK /\ ActiveHasMessage /\ PersistsVerdict /\ OutIsNext

\* The type invariant holds at the start.
LEMMA InitType == Init => TypeInv
  <1> SUFFICES ASSUME Init PROVE TypeInv
    OBVIOUS
  <1>1. TypeOK
    BY JobWorkerAssumption, NoRowType, NoClaimType, IdleDeliveryType, IdleRecoveryType
       DEF Init, TypeOK
  <1>2. ActiveHasMessage /\ PersistsVerdict /\ OutIsNext
    BY DEF Init, ActiveHasMessage, PersistsVerdict, OutIsNext, IdleDelivery
  <1> QED BY <1>1, <1>2 DEF TypeInv

\* One lemma per group of actions: type correctness is preserved.
LEMMA SubscriberType ==
    ASSUME TypeInv, NEW p \in Procs, NEW d \in Slots
    PROVE  /\ BeginBatch(p) => TypeInv'
           /\ Deliver(d) => TypeInv'
           /\ CommitBatch(p) => TypeInv'
           /\ Abandon(p) => TypeInv'
           /\ LoseTransaction(p) => TypeInv'
  <1> USE JobWorkerAssumption, JobStoreAssumption
  <1> USE DEF TypeInv
  <1>1. BeginBatch(p) => TypeInv'
    BY DEF BeginBatch, TypeOK, recovery, ActiveHasMessage, PersistsVerdict, OutIsNext, Slots
  <1>2. ASSUME Deliver(d) PROVE TypeInv'
    <2>0. cursor + 1 \in 0 .. NumMessages
      BY <1>2 DEF Deliver, TypeOK
    <2>1. [IdleDelivery EXCEPT !.pc = "insert", !.msg = cursor + 1] \in DeliveryType
      BY <2>0, IdleDeliveryType DEF DeliveryType, Steps
    <2>2. TypeOK'
      BY <1>2, <2>1 DEF Deliver, TypeOK, recovery
    <2>3. /\ dlv'[d].pc = "insert" /\ dlv'[d].msg = cursor + 1
          /\ \A e \in Slots \ {d} : dlv'[e] = dlv[e]
      BY <1>2 DEF Deliver, TypeOK, IdleDelivery
    <2>4. cursor + 1 \in Messages
      BY <1>2 DEF Deliver, TypeOK, Messages
    <2>5. ActiveHasMessage' /\ PersistsVerdict'
      BY <2>3, <2>4 DEF ActiveHasMessage, PersistsVerdict
    <2>6. OutIsNext'
      BY <1>2, <2>3 DEF Deliver, OutIsNext
    <2> QED BY <2>2, <2>5, <2>6
  <1>3. CommitBatch(p) => TypeInv'
    BY DEF CommitBatch, TypeOK, recovery, ActiveHasMessage, PersistsVerdict, OutIsNext
  <1>4. ASSUME Abandon(p) PROVE TypeInv'
    <2>1. out \in Slots /\ dlv' = [dlv EXCEPT ![out] = [dlv[out] EXCEPT !.live = FALSE]]
      BY <1>4 DEF Abandon, TypeOK
    <2>2. [dlv[out] EXCEPT !.live = FALSE] \in DeliveryType
      BY <2>1 DEF TypeOK, DeliveryType
    <2>3. TypeOK'
      BY <1>4, <2>1, <2>2 DEF Abandon, TypeOK, recovery, Fault
    <2>4. ActiveHasMessage' /\ PersistsVerdict' /\ OutIsNext'
      BY <1>4, <2>1 DEF Abandon, TypeOK, ActiveHasMessage, PersistsVerdict, OutIsNext, DeliveryType
    <2> QED BY <2>3, <2>4
  <1>5. LoseTransaction(p) => TypeInv'
    BY DEF LoseTransaction, TypeOK, recovery, Fault, ActiveHasMessage, PersistsVerdict, OutIsNext
  <1> QED BY <1>1, <1>2, <1>3, <1>4, <1>5

\* The variables that a delivery's own steps may change beside dlv and the
\* transport keep their types.
OthersTyped ==
    /\ clock \in Nat
    /\ row \in [Messages -> RowType]
    /\ claims \in [Procs -> [Messages -> Claims]]
    /\ due \in [Procs -> BOOLEAN]
    /\ rec \in [Procs -> RecoveryType]
    /\ deadLettered \subseteq Messages
    /\ unqueuedAcks \subseteq Messages
    /\ faults \in Nat

\* A delivery moves to another step of its own.
LEMMA DeliveryMoves ==
    ASSUME TypeInv, OthersTyped', UNCHANGED transport,
           NEW d \in Slots, dlv[d].pc # "idle",
           NEW e \in DeliveryType, dlv' = [dlv EXCEPT ![d] = e],
           e.pc # "idle", e.msg = dlv[d].msg, e.pc = "persist" => e.result \in Terminal
    PROVE  TypeInv'
  <1> USE JobWorkerAssumption DEF TypeInv
  <1>1. TypeOK'
    BY DEF TypeOK, OthersTyped, transport
  <1>2. dlv'[d] = e /\ \A f \in Slots \ {d} : dlv'[f] = dlv[f]
    BY DEF TypeOK
  <1>3. ActiveHasMessage' /\ PersistsVerdict'
    BY <1>2 DEF ActiveHasMessage, PersistsVerdict
  <1>4. OutIsNext'
    BY <1>2 DEF OutIsNext, transport, TypeOK
  <1> QED BY <1>1, <1>3, <1>4

\* No delivery moves.
LEMMA DeliveryStays ==
    ASSUME TypeInv, OthersTyped', UNCHANGED <<transport, dlv>>
    PROVE  TypeInv'
  BY DEF TypeInv, TypeOK, OthersTyped, transport, ActiveHasMessage, PersistsVerdict, OutIsNext

\* A delivery ends, acknowledged or not.
LEMMA DeliveryEnds ==
    ASSUME TypeInv, OthersTyped', NEW d \in Slots, dlv[d].pc # "idle", Ack(d) \/ Nack(d)
    PROVE  TypeInv'
  <1> USE JobWorkerAssumption DEF TypeInv
  <1>1. dlv' = [dlv EXCEPT ![d] = IdleDelivery] /\ UNCHANGED <<offset, lock>>
    BY DEF Ack, Nack
  <1>2. /\ cursor' \in 0 .. NumMessages
        /\ out' \in Slots \cup {NoSlot}
        /\ out' # NoSlot => out' = out /\ out # d /\ cursor' = cursor
    <2>1. out = d => cursor + 1 \in Messages
      BY DEF OutIsNext, ActiveHasMessage
    <2> QED BY <2>1 DEF Ack, Nack, TypeOK, Messages
  <1>3. TypeOK'
    BY <1>1, <1>2, IdleDeliveryType DEF TypeOK, OthersTyped
  <1>4. dlv'[d].pc = "idle" /\ \A f \in Slots \ {d} : dlv'[f] = dlv[f]
    BY <1>1 DEF TypeOK, IdleDelivery
  <1>5. ActiveHasMessage' /\ PersistsVerdict'
    BY <1>4 DEF ActiveHasMessage, PersistsVerdict
  <1>6. OutIsNext'
    BY <1>1, <1>2, <1>4 DEF OutIsNext, TypeOK
  <1> QED BY <1>3, <1>5, <1>6

\* The three ways a delivery moves on.
LEMMA MovesType ==
    ASSUME TypeInv, OthersTyped', UNCHANGED transport, NEW d \in Slots, dlv[d].pc # "idle"
    PROVE  /\ \A s \in Steps \ {"idle", "persist"} : Goto(d, s) => TypeInv'
           /\ \A res \in Results : Return(d, res) => TypeInv'
           /\ \A res \in Results : Release(d, res) => TypeInv'
  <1> dlv \in [Slots -> DeliveryType] /\ dlv[d] \in DeliveryType
    BY DEF TypeInv, TypeOK
  <1>1. ASSUME NEW s \in Steps \ {"idle", "persist"}, Goto(d, s) PROVE TypeInv'
    <2> DEFINE e == [dlv[d] EXCEPT !.pc = s]
    <2>1. dlv' = [dlv EXCEPT ![d] = e] /\ e \in DeliveryType /\ e.pc = s /\ e.msg = dlv[d].msg
      BY <1>1 DEF Goto, DeliveryType
    <2> HIDE DEF e
    <2> QED BY <2>1, DeliveryMoves
  <1>2. ASSUME NEW res \in Results, Return(d, res) PROVE TypeInv'
    <2> DEFINE e == [dlv[d] EXCEPT !.pc = "retry", !.result = res]
    <2>1. /\ dlv' = [dlv EXCEPT ![d] = e] /\ e \in DeliveryType
          /\ e.pc = "retry" /\ e.msg = dlv[d].msg
      BY <1>2 DEF Return, DeliveryType, Steps
    <2> HIDE DEF e
    <2> QED BY <2>1, DeliveryMoves
  <1>3. ASSUME NEW res \in Results, Release(d, res) PROVE TypeInv'
    <2> DEFINE e == [dlv[d] EXCEPT !.pc = "release", !.result = res, !.claim = NoClaim,
                                   !.queuedAt = IF res = "transient" THEN @ ELSE NoTime]
    <2>1. dlv' = [dlv EXCEPT ![d] = e]
      BY <1>3 DEF Release
    <2>2. e \in DeliveryType /\ e.pc = "release" /\ e.msg = dlv[d].msg
      BY NoClaimType DEF DeliveryType, Steps, Times
    <2> HIDE DEF e
    <2> QED BY <2>1, <2>2, DeliveryMoves
  <1> QED BY <1>1, <1>2, <1>3

\* What a step knows of the delivery it belongs to.
LEMMA ActiveFacts ==
    ASSUME TypeInv, NEW d \in Slots, dlv[d].pc # "idle"
    PROVE  /\ Msg(d) \in Messages
           /\ Row(d) \in RowType
           /\ dlv[d] \in DeliveryType
           /\ d[1] \in Procs
           /\ OthersTyped
           /\ \A r \in RowType : SetRow(d, r) \in [Messages -> RowType]
           /\ \A kind : Fault(kind) => faults' \in Nat
           /\ StoreError(d) => faults' \in Nat
  BY DEF TypeInv, TypeOK, ActiveHasMessage, Msg, Row, Slots, OthersTyped, SetRow, Fault, StoreError

\* The steps of processObserved and of the router's middleware keep the types.
LEMMA ProcessType ==
    ASSUME TypeInv, NEW d \in Slots, Process(d)
    PROVE  TypeInv'
  <1> dlv[d].pc # "idle"
    BY DEF Process, RejectPayload, Materialize, ReadMaterialized, Claim, TrackClaim, HandlerReturns,
           PersistTerminal, RequeueRunning, ReleaseClaim, Retry, FinalizeRetryExhausted,
           PublishDeadLetter, At
  <1> USE ActiveFacts
  <1> clock \in Times /\ WorkerID \in {NoWorker, WorkerID}
    BY DEF OthersTyped, Times
  <1>1. CASE RejectPayload(d)
    <2>1. OthersTyped' /\ UNCHANGED transport /\ Return(d, "error")
      BY <1>1 DEF RejectPayload, OthersTyped, recovery
    <2> QED BY <2>1, MovesType DEF Results
  <1>2. CASE Materialize(d)
    <2>1. SetRow(d, Materialized(Row(d), clock)) \in [Messages -> RowType]
      BY StatementType
    <2>2. OthersTyped' /\ UNCHANGED transport
      BY <1>2, <2>1 DEF Materialize, OthersTyped, recovery
    <2>3. Goto(d, "read") \/ Return(d, "error")
      BY <1>2 DEF Materialize
    <2> QED BY <2>2, <2>3, MovesType DEF Results, Steps
  <1>3. CASE ReadMaterialized(d)
    <2>1. OthersTyped'
      BY <1>3 DEF ReadMaterialized, OthersTyped, recovery
    <2>2. \/ Ack(d) \/ Nack(d)
          \/ UNCHANGED transport /\ (Goto(d, "claim") \/ Return(d, "error"))
      BY <1>3 DEF ReadMaterialized
    <2> QED BY <2>1, <2>2, MovesType, DeliveryEnds DEF Results, Steps
  <1>4. CASE Claim(d)
    <2>1. SetRow(d, Claimed(Row(d), WorkerID, clock)) \in [Messages -> RowType]
      BY StatementType
    <2>2. OthersTyped'
      BY <1>4, <2>1 DEF Claim, OthersTyped, recovery
    <2>3. \/ Ack(d)
          \/ UNCHANGED transport /\ (Goto(d, "reread") \/ Return(d, "error"))
      BY <1>4 DEF Claim
    <2> QED BY <2>2, <2>3, MovesType, DeliveryEnds DEF Results, Steps
  <1>5. CASE TrackClaim(d)
    <2> DEFINE e == [dlv[d] EXCEPT !.pc = "handler", !.claim = ClaimOf(Row(d))]
    <2>0. UNCHANGED transport
      BY <1>5 DEF TrackClaim
    <2>1. ClaimOf(Row(d)) \in Claims
      BY StatementType
    <2>2. [claims EXCEPT ![d[1]][Msg(d)] = ClaimOf(Row(d))] \in [Procs -> [Messages -> Claims]]
      BY <2>1 DEF OthersTyped
    <2>3. OthersTyped'
      BY <1>5, <2>2 DEF TrackClaim, Tracked, OthersTyped, recovery
    <2>4. dlv' = [dlv EXCEPT ![d] = e] \/ Return(d, "error")
      BY <1>5 DEF TrackClaim, TypeInv, TypeOK
    <2>5. e \in DeliveryType /\ e.pc = "handler" /\ e.msg = dlv[d].msg
      BY <2>1 DEF DeliveryType, Steps
    <2> HIDE DEF e
    <2>6. CASE dlv' = [dlv EXCEPT ![d] = e]
      BY <2>0, <2>3, <2>5, <2>6, DeliveryMoves
    <2>7. CASE Return(d, "error")
      BY <2>0, <2>3, <2>7, MovesType DEF Results
    <2> QED BY <2>4, <2>6, <2>7
  <1>6. CASE HandlerReturns(d)
    <2>1. OthersTyped' /\ UNCHANGED transport
      BY <1>6 DEF HandlerReturns, OthersTyped, recovery
    <2>2. ASSUME NEW v \in Terminal,
                 dlv' = [dlv EXCEPT ![d].pc = "persist", ![d].result = v]
          PROVE  TypeInv'
      <3> DEFINE e == [dlv[d] EXCEPT !.pc = "persist", !.result = v]
      <3>1. dlv' = [dlv EXCEPT ![d] = e]
        BY <2>2 DEF TypeInv, TypeOK
      <3>2. e \in DeliveryType /\ e.pc = "persist" /\ e.msg = dlv[d].msg /\ e.result = v
        BY DEF DeliveryType, Steps, Results, Terminal
      <3> HIDE DEF e
      <3> QED BY <2>1, <3>1, <3>2, DeliveryMoves
    <2>3. ASSUME NEW v \in {"transient", "panic"},
                 dlv' = [dlv EXCEPT ![d].pc = "requeue", ![d].result = v, ![d].queuedAt = clock]
          PROVE  TypeInv'
      <3> DEFINE e == [dlv[d] EXCEPT !.pc = "requeue", !.result = v, !.queuedAt = clock]
      <3>1. dlv' = [dlv EXCEPT ![d] = e]
        BY <2>3 DEF TypeInv, TypeOK
      <3>2. e \in DeliveryType /\ e.pc = "requeue" /\ e.msg = dlv[d].msg
        BY DEF DeliveryType, Steps, Results
      <3> HIDE DEF e
      <3> QED BY <2>1, <3>1, <3>2, DeliveryMoves
    <2> QED BY <1>6, <2>2, <2>3 DEF HandlerReturns, Terminal
  <1>7. CASE PersistTerminal(d)
    <2>1. dlv[d].result \in Terminal /\ VerdictError(dlv[d].result) \in ErrorCodes
      BY <1>7 DEF PersistTerminal, At, TypeInv, PersistsVerdict, VerdictError, ErrorCodes
    <2>2. Finished(Row(d), dlv[d].result, WorkerID, VerdictError(dlv[d].result), clock) \in RowType
      BY <2>1, StatementType
    <2>3. OthersTyped' /\ UNCHANGED transport
      BY <1>7, <2>2 DEF PersistTerminal, OthersTyped, recovery
    <2>4. Release(d, "done") \/ Release(d, "error") \/ UNCHANGED dlv
      BY <1>7 DEF PersistTerminal
    <2>5. CASE Release(d, "done") \/ Release(d, "error")
      BY <2>3, <2>5, MovesType DEF Results
    <2>6. CASE UNCHANGED dlv
      BY <2>3, <2>6, DeliveryStays
    <2> QED BY <2>4, <2>5, <2>6
  <1>8. CASE RequeueRunning(d)
    <2>1. Requeued(Row(d), dlv[d].queuedAt) \in RowType
      BY StatementType DEF DeliveryType
    <2>2. OthersTyped' /\ UNCHANGED transport
      BY <1>8, <2>1 DEF RequeueRunning, OthersTyped, recovery
    <2>3. Release(d, "error") \/ Release(d, "transient")
      BY <1>8 DEF RequeueRunning
    <2> QED BY <2>2, <2>3, MovesType DEF Results
  <1>9. CASE ReleaseClaim(d)
    <2>1. [claims EXCEPT ![d[1]][Msg(d)] = NoClaim] \in [Procs -> [Messages -> Claims]]
      BY NoClaimType DEF OthersTyped
    <2>2. OthersTyped'
      BY <1>9, <2>1 DEF ReleaseClaim, OthersTyped, recovery
    <2>3. Ack(d) \/ (Goto(d, "retry") /\ UNCHANGED transport)
      BY <1>9 DEF ReleaseClaim
    <2> QED BY <2>2, <2>3, MovesType, DeliveryEnds DEF Steps
  <1>10. CASE Retry(d)
    <2>1. OthersTyped' /\ UNCHANGED transport
      BY <1>10 DEF Retry, OthersTyped, recovery
    <2> DEFINE e == [IdleDelivery EXCEPT !.pc = "insert", !.msg = Msg(d),
                                         !.tries = dlv[d].tries + 1]
    <2>2. \/ Goto(d, "poison") \/ Goto(d, "finalize")
          \/ dlv[d].tries < MaxRetries /\ dlv' = [dlv EXCEPT ![d] = e]
      BY <1>10 DEF Retry, RetriesLeft
    <2>3. CASE dlv[d].tries < MaxRetries /\ dlv' = [dlv EXCEPT ![d] = e]
      <3>1. dlv[d].tries + 1 \in 0 .. MaxRetries /\ Msg(d) \in 0 .. NumMessages
        BY <2>3, JobWorkerAssumption DEF DeliveryType, Messages
      <3>2. e \in DeliveryType /\ e.pc = "insert" /\ e.msg = dlv[d].msg
        BY <3>1, IdleDeliveryType DEF DeliveryType, Steps, Msg
      <3> HIDE DEF e
      <3> QED BY <2>1, <2>3, <3>2, DeliveryMoves
    <2>4. CASE Goto(d, "poison") \/ Goto(d, "finalize")
      BY <2>1, <2>4, MovesType DEF Steps
    <2> QED BY <2>2, <2>3, <2>4
  <1>11. CASE FinalizeRetryExhausted(d)
    <2>1. Finished(Row(d), "failed", WorkerID, "job_execution_failed", clock) \in RowType
      BY StatementType DEF Terminal, ErrorCodes
    <2>2. OthersTyped' /\ UNCHANGED transport
      BY <1>11, <2>1 DEF FinalizeRetryExhausted, OthersTyped, recovery
    <2>3. Goto(d, "poison") \/ UNCHANGED dlv
      BY <1>11 DEF FinalizeRetryExhausted
    <2> QED BY <2>2, <2>3, MovesType, DeliveryStays DEF Steps
  <1>12. CASE PublishDeadLetter(d)
    <2>1. OthersTyped'
      BY <1>12 DEF PublishDeadLetter, OthersTyped, recovery
    <2>2. Ack(d) \/ Nack(d)
      BY <1>12 DEF PublishDeadLetter
    <2> QED BY <2>1, <2>2, DeliveryEnds
  <1> QED BY <1>1, <1>2, <1>3, <1>4, <1>5, <1>6, <1>7, <1>8, <1>9, <1>10, <1>11, <1>12
          DEF Process

\* The steps of the recovery goroutine keep the types.
LEMMA RecoveryStepType ==
    ASSUME TypeInv, NEW p \in Procs, Recovery(p) \/ Crash(p)
    PROVE  TypeInv'
  <1> USE IdleRecoveryType, JobWorkerAssumption
  <1>0. OthersTyped /\ clock \in Times
    BY DEF TypeInv, TypeOK, OthersTyped, Times
  <1>1. CASE RenewClaims(p)
    <2>1. \A m \in Messages : Renewed(row[m], clock) \in RowType
      BY <1>0, StatementType DEF OthersTyped
    <2>2. row' \in [Messages -> RowType]
      BY <1>0, <1>1, <2>1 DEF RenewClaims, OthersTyped
    <2>3. StartRecovery(FALSE) \in RecoveryType
      OBVIOUS
    <2>4. rec' \in [Procs -> RecoveryType]
      BY <1>0, <1>1, <2>3 DEF RenewClaims, OthersTyped
    <2>5. due' \in [Procs -> BOOLEAN] /\ faults' \in Nat
      BY <1>0, <1>1 DEF RenewClaims, OthersTyped, Fault
    <2>6. OthersTyped' /\ UNCHANGED <<transport, dlv>>
      BY <1>0, <1>1, <2>2, <2>4, <2>5 DEF RenewClaims, OthersTyped
    <2> QED BY <2>6, DeliveryStays
  <1>2. CASE ListStale(p)
    <2> DEFINE l == [pc |-> "recover", now |-> clock, boot |-> rec[p].boot,
                     listed |-> [m \in Messages |->
                        IF m \in {n \in Messages : IsStale(row[n], clock)} THEN row[m] ELSE NoRow]]
    <2>1. l \in RecoveryType
      BY <1>0, NoRowType DEF OthersTyped, RecoveryType
    <2>2. \/ rec' = [rec EXCEPT ![p] = l] \/ rec' = [rec EXCEPT ![p] = IdleRecovery]
          \/ rec' = [rec EXCEPT ![p] = FailedRecovery(p)]
      BY <1>2 DEF ListStale, StaleRows
    <2> HIDE DEF l
    <2>3. FailedRecovery(p) \in RecoveryType
      BY DEF FailedRecovery
    <2>4. OthersTyped' /\ UNCHANGED <<transport, dlv>>
      BY <1>0, <1>2, <2>1, <2>2, <2>3 DEF ListStale, OthersTyped, Fault
    <2> QED BY <2>4, DeliveryStays
  <1>3. CASE EndRecovery(p)
    <2>1. OthersTyped' /\ UNCHANGED <<transport, dlv>>
      BY <1>0, <1>3 DEF EndRecovery, OthersTyped
    <2> QED BY <2>1, DeliveryStays
  <1>4. ASSUME NEW m \in Messages, RecoverRow(p, m) PROVE TypeInv'
    <2> DEFINE l == rec[p].listed[m]
    <2> DEFINE r == IF SameClaim(row[m], l) THEN Recovered(row[m], l, rec[p].now) ELSE row[m]
    <2>1. l \in RowType /\ row[m] \in RowType /\ rec[p].now \in Times /\ rec[p] \in RecoveryType
      BY <1>0 DEF OthersTyped, RecoveryType, Times
    <2>2. r \in RowType
      BY <2>1, StatementType
    <2>3. row' = row \/ row' = [row EXCEPT ![m] = r]
      BY <1>0, <1>4 DEF RecoverRow, OthersTyped
    <2> HIDE DEF l, r
    <2>4. row' \in [Messages -> RowType]
      BY <1>0, <2>2, <2>3 DEF OthersTyped
    <2>5. [rec[p] EXCEPT !.listed[m] = NoRow] \in RecoveryType
      BY <2>1, NoRowType DEF RecoveryType
    <2>6. \/ rec' = [rec EXCEPT ![p] = [rec[p] EXCEPT !.listed[m] = NoRow]]
          \/ rec' = [rec EXCEPT ![p] = FailedRecovery(p)]
      BY <1>0, <1>4 DEF RecoverRow, OthersTyped
    <2>7. rec' \in [Procs -> RecoveryType]
      BY <1>0, <2>5, <2>6 DEF OthersTyped, FailedRecovery
    <2>8. OthersTyped' /\ UNCHANGED <<transport, dlv>>
      BY <1>0, <1>4, <2>4, <2>7 DEF RecoverRow, OthersTyped, Fault
    <2> QED BY <2>8, DeliveryStays
  <1>5. CASE Crash(p)
    <2>1. TypeOK'
      <3>1. dlv' \in [Slots -> DeliveryType]
        BY <1>5, IdleDeliveryType DEF Crash, TypeInv, TypeOK
      <3>2. claims' \in [Procs -> [Messages -> Claims]]
        BY <1>5, NoClaimType DEF Crash, TypeInv, TypeOK
      <3>3. lock' \in Procs \cup {NoProc} /\ out' \in Slots \cup {NoSlot}
        BY <1>5 DEF Crash, TypeInv, TypeOK
      <3>4. StartRecovery(TRUE) \in RecoveryType
        OBVIOUS
      <3>5. rec' \in [Procs -> RecoveryType]
        BY <1>5, <3>4 DEF Crash, TypeInv, TypeOK
      <3>6. due' \in [Procs -> BOOLEAN] /\ faults' \in Nat
        BY <1>5 DEF Crash, TypeInv, TypeOK, Fault
      <3> QED BY <1>5, <3>1, <3>2, <3>3, <3>5, <3>6 DEF Crash, TypeInv, TypeOK
    <2>2. \A d \in Slots : dlv'[d] = IF d[1] = p THEN IdleDelivery ELSE dlv[d]
      BY <1>5 DEF Crash
    <2>3. ActiveHasMessage' /\ PersistsVerdict'
      BY <2>2 DEF TypeInv, ActiveHasMessage, PersistsVerdict, IdleDelivery
    <2>4. OutIsNext'
      BY <1>5, <2>2 DEF Crash, TypeInv, TypeOK, OutIsNext
    <2> QED BY <2>1, <2>3, <2>4 DEF TypeInv
  <1> QED BY <1>1, <1>2, <1>3, <1>4, <1>5 DEF Recovery

\* Type correctness: whatever the processes, faults and clock do, the variables
\* hold rows, positions and program counters of the kinds the code has, and the
\* auxiliary facts of TypeInv hold with it.
LEMMA TypeInvariant == Spec => []TypeInv
  <1>1. TypeInv /\ [Next]_vars => TypeInv'
    <2> SUFFICES ASSUME TypeInv, [Next]_vars PROVE TypeInv'
      OBVIOUS
    <2>1. ASSUME NEW d \in Slots, Deliver(d) \/ Process(d) PROVE TypeInv'
      <3>1. PICK p \in Procs : d[1] = p
        BY DEF Slots
      <3> QED BY <2>1, <3>1, SubscriberType, ProcessType
    <2>2. ASSUME NEW p \in Procs,
                 BeginBatch(p) \/ CommitBatch(p) \/ Abandon(p) \/ LoseTransaction(p)
          PROVE  TypeInv'
      <3>1. <<p, 1>> \in Slots
        BY JobWorkerAssumption DEF Slots
      <3> QED BY <2>2, <3>1, SubscriberType
    <2>3. ASSUME NEW p \in Procs, Recovery(p) \/ Crash(p) PROVE TypeInv'
      BY <2>3, RecoveryStepType
    <2>4. CASE Tick
      <3>1. OthersTyped' /\ UNCHANGED <<transport, dlv>>
        BY <2>4 DEF Tick, TypeInv, TypeOK, OthersTyped, RecoveryType
      <3> QED BY <3>1, DeliveryStays
    <2>5. CASE UNCHANGED vars
      <3>1. OthersTyped' /\ UNCHANGED <<transport, dlv>>
        BY <2>5 DEF vars, recovery, TypeInv, TypeOK, OthersTyped
      <3> QED BY <3>1, DeliveryStays
    <2> QED BY <2>1, <2>2, <2>3, <2>4, <2>5 DEF Next
  <1> QED BY InitType, <1>1, PTL DEF Spec

\* The type invariant that the safety run checks.
THEOREM TypeCorrect == Spec => []TypeOK
  BY TypeInvariant, PTL DEF TypeInv

-----------------------------------------------------------------------------
(* The writes of the jobs table.                                             *)

\* One statement on one row, with what its WHERE clause has established.
RowStep(m) ==
    \/ row[m].status = "absent" /\ row'[m] = Materialized(row[m], clock)
    \/ Claimable(row[m]) /\ row'[m] = Claimed(row[m], WorkerID, clock)
    \/ \E d \in Slots :
         /\ dlv[d].pc = "persist" /\ Msg(d) = m /\ HoldsClaim(row[m], dlv[d].claim)
         /\ row'[m] = Finished(row[m], dlv[d].result, WorkerID, VerdictError(dlv[d].result), clock)
    \/ \E d \in Slots :
         /\ dlv[d].pc = "requeue" /\ Msg(d) = m /\ HoldsClaim(row[m], dlv[d].claim)
         /\ row'[m] = Requeued(row[m], dlv[d].queuedAt)
    \/ \E d \in Slots :
         /\ dlv[d].pc = "finalize" /\ Msg(d) = m /\ StillRequeued(row[m], dlv[d].queuedAt)
         /\ row'[m] = Finished(row[m], "failed", WorkerID, "job_execution_failed", clock)
    \/ \E p \in Procs :
         /\ rec[p].listed[m] # NoRow /\ SameClaim(row[m], rec[p].listed[m])
         /\ row'[m] = Recovered(row[m], rec[p].listed[m], rec[p].now)

OnlyRow(m) == RowStep(m) /\ \A n \in Messages \ {m} : row'[n] = row[n]

\* A renewal of claims writes the update time of running rows only.
Renewal == \A m \in Messages :
              \/ row'[m] = row[m]
              \/ row[m].status = "running" /\ row'[m] = Renewed(row[m], clock)

\* Whatever a step does, it writes no row, or renews claims, or is one guarded
\* statement on one row.
LEMMA RowSteps ==
    ASSUME TypeInv, [Next]_vars
    PROVE  row' = row \/ Renewal \/ \E m \in Messages : OnlyRow(m)
  <1>0. row \in [Messages -> RowType]
    BY DEF TypeInv, TypeOK
  <1>1. ASSUME NEW m \in Messages, NEW r, row' = [row EXCEPT ![m] = r]
        PROVE  row'[m] = r /\ \A n \in Messages \ {m} : row'[n] = row[n]
    BY <1>0, <1>1
  <1>2. ASSUME NEW d \in Slots, Process(d)
        PROVE  row' = row \/ \E m \in Messages : OnlyRow(m)
    <2>0. dlv[d].pc # "idle"
      BY <1>2 DEF Process, RejectPayload, Materialize, ReadMaterialized, Claim, TrackClaim,
                  HandlerReturns, PersistTerminal, RequeueRunning, ReleaseClaim, Retry,
                  FinalizeRetryExhausted, PublishDeadLetter, At
    <2>1. Msg(d) \in Messages
      BY <2>0, ActiveFacts
    <2> DEFINE m == Msg(d)
    <2>2. CASE Materialize(d)
      <3>1. row' = row \/ row' = [row EXCEPT ![m] = Materialized(row[m], clock)]
        BY <2>2 DEF Materialize, SetRow, Row
      <3>2. CASE row[m].status = "absent"
        BY <1>1, <2>1, <3>1, <3>2 DEF RowStep, OnlyRow
      <3>3. CASE row[m].status # "absent"
        BY <1>0, <2>1, <3>1, <3>3 DEF Materialized
      <3> QED BY <3>2, <3>3
    <2>3. CASE Claim(d)
      <3>1. \/ row' = row
            \/ Claimable(row[m]) /\ row' = [row EXCEPT ![m] = Claimed(row[m], WorkerID, clock)]
        BY <2>3 DEF Claim, SetRow, Row
      <3> QED BY <1>1, <2>1, <3>1 DEF RowStep, OnlyRow
    <2>4. CASE PersistTerminal(d)
      <3>1. /\ dlv[d].pc = "persist"
            /\ \/ row' = row
               \/ /\ HoldsClaim(row[m], dlv[d].claim)
                  /\ row' = [row EXCEPT ![m] = Finished(row[m], dlv[d].result, WorkerID,
                                                        VerdictError(dlv[d].result), clock)]
        BY <2>4 DEF PersistTerminal, SetRow, Row, At
      <3> QED BY <1>1, <2>1, <3>1 DEF RowStep, OnlyRow
    <2>5. CASE RequeueRunning(d)
      <3>1. /\ dlv[d].pc = "requeue"
            /\ \/ row' = row
               \/ /\ HoldsClaim(row[m], dlv[d].claim)
                  /\ row' = [row EXCEPT ![m] = Requeued(row[m], dlv[d].queuedAt)]
        BY <2>5 DEF RequeueRunning, SetRow, Row, At
      <3> QED BY <1>1, <2>1, <3>1 DEF RowStep, OnlyRow
    <2>6. CASE FinalizeRetryExhausted(d)
      <3>1. /\ dlv[d].pc = "finalize"
            /\ \/ row' = row
               \/ /\ StillRequeued(row[m], dlv[d].queuedAt)
                  /\ row' = [row EXCEPT ![m] = Finished(row[m], "failed", WorkerID,
                                                        "job_execution_failed", clock)]
        BY <2>6 DEF FinalizeRetryExhausted, SetRow, Row, At
      <3> QED BY <1>1, <2>1, <3>1 DEF RowStep, OnlyRow
    <2> QED BY <1>2, <2>2, <2>3, <2>4, <2>5, <2>6
            DEF Process, RejectPayload, ReadMaterialized, TrackClaim, HandlerReturns,
                ReleaseClaim, Retry, PublishDeadLetter
  <1>3. ASSUME NEW p \in Procs, Recovery(p)
        PROVE  row' = row \/ Renewal \/ \E m \in Messages : OnlyRow(m)
    <2>1. CASE RenewClaims(p)
      BY <2>1 DEF RenewClaims, Renewal, HoldsClaim
    <2>2. ASSUME NEW m \in Messages, RecoverRow(p, m) PROVE row' = row \/ OnlyRow(m)
      <3>1. \/ row' = row
            \/ /\ rec[p].listed[m] # NoRow /\ SameClaim(row[m], rec[p].listed[m])
               /\ row' = [row EXCEPT ![m] = Recovered(row[m], rec[p].listed[m], rec[p].now)]
        BY <1>0, <2>2 DEF RecoverRow
      <3> QED BY <1>1, <3>1 DEF RowStep, OnlyRow
    <2> QED BY <1>3, <2>1, <2>2 DEF Recovery, ListStale, EndRecovery
  <1> QED BY <1>2, <1>3 DEF Next, vars, Deliver, BeginBatch, CommitBatch, Abandon,
                            LoseTransaction, Crash, Tick

-----------------------------------------------------------------------------
\* Every WHERE clause of the store excludes terminal rows: a job that succeeded
\* or failed is never written again.
LEMMA TerminalKept ==
    ASSUME TypeInv, [Next]_vars, NEW m \in Messages, row[m].status \in Terminal
    PROVE  row'[m] = row[m]
  <1>1. ~RowStep(m)
    BY DEF RowStep, Terminal, Claimable, HoldsClaim, StillRequeued, SameClaim
  <1> QED BY <1>1, RowSteps DEF OnlyRow, Renewal, Terminal

\* The same as a property of behaviours.
THEOREM TerminalIsFinal == Spec => TerminalAbsorbing
  <1>1. TypeInv /\ [Next]_vars =>
          [\A m \in Messages : row[m].status \in Terminal => row'[m] = row[m]]_vars
    BY TerminalKept
  <1> QED BY <1>1, TypeInvariant, PTL DEF Spec, TerminalAbsorbing

-----------------------------------------------------------------------------
\* What recovery remembers of a row was stale when it was listed, and the clock
\* has not gone back since.
ListedStale ==
    \A p \in Procs, m \in Messages :
        rec[p].listed[m] # NoRow =>
            /\ rec[p].listed[m].updatedAt + StaleRunningAge <= rec[p].now
            /\ rec[p].now <= clock

\* What recovery listed was stale when listed, and so it is later.
LEMMA ListedStaleInvariant == Spec => []ListedStale
  <1>1. Init => ListedStale
    BY DEF Init, ListedStale, IdleRecovery
  <1>2. TypeInv /\ ListedStale /\ [Next]_vars => ListedStale'
    <2> SUFFICES ASSUME TypeInv, ListedStale, [Next]_vars PROVE ListedStale'
      OBVIOUS
    <2> rec \in [Procs -> RecoveryType] /\ clock \in Nat
      BY DEF TypeInv, TypeOK
    <2>1. \A b \in BOOLEAN, m \in Messages :
             IdleRecovery.listed[m] = NoRow /\ StartRecovery(b).listed[m] = NoRow
      BY DEF IdleRecovery, StartRecovery
    <2>2. \A q \in Procs, m \in Messages : FailedRecovery(q).listed[m] = NoRow
      BY <2>1 DEF FailedRecovery
    <2>3. CASE UNCHANGED <<rec, clock>>
      BY <2>3 DEF ListedStale
    <2>4. ASSUME NEW p \in Procs, NEW r, rec' = [rec EXCEPT ![p] = r],
                 UNCHANGED clock, \A m \in Messages : r.listed[m] = NoRow
          PROVE  ListedStale'
      BY <2>4 DEF ListedStale
    <2>5. ASSUME NEW p \in Procs, RenewClaims(p) \/ EndRecovery(p) \/ Crash(p) PROVE ListedStale'
      <3>1. /\ clock' = clock
            /\ \/ rec' = [rec EXCEPT ![p] = StartRecovery(FALSE)]
               \/ rec' = [rec EXCEPT ![p] = StartRecovery(TRUE)]
               \/ rec' = [rec EXCEPT ![p] = IdleRecovery]
        BY <2>5 DEF RenewClaims, EndRecovery, Crash
      <3> QED BY <2>1, <2>4, <3>1
    <2>6. ASSUME NEW p \in Procs, ListStale(p) PROVE ListedStale'
      <3> DEFINE l == [pc |-> "recover", now |-> clock, boot |-> rec[p].boot,
                       listed |-> [m \in Messages |->
                          IF m \in {n \in Messages : IsStale(row[n], clock)}
                          THEN row[m] ELSE NoRow]]
      <3>1. \/ rec' = [rec EXCEPT ![p] = l] \/ rec' = [rec EXCEPT ![p] = IdleRecovery]
            \/ rec' = [rec EXCEPT ![p] = FailedRecovery(p)]
        BY <2>6 DEF ListStale, StaleRows
      <3>2. clock' = clock
        BY <2>6 DEF ListStale, StaleRows
      <3>3. l.now = clock /\ \A m \in Messages :
              l.listed[m] # NoRow => l.listed[m].updatedAt + StaleRunningAge <= clock
        BY DEF IsStale
      <3> HIDE DEF l
      <3>4. CASE rec' = [rec EXCEPT ![p] = l]
        BY <3>2, <3>3, <3>4 DEF ListedStale
      <3> QED BY <2>1, <2>2, <2>4, <3>1, <3>2, <3>4
    <2>7. ASSUME NEW p \in Procs, NEW m \in Messages, RecoverRow(p, m) PROVE ListedStale'
      <3> DEFINE e == [rec[p] EXCEPT !.listed[m] = NoRow]
      <3>1. \/ rec' = [rec EXCEPT ![p] = e] \/ rec' = [rec EXCEPT ![p] = FailedRecovery(p)]
        BY <2>7 DEF RecoverRow
      <3>2. clock' = clock
        BY <2>7 DEF RecoverRow
      <3>3. e.now = rec[p].now /\ e.listed[m] = NoRow
            /\ \A n \in Messages \ {m} : e.listed[n] = rec[p].listed[n]
        BY DEF RecoveryType
      <3> HIDE DEF e
      <3>4. CASE rec' = [rec EXCEPT ![p] = e]
        BY <3>2, <3>3, <3>4 DEF ListedStale
      <3> QED BY <2>2, <2>4, <3>1, <3>2, <3>4
    <2>8. CASE Tick
      <3>1. rec' = rec /\ clock' = clock + 1
        BY <2>8 DEF Tick
      <3>2. \A p \in Procs : rec[p].now \in Nat
        BY DEF RecoveryType
      <3> QED BY <3>1, <3>2 DEF ListedStale
    <2> QED BY <2>3, <2>5, <2>6, <2>7, <2>8
            DEF Next, vars, recovery, Deliver, Process, BeginBatch, CommitBatch, Abandon, Recovery,
                LoseTransaction, RejectPayload, Materialize, ReadMaterialized, Claim, TrackClaim,
                HandlerReturns, PersistTerminal, RequeueRunning, ReleaseClaim, Retry,
                FinalizeRetryExhausted, PublishDeadLetter
  <1> QED BY <1>1, <1>2, TypeInvariant, PTL DEF Spec

\* Recovery never takes a job from a live claim: a job leaves "running" through
\* the delivery whose claim the row still carries, or when it is stale at that
\* moment, although recovery lists rows in one statement and updates in another.
THEOREM ClaimsAreRespected == Spec => OnlyHolderOrStale
  <1>1. ASSUME TypeInv, ListedStale, [Next]_vars, NEW m \in Messages,
               row[m].status = "running", row'[m].status # "running"
        PROVE  IsStale(row[m], clock) \/ ByHolder(m)
    <2>1. row[m] \in RowType /\ clock \in Nat /\ rec \in [Procs -> RecoveryType]
      BY <1>1 DEF TypeInv, TypeOK
    <2>2. RowStep(m)
      BY <1>1, <2>1, RowSteps DEF OnlyRow, Renewal, Renewed, RowType
    <2>3. ASSUME NEW p \in Procs, rec[p].listed[m] # NoRow, SameClaim(row[m], rec[p].listed[m])
          PROVE  IsStale(row[m], clock)
      <3>1. rec[p].now \in Nat /\ rec[p].listed[m] \in RowType
        BY <2>1 DEF RecoveryType
      <3> QED BY <1>1, <2>1, <2>3, <3>1, JobStoreAssumption
              DEF ListedStale, SameClaim, IsStale, RowType, Times, NoTime
    <2> QED BY <1>1, <2>2, <2>3 DEF RowStep, ByHolder, Claimable, StillRequeued
  <1>2. TypeInv /\ ListedStale /\ [Next]_vars =>
          [\A m \in Messages : row[m].status = "running" /\ row'[m].status # "running"
                                 => IsStale(row[m], clock) \/ ByHolder(m)]_vars
    BY <1>1
  <1> QED BY <1>2, TypeInvariant, ListedStaleInvariant, PTL DEF Spec, OnlyHolderOrStale

-----------------------------------------------------------------------------
\* The error columns of a terminal job tell its outcome, on whichever of the
\* three paths (handler, exhausted retries, recovery) it became terminal.
THEOREM ErrorsMatchOutcomes == Spec => []ErrorMatchesOutcome
  <1>1. Init => ErrorMatchesOutcome
    BY DEF Init, ErrorMatchesOutcome, NoRow
  <1>2. TypeInv /\ ErrorMatchesOutcome /\ [Next]_vars => ErrorMatchesOutcome'
    <2> SUFFICES ASSUME TypeInv, ErrorMatchesOutcome, [Next]_vars, NEW m \in Messages
                 PROVE  /\ row'[m].status = "succeeded" => row'[m].error = "none"
                        /\ row'[m].status = "failed" =>
                             row'[m].error \notin {"none", "stale_running_requeued"}
      BY DEF ErrorMatchesOutcome
    <2>1. row[m] \in RowType
      BY DEF TypeInv, TypeOK
    <2>2. CASE row'[m] = row[m]
      BY <2>2 DEF ErrorMatchesOutcome
    <2>3. CASE row[m].status = "running" /\ row'[m] = Renewed(row[m], clock)
      BY <2>1, <2>3 DEF Renewed, RowType
    <2>4. CASE row[m].status = "absent" /\ row'[m] = Materialized(row[m], clock)
      BY <2>4 DEF Materialized, NoRow
    <2>5. CASE row'[m] = Claimed(row[m], WorkerID, clock)
      BY <2>1, <2>5 DEF Claimed, RowType
    <2>6. ASSUME NEW d \in Slots, dlv[d].pc = "persist",
                 row'[m] = Finished(row[m], dlv[d].result, WorkerID,
                                    VerdictError(dlv[d].result), clock)
          PROVE  /\ row'[m].status = dlv[d].result
                 /\ row'[m].error = VerdictError(dlv[d].result)
                 /\ dlv[d].result \in Terminal
      BY <2>1, <2>6 DEF Finished, RowType, TypeInv, PersistsVerdict
    <2>7. ASSUME NEW d \in Slots, row'[m] = Requeued(row[m], dlv[d].queuedAt)
          PROVE  row'[m].status = "queued"
      BY <2>1, <2>7 DEF Requeued, RowType
    <2>8. CASE row'[m] = Finished(row[m], "failed", WorkerID, "job_execution_failed", clock)
      BY <2>1, <2>8 DEF Finished, RowType
    <2>9. ASSUME NEW p \in Procs, row'[m] = Recovered(row[m], rec[p].listed[m], rec[p].now)
          PROVE  \/ row'[m].status = "queued"
                 \/ row'[m].status = "failed" /\ row'[m].error = "stale_running_attempts_exhausted"
      BY <2>1, <2>9 DEF Recovered, Requeued, RowType
    <2>10. RowStep(m) \/ row'[m] = row[m]
           \/ (row[m].status = "running" /\ row'[m] = Renewed(row[m], clock))
      BY RowSteps DEF OnlyRow, Renewal
    <2> QED BY <2>2, <2>3, <2>4, <2>5, <2>6, <2>7, <2>8, <2>9, <2>10
            DEF RowStep, Terminal, VerdictError
  <1> QED BY <1>1, <1>2, TypeInvariant, PTL DEF Spec

-----------------------------------------------------------------------------
(* What a delivery carries from the end of its handler to the router.        *)

Ending == {"release", "retry", "finalize"}

\* How delivery e comes to be at, or stays in, one of the Ending steps.
EndingStep(e) ==
    \/ dlv'[e].pc \notin Ending
    \/ /\ dlv[e].pc \in Ending /\ dlv'[e].msg = dlv[e].msg /\ dlv'[e].result = dlv[e].result
       /\ dlv'[e].pc = "release" => dlv[e].pc = "release"
       /\ dlv'[e].pc = "finalize" => dlv[e].pc = "finalize" \/ dlv[e].result = "transient"
    \/ dlv'[e].pc # "finalize" /\ dlv'[e].result = "error"
    \/ /\ dlv'[e].pc # "finalize" /\ dlv'[e].result = "done" /\ dlv'[e].msg = Msg(e)
       /\ row'[Msg(e)].status \in Terminal
    \/ /\ dlv'[e].pc # "finalize" /\ dlv'[e].result = "transient" /\ dlv'[e].msg = Msg(e)
       /\ Row(e).status = "running" /\ row'[Msg(e)].attempts = Row(e).attempts
       /\ dlv[e].pc # "idle"

\* A step of delivery d moves no other delivery, nor time, nor any recovery; unless
\* it ends d, the subscriber does not notice.
LEMMA ProcessMovesOne ==
    ASSUME TypeInv, NEW d \in Slots, Process(d)
    PROVE  /\ dlv[d].pc # "idle"
           /\ \A e \in Slots \ {d} : dlv'[e] = dlv[e]
           /\ dlv'[d].pc = "idle" \/ UNCHANGED transport
           /\ UNCHANGED <<clock, due, rec>>
  <1> DEFINE One == /\ \A e \in Slots \ {d} : dlv'[e] = dlv[e]
                    /\ dlv'[d].pc = "idle" \/ UNCHANGED transport
  <1>0. dlv \in [Slots -> DeliveryType]
    BY DEF TypeInv, TypeOK
  <1>1. ASSUME NEW x, dlv' = [dlv EXCEPT ![d] = x], x.pc = "idle" \/ UNCHANGED transport
        PROVE  One
    BY <1>0, <1>1
  <1>2. ASSUME Ack(d) \/ Nack(d) PROVE One
    BY <1>1, <1>2 DEF Ack, Nack, IdleDelivery
  <1>3. ASSUME NEW s, Goto(d, s) \/ Return(d, s) \/ Release(d, s), UNCHANGED transport
        PROVE  One
    BY <1>1, <1>3 DEF Goto, Return, Release
  <1>4. ASSUME TrackClaim(d) \/ HandlerReturns(d) \/ Retry(d) PROVE One
    <2>1. UNCHANGED transport
      BY <1>4 DEF TrackClaim, HandlerReturns, Retry
    <2>2. CASE TrackClaim(d)
      BY <1>0, <1>3, <2>1, <2>2 DEF TrackClaim
    <2>3. CASE HandlerReturns(d)
      BY <1>0, <2>1, <2>3 DEF HandlerReturns
    <2>4. CASE Retry(d)
      BY <1>0, <1>3, <2>1, <2>4 DEF Retry
    <2> QED BY <1>4, <2>2, <2>3, <2>4
  <1>5. ASSUME RejectPayload(d) \/ Materialize(d) \/ ReadMaterialized(d) \/ Claim(d) PROVE One
    BY <1>2, <1>3, <1>5 DEF RejectPayload, Materialize, ReadMaterialized, Claim
  <1>6. ASSUME \/ PersistTerminal(d) \/ RequeueRunning(d) \/ ReleaseClaim(d)
               \/ FinalizeRetryExhausted(d) \/ PublishDeadLetter(d)
        PROVE  One
    <2>1. UNCHANGED dlv /\ UNCHANGED transport => One
      OBVIOUS
    <2> QED BY <1>2, <1>3, <1>6, <2>1 DEF PersistTerminal, RequeueRunning, ReleaseClaim,
                                          FinalizeRetryExhausted, PublishDeadLetter
  <1>7. One
    BY <1>4, <1>5, <1>6 DEF Process
  <1>8. dlv[d].pc # "idle" /\ UNCHANGED <<clock, due, rec>>
    BY DEF Process, RejectPayload, Materialize, ReadMaterialized, Claim, TrackClaim, HandlerReturns,
           PersistTerminal, RequeueRunning, ReleaseClaim, Retry, FinalizeRetryExhausted,
           PublishDeadLetter, At, recovery
  <1> QED BY <1>7, <1>8

\* Every step of a delivery on its way to the end is an ending step.
LEMMA EndingSteps ==
    ASSUME TypeInv, [Next]_vars, NEW e \in Slots
    PROVE  EndingStep(e)
  <1> dlv \in [Slots -> DeliveryType] /\ dlv[e] \in DeliveryType /\ row \in [Messages -> RowType]
    BY DEF TypeInv, TypeOK
  <1>1. CASE dlv'[e] = dlv[e]
    BY <1>1 DEF EndingStep
  <1>2. CASE dlv'[e].pc \notin Ending
    BY <1>2 DEF EndingStep
  <1>3. ASSUME NEW s \in Steps \ {"release"}, dlv[e].pc \in Ending, Goto(e, s),
               s = "finalize" => dlv[e].result = "transient"
        PROVE  EndingStep(e)
    BY <1>3 DEF EndingStep, Goto, DeliveryType
  <1>4. ASSUME NEW res, Return(e, res) \/ Release(e, res)
        PROVE  dlv'[e].pc # "finalize" /\ dlv'[e].result = res /\ dlv'[e].msg = Msg(e)
    BY <1>4 DEF Return, Release, DeliveryType, Msg
  <1>5. ASSUME Return(e, "error") \/ Release(e, "error") PROVE EndingStep(e)
    BY <1>4, <1>5 DEF EndingStep
  <1>6. ASSUME Ack(e) \/ Nack(e) PROVE EndingStep(e)
    BY <1>2, <1>6 DEF Ack, Nack, IdleDelivery, Ending
  <1>7. ASSUME NEW s \in Steps \ Ending, Goto(e, s) PROVE EndingStep(e)
    BY <1>2, <1>7 DEF Goto, DeliveryType
  <1>8. ASSUME NEW d \in Slots \ {e}, Process(d) PROVE dlv'[e] = dlv[e]
    BY <1>8, ProcessMovesOne
  <1>9. ASSUME Process(e) PROVE EndingStep(e)
    <2>0. dlv[e].pc # "idle"
      BY <1>9 DEF Process, RejectPayload, Materialize, ReadMaterialized, Claim, TrackClaim,
                  HandlerReturns, PersistTerminal, RequeueRunning, ReleaseClaim, Retry,
                  FinalizeRetryExhausted, PublishDeadLetter, At
    <2>1. Msg(e) \in Messages /\ Row(e) \in RowType
      BY <2>0, ActiveFacts
    <2>2. CASE RejectPayload(e) \/ Materialize(e) \/ ReadMaterialized(e) \/ Claim(e)
      <3>1. \/ Return(e, "error") \/ Ack(e) \/ Nack(e)
            \/ Goto(e, "read") \/ Goto(e, "claim") \/ Goto(e, "reread")
        BY <2>2 DEF RejectPayload, Materialize, ReadMaterialized, Claim
      <3> QED BY <1>5, <1>6, <1>7, <3>1 DEF Steps, Ending
    <2>3. CASE TrackClaim(e)
      <3>1. Return(e, "error") \/ dlv'[e].pc = "handler"
        BY <2>3 DEF TrackClaim, DeliveryType
      <3> QED BY <1>2, <1>5, <3>1 DEF Ending
    <2>4. CASE HandlerReturns(e)
      <3>1. dlv'[e].pc \in {"persist", "requeue"}
        BY <2>4 DEF HandlerReturns, DeliveryType
      <3> QED BY <1>2, <3>1 DEF Ending
    <2>5. CASE PersistTerminal(e)
      <3>1. dlv[e].result \in Terminal
        BY <2>5 DEF PersistTerminal, At, TypeInv, PersistsVerdict
      <3>2. CASE Release(e, "error") \/ dlv' = dlv
        BY <1>1, <1>5, <3>2
      <3>3. CASE Release(e, "done") /\ row' = SetRow(e, Finished(Row(e), dlv[e].result, WorkerID,
                                                   VerdictError(dlv[e].result), clock))
        BY <1>4, <2>1, <3>1, <3>3 DEF EndingStep, SetRow, Finished, RowType
      <3> QED BY <2>5, <3>2, <3>3 DEF PersistTerminal
    <2>6. CASE RequeueRunning(e)
      <3>1. CASE Release(e, "error")
        BY <1>5, <3>1
      <3>2. CASE /\ Release(e, "transient") /\ HoldsClaim(Row(e), dlv[e].claim)
                 /\ row' = SetRow(e, Requeued(Row(e), dlv[e].queuedAt))
        <4>1. dlv'[e].pc # "finalize" /\ dlv'[e].result = "transient" /\ dlv'[e].msg = Msg(e)
          BY <1>4, <3>2
        <4>2. row'[Msg(e)].attempts = Row(e).attempts
          BY <2>1, <3>2 DEF SetRow, Requeued, RowType
        <4> QED BY <2>0, <3>2, <4>1, <4>2 DEF EndingStep, HoldsClaim
      <3> QED BY <2>6, <3>1, <3>2 DEF RequeueRunning
    <2>7. CASE ReleaseClaim(e)
      BY <1>3, <1>6, <2>7 DEF ReleaseClaim, At, Ending, Steps
    <2>8. CASE Retry(e)
      <3>1. \/ Goto(e, "poison") \/ dlv'[e].pc = "insert"
            \/ dlv[e].pc = "retry" /\ dlv[e].result = "transient" /\ Goto(e, "finalize")
        BY ZenonT(60), <2>8 DEF Retry, At, IdleDelivery
      <3> QED BY <1>2, <1>3, <1>7, <3>1 DEF Steps, Ending
    <2>9. CASE FinalizeRetryExhausted(e)
      BY <1>1, <1>7, <2>9 DEF FinalizeRetryExhausted, Steps, Ending
    <2>10. CASE PublishDeadLetter(e)
      BY <1>6, <2>10 DEF PublishDeadLetter
    <2> QED BY <1>9, <2>2, <2>3, <2>4, <2>5, <2>6, <2>7, <2>8, <2>9, <2>10 DEF Process
  <1>10. ASSUME NEW d \in Slots, Deliver(d) PROVE EndingStep(e)
    <2>1. dlv'[e] = dlv[e] \/ dlv'[e].pc = "insert"
      BY <1>10 DEF Deliver, IdleDelivery
    <2> QED BY <1>1, <1>2, <2>1 DEF Ending
  <1>11. ASSUME NEW p \in Procs, Abandon(p) PROVE EndingStep(e)
    <2>1. /\ dlv'[e].pc = dlv[e].pc /\ dlv'[e].msg = dlv[e].msg /\ dlv'[e].result = dlv[e].result
      BY <1>11 DEF Abandon, TypeInv, TypeOK, DeliveryType
    <2> QED BY <2>1 DEF EndingStep
  <1>12. ASSUME NEW p \in Procs, Crash(p) PROVE EndingStep(e)
    <2>1. dlv'[e] = dlv[e] \/ dlv'[e].pc = "idle"
      BY <1>12 DEF Crash, IdleDelivery
    <2> QED BY <1>1, <1>2, <2>1 DEF Ending
  <1>13. ASSUME NEW p \in Procs,
                BeginBatch(p) \/ CommitBatch(p) \/ LoseTransaction(p) \/ Recovery(p)
         PROVE  dlv' = dlv
    BY <1>13 DEF BeginBatch, CommitBatch, LoseTransaction, Recovery, RenewClaims, ListStale,
                 EndRecovery, RecoverRow
  <1>14. CASE Tick \/ UNCHANGED vars
    BY <1>1, <1>14 DEF Tick, vars
  <1> QED BY <1>1, <1>8, <1>9, <1>10, <1>11, <1>12, <1>13, <1>14 DEF Next

-----------------------------------------------------------------------------
\* A delivery about to be acknowledged after its handler has persisted the outcome.
DoneIsTerminal ==
    \A d \in Slots : dlv[d].pc = "release" /\ dlv[d].result = "done" => Row(d).status \in Terminal

\* An acknowledgement, which moves the position only for the awaited delivery.
LEMMA AckKeeps ==
    ASSUME TypeInv, NEW d \in Slots, Ack(d),
           NEW k, k = Msg(d), Settled(k)',
           NEW m \in Messages, (m <= cursor \/ m <= offset)',
           m <= cursor \/ m <= offset => Settled(m)'
    PROVE  Settled(m)'
  <1>1. cursor \in Nat /\ m \in Nat
    BY JobWorkerAssumption DEF TypeInv, TypeOK, Messages
  <1>2. offset' = offset /\ (cursor' = cursor \/ (cursor' = cursor + 1 /\ out = d))
    BY DEF Ack
  <1>3. out = d => Msg(d) = cursor + 1
    BY JobWorkerAssumption DEF TypeInv, OutIsNext, Msg
  <1>4. m <= cursor \/ m <= offset \/ m = k
    BY <1>1, <1>2, <1>3
  <1> QED BY <1>4

\* No message is lost: the group's position passes a message only when its job is
\* terminal, its dead-letter copy exists, or its job was found taken.
THEOREM AcksAreJustified == Spec => []AckJustified
  <1>1. Init => AckJustified /\ DoneIsTerminal
    BY JobWorkerAssumption DEF Init, AckJustified, DoneIsTerminal, IdleDelivery, Messages
  <1>2. TypeInv /\ DoneIsTerminal /\ [Next]_vars => DoneIsTerminal'
    <2> SUFFICES ASSUME TypeInv, DoneIsTerminal, [Next]_vars, NEW e \in Slots,
                        dlv'[e].pc = "release", dlv'[e].result = "done"
                 PROVE  row'[dlv'[e].msg].status \in Terminal
      BY DEF DoneIsTerminal, Row, Msg
    <2>1. CASE /\ dlv[e].pc = "release" /\ dlv[e].result = "done"
               /\ dlv'[e].msg = dlv[e].msg
      <3>1. Msg(e) \in Messages /\ row[Msg(e)].status \in Terminal
        BY <2>1, ActiveFacts DEF DoneIsTerminal, Row
      <3> QED BY <2>1, <3>1, TerminalKept DEF Msg
    <2> QED BY <2>1, EndingSteps DEF EndingStep, Ending, Msg
  <1>3. TypeInv /\ DoneIsTerminal /\ AckJustified /\ [Next]_vars => AckJustified'
    <2> SUFFICES ASSUME TypeInv, DoneIsTerminal, AckJustified, [Next]_vars,
                        NEW m \in Messages, (m <= cursor \/ m <= offset)'
                 PROVE  Settled(m)'
      BY DEF AckJustified
    <2>1. deadLettered \subseteq deadLettered' /\ unqueuedAcks \subseteq unqueuedAcks'
      BY DEF Next, vars, Deliver, Process, BeginBatch, CommitBatch, Abandon, Recovery, Tick,
             LoseTransaction, RejectPayload, Materialize, ReadMaterialized, Claim, TrackClaim,
             HandlerReturns, PersistTerminal, RequeueRunning, ReleaseClaim, Retry, Crash,
             FinalizeRetryExhausted, PublishDeadLetter, RenewClaims, ListStale, EndRecovery,
             RecoverRow
    <2>2. \A n \in Messages : Settled(n) => Settled(n)'
      BY <2>1, TerminalKept DEF Settled
    <2>3. CASE m <= cursor \/ m <= offset
      BY <2>2, <2>3 DEF AckJustified
    <2>4. CASE UNCHANGED <<cursor, offset>> \/ (cursor' = offset /\ UNCHANGED offset)
               \/ (offset' = cursor /\ UNCHANGED cursor)
      BY <2>3, <2>4
    <2>5. ASSUME NEW d \in Slots, Process(d) PROVE Settled(m)'
      <3>1. CASE UNCHANGED transport
        BY <2>4, <3>1 DEF transport
      <3>2. CASE Nack(d)
        BY <2>4, <3>2 DEF Nack
      <3>3. ASSUME Ack(d),
                   \/ Row(d).status \in Terminal
                   \/ Msg(d) \in unqueuedAcks'
                   \/ Msg(d) \in deadLettered',
                   dlv[d].pc # "idle"
            PROVE  Settled(m)'
        <4>1. PICK k \in Messages : k = Msg(d)
          BY <3>3, ActiveFacts
        <4>2. Settled(k)'
          BY <3>3, <4>1, TerminalKept DEF Settled, Row
        <4>3. m <= cursor \/ m <= offset => Settled(m)'
          BY <2>3
        <4> QED BY <3>3, <4>1, <4>2, <4>3, AckKeeps
      <3>4. CASE ReadMaterialized(d)
        <4>1. dlv[d].pc # "idle" /\ Row(d) \in RowType
          BY <3>4, ActiveFacts DEF ReadMaterialized, At
        <4>2. UNCHANGED transport \/ Nack(d) \/ (Ack(d) /\ Row(d).status \in Terminal)
          BY <3>4, <4>1 DEF ReadMaterialized, LeftPending, Terminal, RowType, Statuses
        <4> QED BY <3>1, <3>2, <3>3, <4>1, <4>2
      <3>5. CASE Claim(d)
        <4>1. \/ UNCHANGED transport
              \/ Ack(d) /\ unqueuedAcks' = unqueuedAcks \cup {Msg(d)}
          BY <3>5 DEF Claim
        <4> QED BY <3>1, <3>3, <3>5, <4>1 DEF Claim, At
      <3>6. CASE ReleaseClaim(d)
        <4>1. \/ UNCHANGED transport
              \/ Ack(d) /\ dlv[d].pc = "release" /\ dlv[d].result = "done"
          BY <3>6 DEF ReleaseClaim, At
        <4>2. CASE Ack(d) /\ dlv[d].pc = "release" /\ dlv[d].result = "done"
          <5>1. Row(d).status \in Terminal /\ dlv[d].pc # "idle"
            BY <4>2 DEF DoneIsTerminal
          <5> QED BY <3>3, <4>2, <5>1
        <4> QED BY <3>1, <4>1, <4>2
      <3>7. CASE PublishDeadLetter(d)
        BY <3>2, <3>3, <3>7 DEF PublishDeadLetter, At
      <3> QED BY <2>5, <3>1, <3>4, <3>5, <3>6, <3>7
              DEF Process, RejectPayload, Materialize, TrackClaim, HandlerReturns, PersistTerminal,
                  RequeueRunning, Retry, FinalizeRetryExhausted
    <2>6. ASSUME NEW p \in Procs, Recovery(p) PROVE UNCHANGED transport
      BY <2>6 DEF Recovery, RenewClaims, ListStale, EndRecovery, RecoverRow
    <2> QED BY <2>4, <2>5, <2>6
            DEF Next, vars, transport, Deliver, BeginBatch, CommitBatch, Abandon, LoseTransaction,
                Crash, Tick
  <1> QED BY <1>1, <1>2, <1>3, TypeInvariant, PTL DEF Spec

-----------------------------------------------------------------------------
(* One handler at a time.                                                    *)

\* What it takes: the recovery ticker keeps up and renewals get through, and a
\* process never has two goroutines on its hands, either because it has only one
\* or because the subscriber never gives up on a delivery.
NeverGivenUp == FaultKinds \cap {"abandon", "transaction"} = {}
Keeping == Prompt /\ "renew" \notin FaultKinds /\ (DeliveriesPerProc = 1 \/ NeverGivenUp)

\* A subscriber that never gives up has one delivery under way in all.
OneAwaited == NeverGivenUp => \A d \in Slots : ~At(d, "idle") => out = d

\* While nothing is given up, every goroutine at work is the one waited for.
LEMMA OneAwaitedInvariant == Spec => []OneAwaited
  <1>1. Init => OneAwaited
    BY DEF Init, OneAwaited, At, IdleDelivery
  <1>2. TypeInv /\ OneAwaited /\ [Next]_vars => OneAwaited'
    <2> SUFFICES ASSUME TypeInv, OneAwaited, [Next]_vars, NeverGivenUp,
                        NEW e \in Slots, dlv'[e].pc # "idle"
                 PROVE  out' = e
      BY DEF OneAwaited, At
    <2>0. \A d \in Slots : dlv[d].pc # "idle" => out = d
      BY DEF OneAwaited, At
    <2>1. ASSUME NEW d \in Slots, Process(d) PROVE out' = e
      BY <2>0, <2>1, ProcessMovesOne DEF transport
    <2>2. ASSUME NEW d \in Slots, Deliver(d) PROVE out' = e
      <3>1. out = NoSlot /\ out' = d /\ (e # d => dlv'[e] = dlv[e])
        BY <2>2 DEF Deliver
      <3> QED BY <2>0, <3>1, JobWorkerAssumption
    <2>3. ASSUME NEW p \in Procs, Abandon(p) \/ LoseTransaction(p) PROVE FALSE
      BY <2>3 DEF Abandon, LoseTransaction, Fault, NeverGivenUp
    <2>4. ASSUME NEW p \in Procs, BeginBatch(p) \/ CommitBatch(p) \/ Recovery(p)
          PROVE  dlv' = dlv /\ out' = out
      BY <2>4 DEF BeginBatch, CommitBatch, Recovery, RenewClaims, ListStale, EndRecovery,
                  RecoverRow, transport
    <2>5. ASSUME NEW p \in Procs, Crash(p) PROVE out' = e
      <3>1. e[1] # p /\ dlv'[e] = dlv[e]
        BY <2>5 DEF Crash, IdleDelivery
      <3>2. out = e /\ lock = e[1]
        BY <2>0, <3>1, JobWorkerAssumption DEF TypeInv, OutIsNext
      <3> QED BY <2>5, <3>1, <3>2 DEF Crash
    <2>6. CASE Tick \/ UNCHANGED vars
      BY <2>0, <2>6 DEF Tick, vars, transport
    <2> QED BY <2>0, <2>1, <2>2, <2>3, <2>4, <2>5, <2>6 DEF Next
  <1> QED BY <1>1, <1>2, TypeInvariant, PTL DEF Spec

\* So a process has at most one goroutine at work.
LEMMA OnePerProcess ==
    ASSUME Keeping, OneAwaited, NEW d \in Slots, NEW e \in Slots,
           dlv[d].pc # "idle", dlv[e].pc # "idle", d[1] = e[1]
    PROVE  d = e
  <1>1. CASE DeliveriesPerProc = 1
    BY <1>1 DEF Slots
  <1>2. CASE NeverGivenUp
    BY <1>2 DEF OneAwaited, At
  <1> QED BY <1>1, <1>2 DEF Keeping

\* A delivery is executing its job from the claim's UPDATE to the statement that
\* gives the claim back.  It owns a running row, written no longer ago than the
\* renewal that is due; once the claim is tracked, the row, the delivery and its
\* process agree on it.
Executing(d) == dlv[d].pc \in {"reread", "handler", "persist", "requeue"}

Fresh(d) ==
    \/ Row(d).updatedAt = clock
    \/ ~At(d, "reread") /\ due[d[1]] /\ Row(d).updatedAt + 1 = clock

Owns(d) ==
    /\ Row(d).status = "running" /\ Row(d).startedAt # NoTime
    /\ Fresh(d)
    /\ ~At(d, "reread") => /\ HoldsClaim(Row(d), dlv[d].claim)
                           /\ claims[d[1]][Msg(d)] = dlv[d].claim

\* The outcome was written, and the reply to the statement was lost.
Persisted(d) == At(d, "persist") /\ Row(d).status \in Terminal

OwnsOrPersisted == \A d \in Slots : Executing(d) => Owns(d) \/ Persisted(d)
Alone    == \A d, e \in Slots : Executing(d) /\ Executing(e) /\ Msg(d) = Msg(e) => d = e
BootRuns == \A p \in Procs : rec[p].boot => rec[p].pc # "idle"

Ownership == OwnsOrPersisted /\ Alone /\ BootRuns

\* A delivery keeps what it owns when a step leaves its row, its claim and the
\* time alone.
LEMMA KeepsOwnership ==
    ASSUME OwnsOrPersisted, NEW e \in Slots, Executing(e),
           dlv'[e].pc = dlv[e].pc, dlv'[e].msg = dlv[e].msg, dlv'[e].claim = dlv[e].claim,
           UNCHANGED clock, due'[e[1]] = due[e[1]], row'[Msg(e)] = row[Msg(e)],
           claims'[e[1]][Msg(e)] = claims[e[1]][Msg(e)]
    PROVE  (Owns(e) \/ Persisted(e))'
  <1>1. Owns(e) \/ Persisted(e)
    BY DEF OwnsOrPersisted
  <1>2. Row(e)' = Row(e) /\ Msg(e)' = Msg(e)
    BY DEF Row, Msg
  <1> QED BY <1>1, <1>2 DEF Owns, Persisted, Fresh, At

\* No recovery finds the row of an executing delivery stale.
LEMMA OwnedNotRecovered ==
    ASSUME TypeInv, ListedStale, Ownership, NEW p \in Procs, NEW e \in Slots, Executing(e),
           rec[p].listed[Msg(e)] # NoRow
    PROVE  ~SameClaim(Row(e), rec[p].listed[Msg(e)])
  <1>1. dlv[e].pc # "idle"
    BY DEF Executing
  <1>2. Msg(e) \in Messages /\ Row(e) \in RowType
    BY <1>1, ActiveFacts
  <1>3. rec[p].now \in Nat /\ rec[p].listed[Msg(e)].updatedAt \in Times /\ clock \in Nat
    BY <1>2 DEF TypeInv, TypeOK, RecoveryType, RowType
  <1>4. CASE Persisted(e)
    BY <1>4 DEF Persisted, SameClaim, HoldsClaim, Terminal
  <1>5. CASE Owns(e)
    <2>1. Row(e).updatedAt \in Times /\ Row(e).updatedAt + 1 >= clock
      BY <1>2, <1>3, <1>5 DEF Owns, Fresh, RowType, Times, NoTime
    <2>2. rec[p].listed[Msg(e)].updatedAt + StaleRunningAge <= clock
      BY <1>2, <1>3, JobStoreAssumption DEF ListedStale, Times, NoTime
    <2> QED BY <1>3, <2>1, <2>2, JobStoreAssumption DEF SameClaim, Times, NoTime
  <1> QED BY <1>4, <1>5 DEF Ownership, OwnsOrPersisted

\* What a step of delivery d does: it starts executing only by claiming a queued
\* row, writes another's row never and a row in execution only as its owner, and
\* touches only its own process's claim of its own message.
LEMMA ProcessOwnership ==
    ASSUME TypeInv, Ownership, NEW d \in Slots, Process(d)
    PROVE  /\ Executing(d)' => /\ Msg(d)' = Msg(d)
                               /\ Executing(d) \/ Claimable(Row(d))
                               /\ (Owns(d) \/ Persisted(d))'
           /\ \A m \in Messages :
                row'[m] = row[m] \/ (m = Msg(d) /\ (row[m].status \in {"absent", "queued"}
                                                    \/ Executing(d)))
           /\ \A p \in Procs, m \in Messages :
                claims'[p][m] = claims[p][m] \/ (p = d[1] /\ m = Msg(d))
  <1> DEFINE Write == \A m \in Messages :
                row'[m] = row[m] \/ (m = Msg(d) /\ (row[m].status \in {"absent", "queued"}
                                                    \/ Executing(d)))
             Track == \A p \in Procs, m \in Messages :
                claims'[p][m] = claims[p][m] \/ (p = d[1] /\ m = Msg(d))
             Own   == Executing(d)' => /\ Msg(d)' = Msg(d)
                                       /\ Executing(d) \/ Claimable(Row(d))
                                       /\ (Owns(d) \/ Persisted(d))'
  <1> SUFFICES Write /\ Track /\ Own
    OBVIOUS
  <1>0. /\ dlv[d].pc # "idle" /\ Msg(d) \in Messages /\ Row(d) \in RowType /\ d[1] \in Procs
        /\ dlv \in [Slots -> DeliveryType] /\ dlv[d] \in DeliveryType
        /\ row \in [Messages -> RowType] /\ claims \in [Procs -> [Messages -> Claims]]
        /\ clock \in Nat
    BY ProcessMovesOne, ActiveFacts DEF TypeInv, TypeOK
  <1>1. ASSUME NEW r, row' = row \/ row' = SetRow(d, r),
               Row(d).status \in {"absent", "queued"} \/ Executing(d) \/ r = Row(d)
        PROVE  Write
    BY <1>0, <1>1 DEF SetRow, Row
  <1>2. claims' = claims => Track
    OBVIOUS
  <1>3. ASSUME NEW c, claims' = [claims EXCEPT ![d[1]][Msg(d)] = c]
        PROVE  Track
    BY <1>0, <1>3
  <1>4. ASSUME NEW s, Return(d, s) \/ Release(d, s) \/ Ack(d) \/ Nack(d)
        PROVE  Own
    <2>1. CASE Return(d, s) \/ Release(d, s)
      <3>1. dlv'[d].pc \in {"retry", "release"}
        BY <1>0, <2>1 DEF Return, Release, DeliveryType
      <3> QED BY <3>1 DEF Executing
    <2>2. CASE Ack(d) \/ Nack(d)
      <3>1. dlv'[d].pc = "idle"
        BY <1>0, <2>2 DEF Ack, Nack, IdleDelivery
      <3> QED BY <3>1 DEF Executing
    <2> QED BY <1>4, <2>1, <2>2
  <1>5. ASSUME NEW s \in Steps \ {"reread", "handler", "persist", "requeue"}, Goto(d, s)
        PROVE  Own
    BY <1>0, <1>5 DEF Goto, Executing
  <1>6. CASE RejectPayload(d)
    BY <1>1, <1>2, <1>4, <1>6 DEF RejectPayload
  <1>7. CASE Materialize(d)
    <2>1. Materialized(Row(d), clock) = Row(d) \/ Row(d).status = "absent"
      BY DEF Materialized
    <2>2. /\ row' = row \/ row' = SetRow(d, Materialized(Row(d), clock))
          /\ claims' = claims /\ (Goto(d, "read") \/ Return(d, "error"))
      BY <1>7 DEF Materialize
    <2> QED BY <1>1, <1>2, <1>4, <1>5, <2>1, <2>2 DEF Steps
  <1>8. CASE ReadMaterialized(d)
    <2>1. /\ row' = row /\ claims' = claims
          /\ Nack(d) \/ Ack(d) \/ Goto(d, "claim") \/ Return(d, "error")
      BY <1>8 DEF ReadMaterialized
    <2> QED BY <1>1, <1>2, <1>4, <1>5, <2>1 DEF Steps
  <1>9. CASE Claim(d)
    <2> DEFINE r == Claimed(Row(d), WorkerID, clock)
    <2>1. /\ row' = row \/ (row' = SetRow(d, r) /\ Claimable(Row(d)))
          /\ claims' = claims /\ clock' = clock
          /\ \/ Ack(d) \/ Return(d, "error")
             \/ Claimable(Row(d)) /\ row' = SetRow(d, r) /\ Goto(d, "reread")
      BY <1>9 DEF Claim
    <2>2. r.status = "running" /\ r.startedAt = clock /\ r.updatedAt = clock
      BY <1>0 DEF Claimed, RowType
    <2> HIDE DEF r
    <2>3. Write
      BY <1>1, <2>1 DEF Claimable
    <2>4. ASSUME Claimable(Row(d)), row' = SetRow(d, r), Goto(d, "reread") PROVE Own
      <3>1. dlv'[d].pc = "reread" /\ dlv'[d].msg = Msg(d)
        BY <1>0, <2>4 DEF Goto, Msg
      <3>2. Row(d)' = r /\ Msg(d)' = Msg(d)
        BY <1>0, <2>4, <3>1 DEF Row, SetRow, Msg
      <3>3. Owns(d)'
        BY <1>0, <2>1, <2>2, <3>1, <3>2 DEF Owns, Fresh, At, NoTime
      <3> QED BY <2>4, <3>2, <3>3
    <2> QED BY <1>2, <1>4, <2>1, <2>3, <2>4
  <1>10. CASE TrackClaim(d)
    <2> DEFINE claim == ClaimOf(Row(d))
    <2>1. /\ row' = row /\ clock' = clock /\ At(d, "reread")
          /\ \/ Return(d, "error") /\ claims' = claims
             \/ /\ dlv' = [dlv EXCEPT ![d].pc = "handler", ![d].claim = claim]
                /\ claims' = [claims EXCEPT ![d[1]][Msg(d)] = claim]
      BY <1>10 DEF TrackClaim, Tracked
    <2>2. Write /\ Track
      BY <1>1, <1>2, <1>3, <2>1
    <2>3. ASSUME dlv' = [dlv EXCEPT ![d].pc = "handler", ![d].claim = claim],
                 claims' = [claims EXCEPT ![d[1]][Msg(d)] = claim]
          PROVE  Own
      <3>1. dlv'[d].pc = "handler" /\ dlv'[d].claim = claim /\ dlv'[d].msg = Msg(d)
        BY <1>0, <2>3 DEF DeliveryType, Msg
      <3>2. claims'[d[1]][Msg(d)] = claim
        BY <1>0, <2>3
      <3>3. Row(d)' = Row(d) /\ Msg(d)' = Msg(d)
        BY <2>1, <3>1 DEF Row, Msg
      <3>4. Executing(d) /\ Owns(d)
        BY <2>1 DEF Executing, At, Ownership, OwnsOrPersisted, Persisted
      <3>5. Row(d).updatedAt = clock
        BY <2>1, <3>4 DEF Owns, Fresh
      <3>6. HoldsClaim(Row(d), claim)
        BY <3>4 DEF Owns, HoldsClaim, ClaimOf
      <3> QED BY <2>1, <3>1, <3>2, <3>3, <3>4, <3>5, <3>6 DEF Owns, Fresh, At
    <2> QED BY <1>4, <2>1, <2>2, <2>3
  <1>11. CASE HandlerReturns(d)
    <2>1. /\ row' = row /\ clock' = clock /\ claims' = claims /\ due' = due /\ At(d, "handler")
          /\ dlv'[d].pc \in {"persist", "requeue"}
          /\ dlv'[d].claim = dlv[d].claim /\ dlv'[d].msg = Msg(d)
      BY <1>0, <1>11 DEF HandlerReturns, DeliveryType, Msg, recovery
    <2>2. Executing(d) /\ Owns(d)
      BY <2>1 DEF Executing, At, Ownership, OwnsOrPersisted, Persisted
    <2>3. Row(d)' = Row(d) /\ Msg(d)' = Msg(d)
      BY <2>1 DEF Row, Msg
    <2>4. Owns(d)'
      BY <2>1, <2>2, <2>3 DEF Owns, Fresh, At
    <2> QED BY <1>1, <1>2, <2>1, <2>2, <2>3, <2>4
  <1>12. CASE PersistTerminal(d)
    <2> DEFINE r == Finished(Row(d), dlv[d].result, WorkerID, VerdictError(dlv[d].result), clock)
    <2>1. /\ row' = row \/ row' = SetRow(d, r)
          /\ claims' = claims /\ clock' = clock /\ due' = due /\ At(d, "persist")
          /\ dlv' = dlv \/ Release(d, "done") \/ Release(d, "error")
      BY <1>12 DEF PersistTerminal, recovery
    <2>2. r.status \in Terminal
      BY <1>0, <2>1 DEF Finished, RowType, TypeInv, PersistsVerdict, At
    <2>3. Executing(d)
      BY <2>1 DEF Executing, At
    <2> HIDE DEF r
    <2>4. ASSUME dlv' = dlv, row' = row PROVE Own
      BY <2>1, <2>3, <2>4, KeepsOwnership DEF Ownership, Msg
    <2>5. ASSUME dlv' = dlv, row' = SetRow(d, r) PROVE Own
      BY <1>0, <2>1, <2>2, <2>3, <2>5 DEF Persisted, At, SetRow, Row, Msg
    <2> QED BY <1>1, <1>2, <1>4, <2>1, <2>3, <2>4, <2>5
  <1>13. CASE RequeueRunning(d)
    <2>1. /\ row' = row \/ row' = SetRow(d, Requeued(Row(d), dlv[d].queuedAt))
          /\ claims' = claims /\ Executing(d)
          /\ Release(d, "error") \/ Release(d, "transient")
      BY <1>13 DEF RequeueRunning, Executing, At
    <2> QED BY <1>1, <1>2, <1>4, <2>1
  <1>14. CASE ReleaseClaim(d)
    <2>1. /\ row' = row /\ claims' = [claims EXCEPT ![d[1]][Msg(d)] = NoClaim]
          /\ Ack(d) \/ Goto(d, "retry")
      BY <1>14 DEF ReleaseClaim
    <2> QED BY <1>1, <1>3, <1>4, <1>5, <2>1 DEF Steps
  <1>15. CASE Retry(d)
    <2>1. /\ row' = row /\ claims' = claims
          /\ Goto(d, "poison") \/ Goto(d, "finalize") \/ dlv'[d].pc = "insert"
      BY <1>0, <1>15 DEF Retry, IdleDelivery
    <2>2. dlv'[d].pc = "insert" => Own
      BY DEF Executing
    <2> QED BY <1>1, <1>2, <1>5, <2>1, <2>2 DEF Steps
  <1>16. CASE FinalizeRetryExhausted(d)
    <2> DEFINE r == Finished(Row(d), "failed", WorkerID, "job_execution_failed", clock)
    <2>1. /\ row' = row \/ (row' = SetRow(d, r) /\ Row(d).status = "queued")
          /\ claims' = claims /\ dlv[d].pc = "finalize"
          /\ dlv' = dlv \/ Goto(d, "poison")
      BY <1>16 DEF FinalizeRetryExhausted, StillRequeued, At
    <2>2. dlv' = dlv => Own
      BY <2>1 DEF Executing
    <2> QED BY <1>1, <1>2, <1>5, <2>1, <2>2 DEF Steps
  <1>17. CASE PublishDeadLetter(d)
    <2>1. row' = row /\ claims' = claims /\ (Ack(d) \/ Nack(d))
      BY <1>17 DEF PublishDeadLetter
    <2> QED BY <1>1, <1>2, <1>4, <2>1
  <1> QED BY <1>6, <1>7, <1>8, <1>9, <1>10, <1>11, <1>12, <1>13, <1>14, <1>15, <1>16, <1>17
          DEF Process

\* Every step keeps each executing delivery the sole owner of its job's row.
LEMMA OwnershipStep ==
    ASSUME Keeping, TypeInv, ListedStale, OneAwaited, Ownership, [Next]_vars
    PROVE  Ownership'
  <1>0. /\ dlv \in [Slots -> DeliveryType] /\ row \in [Messages -> RowType]
        /\ due \in [Procs -> BOOLEAN] /\ rec \in [Procs -> RecoveryType] /\ clock \in Nat
    BY DEF TypeInv, TypeOK
  <1>1. \A e \in Slots : Executing(e) =>
          /\ dlv[e].pc # "idle" /\ Msg(e) \in Messages /\ Row(e) \in RowType /\ e[1] \in Procs
          /\ Row(e).status \notin {"absent", "queued"}
    BY ActiveFacts DEF Executing, Ownership, OwnsOrPersisted, Owns, Persisted, Terminal
  <1>2. ASSUME BootRuns',
               \A e \in Slots : Executing(e)' => /\ Executing(e) /\ Msg(e)' = Msg(e)
                                                 /\ (Owns(e) \/ Persisted(e))'
        PROVE  Ownership'
    <2>1. Alone'
      BY <1>2 DEF Ownership, Alone
    <2> QED BY <1>2, <2>1 DEF Ownership, OwnsOrPersisted
  <1>3. ASSUME NEW d \in Slots, Process(d) PROVE Ownership'
    <2>1. /\ dlv[d].pc # "idle" /\ UNCHANGED <<clock, due, rec>>
          /\ \A e \in Slots \ {d} : dlv'[e] = dlv[e]
      BY <1>3, ProcessMovesOne
    <2>2. /\ Executing(d)' => /\ Msg(d)' = Msg(d)
                              /\ Executing(d) \/ Claimable(Row(d))
                              /\ (Owns(d) \/ Persisted(d))'
          /\ \A m \in Messages :
               row'[m] = row[m] \/ (m = Msg(d) /\ (row[m].status \in {"absent", "queued"}
                                                   \/ Executing(d)))
          /\ \A p \in Procs, m \in Messages :
               claims'[p][m] = claims[p][m] \/ (p = d[1] /\ m = Msg(d))
      BY <1>3, ProcessOwnership
    <2>3. ASSUME NEW e \in Slots \ {d}, Executing(e)'
          PROVE  Executing(e) /\ Msg(e)' = Msg(e) /\ (Owns(e) \/ Persisted(e))'
      <3>1. Executing(e) /\ Msg(e)' = Msg(e)
        BY <2>1, <2>3 DEF Executing, Msg
      <3>2. row'[Msg(e)] = row[Msg(e)]
        <4>1. Executing(d) => Msg(d) # Msg(e)
          BY <3>1 DEF Ownership, Alone
        <4> QED BY <1>1, <2>2, <3>1, <4>1 DEF Row
      <3>3. claims'[e[1]][Msg(e)] = claims[e[1]][Msg(e)]
        BY <1>1, <2>1, <2>2, <3>1, OnePerProcess
      <3> QED BY <2>1, <3>1, <3>2, <3>3, KeepsOwnership DEF Ownership
    <2>4. OwnsOrPersisted'
      BY <2>2, <2>3 DEF OwnsOrPersisted
    <2>5. Alone'
      <3>1. ASSUME NEW e \in Slots \ {d}, Executing(d)', Executing(e)', Msg(d)' = Msg(e)'
            PROVE  FALSE
        <4>1. Executing(e) /\ Msg(e) = Msg(d)
          BY <2>2, <2>3, <3>1
        <4>2. ~Claimable(Row(d))
          BY <1>1, <4>1 DEF Row, Claimable
        <4> QED BY <2>2, <3>1, <4>1, <4>2 DEF Ownership, Alone
      <3>2. ASSUME NEW e \in Slots \ {d}, NEW f \in Slots \ {d},
                   Executing(e)', Executing(f)', Msg(e)' = Msg(f)'
            PROVE  e = f
        BY <2>3, <3>2 DEF Ownership, Alone
      <3> QED BY <3>1, <3>2 DEF Alone
    <2>6. BootRuns'
      BY <2>1 DEF Ownership, BootRuns
    <2> QED BY <2>4, <2>5, <2>6 DEF Ownership
  <1>4. ASSUME NEW d \in Slots, Deliver(d) PROVE Ownership'
    <2>1. /\ UNCHANGED <<clock, row, due, rec, claims>>
          /\ ~Executing(d)'
          /\ \A e \in Slots \ {d} : dlv'[e] = dlv[e]
      BY <1>0, <1>4 DEF Deliver, recovery, IdleDelivery, Executing
    <2>2. ASSUME NEW e \in Slots, Executing(e)'
          PROVE  Executing(e) /\ Msg(e)' = Msg(e) /\ (Owns(e) \/ Persisted(e))'
      <3>1. dlv'[e] = dlv[e] /\ Executing(e)
        BY <2>1, <2>2 DEF Executing
      <3> QED BY <2>1, <3>1, KeepsOwnership DEF Ownership, Msg
    <2>3. BootRuns'
      BY <2>1 DEF Ownership, BootRuns
    <2> QED BY <1>2, <2>2, <2>3
  <1>5. ASSUME UNCHANGED <<clock, row, due, claims>>, BootRuns',
               \A e \in Slots : /\ dlv'[e].pc = dlv[e].pc /\ dlv'[e].msg = dlv[e].msg
                                /\ dlv'[e].claim = dlv[e].claim
        PROVE  Ownership'
    <2>1. ASSUME NEW e \in Slots, Executing(e)'
          PROVE  Executing(e) /\ Msg(e)' = Msg(e) /\ (Owns(e) \/ Persisted(e))'
      <3>1. Executing(e)
        BY <1>5, <2>1 DEF Executing
      <3> QED BY <1>5, <3>1, KeepsOwnership DEF Ownership, Msg
    <2> QED BY <1>2, <1>5, <2>1
  <1>6. ASSUME NEW p \in Procs, BeginBatch(p) \/ CommitBatch(p) \/ LoseTransaction(p)
        PROVE  Ownership'
    <2>1. UNCHANGED <<clock, row, due, claims, rec, dlv>>
      BY <1>6 DEF BeginBatch, CommitBatch, LoseTransaction, recovery
    <2>2. BootRuns'
      BY <2>1 DEF Ownership, BootRuns
    <2> QED BY <1>5, <2>1, <2>2
  <1>7. ASSUME NEW p \in Procs, Abandon(p) PROVE Ownership'
    <2>1. /\ UNCHANGED <<clock, row, due, claims, rec>>
          /\ \A e \in Slots : /\ dlv'[e].pc = dlv[e].pc /\ dlv'[e].msg = dlv[e].msg
                              /\ dlv'[e].claim = dlv[e].claim
      BY <1>0, <1>7 DEF Abandon, recovery, DeliveryType
    <2>2. BootRuns'
      BY <2>1 DEF Ownership, BootRuns
    <2> QED BY <1>5, <2>1, <2>2
  <1>8. ASSUME NEW p \in Procs, ListStale(p) \/ EndRecovery(p) PROVE Ownership'
    <2>1. UNCHANGED <<clock, row, due, claims, dlv>>
      BY <1>8 DEF ListStale, EndRecovery
    <2>2. BootRuns'
      <3> DEFINE l == [pc |-> "recover", now |-> clock, boot |-> rec[p].boot,
                       listed |-> [m \in Messages |->
                          IF m \in {n \in Messages : IsStale(row[n], clock)}
                          THEN row[m] ELSE NoRow]]
      <3>1. \/ rec' = [rec EXCEPT ![p] = l] \/ rec' = [rec EXCEPT ![p] = IdleRecovery]
            \/ rec' = [rec EXCEPT ![p] = FailedRecovery(p)]
        BY <1>8 DEF ListStale, StaleRows, EndRecovery
      <3>2. /\ l.pc # "idle" /\ ~IdleRecovery.boot
            /\ ~FailedRecovery(p).boot \/ FailedRecovery(p).pc # "idle"
        <4>1. ~IdleRecovery.boot /\ \A b \in BOOLEAN : StartRecovery(b).pc = "list"
          BY DEF IdleRecovery, StartRecovery
        <4> QED BY <4>1 DEF FailedRecovery
      <3> HIDE DEF l
      <3>3. ASSUME NEW r, rec' = [rec EXCEPT ![p] = r], ~r.boot \/ r.pc # "idle"
            PROVE  BootRuns'
        BY <1>0, <3>3 DEF Ownership, BootRuns
      <3> QED BY <3>1, <3>2, <3>3
    <2> QED BY <1>5, <2>1, <2>2
  <1>9. ASSUME NEW p \in Procs, RenewClaims(p) PROVE Ownership'
    <2>1. /\ UNCHANGED <<clock, claims, dlv>>
          /\ due' = [due EXCEPT ![p] = FALSE]
          /\ rec' = [rec EXCEPT ![p] = StartRecovery(FALSE)]
          /\ \A m \in Messages :
               row'[m] = IF HoldsClaim(row[m], claims[p][m]) THEN Renewed(row[m], clock) ELSE row[m]
      BY <1>9 DEF RenewClaims, Keeping, Fault
    <2>2. BootRuns'
      BY <1>0, <2>1 DEF Ownership, BootRuns, StartRecovery, IdleRecovery
    <2>3. ASSUME NEW e \in Slots, Executing(e)'
          PROVE  Executing(e) /\ Msg(e)' = Msg(e) /\ (Owns(e) \/ Persisted(e))'
      <3>1. Executing(e) /\ Msg(e)' = Msg(e)
        BY <2>1, <2>3 DEF Executing, Msg
      <3>2. Msg(e) \in Messages /\ Row(e) \in RowType /\ e[1] \in Procs
        BY <1>1, <3>1
      <3>3. Row(e)' = row'[Msg(e)]
        BY <3>1 DEF Row
      <3>4. CASE Persisted(e)
        <4>1. row'[Msg(e)] = Row(e)
          BY <2>1, <3>2, <3>4 DEF Persisted, HoldsClaim, Terminal, Row
        <4> QED BY <2>1, <3>1, <3>3, <3>4, <4>1 DEF Persisted, At
      <3>5. CASE Owns(e) /\ HoldsClaim(Row(e), claims[p][Msg(e)])
        <4>1. Row(e)' = Renewed(Row(e), clock)
          BY <2>1, <3>2, <3>3, <3>5 DEF Row
        <4>2. /\ Row(e)'.updatedAt = clock /\ Row(e)'.status = Row(e).status
              /\ Row(e)'.startedAt = Row(e).startedAt /\ Row(e)'.worker = Row(e).worker
          BY <3>2, <4>1 DEF Renewed, RowType
        <4> QED BY <2>1, <3>1, <3>5, <4>2 DEF Owns, Fresh, At, HoldsClaim
      <3>6. CASE Owns(e) /\ ~HoldsClaim(Row(e), claims[p][Msg(e)])
        <4>1. Row(e)' = Row(e)
          BY <2>1, <3>2, <3>3, <3>6 DEF Row
        <4>2. ~At(e, "reread") => e[1] # p
          BY <3>6 DEF Owns
        <4>3. Fresh(e)'
          BY <1>0, <2>1, <3>2, <3>6, <4>1, <4>2 DEF Owns, Fresh, At
        <4> QED BY <2>1, <3>1, <3>6, <4>1, <4>3 DEF Owns, At
      <3> QED BY <3>1, <3>4, <3>5, <3>6 DEF Ownership, OwnsOrPersisted
    <2> QED BY <1>2, <2>2, <2>3
  <1>10. ASSUME NEW p \in Procs, NEW m \in Messages, RecoverRow(p, m) PROVE Ownership'
    <2>1. /\ UNCHANGED <<clock, claims, due, dlv>>
          /\ rec[p].pc = "recover" /\ rec[p].listed[m] # NoRow
          /\ \A n \in Messages : row'[n] = row[n] \/ (n = m /\ SameClaim(row[m], rec[p].listed[m]))
      BY <1>0, <1>10 DEF RecoverRow
    <2>2. BootRuns'
      <3>1. PICK r : /\ rec' = [rec EXCEPT ![p] = r]
                     /\ r = [rec[p] EXCEPT !.listed[m] = NoRow] \/ r = FailedRecovery(p)
        BY <1>0, <1>10 DEF RecoverRow
      <3>2. CASE r = [rec[p] EXCEPT !.listed[m] = NoRow]
        <4>1. rec[p] \in RecoveryType
          BY <1>0
        <4>2. r.pc = "recover"
          BY <2>1, <3>2, <4>1 DEF RecoveryType
        <4> QED BY <1>0, <3>1, <4>2 DEF Ownership, BootRuns
      <3>3. CASE r = FailedRecovery(p)
        <4>1. ~r.boot \/ r.pc # "idle"
          BY <3>3 DEF FailedRecovery, StartRecovery, IdleRecovery
        <4> QED BY <1>0, <3>1, <4>1 DEF Ownership, BootRuns
      <3> QED BY <3>1, <3>2, <3>3
    <2>3. ASSUME NEW e \in Slots, Executing(e)'
          PROVE  Executing(e) /\ Msg(e)' = Msg(e) /\ (Owns(e) \/ Persisted(e))'
      <3>1. Executing(e) /\ Msg(e)' = Msg(e)
        BY <2>1, <2>3 DEF Executing, Msg
      <3>2. Msg(e) \in Messages
        BY <1>1, <3>1
      <3>3. row'[Msg(e)] = row[Msg(e)]
        BY <2>1, <3>1, <3>2, OwnedNotRecovered DEF Row
      <3> QED BY <2>1, <3>1, <3>3, KeepsOwnership DEF Ownership
    <2> QED BY <1>2, <2>2, <2>3
  <1>11. ASSUME NEW p \in Procs, Crash(p) PROVE Ownership'
    <2>1. /\ UNCHANGED <<clock, row>>
          /\ \A e \in Slots : dlv'[e] = IF e[1] = p THEN IdleDelivery ELSE dlv[e]
          /\ \A q \in Procs \ {p} : claims'[q] = claims[q] /\ due'[q] = due[q]
      BY <1>11 DEF Crash, TypeInv, TypeOK
    <2>2. BootRuns'
      BY <1>0, <1>11 DEF Crash, Ownership, BootRuns, StartRecovery, IdleRecovery
    <2>3. ASSUME NEW e \in Slots, Executing(e)'
          PROVE  Executing(e) /\ Msg(e)' = Msg(e) /\ (Owns(e) \/ Persisted(e))'
      <3>1. dlv'[e] = dlv[e] /\ e[1] # p
        BY <2>1, <2>3 DEF Executing, IdleDelivery
      <3>2. Executing(e) /\ Msg(e)' = Msg(e)
        BY <2>3, <3>1 DEF Executing, Msg
      <3>3. e[1] \in Procs \ {p}
        BY <1>1, <3>1, <3>2
      <3> QED BY <2>1, <3>1, <3>2, <3>3, KeepsOwnership DEF Ownership
    <2> QED BY <1>2, <2>2, <2>3
  <1>12. CASE Tick
    <2>1. /\ UNCHANGED <<row, claims, dlv, rec>> /\ clock' = clock + 1
          /\ \A q \in Procs : ~due[q] /\ ~rec[q].boot /\ due'[q]
          /\ \A e \in Slots : ~At(e, "reread")
      BY <1>12 DEF Tick, Keeping, PromptTick, Ownership, BootRuns
    <2>2. BootRuns'
      BY <2>1 DEF Ownership, BootRuns
    <2>3. ASSUME NEW e \in Slots, Executing(e)'
          PROVE  Executing(e) /\ Msg(e)' = Msg(e) /\ (Owns(e) \/ Persisted(e))'
      <3>1. Executing(e) /\ Msg(e)' = Msg(e) /\ Row(e)' = Row(e)
        BY <2>1, <2>3 DEF Executing, Msg, Row
      <3>2. e[1] \in Procs
        BY <1>1, <3>1
      <3>3. CASE Persisted(e)
        BY <2>1, <3>1, <3>3 DEF Persisted, At
      <3>4. CASE Owns(e)
        BY <2>1, <3>1, <3>2, <3>4 DEF Owns, Fresh, At
      <3> QED BY <3>1, <3>3, <3>4 DEF Ownership, OwnsOrPersisted
    <2> QED BY <1>2, <2>2, <2>3
  <1>13. CASE UNCHANGED vars
    <2>1. UNCHANGED <<clock, row, due, claims, rec, dlv>>
      BY <1>13 DEF vars, recovery
    <2>2. BootRuns'
      BY <2>1 DEF Ownership, BootRuns
    <2> QED BY <1>5, <2>1, <2>2
  <1> QED BY <1>3, <1>4, <1>6, <1>7, <1>8, <1>9, <1>10, <1>11, <1>12, <1>13 DEF Next, Recovery

\* While the recovery ticker keeps up, a handler runs alone for its job and under
\* its own claim, whatever deliveries are abandoned, lost or repeated, with any
\* number of processes sharing the topic.
THEOREM HandlersRunAlone ==
    ASSUME Keeping
    PROVE  Spec => []NoConcurrentExecution
  <1>1. Init => Ownership
    BY DEF Init, Ownership, OwnsOrPersisted, Alone, BootRuns, Executing, IdleDelivery, IdleRecovery
  <1>2. TypeInv /\ ListedStale /\ OneAwaited /\ Ownership /\ [Next]_vars => Ownership'
    BY OwnershipStep
  <1>3. Ownership => NoConcurrentExecution
    BY DEF Ownership, OwnsOrPersisted, Alone, Executing, Owns, Persisted, NoConcurrentExecution, At
  <1> QED BY <1>1, <1>2, <1>3, TypeInvariant, ListedStaleInvariant, OneAwaitedInvariant, PTL
          DEF Spec

-----------------------------------------------------------------------------
(* The lifecycle.                                                            *)

\* A job that is running, or that a delivery may still fail after requeueing it,
\* has been attempted; one without a row has not.
AttemptedRow(r) ==
    /\ r.status = "running" => r.attempts > 0
    /\ r.status = "absent" => r.attempts = 0

Attempted ==
    /\ \A m \in Messages : AttemptedRow(row[m])
    /\ \A d \in Slots : dlv[d].pc \in Ending /\ dlv[d].result = "transient"
                            => Row(d).attempts > 0
    /\ \A d \in Slots : dlv[d].pc = "finalize" => dlv[d].result = "transient"

\* What a step does to the two columns that the lifecycle is about.
Attempts(m) ==
    \/ row'[m].status = row[m].status /\ row'[m].attempts = row[m].attempts
    \/ /\ row[m].status = "absent" /\ row'[m].status = "queued"
       /\ row'[m].attempts = row[m].attempts
    \/ /\ row[m].status = "queued" /\ row'[m].status = "running"
       /\ row'[m].attempts = NextAttempt(row[m].attempts)
    \/ /\ row[m].status = "running" /\ row'[m].status \in {"queued", "succeeded", "failed"}
       /\ row'[m].attempts = row[m].attempts
    \/ /\ row[m].status = "queued" /\ row'[m].status = "failed" /\ row[m].attempts > 0
       /\ row'[m].attempts = row[m].attempts

\* What a step does to the attempts of a job and to its status.
LEMMA AttemptsSteps ==
    ASSUME TypeInv, Attempted, [Next]_vars
    PROVE  \/ \A m \in Messages : /\ row'[m].status = row[m].status
                                  /\ row'[m].attempts = row[m].attempts
           \/ \E m \in Messages : Attempts(m) /\ \A n \in Messages \ {m} : row'[n] = row[n]
  <1>0. \A m \in Messages : row[m] \in RowType
    BY DEF TypeInv, TypeOK
  <1>1. CASE row' = row
    BY <1>1
  <1>2. CASE Renewal
    BY <1>0, <1>2 DEF Renewal, Renewed, RowType
  <1>3. ASSUME NEW m \in Messages, OnlyRow(m) PROVE Attempts(m)
    <2>0. row[m] \in RowType
      BY <1>0
    <2>1. CASE row[m].status = "absent" /\ row'[m] = Materialized(row[m], clock)
      BY <2>1 DEF Materialized, NoRow, Attempts, Attempted, AttemptedRow
    <2>2. CASE Claimable(row[m]) /\ row'[m] = Claimed(row[m], WorkerID, clock)
      BY <2>0, <2>2 DEF Claimable, Claimed, RowType, Attempts
    <2>3. ASSUME NEW d \in Slots, dlv[d].pc = "persist", HoldsClaim(row[m], dlv[d].claim),
                 row'[m] = Finished(row[m], dlv[d].result, WorkerID,
                                    VerdictError(dlv[d].result), clock)
          PROVE  Attempts(m)
      <3>1. dlv[d].result \in Terminal
        BY <2>3 DEF TypeInv, PersistsVerdict
      <3> QED BY <2>0, <2>3, <3>1 DEF Finished, HoldsClaim, RowType, Attempts, Terminal
    <2>4. ASSUME NEW d \in Slots, HoldsClaim(row[m], dlv[d].claim),
                 row'[m] = Requeued(row[m], dlv[d].queuedAt)
          PROVE  Attempts(m)
      BY <2>0, <2>4 DEF Requeued, HoldsClaim, RowType, Attempts
    <2>5. ASSUME NEW d \in Slots, dlv[d].pc = "finalize", Msg(d) = m,
                 StillRequeued(row[m], dlv[d].queuedAt),
                 row'[m] = Finished(row[m], "failed", WorkerID, "job_execution_failed", clock)
          PROVE  Attempts(m)
      <3>1. dlv[d].result = "transient"
        BY <2>5 DEF Attempted
      <3>2. row[m].attempts > 0
        BY <2>5, <3>1 DEF Attempted, Ending, Row
      <3> QED BY <2>0, <2>5, <3>2 DEF Finished, StillRequeued, RowType, Attempts
    <2>6. ASSUME NEW p \in Procs, SameClaim(row[m], rec[p].listed[m]),
                 row'[m] = Recovered(row[m], rec[p].listed[m], rec[p].now)
          PROVE  Attempts(m)
      BY <2>0, <2>6 DEF Recovered, Requeued, SameClaim, HoldsClaim, RowType, Attempts
    <2> QED BY <1>3, <2>1, <2>2, <2>3, <2>4, <2>5, <2>6 DEF OnlyRow, RowStep
  <1> QED BY <1>1, <1>2, <1>3, RowSteps DEF OnlyRow

\* A delivery that may finalize a job has attempted it.
LEMMA AttemptedInvariant == Spec => []Attempted
  <1>1. Init => Attempted
    BY DEF Init, Attempted, AttemptedRow, IdleDelivery, NoRow, Ending
  <1>2. TypeInv /\ Attempted /\ [Next]_vars => Attempted'
    <2> SUFFICES ASSUME TypeInv, Attempted, [Next]_vars PROVE Attempted'
      OBVIOUS
    <2>1. \A m \in Messages : row[m].attempts \in Nat
      BY JobStoreAssumption DEF TypeInv, TypeOK, RowType
    <2>2. ASSUME NEW m \in Messages
          PROVE  /\ Attempts(m)
                 /\ AttemptedRow(row'[m])
                 /\ row[m].attempts > 0 => row'[m].attempts > 0
      <3>1. Attempts(m)
        BY AttemptsSteps DEF Attempts
      <3>2. AttemptedRow(row[m]) /\ row[m].attempts \in Nat
        BY <2>1 DEF Attempted
      <3> QED BY <3>1, <3>2, JobStoreAssumption DEF Attempts, AttemptedRow, NextAttempt
    <2>3. ASSUME NEW e \in Slots, dlv'[e].pc \in Ending
          PROVE  /\ dlv'[e].result = "transient" => row'[dlv'[e].msg].attempts > 0
                 /\ dlv'[e].pc = "finalize" => dlv'[e].result = "transient"
      <3>1. EndingStep(e)
        BY EndingSteps
      <3>2. dlv'[e].pc = "finalize" => dlv'[e].result = "transient"
        BY <2>3, <3>1 DEF EndingStep, Attempted
      <3>3. ASSUME dlv'[e].result = "transient" PROVE row'[dlv'[e].msg].attempts > 0
        <4>1. CASE /\ dlv[e].pc \in Ending /\ dlv[e].result = "transient"
                   /\ dlv'[e].msg = dlv[e].msg
          <5>1. Msg(e) \in Messages /\ Row(e).attempts > 0
            BY <4>1, ActiveFacts DEF Attempted, Ending
          <5> QED BY <2>2, <4>1, <5>1 DEF Row, Msg
        <4>2. CASE /\ dlv'[e].msg = Msg(e) /\ Row(e).status = "running"
                   /\ row'[Msg(e)].attempts = Row(e).attempts /\ dlv[e].pc # "idle"
          <5>1. Msg(e) \in Messages
            BY <4>2, ActiveFacts
          <5> QED BY <4>2, <5>1 DEF Attempted, AttemptedRow, Row
        <4> QED BY <2>3, <3>1, <3>3, <4>1, <4>2 DEF EndingStep
      <3> QED BY <3>2, <3>3
    <2> QED BY <2>2, <2>3 DEF Attempted, Row, Msg, Ending
  <1> QED BY <1>1, <1>2, TypeInvariant, PTL DEF Spec

\* Every interleaving of deliveries, retries, renewals, recoveries, crashes and
\* lost acknowledgements is, on the jobs table, a behaviour of the abstract
\* lifecycle that the jobs API promises.
THEOREM WorkerImplementsLifecycle == Spec => ImplementsLifecycle
  <1> DEFINE S == [m \in Messages |-> row[m].status]
             A == [m \in Messages |-> row[m].attempts]
  <1>1. Init => Lifecycle!Init
    BY DEF Init, Lifecycle!Init, NoRow
  <1>2. TypeInv /\ Attempted /\ [Next]_vars => [Lifecycle!Next]_<<S, A>>
    <2> SUFFICES ASSUME TypeInv, Attempted, [Next]_vars PROVE [Lifecycle!Next]_<<S, A>>
      OBVIOUS
    <2>1. CASE \A m \in Messages : /\ row'[m].status = row[m].status
                                   /\ row'[m].attempts = row[m].attempts
      BY <2>1
    <2>2. ASSUME NEW m \in Messages, Attempts(m), \A n \in Messages \ {m} : row'[n] = row[n]
          PROVE  [Lifecycle!Next]_<<S, A>>
      <3>1. S' = [S EXCEPT ![m] = row'[m].status] /\ A' = [A EXCEPT ![m] = row'[m].attempts]
        BY <2>2
      <3>2. S[m] = row[m].status /\ A[m] = row[m].attempts
        OBVIOUS
      <3>3. row'[m].attempts = row[m].attempts => A' = A
        BY <3>1
      <3>4. row'[m].status = row[m].status => S' = S
        BY <3>1
      <3> QED BY <2>2, <3>1, <3>2, <3>3, <3>4
              DEF Attempts, NextAttempt, Lifecycle!Next, Lifecycle!Appear, Lifecycle!Start,
                  Lifecycle!GiveBack, Lifecycle!Finish, Lifecycle!Exhaust, Lifecycle!Move
    <2> QED BY <2>1, <2>2, AttemptsSteps
  <1> QED BY <1>1, <1>2, TypeInvariant, AttemptedInvariant, PTL
          DEF Spec, ImplementsLifecycle, Lifecycle!Spec
=============================================================================
