# Verification of sumweave: jobs, dispatch, bank synchronization, the finance workflows and agent runs

TLA+ models of the parts of sumweave whose correctness depends on the order of
steps of several processes, TLC configurations that check them on small
instances, and TLAPS proofs of their safety properties for every instance.
`PROJECT.json` maps each definition to the source lines it models, each property
to a seeded fault that it catches, and lists the hazards of the code.

## 1. The system

sumweave is a Go workspace around one PostgreSQL database: a finance library,
an application that serves it over HTTP and runs its background work, an agent
runtime, and tools. Background work flows like this:

    user or scheduler --(transaction)--> messages table --(poll)--> router
        --> job worker: job row queued -> running -> succeeded | failed
        --> finance service (bank sync, imports, matching, FX)
        --> domain events, again through the messages table

| Component | State it keeps | Operations | What is hard | What makes it correct |
|---|---|---|---|---|
| Job store (`internal/jobs/store.go`) | `jobs` table | materialize, claim, finish, requeue, renew, recover | each is one conditional UPDATE; everything between two of them can change | a terminal row is final; a claim is taken only from the queue or a stale holder |
| Job worker (`internal/jobs/worker.go`) | tracked claims, handler goroutines, recovery ticker, the tracker of RunOnce | process a delivery, persist its outcome, renew, recover, run once | redelivery, cancellation, crash, lost replies, a clock | one handler per job at a time; no acknowledgement without an outcome; progress |
| Router (`internal/appdispatch/router.go`) | retry count of a delivery; started, closed, subscriptions, contexts | retry, exhaust, recover panics, dead-letter, run, run once, close | error, panic and cancellation take different paths; close meets start-up, another close and handlers at work | each path ends in the same state of the job; nobody waits for ever, and the database goes last |
| Dispatch transport (`appdispatch.go`, `postgres_transport.go`) | `messages`, `offsets`, `publications` | publish (own or caller's transaction), idempotency keys, poll, acknowledge | ids precede commits; racing keys; lost replies | nothing skipped, nothing invented, one message per key |
| Bank schedules (`bank_connection_schedule_service.go` and store) | schedule rows | repair, list due, claim, publish, advance | several schedulers; stale rows written back | one command per occurrence, with its advance |
| Bank sync service (`service_bank_sync.go`) | connection and schedule rows | run, pause, resume, upsert, trigger, delete | read-modify-write without a lock around a long provider call | its writes respect what happened meanwhile |
| Scheduler process (`wireup/jobs.go`, `start_all_cmd.go`) | none | tick: bank schedules, then FX | first error ends the tick | every due schedule is served |
| Provider window sync (`finance/internal/providers`) | transactions, matches, finance accounts, sync journal | plan windows, fetch, snapshot, diff, apply | snapshot and apply are two transactions; the checkpoint; identifiers that change | no gap behind the checkpoint, one row per bank transaction, one account, no lost edit |
| Link coordinator (`link_coordinator.go`) | pending link starts, connections with secret, snapshot and schedule | start, consume, finish, save, restore, token link | crash between consume and save; a commit of unknown outcome; deletion meanwhile | a start makes one connection or can be finished; nothing is left for a deleted connection |
| Transfer matching (`service_transfer_matching.go`) | pair columns of transactions | load, decide, save pair after pair; link, unlink by hand | two consumers and users on the same legs; the edge of the load | pairs are each other's only counterpart, and whole |
| CSV import (`service_csv_import.go`) | import records, row outcomes, the catalog | preview, confirm, run | redelivery; whole records saved from old copies; check, then insert | a row is posted once, the totals agree, the preview is kept |
| FX rates and schedule | one schedule row, rates | as bank schedules | as bank schedules | as bank schedules |
| Ledger, reporting, tenants, catalog, classification | tables | CRUD, queries, rules | little concurrency | arithmetic of money and dates |
| Bank connectors, finance persistence, configuration, telemetry, HTTP clients | none of their own, or tables | one call or query at a time | provider errors | translation |
| HTTP API, auth, domain events | sessions, tokens | request mapping | little | access checks |
| Process lifecycle (`system/lifecycle`) | hooks | start-up group, shutdown hooks with a deadline | goroutines, timeouts | all hooks run, no hang |
| Agent runtime (`src/runtime`) | active runs, event buses, stored sessions and their listing | run, read, list, shut down | readers that join a run, fall behind and leave; a mutex held while sending; entries written after the fact | streams without gap or repetition; a run ends; a title is kept |
| Tools, UI | workspace files | I/O, presentation | background commands | not modelled |

## 2. Modules

| Module | Models | Role |
|---|---|---|
| `JobStore` | the rows of `jobs` and each statement on them | operators, no state |
| `JobLifecycle` | what the jobs API promises of one job | abstract specification |
| `JobWorker` | worker, router policy, recovery; extends `JobStore`, refines `JobLifecycle` | state machine |
| `Dispatch` | publications, idempotency keys, subscriptions | state machine |
| `BankSchedule` | schedulers, the run's writes, users' writes | state machine |
| `WindowSync` | runs of provider synchronization, users' edits and pairings, the bank | state machine |
| `TransferMatching` | matching attempts and users on one tenant's rows | state machine; pairing as operators |
| `CsvImport` | previews, confirmations, import jobs | state machine |
| `LinkCoordinator` | redirect and token links, pending starts | state machine |
| `RouterLifecycle` | one router's start, drain and close, and RunOnce | state machine |
| `AgentRuns` | background runs of a session, their event buses and readers | state machine |
| `Components` | the five before, one at work in each behaviour | sum of state machines |
| `MC*` | constants for TLC; `MCComponents` the ledgers, files and messages to start from | |
| `JobWorkerProofs`, `DispatchProofs`, `BankScheduleProofs`, `WindowSyncProofs` | | TLAPS proofs of the module in the name |
| `LinkRouterProofs`, `AgentRunsProofs`, `MatchingImportProofs` | | TLAPS proofs of those parts of `Components` |
| `ComponentsProofs` | | TLAPS proof of the types of all five |

The state machines of the job system meet at two interfaces. `Dispatch` shows that a topic
behaves as the numbered, complete sequence of messages that `JobWorker` assumes;
`JobWorker` shows what a consumer does with it, and `BankSchedule` sees that
consumer as one worker that takes commands in order, one at a time, and runs a
failed one again or leaves it. They are composed by these assumptions, not by one
product state space.

The finance modules stand on the same interfaces. `WindowSync` is what a command
of `BankSchedule` runs: two runs of one connection are two commands, or a command
and its redelivery, which `JobWorker` allows when recovery is late. Its `Commit`
publishes the event that `TransferMatching` consumes as a window (`Synchronize`),
in the same transaction; its `LinkPair` and `UnlinkPair` are the writes of
`TransferMatching`, seen from the synchronization. `CsvImport` takes its job's
message from `Dispatch`, once per import by its key, and may see it again.
`LinkCoordinator` makes the connections the others work on.

`RouterLifecycle` is the frame around `JobWorker`: there a process runs or has
crashed, here it starts, drains and stops, and of a delivery only whether it is at
work, in a backoff or over is told. `AgentRuns` is on its own: agents share the
database with the rest and nothing else.

### JobStore and JobWorker

One step is one SQL statement or one section under the worker's mutex. A
delivery (`dlv`) moves through the calls of `processObserved` and
`executeClaimedObserved`: insert, read, claim, re-read and track, handler, then
persist or requeue, release, and the router's retry, finalize and dead-letter
steps. Messages are positions in the topic and the row of a message has its
identity (`Job.ID = message.ID`). `claims` is `Worker.claims` of each process,
`due` and `rec` its recovery ticker and goroutine, `lock` the process whose
polling transaction holds the group's row of `offsets`.

- All processes have the same worker id, as wired today (`jobs-worker`). Claims
  made within one unit of the clock can have equal `started_at`; the code's
  timestamps are far finer, so the model allows more than the database does.
- Any store call may report an error and may have been applied all the same
  (the reply is lost). A call on a cancelled context always errs.
- Time is a clock that all processes share, and a unit is the recovery interval.
  Clocks that disagree are not modelled. A statement's timestamp is read in the
  same step as the statement runs, except in recovery, which reads it first.
- `RenewClaims` renews every tracked claim in one step: the UPDATEs touch
  different rows, and each is conditional on its claim.
- `LoseTransaction` ends the batch; the delivery under way goes on, and the rest
  of that batch is not delivered before the next poll.
- `attempts` stops at `MaxAttempts`, the only value it is compared with.
- Watermill's subscriber and retry middleware are external, modelled from their
  configuration here: a message is handed over one at a time, a nacked message
  is sent again, `MaxRetries` counts the tries after the first, the position is
  committed when the batch ends. The subscriber configuration
  (`appdispatch.go:406`) sets no ack deadline, so the library's default applies:
  `Abandon`.

### Dispatch

A transaction id and a serial number are given out before the commit. `Eligible`
is the SELECT of `postgres_transport.go:87`: after the position in
(transaction id, offset) order and below `pg_snapshot_xmin`. A polling
transaction locks its row of `offsets`, therefore has an id, and keeps it until
its batch is handled: while a handler runs, every message whose transaction began
later is invisible to all subscriptions. This is a delay that the model includes,
and `AllDelivered` shows it is no deadlock.

- A transaction publishes one message, as all callers do; the transaction's id
  stands for the message's UUID. Polls that find nothing are omitted.
- The INSERT of a key waits while another open transaction holds the key
  (`ClaimPublication` is not enabled until then); this and rollback are the
  database's behaviour.
- `Publish` without key and `PublishRequest` are both `Begin`, then the
  insert, then `Commit`; `PublishRequestInTx` adds `CallerWrites`.

### BankSchedule

Three parties write a schedule row. The scheduler's claim, publication, advance
and commit are one step, since the claim's row lock is held from its UPDATE to
the commit; its list and its re-read are steps before it. The run reads the
connection, then for the start and for the end writes the connection copy, reads
the schedule row and writes the whole row back, each as a step. Users' edits are
a read and a write.

- The connection row is abstracted to its existence (its state is always
  active); columns that no statement reads back are left out.
- Connection and secret are read in one step, and a run that finds one missing is
  terminal.
- Pause, resume and upsert are operations of the service which the HTTP API does
  not offer today; trigger and delete are. The reason of a triggered run is the
  user's, so a manual command can carry the reason "scheduled".
- A commit whose reply is lost is `ClaimOccurrence` followed by `TickFails`.
- New links are not created: connections in `Initial` begin without a schedule.
- Intervals are positive (validated on write), so `claimOccurrence`'s error for
  others is left out. Listed occurrences at the same time come in any order.

### WindowSync

`Start` is `Orchestrate` up to its loop, and then each chunk goes through `Fetch`
(the connector), `Load` (`LoadExistingWindow` and the two planners, which only
compute), `BeginApply` (the snapshot taken again by `ApplySync`, and the first
read of its transaction) and `Commit`, or ends in `Fail` or `Crash`. Isolation is
read committed: a statement sees what was committed before it, so the decisions
of `Load` and the account looked up in `BeginApply` can be old at `Commit`.

- One connection with one provider account. Instants are days; amount, currency
  and description of a transaction are one value, its day another; a user may
  change either, or hide the row. Balances and display snapshots are left out.
- Rows and matches are functions from identifiers; `made` is the highest one given,
  and a write that creates takes the number of its place in the plan above it. The
  writes of a transaction are stated by their outcome: of several writes of one row,
  or of one match, the last one stays, and a created row has one write.
- The journal is its latest entry, the only one read. Nothing but the plan of a
  run reads the clock, so time passes in `Start`.
- A fingerprint is a hash of account, content and day, here their pair. The bank
  may report a transaction late, correct it, or give it another identifier, as
  when a pending transaction is booked.
- `history` is for the properties only: which bank transactions a row was written
  for, what its user corrected, which days were applied, and whether a run was
  outrun (`overlapped`), an edit was saved under a run (`raced`), or the
  connection was deleted under an applying run (`late`).
- The exceptions the properties make are behaviours of the code worth knowing. A
  window asked for with a start of its own moves the checkpoint like any other,
  past days never fetched. Two transactions with one fingerprint share a row when
  an identifier changes. Two runs that both miss a transaction both create it, and
  its identifier is ambiguous from then on. A run that deletion overtakes in its
  apply transaction recreates matches and the account mapping.

### TransferMatching

`Begin` is the load, in one statement, and the pure decision on it; `SavePair`
the transaction of one pair, which does not look at the rows again. Two consumers
work one message at a time each: events of committed windows, and submitted
ranges. What the rules read of a row does not change, because an attempt reads it
once; the evidence that the connectors extract is part of a row. The unit of time
is the matching window of 72 hours, so the load extension is 2.

`DecisionsExact` compares the code's way - indexes, an order, a cap of two
candidates, four rules one after the other, a load cut at an edge - with a
definition that has none of it: mutually only counterparts in the whole ledger.

When two writers hold old copies of the same legs, a pair can be written over
another, and a leg keeps a group whose other leg has moved on. It then shows no
partner, is not eligible, and cannot be unlinked (`ErrTransferNotLinked`).
`PairsSound` allows that only after such a race (`raced`), and never more than one
partner.

### CsvImport

A confirmation is three steps on a copy of the record it read (save as
confirmed, publish, save the reference), a run reads the record, saves it as
running, imports row after row and saves it as completed. A row is two steps: the
lookups of its transaction, and its writes with the outcome under a unique key. A
key stands for date, amount and description; the preview works on the whole file
in one step.

Behaviours of the code that the properties except: a confirmation that read the
record before the run and saves it after takes a completed import back to
confirmed, a second run that did so takes it back to running until it ends
(`overtaken`); rows of account files keep no outcome and are created
again by a redelivery; a row's database error is swallowed into the totals
(`erred`); two overlapping transactions of rows can both insert an entry or an
account of the same name (`overlapped`); a file that repeats a row, or whose
duplicate names a new category, is not previewed as it will run.

### LinkCoordinator

`Consume`, `FinishLink` (the bank's answer and the first, locking lookup of the
transaction), `CommitLink`; `FailLink` and `Restore` on errors. `GiveUp` is a
request whose context ends while its transaction may still commit (`adrift`,
decided by `Settle`); it restores the start like any failure, so the user can try
again and a second session be linked. `LoseRequest` is a crash, and also a
request already cancelled, since the restoration uses the same context: its start
stays consumed. Users pause and delete. A token link has no reference and makes
another connection each time. For a reference that is linked already, the
transaction keeps the stored secret and drops the new one.

### RouterLifecycle

The threads are the command (`main`), `Router.Run` (`run`), its watcher of the
context, and two callers of `Close`: an owner that stops the worker at any time,
and the shutdown hook, which closes the database after it (`wireup/jobs.go:248`).
`pc` holds where each is. `Close` is three steps: `LockClose` (the section of
`requestClose` under the mutex), `SignalClose` (the rest of it), then
`FinishClose` or `AwaitClosed`. A subscription is two steps, the check of
`closing` and the transport's answer, and may fail. `mode` says which of
`Router.Run`, `Router.RunOnce` and `Worker.RunOnce` is called; the two RunOnce
differ in their tracker (a set, and counts with pending retries) and in whom they
wait for when their caller's context is done.

- Watermill's router is external: it subscribes its handlers one by one, returns
  when all have stopped and no delivery is at work, and ignores its context while
  it has no handler, which is what `requestClose` compensates for. Its own timeout
  for closing is not set.
- Whether an error is retried, and dead-lettering, are of `JobWorker`; here a
  delivery ends, or fails and is retried, at most `MaxTries` times.
- Liveness is stated of quiescent states: `NobodyWaitsForever` asks that where no
  step of the process is enabled, nobody is waiting. A thread that waits for ever
  while others go on would have to wait for one of the endless pollers; those are
  the subscriptions and the ticks of RunOnce, which nobody waits for.
- Behaviours the properties except. A backoff that ends with its context tells
  nobody, so a retry of an abandoned delivery stays in `pendingRetries` after its
  message is done with elsewhere, and `Worker.RunOnce` then ends only with its
  caller's context. `Router.RunOnce` does not see backoffs at all, and its set
  forgets a message, delivered twice, when one of the two ends. A delivery that is
  fetched and not yet tracked is cancelled at the second idle poll.
- A router with one failed subscription goes on with those it had before and
  reports the error when it ends; the later ones get a closed channel.

### AgentRuns

`CountEvents` is the read at the start of `BackgroundRunner.Run`, before its
mutex; `Register` the section under it and the subscription; then the goroutine
goes through `EnsureSession`, `StoreMessage`, `Yield` and `CloseBus`, which may
come at any time (an error, `Shutdown`). `Publish` holds the bus's mutex (`unsent`
is not empty) until `Send` has passed the event to every channel. A reader looks
the active run up (`Capture`), reads the history (`Load`), and subscribes when its
stream gets there (`ReplayAndSubscribe`).

- The agent framework is external: it stores the user's message, then stores each
  event that is not partial before it yields it. One run at a time stores events,
  so an append is one step with the update of the listing; the lookup, the
  summary and the save after it may each fail.
- Title and time of creation stand for a listed session; a title is named by the
  event it summarizes, a time by the length of the history.
- The channel buffer of 256 is `Buffer`. `before` and `sure` of a run are for the
  properties only.
- `RunsEnd` is stated of quiescent states, like `NobodyWaitsForever`, and excepts
  a real deadlock. `Publish` waits for a full channel with the mutex held
  (`event_bus.go:48`), and a subscriber that is leaving needs that mutex to
  unsubscribe (`event_bus.go:69`); or its iterator was never entered, because the
  response failed before it (`sse.go:52`), and then nobody unsubscribes it. If
  more than 256 events follow, or the client left while slower than the run by as
  many, the run stops in `Publish`, does not see its own cancellation there, and
  the session is busy until the process ends, although `background_runner.go:53`
  says that the caller's cancellation does not reach the run.
- `ReadsComplete` holds of a count that is sure. A count taken while another run
  was storing, or that failed and stayed 0, is too small, and readers of the run
  then miss that much of the history. The message the user sent to the run under
  way is in neither part of an active read: it is stored after the count and not
  published.

### Components

`TransferMatching`, `CsvImport`, `LinkCoordinator`, `RouterLifecycle` and
`AgentRuns` read nothing of each other, so their product would multiply states and
add no behaviour. `Components` is their sum: `part` says which one acts, the
others rest in an initial state. Its invariants and properties are those of the
five, under names of its own where the component is an instance.

The assumptions on the constants of the instances are `ComponentsAssumption`: typing
of the numbers, files whose rows are sequences of records that name accounts and
categories of the catalog (names that nothing bears yet are there, with no account or
kind) and have a currency, accounts that are sequences, finitely many topics and
deliveries at a time, at least one message and one try, no request that is also a
reader, and that nil is no value. Those of the matching are `TransferMatchingAssumption`: finitely many
rows to a ledger, whose dates are integers and whose amounts are of the code's integer
width (`MinInt`), a load that extends two windows on either side, and the cap of two
candidates. The bounds of the links are fixed there, at 2 user
operations and 2 faults, so its theorems about the links hold for those; the numbers
of starts, requests and connections are any.

## 3. Runs

| Run | Checks | Bounds |
|---|---|---|
| `MCJobWorkerSafety` | `TypeOK`, `AckJustified`, `ErrorMatchesOutcome`, `TerminalAbsorbing`, `OnlyHolderOrStale`, `ImplementsLifecycle` | 2 processes, 1 message, 1 retry, 2 attempts, any one fault, clock to 2 |
| `MCJobWorkerPrompt` | `NoConcurrentExecution`, `EventuallyAcked` | 2 processes, 2 messages, the second malformed, any one fault except a failed renewal, clock to 3, `Prompt` |
| `MCJobWorkerTracking` | violates `ActiveClaimTracked` | 2 handler goroutines per process, 1 abandonment |
| `MCJobWorkerPanic` | violates `DeadLetteredNotQueued` | no fault but the panic |
| `MCJobWorkerStranded` | violates `NoStrandedJob` | 1 abandonment |
| `MCDispatchSafety` | `TypeOK`, `NoMessageSkipped`, `KeyNamesOneMessage`, `RepliesDurable`, `StableGrowsAtEnd`, `AllDelivered` | 2 publishers, 2 topics, 3 transactions, 1 key with two payloads and requests without key, 1 fault, batches of 2 |
| `MCBankScheduleSafety` | `TypeOK`, `OncePerOccurrence`, `ReferenceNamesOccurrence`, `PublishedWithAdvance` | 1 connection, 2 schedulers, 2 commands, 1 user operation, 2 faults, clock to 2 |
| `MCBankScheduleOrphans` | violates `NoOrphans` | 1 scheduler, 1 user operation |
| `MCBankScheduleConflict` | violates `DueIsAdvanced` | 1 scheduler, 3 commands |
| `MCWindowSyncSafety` | `TypeOK`, `CheckpointCovered`, `TransactionsToldApart`, `CorrectionsKept`, `OneFinanceAccount`, `PairStateOwned` | 2 runs, 2 bank transactions with 2 contents on 2 days, windows of 2 days, backfill of 3, clock to 4, any two events (edit, pairing, report, revision, deletion, failure, crash, window asked for) |
| `MCWindowSyncCorrections` | violates `CorrectionsNeverOverwritten` | as above, a third run |
| `MCComponents` | `ComponentsTypeOK`; matching: `DecisionsExact`, `PairsSound`, `AllUniquePaired`; imports: `ImportsConsistent`, `NoDoubleEntry`, `PreviewKept`; links: `OneConnectionPerStart`, `UsersWordKept`; router: `DatabaseClosedLast`, `NobodyWaitsForever`, `LongDeliveryPreserved`; agents: `StreamsExact`, `ReadsComplete`, `RunsEnd`, `TitleKept` | matching: 5 ledgers of 3 or 4 rows, 2 windows (pending rows in 1 of the ledgers), 1 submission, 1 user operation, 1 fault; imports: 4 situations of two files of up to 2 rows, 2 runners, 1 confirmation at a time, 1 fault or hidden account; links: 2 starts (one synthetic), 2 requests, 2 connections, 2 user operations, 2 faults; router: none, one or two topics registered, 1 message, 2 deliveries, 2 tries, 1 abandonment where one topic is; agents: 2 runs of one session with 0 and 2 events, one of them partial, 1 reader, channels of 1, 1 fault |

Why these bounds reach the interesting cases. Jobs are independent rows, so one
message with two processes has every race over a claim; a second message is used
where a blocked topic matters, and has one fault less. The stale age is 2, the least that lets a renewal
fall between two recoveries; clock 2 lets a claim grow stale, be recovered,
and be claimed again; two attempts separate the two outcomes of recovery. With
two publishers and a poller a transaction begins between two others and commits
after both; the publishers are not symmetric there, as symmetry is unsound for
liveness. One
connection suffices for schedules because no statement relates two connections.
An interval of 2 and a default of 1 let an occurrence be missed and a new one
computed from it within a clock of 2.
For synchronization, two runs, of two chunks each where they backfill, let one be
outrun and then fail or go on; two days, one in each chunk of the backfill and one recent, put a
row in and out of a window by an edit or a revision; two transactions with two
contents make fingerprints meet, and identifiers change once. The five ledgers of
the matching are a competitor exactly two windows away, more candidates than the
cap, an exchange rounded up with a competitor by another rule, provider evidence,
and an edited row; the four situations of the imports are a new account in two
files, in two currencies, a repeated row beside an account file, and a category of
both kinds. Two requests on two starts and two connections have every race of the
links. Two topics let one subscription serve, fail or start while the other ends;
two deliveries of one message are an abandoned one beside its successor. A channel
of one event is full after one, a second run follows a first or is refused beside
it, and a first event that is partial separates what is published from what is
stored. The budgets (`faults`, `begun`, `userOps`, `budget`, `abandons`, `Yields`), the clock and
the lengths of logs are the only bounds, each named in a guard; for safety, the
proofs of section 4 remove them.

Every run has `CHECK_DEADLOCK FALSE`: messages, transactions, commands and time
are finite in an instance, and when they are used up the system stops.

The six violations are disagreements between code and documentation; section 5
tells them.

### Timing and fairness

`Prompt` is the assumption under which executions are exclusive: no unit of time
passes while a recovery tick is due or a committed claim is not yet tracked, and
renewals do not fail. The code cannot promise it - nothing fences a handler whose
process was suspended for longer than the stale age - which is why
`MCJobWorkerSafety` runs without it. `MCJobWorkerPrompt` gives each process one
handler goroutine. That is part of the claim: with two, a cancelled delivery that
ends late takes the tracked claim from its successor (finding 1), whose row then
grows stale under a running handler, and a second handler starts.

`FairSpec` of `JobWorker`: goroutines that can run do run, handlers return, the
subscriber keeps polling, the ticker fires. These are weak fairness of each
goroutine, of each subscriber and of time; faults have none, and they are finite
and happen before `FaultHorizon`, so that time remains to recover. Handlers of the
code run without a limit of their own; that they return is an assumption.
`FairSpec` of `Dispatch`: open transactions go on, each subscription polls,
handles and commits.

## 4. Proofs

All theorems hold for every value of the constants that the named assumptions
(`JobStoreAssumption`, `JobWorkerAssumption`, `DispatchAssumption`,
`BankScheduleAssumption`, `WindowSyncAssumption`, `TransferMatchingAssumption`,
`ComponentsAssumption`) allow: any numbers of processes, messages, publishers,
connections, runs, readers and faults, any ledgers and files, any clock bound. The
assumptions are typing of the constants, a stale age of at
least two recovery intervals (from `recoveryInterval`), chunks, recent and backfill
windows that are not empty, and that the model values for "none" are not members.

- **Types.** `TypeOK` is not inductive. For the worker it needs that an active
  delivery has a message, that a delivery about to persist has a verdict, and that
  the awaited delivery is of the message after `cursor`
  (`JobWorkerProofs!TypeInv`); for the transport that an open transaction has a
  request and a key claim has a key; for schedules that a tick or an edit under
  way names a connection, a run its command, and a tick's time is not in the
  future.
- **Job rows.** `RowSteps` reduces every step to the statements of `JobStore` on
  one row; `TerminalIsFinal` follows from their WHERE clauses.
  `ClaimsAreRespected` needs `ListedStale`: what recovery has listed was stale at
  the recovery's time, and `SameClaim` compares `updated_at`, so the row is stale
  still. `ErrorsMatchOutcomes` is by the error columns each statement writes.
- **Acknowledgements.** `AcksAreJustified` needs `DoneIsTerminal`: a delivery
  that is about to acknowledge after its claim has a terminal row, and keeps it
  because terminal rows are final.
- **One handler at a time.** `HandlersRunAlone` assumes `Keeping`: `Prompt`, no failed
  renewal, and either one goroutine per process or no delivery that is given up; any
  number of processes, and every other fault, stay. `NoConcurrentExecution` is not
  inductive, since it says nothing of the statements around the handler.
  `Ownership` does, from the claim's UPDATE to the statement that gives the claim back:
  at most one delivery is there for a job; its row is running, written no longer ago
  than the renewal that is due (`Fresh`); once the claim is tracked, the row, the
  delivery and its process agree on it, so the renewal reaches the row. A row recovery
  has listed was older than that (`OwnedNotRecovered`, from `ListedStale` and a stale
  age of at least 2). `OneAwaited` and `OnePerProcess` keep the claim a process tracks
  from being replaced by another of its goroutines.
- **Refinement.** `WorkerImplementsLifecycle` maps each step to a step of
  `JobLifecycle` or a stutter. A job given up while queued must have been
  attempted: `Attempted` carries the count from the claim to the retry's end.
- **Transport.** `DispatchProofs!Inv` says: ids in use are below the next
  one and different; rows of a transaction are unique; each publisher's rows fit
  the step it is at; keys name messages; and `PollsOK`, which is the heart of
  `NothingSkipped`: what lies at or below a poll's acknowledged place is handled,
  its batch is exactly what comes next, and whatever else may still commit has an
  id above it, as its transaction was open or not begun when xmin was taken.
- **Schedules.** `OncePerOccurrence` is inductive given types: the key of a new
  command is free when it is published. `PublicationAdvances` rests on the
  arithmetic of `NextOccurrenceIsFirst`. `ReferencesNameOccurrences` carries the
  agreement of reference and occurrence through every copy of a row that a run or
  an edit holds.

- **Provider synchronization.** `WindowSyncProofs!SyncInv`. None of the properties is
  inductive, since each is about the rows while the danger is in what a run or an
  edit holds in memory. `PlansDecided`, `MergesAlike`, `CorrectionsInPlans` and
  `MatchFound` say of a decision made on a snapshot what is still true when it is
  applied: the row it writes exists and is in its account; that row was written for
  its transaction or one that looked alike; it keeps what the user corrected, unless
  the edit came after the snapshot (`edited`); and the match of every identifier was
  found, unless another run has committed since (`outrun`). `ProgressCovered` carries
  `CheckpointCovered` through the runs under way: everything before the window a run
  is at is covered, which needs the windows of `Split` to adjoin (`SplitContiguous`).
  `AccountClaimed` ties the mapping to the number of accounts and to the deletion.
  `RowsStored`, `MatchesStored` and `NotesStored` say once what a transaction writes to
  one row or one match, and the lemmas `Commit*` show the conjuncts from them.
- **Transfer matching.** `MatchingImportProofs!MatchInv`. The properties speak of the
  rows, while an attempt decides on a load and saves pair after pair, each in a
  transaction of its own. `AttemptsAsRead` and `UserAsRead` say that a pair in hand
  still is as it was read, unless its holder is `stale`; `PairsApart` that the pairs of
  one decision have no leg in common, which is why saving one does not spoil the next;
  `GroupsOfTwo` that a group is never given to a third row, whatever the races; and
  with `PartnersThere` they make `PairsStaySound`. `NobodyLeftUnpaired` needs what is
  true before the last window is matched: two rows that have, or once the pairs in hand
  are saved will have, only each other are awaited by a window, or are such a pair
  (`NobodyLeft`, `RangeInHand`). `DecisionsAreExact` is by lemmas on the decision
  itself, for every ledger: that the load of a range holds every counterpart of a row
  in it, that the cap keeps the difference between one candidate and several, and that
  the rows found first are among those of the definition. It needs no invariant but
  types.
- **CSV imports.** `MatchingImportProofs!ImportInv`. A run counts in memory what other
  runs may do as well, so the totals are right only because outcomes are final:
  `CountsAgree` says that the rows a run is done with have outcomes and that its
  counts are of those, whoever imported them. `PostedAsSaid` ties transactions to
  outcomes, and for account files, which have none, to the rows its one run has done.
  `StatusFollows` holds for the copies of confirmations and runs what the records must
  show once they are saved. `StillNew` closes the gap between the lookups of a row and
  its writes: what was looked up is still new, unless another transaction is open
  (`overlapped`), which `NoEntryTwice` rests on.
- **Previews.** `MatchingImportProofs!PreviewInv`. A preview goes through a whole file
  with what earlier rows would create; runs go through it row by row, with a catalog
  that has it already, and stop, restart and repeat. What is true all along of an import
  that nothing disturbs and none of whose rows fails is `Foretold`: the rows foretold
  are those imported and, of the rest, those `Promising`, for which the catalog and the
  ledger have room and which go with the foretold rows before them. That needs no
  recursion: the lemmas `AfterRows`, `ProposalGrows` and `ProposalsSound` say, row after
  row, what the recursive function of the preview proposes, and `Foreseen` that it
  foretells just the promising rows. `LookupsStand` says that an open row is the next
  one and that its lookups still hold; then `PromisePosted` shows that what the row
  makes leaves the promise of the rows after it as it was (`PromiseKept`). `BegunOf`
  is why no row is open or done before its import is previewed, and `RecordsRead` why
  no confirmation saves an import that was not. `PreviewStaysKept` is
  then what `Foretold` says of a completed import, which has no rest.
- **Links.** `LinkRouterProofs!LinkInv`. `OneConnectionPerStart` needs to know
  who holds a start: a request that has consumed it (`RequestsHold`), a transaction
  whose reply was lost (`AdriftUnsure`), or nobody, and then the start has made its
  connection or its request was lost (`ConsumedMade`). `SureOnce` excludes the second
  connection, `ReferencesUnique` is the unique index, and `ConnectionsNamed` is why a
  synthetic start, whose reference is its own, makes one even then. `UsersWord` is an
  action property, proved action by action from the same invariant.
- **Router.** `LinkRouterProofs!RouterInv`. `ClosesAgree` is the argument of the
  close protocol: a router that Run has started is finished by Run alone, and `Close`
  returns only when that is done; `QuietUnlessServing` says that then no subscription
  and no delivery is left, so `DatabaseLast` follows. `CountsRight` and `OneEach` count
  the handlers at work: the worker's tracker by cardinality, whatever is abandoned, the
  router's set only while every message has one delivery. `RouterBounds` adds that tries,
  idle polls and the topics tried stay within their bounds: a delivery that waits for
  its handler has a try left, and the second idle poll ends the polling.
- **Agents.** `AgentRunsProofs!AgentInv`. `Given` is the heart of `Streams`: what a
  subscriber took and what waits in its channel are what was published, but for the
  last event while the bus has not sent it yet; it holds from the replay on, through
  every send and receive, and `BusesAgree` makes the bus wait for its subscribers only.
  `CountsSure` and `ReadsSpliced` carry the count of a run to its readers. `AgentBounds`
  adds that no channel holds more than its buffer, and no stream an event that no
  request yields.
- **Composition.** `LinksImplemented`, `RouterImplemented` and `AgentsImplemented` show
  that `Components` implements each of these specifications, step by step; so what
  is proved of the component holds in the composition. `ComponentsTyped` puts the
  invariants together: `ComponentsTypeOK` follows from the five, with the bounds of the
  router and of the agents.

Induction is needed for the first and the last transaction of a set (`Least`,
`Greatest` of `WindowSyncProofs`) and in `MatchingImportProofs` for the first rows by
time and for the bounds of a set of numbers (`Minimal`), where a well-founded order of
the library serves. The one recursive definition, the preview of a file, is reached by
`Upwards`: of the numbers that something does not hold for, none is the least.

Only model-checked:

- `EventuallyAcked` and `AllDelivered`: liveness under fairness, beyond this prover.
- `NobodyWaitsForever` and `RunsEnd`: ENABLED, beyond this prover.

## 5. Findings

1. `ActiveClaimTracked` - `releaseClaim` (`worker.go:448`) deletes by job id. A
   cancelled delivery that ends late makes its process forget the claim of the
   delivery that replaced it, whose handler is no longer renewed.
2. `DeadLetteredNotQueued` - the panic path (`worker.go:272`) requeues the row and
   leaves an error that cannot fail the job when retries are exhausted: the job
   of a dead-lettered message stays queued.
3. `NoStrandedJob` - losing the claim (`worker.go:252-257`) acknowledges the
   message of a running job. If the winner's delivery was itself abandoned and its
   claim is given back, no message is left for the job.
4. `NoOrphans` - a run upserts the connection as it read it before the provider
   call (`service_bank_sync.go:556`, `593`, `635`), which brings a deleted
   connection back; the scheduler then repairs its schedule.
5. `DueIsAdvanced` - a scheduled run that starts late writes its command's next
   time over the schedule (`service_bank_sync.go:571`), and the tick that finds
   that occurrence again asks for its key with another payload: a conflict, which
   ends the tick (`wireup/jobs.go:433`) before other schedules and FX.
6. `CorrectionsNeverOverwritten` - the merge of a synchronized transaction is
   planned on a copy loaded before the transaction that applies it
   (`window_sync_executor.go:157`, `185`), which does not read the row again: a
   user's correction committed in between is overwritten, against
   `openspec/specs/finance-management/spec.md:71`. `CorrectionsKept` shows that
   this is the only way to lose one.

## 6. Not modelled, and why

- Lists, views and migrations only read or define tables.
- Ledger (apart from edits, hiding and transfers), reporting, tenants, catalog
  (apart from what imports and links touch) and classification are sequential
  inside one transaction.
- HTTP, authentication, domain-event codecs, connectors, telemetry and the UI are
  mapping and I/O: most of the code by lines, with nothing to interleave.
- Of the agent runtime: profiles, model providers and their credentials, the ACP
  executor, application and user state inside a session, and the mapping of
  requests and events: one call at a time. The stores behind a session are modelled
  by what an append does; the deletion of a session is offered by no handler.
- Tools are I/O, one call at a time, apart from the background commands of the
  workspace tools, which no other component waits for.
- The worker root's group of two or three routers (`wireup/jobs.go:450`): the end of
  one cancels the others, which is `CancelCaller` of `RouterLifecycle`.
- FX refresh: one daily schedule with the statements of the bank schedules and no
  second writer.

## 7. Plan

Done: all modules with their runs; the proofs of all their safety properties but those
that use ENABLED.

Next: the FX schedule beside `BankSchedule` in one tick; the start-up group and the
shutdown hooks of the process with their deadline.
