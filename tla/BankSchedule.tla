---------------------------- MODULE BankSchedule ----------------------------
(***************************************************************************)
(* Recurring bank synchronization of the finance package.  A schedule row   *)
(* per bank connection is written by three parties that share no lock:      *)
(*                                                                          *)
(*   - schedulers, each tick of which repairs missing rows, lists the due   *)
(*     ones, and publishes one command per due occurrence in the            *)
(*     transaction that advances the row                                    *)
(*     (bank_connection_schedule_service.go);                               *)
(*   - the worker that runs the published commands and writes what it did   *)
(*     into the connection row and the schedule row (RunBankConnectionSync  *)
(*     of service_bank_sync.go);                                            *)
(*   - users, who pause, resume, edit, trigger and delete.                  *)
(*                                                                          *)
(* The scheduler updates the row conditionally; the other two read a whole  *)
(* row in one statement and write a whole row back in another.              *)
(*                                                                          *)
(* One step is one SQL statement, or a transaction from the statement that  *)
(* takes its row lock.  A command is its position in commands.  The worker  *)
(* is that of JobWorker seen from one topic: commands in order, one at a    *)
(* time, and one that fails is either run again or left dead-lettered.      *)
(***************************************************************************)
EXTENDS Integers, Sequences

CONSTANTS Connections,      \* linked bank connections
          Schedulers,       \* processes that run scheduler ticks
          Intervals,        \* intervals a user may choose
          DefaultInterval,  \* defaultBankConnectionScheduleInterval
          Initial,          \* connections that start without a schedule
          MaxClock,         \* bound on the clock
          MaxCommands,      \* bound on the commands published
          MaxUserOps,       \* bound on user operations
          MaxFaults,        \* bound on faults
          NoSchedule, NoConnection

ASSUME BankScheduleAssumption ==
    /\ Intervals \subseteq Nat \ {0}
    /\ DefaultInterval \in Nat \ {0}
    /\ Initial \subseteq Connections
    /\ MaxClock \in Nat
    /\ MaxCommands \in Nat
    /\ MaxUserOps \in Nat
    /\ MaxFaults \in Nat
    /\ NoConnection \notin Connections

VARIABLES
    clock,     \* wall clock
    linked,    \* connections with a row, all in state active
    secrets,   \* connections whose secret exists
    sched,     \* schedule rows: connection -> row or NoSchedule
    commands,  \* bank-sync commands, in the order of publication
    done,      \* commands that were acknowledged or dead-lettered
    tick,      \* scheduler -> its tick
    run,       \* what the worker is doing
    edit,      \* a user's read-modify-write under way
    deleted,   \* connections a user deleted
    userOps,
    faults

vars == <<clock, linked, secrets, sched, commands, done, tick, run, edit, deleted,
          userOps, faults>>

NoTime == -1   \* nil *time.Time
NoJob  == 0    \* empty last_job_id
Times  == Nat \cup {NoTime}

\* Columns nobody reads back (created_at, updated_at, last_started_at,
\* last_completed_at) are left out.
Schedule(interval, nextRunAt) ==
    [interval |-> interval, nextRunAt |-> nextRunAt, enabled |-> TRUE,
     lastScheduledAt |-> NoTime, lastJob |-> NoJob]

EmptyRow == Schedule(DefaultInterval, NoTime)

\* A scheduler's command has both times, a triggered one has neither.  The user
\* words the reason of a triggered command, and may well call it scheduled.
Command(c, scheduled, at, next) ==
    [conn |-> c, scheduled |-> scheduled, scheduledAt |-> at, nextRunAt |-> next]

Occurrences(c, at) ==
    {k \in 1 .. Len(commands) : commands[k].conn = c /\ commands[k].scheduledAt = at}

IdleTick == [pc |-> "idle", now |-> 0, todo |-> [c \in Connections |-> NoTime],
             conn |-> NoConnection, read |-> EmptyRow]

NoRun == [pc |-> "idle", now |-> 0, scheduled |-> FALSE, at |-> NoTime, next |-> NoTime,
          read |-> EmptyRow, failed |-> FALSE]

NoEdit == [pc |-> "idle", conn |-> NoConnection, row |-> EmptyRow]

Fault == faults < MaxFaults /\ faults' = faults + 1

Init ==
    /\ clock = 0
    /\ linked = Connections /\ secrets = Connections
    /\ sched = [c \in Connections |->
                  IF c \in Initial THEN NoSchedule ELSE Schedule(DefaultInterval, DefaultInterval)]
    /\ commands = <<>> /\ done = 0
    /\ tick = [s \in Schedulers |-> IdleTick]
    /\ run = NoRun /\ edit = NoEdit
    /\ deleted = {}
    /\ userOps = 0 /\ faults = 0

-----------------------------------------------------------------------------
(* The scheduler's tick: EnqueueDue.                                         *)

\* EnsureActiveDailySchedules: one transaction that locks the active connections
\* and inserts the missing schedules, ON CONFLICT DO NOTHING.
EnsureSchedules(s) ==
    /\ tick[s].pc = "idle"
    /\ sched' = [c \in Connections |->
                   IF c \in linked /\ sched[c] = NoSchedule
                   THEN Schedule(DefaultInterval, clock + DefaultInterval) ELSE sched[c]]
    /\ tick' = [tick EXCEPT ![s] = [IdleTick EXCEPT !.pc = "list", !.now = clock]]
    /\ UNCHANGED <<clock, linked, secrets, commands, done, run, edit, deleted, userOps, faults>>

DueAt(r, now) == r # NoSchedule /\ r.enabled /\ r.nextRunAt # NoTime /\ r.nextRunAt <= now

ListDue(s) ==
    /\ tick[s].pc = "list"
    /\ tick' = [tick EXCEPT
          ![s].pc = "next",
          ![s].todo = [c \in Connections |->
                         IF DueAt(sched[c], tick[s].now) THEN sched[c].nextRunAt ELSE NoTime]]
    /\ UNCHANGED <<clock, linked, secrets, sched, commands, done, run, edit, deleted,
                   userOps, faults>>

\* The listed schedules in the order of their occurrences.
IsNext(t, c) ==
    /\ t.todo[c] # NoTime
    /\ \A o \in Connections : t.todo[o] # NoTime => t.todo[c] <= t.todo[o]

\* claimOccurrence up to its UPDATE: the row is read again, and left alone unless
\* it still has the listed occurrence.
ReadOccurrence(s, c) ==
    LET still == DueAt(sched[c], tick[s].now) /\ sched[c].nextRunAt = tick[s].todo[c] IN
    /\ tick[s].pc = "next"
    /\ IsNext(tick[s], c)
    /\ tick' = [tick EXCEPT
          ![s].todo[c] = NoTime,
          ![s].pc   = IF still THEN "claim" ELSE @,
          ![s].conn = IF still THEN c ELSE @,
          ![s].read = IF still THEN sched[c] ELSE @]
    /\ UNCHANGED <<clock, linked, secrets, sched, commands, done, run, edit, deleted,
                   userOps, faults>>

\* The first dueAt + k * interval after now, for dueAt <= now.
NextOccurrence(dueAt, interval, now) ==
    dueAt + interval * ((now - dueAt) \div interval + 1)

\* The UPDATE of ClaimDue: enabled, and next_run_at is the occurrence that was read.
StillDue_AsRead(r, read, now) == r # NoSchedule

StillDue(r, read, now) == DueAt(r, now) /\ r.nextRunAt = read.nextRunAt

Published_Anew(c, at) == {}

\* existingPublication, by the key made of the connection and the occurrence.
Published(c, at) == Occurrences(c, at)

\* FinalizeClaim, in the transaction of ClaimDue.
Advanced(r, at, next, job) ==
    [r EXCEPT !.nextRunAt = next, !.lastScheduledAt = at, !.lastJob = job]

ToNext(s) == tick' = [tick EXCEPT ![s].pc = "next", ![s].conn = NoConnection, ![s].read = EmptyRow]

\* ClaimDue finds the row changed: the schedule is skipped.
SkipOccurrence(s) ==
    /\ tick[s].pc = "claim"
    /\ ~StillDue(sched[tick[s].conn], tick[s].read, tick[s].now)
    /\ ToNext(s)
    /\ UNCHANGED <<clock, linked, secrets, sched, commands, done, run, edit, deleted,
                   userOps, faults>>

\* ClaimDue, publication, FinalizeClaim and commit.  A key that was published
\* before with the same payload yields its message again; with another payload
\* the transaction is rolled back and the error ends the tick.
ClaimOccurrence(s) ==
    LET t    == tick[s]
        c    == t.conn
        at   == t.read.nextRunAt
        next == NextOccurrence(at, t.read.interval, t.now)
        new  == Command(c, TRUE, at, next) IN
    /\ t.pc = "claim"
    /\ StillDue(sched[c], t.read, t.now)
    /\ \/ /\ Published(c, at) = {}
          /\ Len(commands) < MaxCommands
          /\ commands' = Append(commands, new)
          /\ sched' = [sched EXCEPT ![c] = Advanced(@, at, next, Len(commands) + 1)]
          /\ ToNext(s)
       \/ \E k \in Published(c, at) :
            /\ commands[k] = new
            /\ sched' = [sched EXCEPT ![c] = Advanced(@, at, next, k)]
            /\ ToNext(s)
            /\ UNCHANGED commands
       \/ \E k \in Published(c, at) :
            /\ commands[k] # new
            /\ tick' = [tick EXCEPT ![s] = IdleTick]
            /\ UNCHANGED <<sched, commands>>
    /\ UNCHANGED <<clock, linked, secrets, done, run, edit, deleted, userOps, faults>>

EndTick(s) ==
    /\ tick[s].pc = "next"
    /\ \A c \in Connections : tick[s].todo[c] = NoTime
    /\ tick' = [tick EXCEPT ![s] = IdleTick]
    /\ UNCHANGED <<clock, linked, secrets, sched, commands, done, run, edit, deleted,
                   userOps, faults>>

\* A statement fails, or the process dies: an open transaction is rolled back.
\* (A commit whose reply is lost is a claim followed by this step.)
TickFails(s) ==
    /\ tick[s].pc \in {"list", "next", "claim"}
    /\ Fault
    /\ tick' = [tick EXCEPT ![s] = IdleTick]
    /\ UNCHANGED <<clock, linked, secrets, sched, commands, done, run, edit, deleted, userOps>>

-----------------------------------------------------------------------------
(* The worker: RunBankConnectionSync for command done + 1.                   *)

Job     == done + 1
Current == commands[Job]
Conn    == Current.conn

\* The connection or its secret is missing: a terminal failure, acknowledged.
RejectRun ==
    /\ run.pc = "idle" /\ done < Len(commands)
    /\ Conn \notin linked \cap secrets
    /\ done' = Job
    /\ UNCHANGED <<clock, linked, secrets, sched, commands, tick, run, edit, deleted,
                   userOps, faults>>

\* The connection and its secret are read; then the clock.
StartRun ==
    /\ run.pc = "idle" /\ done < Len(commands)
    /\ Conn \in linked \cap secrets
    /\ run' = [NoRun EXCEPT !.pc = "prepare", !.now = clock]
    /\ UNCHANGED <<clock, linked, secrets, sched, commands, done, tick, edit, deleted,
                   userOps, faults>>

\* makeScheduledRunMetadata: the times of the command, or for a scheduled command
\* without times now and, while the schedule is enabled, one interval later.
PrepareRun ==
    LET timed == Current.scheduledAt # NoTime
        row   == sched[Conn] IN
    /\ run.pc = "prepare"
    /\ run' = [run EXCEPT
          !.pc = "connection", !.now = 0,   \* only columns left out need it now
          !.scheduled = Current.scheduled,
          !.at   = IF timed THEN Current.scheduledAt ELSE IF Current.scheduled THEN run.now ELSE NoTime,
          !.next = IF timed THEN Current.nextRunAt
                   ELSE IF Current.scheduled /\ row # NoSchedule /\ row.enabled
                        THEN run.now + row.interval ELSE NoTime]
    /\ UNCHANGED <<clock, linked, secrets, sched, commands, done, tick, edit, deleted,
                   userOps, faults>>

\* SaveBankConnection is an upsert of the copy that StartRun read; pc names the
\* statement that follows.  Before the synchronization and after it.
SaveConnection(from, to) ==
    /\ run.pc = from
    /\ linked' = linked \cup {Conn}
    /\ run' = [run EXCEPT !.pc = to]
    /\ UNCHANGED <<clock, secrets, sched, commands, done, tick, edit, deleted, userOps, faults>>

\* The run is over.  A failure is retried, or dead-lettered, or terminal.
Returns(failed) ==
    /\ run' = NoRun
    /\ done' \in (IF failed THEN {done, Job} ELSE {Job})

Missing_Never(r) == FALSE

\* ErrBankConnectionScheduleNotFound.
Missing(r) == r = NoSchedule

\* GetBankConnectionSchedule; a missing row is nothing to write to.
ReadForStart ==
    /\ run.pc = "startRead"
    /\ run' = IF Missing(sched[Conn])
              THEN [run EXCEPT !.pc = "sync"]
              ELSE [run EXCEPT !.pc = "startSave", !.read = sched[Conn]]
    /\ UNCHANGED <<clock, linked, secrets, sched, commands, done, tick, edit, deleted,
                   userOps, faults>>

ReadForEnd ==
    /\ run.pc = "endRead"
    /\ IF Missing(sched[Conn])
       THEN Returns(run.failed)
       ELSE run' = [run EXCEPT !.pc = "endSave", !.read = sched[Conn]] /\ UNCHANGED done
    /\ UNCHANGED <<clock, linked, secrets, sched, commands, tick, edit, deleted,
                   userOps, faults>>

Recorded_KeepsTime(r) ==
    [r EXCEPT !.lastJob = Job, !.nextRunAt = IF run.scheduled THEN run.next ELSE @]

\* What markBankConnectionSyncStarted, completeBankConnectionSync and
\* recordBankConnectionSyncFailure make of the row they read.
Recorded(r) ==
    [r EXCEPT !.lastJob = Job,
              !.lastScheduledAt = IF run.scheduled THEN run.at ELSE @,
              !.nextRunAt = IF run.scheduled THEN run.next ELSE @]

\* SaveBankConnectionSchedule, an upsert of every column.
SaveForStart ==
    /\ run.pc = "startSave"
    /\ sched' = [sched EXCEPT ![Conn] = Recorded(run.read)]
    /\ run' = [run EXCEPT !.pc = "sync", !.read = EmptyRow]
    /\ UNCHANGED <<clock, linked, secrets, commands, done, tick, edit, deleted, userOps, faults>>

SaveForEnd ==
    /\ run.pc = "endSave"
    /\ sched' = [sched EXCEPT ![Conn] = Recorded(run.read)]
    /\ Returns(run.failed)
    /\ UNCHANGED <<clock, linked, secrets, commands, tick, edit, deleted, userOps, faults>>

\* Orchestrate returns.
SyncReturns ==
    /\ run.pc = "sync"
    /\ \E failed \in BOOLEAN : run' = [run EXCEPT !.pc = "endConnection", !.failed = failed]
    /\ UNCHANGED <<clock, linked, secrets, sched, commands, done, tick, edit, deleted,
                   userOps, faults>>

\* A write of completeBankConnectionSync fails: recordBankConnectionSyncFailure.
CompletionFails ==
    /\ run.pc \in {"endConnection", "endRead", "endSave"} /\ ~run.failed
    /\ Fault
    /\ run' = [run EXCEPT !.pc = "endConnection", !.failed = TRUE, !.read = EmptyRow]
    /\ UNCHANGED <<clock, linked, secrets, sched, commands, done, tick, edit, deleted, userOps>>

\* Any other statement fails, or the worker dies; the command is delivered again
\* or ends up dead-lettered.
RunFails ==
    /\ run.pc # "idle"
    /\ Fault
    /\ Returns(TRUE)
    /\ UNCHANGED <<clock, linked, secrets, sched, commands, tick, edit, deleted, userOps>>

-----------------------------------------------------------------------------
(* Users.                                                                    *)

UserOp == userOps < MaxUserOps /\ userOps' = userOps + 1

\* The times a user may ask for, nil included.
AskedTimes == {NoTime} \cup 0 .. MaxClock

BeginEdit(c, row) ==
    /\ edit.pc = "idle"
    /\ c \in linked
    /\ UserOp
    /\ edit' = [pc |-> "save", conn |-> c, row |-> row]
    /\ UNCHANGED <<clock, linked, secrets, sched, commands, done, tick, run, deleted, faults>>

\* PauseBankConnectionSchedule reads the row; so do the next two.
Pause(c) ==
    /\ sched[c] # NoSchedule
    /\ BeginEdit(c, [sched[c] EXCEPT !.enabled = FALSE, !.nextRunAt = NoTime])

Resume(c) ==
    /\ sched[c] # NoSchedule
    /\ \E at \in AskedTimes :
         BeginEdit(c, [sched[c] EXCEPT !.enabled = TRUE, !.nextRunAt = at])

Upsert(c) ==
    \E i \in Intervals, at \in AskedTimes :
        BeginEdit(c, IF sched[c] = NoSchedule
                     THEN Schedule(i, at)
                     ELSE [sched[c] EXCEPT !.interval = i, !.nextRunAt = at, !.enabled = TRUE])

\* The save that ends all three.
SaveEdit ==
    /\ edit.pc = "save"
    /\ sched' = [sched EXCEPT ![edit.conn] = edit.row]
    /\ edit' = NoEdit
    /\ UNCHANGED <<clock, linked, secrets, commands, done, tick, run, deleted, userOps, faults>>

\* TriggerBankConnectionSync.
Trigger(c, scheduled) ==
    /\ c \in linked
    /\ Len(commands) < MaxCommands
    /\ UserOp
    /\ commands' = Append(commands, Command(c, scheduled, NoTime, NoTime))
    /\ UNCHANGED <<clock, linked, secrets, sched, done, tick, run, edit, deleted, faults>>

\* deleteBankConnectionOwnedMetadata, one transaction.
Delete(c) ==
    /\ c \in linked
    /\ UserOp
    /\ linked' = linked \ {c} /\ secrets' = secrets \ {c}
    /\ sched' = [sched EXCEPT ![c] = NoSchedule]
    /\ deleted' = deleted \cup {c}
    /\ UNCHANGED <<clock, commands, done, tick, run, edit, faults>>

Tick ==
    /\ clock < MaxClock
    /\ clock' = clock + 1
    /\ UNCHANGED <<linked, secrets, sched, commands, done, tick, run, edit, deleted,
                   userOps, faults>>

-----------------------------------------------------------------------------
Enqueue(s) ==
    \/ EnsureSchedules(s) \/ ListDue(s) \/ SkipOccurrence(s) \/ ClaimOccurrence(s)
    \/ EndTick(s) \/ TickFails(s)
    \/ \E c \in Connections : ReadOccurrence(s, c)

SaveStartedConnection == SaveConnection("connection", "startRead")
SaveEndedConnection   == SaveConnection("endConnection", "endRead")

Run ==
    \/ RejectRun \/ StartRun \/ PrepareRun \/ SaveStartedConnection
    \/ ReadForStart \/ SaveForStart \/ SyncReturns
    \/ SaveEndedConnection \/ ReadForEnd \/ SaveForEnd
    \/ CompletionFails \/ RunFails

User ==
    \/ \E c \in Connections : Pause(c) \/ Resume(c) \/ Upsert(c) \/ Delete(c)
    \/ \E c \in Connections, scheduled \in BOOLEAN : Trigger(c, scheduled)
    \/ SaveEdit

Next == (\E s \in Schedulers : Enqueue(s)) \/ Run \/ User \/ Tick

Spec == Init /\ [][Next]_vars

-----------------------------------------------------------------------------
(* Properties.                                                               *)

RowType == [interval : Nat \ {0}, nextRunAt : Times, enabled : BOOLEAN,
            lastScheduledAt : Times, lastJob : Nat]

CommandType == [conn : Connections, scheduled : BOOLEAN, scheduledAt : Times, nextRunAt : Times]

TickType == [pc : {"idle", "list", "next", "claim"}, now : Nat,
             todo : [Connections -> Times], conn : Connections \cup {NoConnection},
             read : RowType]

RunType == [pc : {"idle", "prepare", "connection", "startRead", "startSave", "sync",
                  "endConnection", "endRead", "endSave"},
            now : Nat, scheduled : BOOLEAN, at : Times, next : Times,
            read : RowType, failed : BOOLEAN]

EditType == [pc : {"idle", "save"}, conn : Connections \cup {NoConnection}, row : RowType]

\* The values the variables take: the rows of the two tables, the command log and
\* the program counters of the three parties.
TypeOK ==
    /\ clock \in Nat
    /\ linked \subseteq Connections
    /\ secrets \subseteq Connections
    /\ sched \in [Connections -> RowType \cup {NoSchedule}]
    /\ commands \in Seq(CommandType)
    /\ done \in 0 .. Len(commands)
    /\ tick \in [Schedulers -> TickType]
    /\ run \in RunType
    /\ edit \in EditType
    /\ deleted \subseteq Connections
    /\ userOps \in Nat
    /\ faults \in Nat

\* "one semantic command per due occurrence" (docs/ARCHITECTURE.md): whatever late
\* runs and edits write back into next_run_at, however many schedulers tick, no
\* occurrence of a connection is published twice.
OncePerOccurrence ==
    \A j, k \in 1 .. Len(commands) :
        /\ commands[j].scheduledAt # NoTime
        /\ commands[j].conn = commands[k].conn
        /\ commands[j].scheduledAt = commands[k].scheduledAt
        => j = k

\* "Publication, occurrence advance, and reference storage commit together"
\* (docs/finances-management/design.md): the step that publishes an occurrence
\* finds it enabled and due in the row at that moment, and leaves the row at the
\* announced next occurrence, the first on the row's grid after the tick's time,
\* with a reference to the new command.
PublishedWithAdvance ==
    [][\A s \in Schedulers :
        LET k == Len(commands')
            e == commands'[k]
            c == e.conn IN
        k > Len(commands) /\ e.scheduledAt # NoTime /\ tick'[s] # tick[s] =>
            /\ DueAt(sched[c], clock)
            /\ sched[c].nextRunAt = e.scheduledAt
            /\ sched'[c] = Advanced(sched[c], e.scheduledAt, e.nextRunAt, k)
            /\ tick[s].now < e.nextRunAt
            /\ e.nextRunAt <= tick[s].now + tick[s].read.interval
            /\ \E n \in 1 .. clock + 1 : e.nextRunAt = e.scheduledAt + n * tick[s].read.interval
       ]_vars

\* The dispatch reference of a schedule and its occurrence belong together: a row
\* that names a scheduler's command shows that command's occurrence, through every
\* stale copy the worker and the users write back.
NamesOccurrence(r) ==
    r.lastJob # NoJob =>
        /\ r.lastJob <= Len(commands)
        /\ LET e == commands[r.lastJob] IN
             e.scheduledAt # NoTime => r.lastScheduledAt = e.scheduledAt

ReferenceNamesOccurrence ==
    \A c \in Connections : sched[c] # NoSchedule => NamesOccurrence(sched[c])

\* A connection's deletion leaves no "orphaned orchestration state"
\* (openspec/specs/finance-management): no row of it exists afterwards.
NoOrphans == \A c \in deleted : c \notin linked /\ sched[c] = NoSchedule

\* The scheduler "publishes one semantic command per due occurrence, advances the
\* schedule" (docs/ARCHITECTURE.md): a tick that finds a schedule still due, and
\* meets no fault, leaves it advanced.
DueIsAdvanced ==
    [][\A s \in Schedulers :
        LET c == tick[s].conn IN
        /\ tick[s].pc = "claim" /\ tick'[s] # tick[s]
        /\ StillDue(sched[c], tick[s].read, tick[s].now)
        /\ faults' = faults
        => sched'[c].nextRunAt > tick[s].now]_vars
=============================================================================
