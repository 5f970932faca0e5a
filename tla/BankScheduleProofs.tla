-------------------------- MODULE BankScheduleProofs --------------------------
(* Theorems about BankSchedule, for any connections, schedulers, intervals and *)
(* bounds.                                                                     *)
EXTENDS BankSchedule, TLAPS

-----------------------------------------------------------------------------
(* The next occurrence.                                                      *)

\* The loop of claimOccurrence: the first time after now on the grid of an
\* occurrence that is due.
LEMMA NextOccurrenceIsFirst ==
    ASSUME NEW at \in Nat, NEW now \in Nat, NEW interval \in Nat \ {0}, at <= now
    PROVE  /\ NextOccurrence(at, interval, now) \in Nat
           /\ now < NextOccurrence(at, interval, now)
           /\ NextOccurrence(at, interval, now) <= now + interval
           /\ \E n \in 1 .. now + 1 : NextOccurrence(at, interval, now) = at + n * interval
  <1> DEFINE x == now - at
             q == x \div interval
             r == x % interval
  <1>1. x \in Nat /\ x <= now
    OBVIOUS
  <1>2. q \in Int /\ r \in 0 .. interval - 1 /\ x = interval * q + r
    BY <1>1
  <1> HIDE DEF q, r
  <1>3. q >= 0
    <2> SUFFICES ASSUME q < 0 PROVE FALSE
      BY <1>2
    <2>1. interval * (q + 1) <= 0
      BY <1>2
    <2>2. interval * (q + 1) = interval * q + interval
      BY <1>2
    <2> QED BY <1>1, <1>2, <2>1, <2>2
  <1>4. q <= x
    <2>1. (interval - 1) * q >= 0
      BY <1>2, <1>3
    <2>2. (interval - 1) * q = interval * q - q
      BY <1>2
    <2> QED BY <1>1, <1>2, <2>1, <2>2
  <1>5. interval * (q + 1) = interval * q + interval /\ interval * q \in Int
    BY <1>2
  <1>6. NextOccurrence(at, interval, now) = at + interval * q + interval
    BY <1>5 DEF NextOccurrence, q
  <1>7. NextOccurrence(at, interval, now) = at + (q + 1) * interval
    BY <1>2, <1>5, <1>6
  <1>8. q + 1 \in 1 .. now + 1
    BY <1>1, <1>2, <1>3, <1>4
  <1> HIDE DEF x
  <1>9. now = at + interval * q + r
    BY <1>2 DEF x
  <1> DEFINE y == interval * q
             next == NextOccurrence(at, interval, now)
  <1>10. /\ y \in Int /\ r \in Int /\ 0 <= r /\ r < interval
         /\ next = at + y + interval /\ now = at + y + r
    BY <1>2, <1>5, <1>6, <1>9
  <1>11. \E n \in 1 .. now + 1 : next = at + n * interval
    BY <1>7, <1>8
  <1> HIDE DEF y, next
  <1>12. next \in Int /\ now < next /\ next <= now + interval
    BY <1>10
  <1> QED BY <1>11, <1>12 DEF next

-----------------------------------------------------------------------------
(* Type correctness.                                                         *)

\* Whoever is about to write knows for which connection.
HasConnection ==
    /\ \A s \in Schedulers : tick[s].pc = "claim" => tick[s].conn \in Connections
    /\ edit.pc = "save" => edit.conn \in Connections

\* A run is of a command that was published and is not done.
HasCommand == run.pc # "idle" => done < Len(commands)

\* A tick's time has passed.
TickTimes == \A s \in Schedulers : tick[s].now <= clock

TypeInv == TypeOK /\ HasConnection /\ HasCommand /\ TickTimes

\* The constants of the specification that the variables take.
LEMMA ConstantTypes ==
    /\ IdleTick \in TickType /\ IdleTick.pc = "idle" /\ IdleTick.now = 0
    /\ NoRun \in RunType /\ NoRun.pc = "idle"
    /\ NoEdit \in EditType /\ NoEdit.pc = "idle"
    /\ EmptyRow \in RowType
    /\ \A i \in Nat \ {0}, t \in Times : Schedule(i, t) \in RowType
  BY BankScheduleAssumption
     DEF IdleTick, TickType, NoRun, RunType, NoEdit, EditType, EmptyRow, RowType, Schedule,
         Times, NoTime, NoJob

\* Linked connections, no commands, nobody at work.
LEMMA InitType == Init => TypeInv
  <1> SUFFICES ASSUME Init PROVE TypeInv
    OBVIOUS
  <1>1. sched \in [Connections -> RowType \cup {NoSchedule}]
    BY ConstantTypes, BankScheduleAssumption DEF Init, Times
  <1>2. commands \in Seq(CommandType) /\ Len(commands) = 0
    BY DEF Init
  <1> QED BY <1>1, <1>2, ConstantTypes
          DEF Init, TypeInv, TypeOK, HasConnection, HasCommand, TickTimes

\* A due row, and what claiming its occurrence makes of it.
LEMMA DueRow ==
    ASSUME NEW r \in RowType \cup {NoSchedule}, NEW now \in Nat, DueAt(r, now)
    PROVE  r \in RowType /\ r.nextRunAt \in Nat /\ r.nextRunAt <= now
  BY DEF DueAt, RowType, Times, NoTime

\* Appending a command to the log.
LEMMA Appended ==
    ASSUME commands \in Seq(CommandType), NEW e \in CommandType,
           commands' = Append(commands, e)
    PROVE  /\ commands' \in Seq(CommandType)
           /\ Len(commands') = Len(commands) + 1
           /\ commands'[Len(commands) + 1] = e
           /\ \A k \in 1 .. Len(commands) : commands'[k] = commands[k]
  OBVIOUS

\* What a claim publishes.
LEMMA ClaimedTypes ==
    ASSUME TypeInv, NEW s \in Schedulers, tick[s].pc = "claim",
           StillDue(sched[tick[s].conn], tick[s].read, tick[s].now)
    PROVE  LET t    == tick[s]
               at   == t.read.nextRunAt
               next == NextOccurrence(at, t.read.interval, t.now) IN
           /\ t.conn \in Connections /\ sched[t.conn] \in RowType
           /\ sched[t.conn].enabled /\ sched[t.conn].nextRunAt = at
           /\ at \in Nat /\ at <= t.now /\ t.now \in Nat
           /\ t.read.interval \in Nat \ {0}
           /\ next \in Nat
           /\ Command(t.conn, TRUE, at, next) \in CommandType
           /\ \A k \in Nat : Advanced(sched[t.conn], at, next, k) \in RowType
  <1> DEFINE t    == tick[s]
             at   == t.read.nextRunAt
             next == NextOccurrence(at, t.read.interval, t.now)
  <1>1. t \in TickType /\ t.read \in RowType /\ t.now \in Nat /\ t.read.interval \in Nat \ {0}
    BY DEF TypeInv, TypeOK, TickType, RowType
  <1>2. t.conn \in Connections /\ sched[t.conn] \in RowType \cup {NoSchedule}
    BY DEF TypeInv, TypeOK, HasConnection
  <1>3. DueAt(sched[t.conn], t.now) /\ sched[t.conn].nextRunAt = at
    BY DEF StillDue
  <1>4. sched[t.conn] \in RowType /\ at \in Nat /\ at <= t.now /\ sched[t.conn].enabled
    BY <1>1, <1>2, <1>3, DueRow DEF DueAt
  <1>5. next \in Nat
    BY <1>1, <1>4, NextOccurrenceIsFirst
  <1> HIDE DEF next, at, t
  <1>6. Command(t.conn, TRUE, at, next) \in CommandType
    BY <1>2, <1>4, <1>5 DEF Command, CommandType, Times
  <1>7. \A k \in Nat : Advanced(sched[t.conn], at, next, k) \in RowType
    BY <1>4, <1>5 DEF Advanced, RowType, Times
  <1> QED BY <1>1, <1>2, <1>3, <1>4, <1>5, <1>6, <1>7 DEF next, at, t

\* A scheduler's step replaces its tick by another one.
LEMMA EnqueueType == ASSUME TypeInv, NEW s \in Schedulers, Enqueue(s) PROVE TypeInv'
  <1> USE DEF TypeInv
  <1>0. /\ tick \in [Schedulers -> TickType] /\ tick[s] \in TickType
        /\ sched \in [Connections -> RowType \cup {NoSchedule}]
        /\ clock \in Nat /\ tick[s].now \in Nat /\ tick[s].now <= clock
    BY DEF TypeOK, TickType, TickTimes
  \* What is left to show once the tick t that replaces it is known.
  <1>a. ASSUME NEW t \in TickType, tick' = [tick EXCEPT ![s] = t], clock' = clock, edit' = edit,
               t.pc = "claim" => t.conn \in Connections, t.now <= clock
        PROVE  tick' \in [Schedulers -> TickType] /\ HasConnection' /\ TickTimes'
    <2>1. tick' \in [Schedulers -> TickType]
      BY <1>a, <1>0
    <2>2. HasConnection'
      BY <1>a, <1>0 DEF HasConnection
    <2>3. TickTimes'
      BY <1>a, <1>0 DEF TickTimes
    <2> QED BY <2>1, <2>2, <2>3
  <1>b. ASSUME ToNext(s), clock' = clock, edit' = edit
        PROVE  tick' \in [Schedulers -> TickType] /\ HasConnection' /\ TickTimes'
    <2> DEFINE t == [tick[s] EXCEPT !.pc = "next", !.conn = NoConnection, !.read = EmptyRow]
    <2>1. t \in TickType /\ t.pc = "next" /\ t.now = tick[s].now
      BY <1>0, ConstantTypes DEF TickType
    <2>2. tick' = [tick EXCEPT ![s] = t]
      BY <1>0, <1>b DEF ToNext, TickType
    <2> HIDE DEF t
    <2> QED BY <1>a, <1>b, <1>0, <2>1, <2>2
  <1>1. CASE EnsureSchedules(s)
    <2> DEFINE t == [IdleTick EXCEPT !.pc = "list", !.now = clock]
    <2>1. t \in TickType /\ t.pc = "list" /\ t.now = clock /\ t.now <= clock
      <3>1. t \in TickType /\ t.pc = "list" /\ t.now = clock
        BY <1>0, ConstantTypes DEF TickType
      <3> QED BY <1>0, <3>1
    <2>2. tick' = [tick EXCEPT ![s] = t] /\ clock' = clock /\ edit' = edit
      BY <1>1 DEF EnsureSchedules
    <2> HIDE DEF t
    <2>3. tick' \in [Schedulers -> TickType] /\ HasConnection' /\ TickTimes'
      BY <1>a, <2>1, <2>2
    <2>4. Schedule(DefaultInterval, clock + DefaultInterval) \in RowType
      BY <1>0, ConstantTypes, BankScheduleAssumption DEF Times
    <2>5. sched' \in [Connections -> RowType \cup {NoSchedule}]
      BY <1>0, <1>1, <2>4 DEF EnsureSchedules
    <2> QED BY <1>1, <2>3, <2>5 DEF EnsureSchedules, TypeOK, HasCommand
  <1>2. CASE ListDue(s)
    <2> DEFINE todo == [c \in Connections |->
                          IF DueAt(sched[c], tick[s].now) THEN sched[c].nextRunAt ELSE NoTime]
               t == [tick[s] EXCEPT !.pc = "next", !.todo = todo]
    <2>1. todo \in [Connections -> Times]
      BY <1>0, DueRow DEF Times
    <2>2. t \in TickType /\ t.pc = "next" /\ t.now = tick[s].now
      <3> HIDE DEF todo
      <3> QED BY <1>0, <2>1 DEF TickType
    <2>3. tick' = [tick EXCEPT ![s] = t] /\ clock' = clock /\ edit' = edit
      BY <1>0, <1>2 DEF ListDue, TickType
    <2> HIDE DEF t
    <2>4. tick' \in [Schedulers -> TickType] /\ HasConnection' /\ TickTimes'
      BY <1>a, <1>0, <2>2, <2>3
    <2> QED BY <1>2, <2>4 DEF ListDue, TypeOK, HasCommand
  <1>3. ASSUME NEW c \in Connections, ReadOccurrence(s, c) PROVE TypeInv'
    <2> DEFINE still == DueAt(sched[c], tick[s].now) /\ sched[c].nextRunAt = tick[s].todo[c]
               todo == [tick[s].todo EXCEPT ![c] = NoTime]
               t == [tick[s] EXCEPT !.todo = todo,
                                    !.pc   = IF still THEN "claim" ELSE @,
                                    !.conn = IF still THEN c ELSE @,
                                    !.read = IF still THEN sched[c] ELSE @]
    <2>1. todo \in [Connections -> Times]
      BY <1>0 DEF TickType, Times
    <2>2. still => sched[c] \in RowType
      BY <1>0, DueRow
    <2>3. t \in TickType /\ (t.pc = "claim" => t.conn \in Connections) /\ t.now = tick[s].now
      <3> HIDE DEF still, todo
      <3> QED BY <1>0, <1>3, <2>1, <2>2 DEF TickType, ReadOccurrence
    <2>4. tick' = [tick EXCEPT ![s] = t] /\ clock' = clock /\ edit' = edit
      BY <1>0, <1>3 DEF ReadOccurrence, TickType
    <2> HIDE DEF t
    <2>5. tick' \in [Schedulers -> TickType] /\ HasConnection' /\ TickTimes'
      BY <1>a, <1>0, <2>3, <2>4
    <2> QED BY <1>3, <2>5 DEF ReadOccurrence, TypeOK, HasCommand
  <1>4. CASE SkipOccurrence(s)
    <2>1. tick' \in [Schedulers -> TickType] /\ HasConnection' /\ TickTimes'
      BY <1>b, <1>4 DEF SkipOccurrence
    <2> QED BY <1>4, <2>1 DEF SkipOccurrence, TypeOK, HasCommand
  <1>5. CASE ClaimOccurrence(s)
    <2> DEFINE c    == tick[s].conn
               at   == tick[s].read.nextRunAt
               next == NextOccurrence(at, tick[s].read.interval, tick[s].now)
               new  == Command(c, TRUE, at, next)
               k    == Len(commands) + 1
    <2>0. /\ c \in Connections /\ sched[c] \in RowType /\ at \in Nat /\ next \in Nat
          /\ new \in CommandType /\ \A j \in Nat : Advanced(sched[c], at, next, j) \in RowType
      BY <1>5, ClaimedTypes DEF ClaimOccurrence
    <2>1. commands \in Seq(CommandType) /\ done \in 0 .. Len(commands) /\ k \in Nat
      BY DEF TypeOK
    <2>2. ASSUME commands' = Append(commands, new), ToNext(s),
                 sched' = [sched EXCEPT ![c] = Advanced(@, at, next, Len(commands) + 1)]
          PROVE  TypeInv'
      <3>1. tick' \in [Schedulers -> TickType] /\ HasConnection' /\ TickTimes'
        BY <1>b, <1>5, <2>2 DEF ClaimOccurrence
      <3>2. sched' \in [Connections -> RowType \cup {NoSchedule}]
        <4> HIDE DEF c, at, next, new
        <4> QED BY <1>0, <2>0, <2>1, <2>2
      <3>3. commands' \in Seq(CommandType) /\ Len(commands') = Len(commands) + 1
        <4> HIDE DEF new
        <4> QED BY <2>0, <2>1, <2>2, Appended
      <3> QED BY <1>5, <2>1, <3>1, <3>2, <3>3 DEF ClaimOccurrence, TypeOK, HasCommand
    <2>3. ASSUME NEW j \in Published(c, at), ToNext(s), commands' = commands,
                 sched' = [sched EXCEPT ![c] = Advanced(@, at, next, j)]
          PROVE  TypeInv'
      <3>1. tick' \in [Schedulers -> TickType] /\ HasConnection' /\ TickTimes'
        BY <1>b, <1>5, <2>3 DEF ClaimOccurrence
      <3>2. j \in Nat
        BY <2>1, <2>3 DEF Published, Occurrences
      <3>3. sched' \in [Connections -> RowType \cup {NoSchedule}]
        <4> HIDE DEF c, at, next
        <4> QED BY <1>0, <2>0, <2>3, <3>2
      <3> QED BY <1>5, <2>3, <3>1, <3>3 DEF ClaimOccurrence, TypeOK, HasCommand
    <2>4. ASSUME tick' = [tick EXCEPT ![s] = IdleTick], sched' = sched, commands' = commands
          PROVE  TypeInv'
      <3>1. IdleTick \in TickType /\ IdleTick.pc # "claim" /\ IdleTick.now <= clock
        BY <1>0, ConstantTypes
      <3>2. clock' = clock /\ edit' = edit
        BY <1>5 DEF ClaimOccurrence
      <3>3. tick' \in [Schedulers -> TickType] /\ HasConnection' /\ TickTimes'
        BY <1>a, <2>4, <3>1, <3>2
      <3> QED BY <1>5, <2>4, <3>3 DEF ClaimOccurrence, TypeOK, HasCommand
    <2> QED BY <1>5, <2>2, <2>3, <2>4 DEF ClaimOccurrence
  <1>6. CASE EndTick(s) \/ TickFails(s)
    <2>1. tick' = [tick EXCEPT ![s] = IdleTick] /\ clock' = clock /\ edit' = edit
      BY <1>6 DEF EndTick, TickFails
    <2>2. IdleTick \in TickType /\ IdleTick.pc # "claim" /\ IdleTick.now <= clock
      BY <1>0, ConstantTypes
    <2>3. tick' \in [Schedulers -> TickType] /\ HasConnection' /\ TickTimes'
      BY <1>a, <2>1, <2>2
    <2> QED BY <1>6, <2>3 DEF EndTick, TickFails, Fault, TypeOK, HasCommand
  <1> QED BY <1>1, <1>2, <1>3, <1>4, <1>5, <1>6 DEF Enqueue

\* The row a run writes back.
LEMMA RecordedType ==
    ASSUME run \in RunType, done \in Nat, NEW r \in RowType
    PROVE  Recorded(r) \in RowType
  <1>1. run.at \in Times /\ run.next \in Times /\ Job \in Nat
    BY DEF RunType, Job
  <1> QED BY <1>1 DEF Recorded, RowType

\* The end of a run, and its command.
LEMMA RunEnds ==
    ASSUME TypeInv, run.pc # "idle", NEW failed \in BOOLEAN, Returns(failed), commands' = commands
    PROVE  run' \in RunType /\ done' \in 0 .. Len(commands') /\ HasCommand'
  <1>1. done \in 0 .. Len(commands) /\ done < Len(commands) /\ Len(commands) \in Nat
    BY DEF TypeInv, TypeOK, HasCommand
  <1>2. done' \in {done, done + 1}
    BY DEF Returns, Job
  <1> QED BY <1>1, <1>2, ConstantTypes DEF Returns, HasCommand

\* While a command is not done it can be run.
LEMMA CurrentType ==
    ASSUME TypeInv, done < Len(commands)
    PROVE  /\ Job \in 1 .. Len(commands) /\ Current \in CommandType /\ Conn \in Connections
           /\ Current.scheduledAt \in Times /\ Current.nextRunAt \in Times
           /\ Current.scheduled \in BOOLEAN
  <1>1. Job \in 1 .. Len(commands)
    BY DEF TypeInv, TypeOK, Job
  <1>2. Current \in CommandType
    BY <1>1 DEF TypeInv, TypeOK, Current
  <1> QED BY <1>1, <1>2 DEF Conn, CommandType

\* A step of the worker replaces its run by another one.
LEMMA RunStepType == ASSUME TypeInv, Run PROVE TypeInv'
  <1> USE DEF TypeInv
  <1>0. /\ run \in RunType /\ done \in 0 .. Len(commands) /\ Len(commands) \in Nat
        /\ sched \in [Connections -> RowType \cup {NoSchedule}]
        /\ clock \in Nat /\ run.now \in Nat
    BY DEF TypeOK, RunType
  <1>1. CASE RejectRun
    BY <1>0, <1>1 DEF RejectRun, Job, TypeOK, HasConnection, HasCommand, TickTimes
  <1>2. CASE StartRun
    <2>1. run' \in RunType
      BY <1>0, <1>2, ConstantTypes DEF StartRun, RunType
    <2> QED BY <1>2, <2>1 DEF StartRun, TypeOK, HasConnection, HasCommand, TickTimes
  <1> DEFINE Busy == run.pc # "idle"
  <1>b. ASSUME Busy
        PROVE  /\ done < Len(commands) /\ Conn \in Connections
               /\ Current.scheduledAt \in Times /\ Current.nextRunAt \in Times
               /\ Current.scheduled \in BOOLEAN
               /\ sched[Conn] \in RowType \cup {NoSchedule}
    BY <1>0, <1>b, CurrentType DEF HasCommand
  <1>3. CASE PrepareRun
    <2> DEFINE timed == Current.scheduledAt # NoTime
               row   == sched[Conn]
               at    == IF timed THEN Current.scheduledAt
                        ELSE IF Current.scheduled THEN run.now ELSE NoTime
               next  == IF timed THEN Current.nextRunAt
                        ELSE IF Current.scheduled /\ row # NoSchedule /\ row.enabled
                             THEN run.now + row.interval ELSE NoTime
    <2>1. Current.scheduledAt \in Times /\ Current.nextRunAt \in Times
          /\ Current.scheduled \in BOOLEAN
          /\ row \in RowType \cup {NoSchedule} /\ Busy
      BY <1>3, <1>b DEF PrepareRun
    <2>2. at \in Times /\ next \in Times
      BY <1>0, <2>1 DEF Times, RowType
    <2>3. run' = [run EXCEPT !.pc = "connection", !.now = 0, !.scheduled = Current.scheduled,
                             !.at = at, !.next = next]
      BY <1>3 DEF PrepareRun
    <2> HIDE DEF at, next
    <2>4. run' \in RunType
      BY <1>0, <2>1, <2>2, <2>3 DEF RunType
    <2> QED BY <1>3, <1>b, <2>1, <2>4 DEF PrepareRun, TypeOK, HasConnection, HasCommand, TickTimes
  <1>4. ASSUME NEW from \in {"connection", "endConnection"}, NEW to \in {"startRead", "endRead"},
               SaveConnection(from, to)
        PROVE  TypeInv'
    <2>1. Busy /\ run' \in RunType
      BY <1>0, <1>4 DEF SaveConnection, RunType
    <2> QED BY <1>4, <1>b, <2>1 DEF SaveConnection, TypeOK, HasConnection, HasCommand, TickTimes
  <1>5. CASE ReadForStart
    <2>1. Busy /\ run' \in RunType
      <3>1. Busy
        BY <1>5 DEF ReadForStart
      <3>2. CASE sched[Conn] = NoSchedule
        BY <1>0, <1>5, <3>1, <3>2 DEF ReadForStart, Missing, RunType
      <3>3. CASE sched[Conn] # NoSchedule
        <4>1. sched[Conn] \in RowType
          BY <1>b, <3>1, <3>3
        <4> QED BY <1>0, <1>5, <3>1, <3>3, <4>1 DEF ReadForStart, Missing, RunType
      <3> QED BY <3>2, <3>3
    <2> QED BY <1>5, <1>b, <2>1 DEF ReadForStart, TypeOK, HasConnection, HasCommand, TickTimes
  <1>6. CASE ReadForEnd
    <2>1. Busy /\ commands' = commands
      BY <1>6 DEF ReadForEnd
    <2>2. run' \in RunType /\ done' \in 0 .. Len(commands') /\ HasCommand'
      <3>1. CASE sched[Conn] = NoSchedule
        BY <1>0, <1>6, <2>1, <3>1, RunEnds DEF ReadForEnd, Missing, RunType
      <3>2. CASE sched[Conn] # NoSchedule
        <4>1. sched[Conn] \in RowType
          BY <1>b, <2>1, <3>2
        <4>2. run' = [run EXCEPT !.pc = "endSave", !.read = sched[Conn]] /\ done' = done
          BY <1>6, <3>2 DEF ReadForEnd, Missing
        <4> QED BY <1>0, <1>b, <2>1, <4>1, <4>2 DEF RunType, HasCommand
      <3> QED BY <3>1, <3>2
    <2> QED BY <1>6, <2>1, <2>2 DEF ReadForEnd, TypeOK, HasConnection, TickTimes
  <1>7. ASSUME sched' = [sched EXCEPT ![Conn] = Recorded(run.read)], Busy
        PROVE  sched' \in [Connections -> RowType \cup {NoSchedule}]
    <2>1. Recorded(run.read) \in RowType
      BY <1>0, RecordedType DEF RunType
    <2> QED BY <1>0, <1>7, <2>1
  <1>8. CASE SaveForStart
    <2>1. Busy /\ run' \in RunType
      BY <1>0, <1>8, ConstantTypes DEF SaveForStart, RunType
    <2>2. sched' \in [Connections -> RowType \cup {NoSchedule}]
      BY <1>7, <1>8, <2>1 DEF SaveForStart
    <2> QED BY <1>8, <1>b, <2>1, <2>2 DEF SaveForStart, TypeOK, HasConnection, HasCommand, TickTimes
  <1>9. CASE SaveForEnd
    <2>1. Busy /\ commands' = commands
      BY <1>9 DEF SaveForEnd
    <2>2. run' \in RunType /\ done' \in 0 .. Len(commands') /\ HasCommand'
      BY <1>0, <1>9, <2>1, RunEnds DEF SaveForEnd, RunType
    <2>3. sched' \in [Connections -> RowType \cup {NoSchedule}]
      BY <1>7, <1>9, <2>1 DEF SaveForEnd
    <2> QED BY <1>9, <2>1, <2>2, <2>3 DEF SaveForEnd, TypeOK, HasConnection, TickTimes
  <1>10. CASE SyncReturns
    <2>1. Busy /\ run' \in RunType
      BY <1>0, <1>10 DEF SyncReturns, RunType
    <2> QED BY <1>10, <1>b, <2>1 DEF SyncReturns, TypeOK, HasConnection, HasCommand, TickTimes
  <1>11. CASE CompletionFails
    <2>1. Busy /\ run' \in RunType
      BY <1>0, <1>11, ConstantTypes DEF CompletionFails, RunType
    <2> QED BY <1>11, <1>b, <2>1
            DEF CompletionFails, Fault, TypeOK, HasConnection, HasCommand, TickTimes
  <1>12. CASE RunFails
    <2>1. run' \in RunType /\ done' \in 0 .. Len(commands') /\ HasCommand'
      BY <1>12, RunEnds DEF RunFails
    <2> QED BY <1>12, <2>1 DEF RunFails, Fault, TypeOK, HasConnection, TickTimes
  <1> QED BY <1>1, <1>2, <1>3, <1>4, <1>5, <1>6, <1>8, <1>9, <1>10, <1>11, <1>12
          DEF Run, SaveStartedConnection, SaveEndedConnection

\* The row a user is about to save.
LEMMA BeginEditType ==
    ASSUME TypeInv, NEW c \in Connections, NEW r \in RowType, BeginEdit(c, r)
    PROVE  TypeInv'
  <1>1. edit' \in EditType /\ edit'.conn \in Connections
    BY DEF BeginEdit, EditType
  <1> QED BY <1>1 DEF BeginEdit, UserOp, TypeInv, TypeOK, HasConnection, HasCommand, TickTimes

\* A user's step.
LEMMA UserType == ASSUME TypeInv, User PROVE TypeInv'
  <1>0. /\ sched \in [Connections -> RowType \cup {NoSchedule}]
        /\ commands \in Seq(CommandType) /\ done \in 0 .. Len(commands) /\ Len(commands) \in Nat
        /\ edit \in EditType
    BY DEF TypeInv, TypeOK
  <1>t. AskedTimes \subseteq Times
    BY BankScheduleAssumption DEF AskedTimes, Times
  <1>1. ASSUME NEW c \in Connections, Pause(c) \/ Resume(c) \/ Upsert(c) PROVE TypeInv'
    <2>1. CASE Pause(c)
      <3>1. [sched[c] EXCEPT !.enabled = FALSE, !.nextRunAt = NoTime] \in RowType
        BY <1>0, <2>1 DEF Pause, RowType, Times
      <3> QED BY <2>1, <3>1, BeginEditType DEF Pause
    <2>2. CASE Resume(c)
      <3>1. PICK at \in AskedTimes :
                BeginEdit(c, [sched[c] EXCEPT !.enabled = TRUE, !.nextRunAt = at])
        BY <2>2 DEF Resume
      <3>2. [sched[c] EXCEPT !.enabled = TRUE, !.nextRunAt = at] \in RowType
        BY <1>0, <1>t, <2>2 DEF Resume, RowType
      <3> QED BY <3>1, <3>2, BeginEditType
    <2>3. CASE Upsert(c)
      <3>1. PICK i \in Intervals, at \in AskedTimes :
                BeginEdit(c, IF sched[c] = NoSchedule THEN Schedule(i, at)
                             ELSE [sched[c] EXCEPT !.interval = i, !.nextRunAt = at,
                                                   !.enabled = TRUE])
        BY <2>3 DEF Upsert
      <3>2. Schedule(i, at) \in RowType /\ i \in Nat \ {0}
        BY <1>t, ConstantTypes, BankScheduleAssumption
      <3>3. sched[c] # NoSchedule =>
                [sched[c] EXCEPT !.interval = i, !.nextRunAt = at, !.enabled = TRUE] \in RowType
        BY <1>0, <1>t, <3>2 DEF RowType
      <3>4. CASE sched[c] = NoSchedule
        BY <3>1, <3>2, <3>4, BeginEditType
      <3>5. CASE sched[c] # NoSchedule
        BY <3>1, <3>3, <3>5, BeginEditType
      <3> QED BY <3>4, <3>5
    <2> QED BY <1>1, <2>1, <2>2, <2>3
  <1>2. ASSUME NEW c \in Connections, Delete(c) PROVE TypeInv'
    BY <1>0, <1>2 DEF Delete, UserOp, TypeInv, TypeOK, HasConnection, HasCommand, TickTimes
  <1>3. ASSUME NEW c \in Connections, NEW scheduled \in BOOLEAN, Trigger(c, scheduled)
        PROVE  TypeInv'
    <2> DEFINE e == Command(c, scheduled, NoTime, NoTime)
    <2>1. e \in CommandType
      BY DEF Command, CommandType, Times
    <2>2. commands' \in Seq(CommandType) /\ Len(commands') = Len(commands) + 1
      <3>1. commands' = Append(commands, e)
        BY <1>3 DEF Trigger
      <3> HIDE DEF e
      <3> QED BY <1>0, <2>1, <3>1, Appended
    <2> QED BY <1>0, <1>3, <2>2
            DEF Trigger, UserOp, TypeInv, TypeOK, HasConnection, HasCommand, TickTimes
  <1>4. CASE SaveEdit
    <2>1. edit.conn \in Connections /\ edit.row \in RowType
      BY <1>0, <1>4 DEF SaveEdit, TypeInv, HasConnection, EditType
    <2>2. sched' \in [Connections -> RowType \cup {NoSchedule}]
      BY <1>0, <1>4, <2>1 DEF SaveEdit
    <2> QED BY <1>4, <2>2, ConstantTypes
            DEF SaveEdit, TypeInv, TypeOK, HasConnection, HasCommand, TickTimes
  <1> QED BY <1>1, <1>2, <1>3, <1>4 DEF User

\* Every step keeps the types.
LEMMA TypeStep == TypeInv /\ [Next]_vars => TypeInv'
  <1> SUFFICES ASSUME TypeInv, [Next]_vars PROVE TypeInv'
    OBVIOUS
  <1>1. CASE UNCHANGED vars
    BY <1>1 DEF vars, TypeInv, TypeOK, HasConnection, HasCommand, TickTimes
  <1>2. CASE Tick
    <2>1. clock \in Nat /\ clock' = clock + 1 /\ \A s \in Schedulers : tick[s].now \in Nat
      BY <1>2 DEF Tick, TypeInv, TypeOK, TickType
    <2>2. TickTimes'
      BY <1>2, <2>1 DEF Tick, TypeInv, TickTimes
    <2> QED BY <1>2, <2>1, <2>2 DEF Tick, TypeInv, TypeOK, HasConnection, HasCommand
  <1> QED BY <1>1, <1>2, EnqueueType, RunStepType, UserType DEF Next

\* The rows, the command log and the three parties keep their types (TypeOK).
THEOREM TypeCorrect == Spec => []TypeOK
  <1>1. TypeInv => TypeOK
    BY DEF TypeInv
  <1> QED BY InitType, TypeStep, <1>1, PTL DEF Spec

-----------------------------------------------------------------------------
(* One command per occurrence.                                               *)

\* The only steps that publish: a scheduler's claim, which finds the occurrence
\* unpublished, and a user's trigger, which is of no occurrence.
PublishesClaim(s) ==
    LET t    == tick[s]
        c    == t.conn
        at   == t.read.nextRunAt
        next == NextOccurrence(at, t.read.interval, t.now) IN
    /\ t.pc = "claim"
    /\ StillDue(sched[c], t.read, t.now)
    /\ Published(c, at) = {}
    /\ commands' = Append(commands, Command(c, TRUE, at, next))
    /\ sched' = [sched EXCEPT ![c] = Advanced(@, at, next, Len(commands) + 1)]
    /\ ToNext(s)
    /\ UNCHANGED <<linked, done, run, edit>>

PublishesTrigger ==
    /\ \E c \in Connections, scheduled \in BOOLEAN :
         commands' = Append(commands, Command(c, scheduled, NoTime, NoTime))
    /\ UNCHANGED <<sched, done, tick, run, edit>>

\* Every step leaves the log as it is, or is one of these.
LEMMA PublishingSteps ==
    ASSUME [Next]_vars
    PROVE  \/ commands' = commands
           \/ \E s \in Schedulers : PublishesClaim(s)
           \/ PublishesTrigger
  <1>1. ASSUME NEW s \in Schedulers, Enqueue(s)
        PROVE  commands' = commands \/ PublishesClaim(s)
    <2>1. CASE ClaimOccurrence(s)
      BY <2>1 DEF ClaimOccurrence, PublishesClaim
    <2>2. CASE ~ClaimOccurrence(s)
      BY <1>1, <2>2 DEF Enqueue, EnsureSchedules, ListDue, SkipOccurrence, EndTick, TickFails,
                        ReadOccurrence
    <2> QED BY <2>1, <2>2
  <1>2. ASSUME Run PROVE commands' = commands
    BY <1>2 DEF Run, RejectRun, StartRun, PrepareRun, SaveStartedConnection, SaveEndedConnection,
                SaveConnection, ReadForStart, ReadForEnd, SaveForStart, SaveForEnd, SyncReturns,
                CompletionFails, RunFails
  <1>3. ASSUME User PROVE commands' = commands \/ PublishesTrigger
    BY <1>3 DEF User, Pause, Resume, Upsert, Delete, SaveEdit, Trigger, BeginEdit, PublishesTrigger
  <1> QED BY <1>1, <1>2, <1>3 DEF Next, Tick, vars

\* OncePerOccurrence is inductive: an occurrence is published only when the log of
\* commands holds none of it, in the transaction that holds the row lock.
THEOREM OccurrencesArePublishedOnce == Spec => []OncePerOccurrence
  <1>1. Init => OncePerOccurrence
    BY DEF Init, OncePerOccurrence
  <1>2. ASSUME TypeInv, OncePerOccurrence, [Next]_vars PROVE OncePerOccurrence'
    <2>0. commands \in Seq(CommandType) /\ Len(commands) \in Nat
      BY <1>2 DEF TypeInv, TypeOK
    \* A new command of an occurrence that has none, or of no occurrence.
    <2>a. ASSUME NEW e \in CommandType, commands' = Append(commands, e),
                 e.scheduledAt # NoTime => Occurrences(e.conn, e.scheduledAt) = {}
          PROVE  OncePerOccurrence'
      <3>1. /\ Len(commands') = Len(commands) + 1
            /\ commands'[Len(commands) + 1] = e
            /\ \A k \in 1 .. Len(commands) : commands'[k] = commands[k]
        BY <2>0, <2>a, Appended
      <3>2. \A k \in 1 .. Len(commands) :
                e.scheduledAt # NoTime =>
                    ~(commands[k].conn = e.conn /\ commands[k].scheduledAt = e.scheduledAt)
        BY <2>a DEF Occurrences
      <3>3. SUFFICES ASSUME NEW j \in 1 .. Len(commands) + 1, NEW k \in 1 .. Len(commands) + 1,
                            commands'[j].scheduledAt # NoTime,
                            commands'[j].conn = commands'[k].conn,
                            commands'[j].scheduledAt = commands'[k].scheduledAt
                     PROVE  j = k
        BY <3>1 DEF OncePerOccurrence
      <3>4. CASE j \in 1 .. Len(commands) /\ k \in 1 .. Len(commands)
        BY <1>2, <3>1, <3>3, <3>4 DEF OncePerOccurrence
      <3>5. CASE j = Len(commands) + 1 /\ k \in 1 .. Len(commands)
        BY <3>1, <3>2, <3>3, <3>5
      <3>6. CASE k = Len(commands) + 1 /\ j \in 1 .. Len(commands)
        BY <3>1, <3>2, <3>3, <3>6
      <3> QED BY <2>0, <3>4, <3>5, <3>6
    <2>1. CASE commands' = commands
      BY <1>2, <2>1 DEF OncePerOccurrence
    <2>2. ASSUME NEW s \in Schedulers, PublishesClaim(s) PROVE OncePerOccurrence'
      <3> DEFINE at == tick[s].read.nextRunAt
                 e  == Command(tick[s].conn, TRUE, at,
                               NextOccurrence(at, tick[s].read.interval, tick[s].now))
      <3>1. e \in CommandType
        BY <1>2, <2>2, ClaimedTypes DEF PublishesClaim
      <3>2. e.conn = tick[s].conn /\ e.scheduledAt = at
        BY DEF Command
      <3>3. commands' = Append(commands, e) /\ Occurrences(e.conn, e.scheduledAt) = {}
        BY <2>2, <3>2 DEF PublishesClaim, Published
      <3> HIDE DEF e
      <3> QED BY <2>a, <3>1, <3>3
    <2>3. CASE PublishesTrigger
      <3>1. PICK c \in Connections, scheduled \in BOOLEAN :
                commands' = Append(commands, Command(c, scheduled, NoTime, NoTime))
        BY <2>3 DEF PublishesTrigger
      <3> DEFINE e == Command(c, scheduled, NoTime, NoTime)
      <3>2. e \in CommandType /\ e.scheduledAt = NoTime
        BY DEF Command, CommandType, Times
      <3> HIDE DEF e
      <3> QED BY <2>a, <3>1, <3>2 DEF e
    <2> QED BY <1>2, <2>1, <2>2, <2>3, PublishingSteps
  <1> QED BY InitType, TypeStep, <1>1, <1>2, PTL DEF Spec

\* The step that publishes an occurrence finds it due and advances the row to the
\* occurrence it announces, with its reference (PublishedWithAdvance).
THEOREM PublicationAdvances == Spec => PublishedWithAdvance
  <1>1. ASSUME TypeInv, TypeInv', [Next]_vars,
               NEW s \in Schedulers,
               Len(commands') > Len(commands),
               commands'[Len(commands')].scheduledAt # NoTime,
               tick'[s] # tick[s]
        PROVE  LET k == Len(commands')
                   e == commands'[k]
                   c == e.conn IN
               /\ DueAt(sched[c], clock)
               /\ sched[c].nextRunAt = e.scheduledAt
               /\ sched'[c] = Advanced(sched[c], e.scheduledAt, e.nextRunAt, k)
               /\ tick[s].now < e.nextRunAt
               /\ e.nextRunAt <= tick[s].now + tick[s].read.interval
               /\ \E n \in 1 .. clock + 1 :
                    e.nextRunAt = e.scheduledAt + n * tick[s].read.interval
    <2>0. commands \in Seq(CommandType) /\ Len(commands) \in Nat /\ clock \in Nat
          /\ sched \in [Connections -> RowType \cup {NoSchedule}]
          /\ tick \in [Schedulers -> TickType]
      BY <1>1 DEF TypeInv, TypeOK
    <2>1. ~PublishesTrigger
      BY <1>1 DEF PublishesTrigger
    <2>2. PICK r \in Schedulers : PublishesClaim(r)
      BY <1>1, <2>0, <2>1, PublishingSteps
    <2>3. r = s
      BY <1>1, <2>0, <2>2 DEF PublishesClaim, ToNext
    <2> DEFINE t    == tick[s]
               d    == t.conn
               at   == t.read.nextRunAt
               next == NextOccurrence(at, t.read.interval, t.now)
               e    == Command(d, TRUE, at, next)
    <2>4. /\ d \in Connections /\ sched[d] \in RowType /\ sched[d].enabled
          /\ sched[d].nextRunAt = at /\ at \in Nat /\ at <= t.now /\ t.now \in Nat
          /\ t.read.interval \in Nat \ {0} /\ next \in Nat /\ e \in CommandType
      BY <1>1, <2>2, <2>3, ClaimedTypes DEF PublishesClaim
    <2>5. /\ t.now <= clock
          /\ t.now < next /\ next <= t.now + t.read.interval
          /\ \E n \in 1 .. t.now + 1 : next = at + n * t.read.interval
      BY <1>1, <2>4, NextOccurrenceIsFirst DEF TypeInv, TickTimes
    <2>6. commands' = Append(commands, e)
          /\ sched' = [sched EXCEPT ![d] = Advanced(@, at, next, Len(commands) + 1)]
      BY <2>2, <2>3 DEF PublishesClaim
    <2>7. e.conn = d /\ e.scheduledAt = at /\ e.nextRunAt = next
      BY DEF Command
    <2>12. sched[d] # NoSchedule
      BY <2>2, <2>3 DEF PublishesClaim, StillDue, DueAt
    <2> HIDE DEF e, next, at, d, t
    <2>8. Len(commands') = Len(commands) + 1 /\ commands'[Len(commands')] = e
      BY <2>0, <2>4, <2>6, Appended
    <2>9. DueAt(sched[d], clock)
      BY <2>0, <2>4, <2>5, <2>12 DEF DueAt, NoTime
    <2>10. sched'[d] = Advanced(sched[d], at, next, Len(commands'))
      BY <2>0, <2>4, <2>6, <2>8
    <2>11. \E n \in 1 .. clock + 1 : next = at + n * t.read.interval
      BY <2>0, <2>4, <2>5
    <2> QED BY <2>4, <2>5, <2>7, <2>8, <2>9, <2>10, <2>11 DEF t
  <1>2. ASSUME TypeInv, TypeInv', [Next]_vars
        PROVE  [\A s \in Schedulers :
                  LET k == Len(commands')
                      e == commands'[k]
                      c == e.conn IN
                  k > Len(commands) /\ e.scheduledAt # NoTime /\ tick'[s] # tick[s] =>
                      /\ DueAt(sched[c], clock)
                      /\ sched[c].nextRunAt = e.scheduledAt
                      /\ sched'[c] = Advanced(sched[c], e.scheduledAt, e.nextRunAt, k)
                      /\ tick[s].now < e.nextRunAt
                      /\ e.nextRunAt <= tick[s].now + tick[s].read.interval
                      /\ \E n \in 1 .. clock + 1 :
                           e.nextRunAt = e.scheduledAt + n * tick[s].read.interval]_vars
    BY <1>1, <1>2
  <1> QED BY InitType, TypeStep, <1>2, PTL DEF Spec, PublishedWithAdvance

-----------------------------------------------------------------------------
(* The reference of a schedule row.                                          *)

\* Not only the rows of the table name the occurrence of their command, but every
\* copy of one that a run or an edit may still write back, and a run that is past
\* its preparation carries the occurrence of its command.
CopiesNameOccurrence == NamesOccurrence(run.read) /\ NamesOccurrence(edit.row)

TimedAreScheduled ==
    \A k \in 1 .. Len(commands) : commands[k].scheduledAt # NoTime => commands[k].scheduled

RunCarriesOccurrence ==
    run.pc \notin {"idle", "prepare"} /\ Current.scheduledAt # NoTime =>
        run.scheduled /\ run.at = Current.scheduledAt

Inv ==
    /\ TypeInv
    /\ ReferenceNamesOccurrence
    /\ CopiesNameOccurrence
    /\ TimedAreScheduled
    /\ RunCarriesOccurrence

\* A step that appends a command and is of no run and no edit.
LEMMA LogGrows ==
    ASSUME Inv, NEW e \in CommandType, commands' = Append(commands, e),
           e.scheduledAt # NoTime => e.scheduled, done' = done, run' = run, edit' = edit
    PROVE  CopiesNameOccurrence' /\ TimedAreScheduled' /\ RunCarriesOccurrence'
           /\ \A c \in Connections :
                sched[c] # NoSchedule /\ sched'[c] = sched[c] => NamesOccurrence(sched[c])'
  <1>0. /\ commands \in Seq(CommandType) /\ Len(commands) \in Nat
        /\ run.read \in RowType /\ edit.row \in RowType
        /\ \A c \in Connections : sched[c] # NoSchedule => sched[c] \in RowType
        /\ done \in 0 .. Len(commands)
        /\ run.pc # "idle" => done < Len(commands)
    BY DEF Inv, TypeInv, TypeOK, RunType, EditType, HasCommand
  <1>1. /\ Len(commands') = Len(commands) + 1 /\ commands'[Len(commands) + 1] = e
        /\ \A k \in 1 .. Len(commands) : commands'[k] = commands[k]
    BY <1>0, Appended
  <1>2. NamesOccurrence(run.read)' /\ NamesOccurrence(edit.row)'
    <2>1. /\ run.read.lastJob \in Nat /\ edit.row.lastJob \in Nat
      BY <1>0 DEF RowType
    <2> QED BY <1>0, <1>1, <2>1 DEF Inv, CopiesNameOccurrence, NamesOccurrence, NoJob
  <1>3. TimedAreScheduled'
    BY <1>0, <1>1 DEF Inv, TimedAreScheduled
  <1>4. RunCarriesOccurrence'
    BY <1>0, <1>1 DEF Inv, RunCarriesOccurrence, Current, Job
  <1>5. ASSUME NEW c \in Connections, sched[c] # NoSchedule, sched'[c] = sched[c]
        PROVE  NamesOccurrence(sched[c])'
    <2>1. sched[c].lastJob \in Nat /\ NamesOccurrence(sched[c])
      BY <1>0, <1>5 DEF RowType, Inv, ReferenceNamesOccurrence
    <2> QED BY <1>0, <1>1, <1>5, <2>1 DEF NamesOccurrence, NoJob
  <1> QED BY <1>2, <1>3, <1>4, <1>5 DEF CopiesNameOccurrence

\* A scheduler's step.
LEMMA EnqueueReference ==
    ASSUME Inv, TypeInv', NEW s \in Schedulers, Enqueue(s)
    PROVE  Inv'
  <1>0. /\ sched \in [Connections -> RowType \cup {NoSchedule}] /\ done' = done /\ run' = run
        /\ edit' = edit /\ Len(commands) \in Nat /\ commands \in Seq(CommandType)
    <2>1. /\ sched \in [Connections -> RowType \cup {NoSchedule}]
          /\ Len(commands) \in Nat /\ commands \in Seq(CommandType)
      BY DEF Inv, TypeInv, TypeOK
    <2>2. done' = done /\ run' = run /\ edit' = edit
      BY DEF Enqueue, EnsureSchedules, ListDue, SkipOccurrence, ClaimOccurrence, EndTick,
             TickFails, ReadOccurrence
    <2> QED BY <2>1, <2>2
  \* The log stays as it is, and a new row names no command.
  <1>1. ASSUME commands' = commands,
               \A c \in Connections : sched'[c] = sched[c] \/ NamesOccurrence(sched[c])'
        PROVE  Inv'
    <2>1. ReferenceNamesOccurrence'
      BY <1>1 DEF Inv, ReferenceNamesOccurrence, NamesOccurrence
    <2> QED BY <1>0, <1>1, <2>1 DEF Inv, CopiesNameOccurrence, NamesOccurrence, TimedAreScheduled,
                              RunCarriesOccurrence, Current, Job
  <1>2. CASE EnsureSchedules(s)
    <2>1. commands' = commands /\ sched' = [c \in Connections |->
                   IF c \in linked /\ sched[c] = NoSchedule
                   THEN Schedule(DefaultInterval, clock + DefaultInterval) ELSE sched[c]]
      BY <1>2 DEF EnsureSchedules
    <2>2. \A c \in Connections : sched'[c] = sched[c] \/ sched'[c].lastJob = NoJob
      <3>1. Schedule(DefaultInterval, clock + DefaultInterval).lastJob = NoJob
        BY DEF Schedule
      <3> QED BY <2>1, <3>1
    <2>3. \A c \in Connections : sched'[c] = sched[c] \/ NamesOccurrence(sched[c])'
      BY <2>2 DEF NamesOccurrence
    <2> QED BY <1>1, <2>1, <2>3
  <1>3. CASE ListDue(s) \/ SkipOccurrence(s) \/ EndTick(s) \/ TickFails(s)
             \/ \E c \in Connections : ReadOccurrence(s, c)
    BY <1>1, <1>3 DEF ListDue, SkipOccurrence, EndTick, TickFails, ReadOccurrence
  <1>4. CASE ClaimOccurrence(s)
    <2> PICK d \in Connections : d = tick[s].conn
      BY <1>4, ClaimedTypes DEF ClaimOccurrence, Inv
    <2> DEFINE at   == tick[s].read.nextRunAt
               next == NextOccurrence(at, tick[s].read.interval, tick[s].now)
               new  == Command(d, TRUE, at, next)
    <2>0. /\ d = tick[s].conn /\ sched[d] \in RowType /\ at \in Nat /\ next \in Nat
          /\ new \in CommandType
      BY <1>4, ClaimedTypes DEF ClaimOccurrence, Inv
    <2>1. new.scheduled = TRUE /\ new.scheduledAt = at
      BY DEF Command
    \* The row that the claim leaves names the command it is given.
    <2>2. ASSUME NEW k \in Nat, sched' = [sched EXCEPT ![d] = Advanced(@, at, next, k)]
          PROVE  /\ sched'[d].lastJob = k /\ sched'[d].lastScheduledAt = at
                 /\ \A c \in Connections \ {d} : sched'[c] = sched[c]
      <3>1. Advanced(sched[d], at, next, k).lastJob = k
            /\ Advanced(sched[d], at, next, k).lastScheduledAt = at
        BY <2>0 DEF Advanced, RowType
      <3> HIDE DEF at, next
      <3> QED BY <1>0, <2>0, <2>2, <3>1
    <2> HIDE DEF new, next, at
    <2>3. ASSUME commands' = Append(commands, new),
                 sched' = [sched EXCEPT ![d] = Advanced(@, at, next, Len(commands) + 1)]
          PROVE  Inv'
      <3>1. /\ CopiesNameOccurrence' /\ TimedAreScheduled' /\ RunCarriesOccurrence'
            /\ \A c \in Connections :
                 sched[c] # NoSchedule /\ sched'[c] = sched[c] => NamesOccurrence(sched[c])'
        BY <1>0, <2>0, <2>1, <2>3, LogGrows
      <3>2. Len(commands') = Len(commands) + 1 /\ commands'[Len(commands) + 1] = new
        BY <1>0, <2>0, <2>3, Appended
      <3> DEFINE k == Len(commands) + 1
      <3>k. k \in Nat /\ k = Len(commands')
        BY <1>0, <3>2
      <3>a. /\ sched'[d].lastJob = k /\ sched'[d].lastScheduledAt = at
            /\ \A c \in Connections \ {d} : sched'[c] = sched[c]
        <4> HIDE DEF k
        <4> QED BY <2>2, <2>3, <3>k DEF k
      <3>b. commands'[k].scheduledAt = at
        BY <2>1, <3>2
      <3>3. NamesOccurrence(sched[d])'
        <4> HIDE DEF k
        <4> QED BY <3>k, <3>a, <3>b DEF NamesOccurrence
      <3>4. ReferenceNamesOccurrence'
        BY <3>1, <3>3, <3>a DEF ReferenceNamesOccurrence
      <3> QED BY <3>1, <3>4 DEF Inv
    <2>4. ASSUME NEW k \in Published(d, at), commands[k] = new, commands' = commands,
                 sched' = [sched EXCEPT ![d] = Advanced(@, at, next, k)]
          PROVE  Inv'
      <3>1. k \in 1 .. Len(commands) /\ k \in Nat
        BY <1>0, <2>4 DEF Published, Occurrences
      <3>a. sched'[d].lastJob = k /\ sched'[d].lastScheduledAt = at
        BY <2>2, <2>4, <3>1
      <3>b. commands'[k].scheduledAt = at /\ Len(commands') = Len(commands)
        BY <2>1, <2>4
      <3>2. NamesOccurrence(sched[d])'
        BY <1>0, <3>1, <3>a, <3>b DEF NamesOccurrence
      <3>3. \A c \in Connections : sched'[c] = sched[c] \/ NamesOccurrence(sched[c])'
        BY <2>2, <2>4, <3>1, <3>2
      <3> QED BY <1>1, <2>4, <3>3
    <2>5. ASSUME commands' = commands, sched' = sched PROVE Inv'
      BY <1>1, <2>5
    <2> QED BY <1>4, <2>0, <2>3, <2>4, <2>5 DEF ClaimOccurrence, new, next, at
  <1> QED BY <1>2, <1>3, <1>4 DEF Enqueue

\* A step of the worker.
LEMMA RunReference == ASSUME Inv, TypeInv', Run PROVE Inv'
  <1>0. /\ sched \in [Connections -> RowType \cup {NoSchedule}] /\ commands' = commands
        /\ edit' = edit /\ run \in RunType /\ done \in 0 .. Len(commands) /\ Len(commands) \in Nat
    <2>1. /\ sched \in [Connections -> RowType \cup {NoSchedule}]
          /\ run \in RunType /\ done \in 0 .. Len(commands) /\ Len(commands) \in Nat
      BY DEF Inv, TypeInv, TypeOK
    <2>2. commands' = commands /\ edit' = edit
      BY DEF Run, RejectRun, StartRun, PrepareRun, SaveStartedConnection, SaveEndedConnection,
             SaveConnection, ReadForStart, ReadForEnd, SaveForStart, SaveForEnd, SyncReturns,
             CompletionFails, RunFails
    <2> QED BY <2>1, <2>2
  <1>1. NamesOccurrence(EmptyRow)
    BY DEF NamesOccurrence, EmptyRow, Schedule
  <1>2. NoRun.pc = "idle" /\ NoRun.read = EmptyRow
    BY DEF NoRun
  \* What is left to show of a step that leaves the table alone.
  <1>a. ASSUME sched' = sched, NamesOccurrence(run'.read), RunCarriesOccurrence' PROVE Inv'
    BY <1>0, <1>a DEF Inv, ReferenceNamesOccurrence, CopiesNameOccurrence, NamesOccurrence,
                      TimedAreScheduled
  \* A run that goes on with the same command and the same occurrence.
  <1>b. ASSUME run.pc \notin {"idle", "prepare"}, done' = done,
               run'.scheduled = run.scheduled, run'.at = run.at
        PROVE  RunCarriesOccurrence'
    BY <1>0, <1>b DEF Inv, RunCarriesOccurrence, Current, Job
  <1>c. ASSUME run.pc \notin {"idle", "prepare"}
        PROVE  Conn \in Connections /\ NamesOccurrence(Recorded(run.read))
    <2>1. /\ Job \in 1 .. Len(commands) /\ Conn \in Connections
      BY <1>c, CurrentType DEF Inv, TypeInv, HasCommand
    <2>2. run.read \in RowType
      BY <1>0 DEF RunType
    <2>3. /\ Recorded(run.read).lastJob = Job
          /\ run.scheduled => Recorded(run.read).lastScheduledAt = run.at
      BY <1>0, <2>2 DEF Recorded, RowType, RunType
    <2>4. Current.scheduledAt # NoTime => run.scheduled /\ run.at = Current.scheduledAt
      BY <1>c DEF Inv, RunCarriesOccurrence
    <2> QED BY <1>0, <2>1, <2>3, <2>4 DEF NamesOccurrence, Current
  <1>d. ASSUME run.pc \notin {"idle", "prepare"},
               sched' = [sched EXCEPT ![Conn] = Recorded(run.read)],
               NamesOccurrence(run'.read), RunCarriesOccurrence'
        PROVE  Inv'
    <2>1. \A c \in Connections : sched'[c] # NoSchedule => NamesOccurrence(sched'[c])
      BY <1>0, <1>c, <1>d DEF Inv, ReferenceNamesOccurrence
    <2>2. ReferenceNamesOccurrence'
      BY <1>0, <2>1 DEF ReferenceNamesOccurrence, NamesOccurrence
    <2> QED BY <1>0, <1>d, <2>2 DEF Inv, CopiesNameOccurrence, NamesOccurrence, TimedAreScheduled
  <1>e. ASSUME NEW failed \in BOOLEAN, Returns(failed)
        PROVE  NamesOccurrence(run'.read) /\ RunCarriesOccurrence'
    BY <1>e, <1>1, <1>2 DEF Returns, RunCarriesOccurrence
  <1>3. CASE RejectRun
    <2>1. NamesOccurrence(run'.read) /\ RunCarriesOccurrence' /\ sched' = sched
      BY <1>3 DEF RejectRun, RunCarriesOccurrence, Inv, CopiesNameOccurrence
    <2> QED BY <1>a, <2>1
  <1>4. CASE StartRun
    <2>1. run'.pc = "prepare" /\ run'.read = EmptyRow /\ sched' = sched
      BY <1>4 DEF StartRun, NoRun
    <2> QED BY <1>a, <1>1, <2>1 DEF RunCarriesOccurrence
  <1>5. CASE PrepareRun
    <2>1. /\ run.pc = "prepare" /\ sched' = sched /\ done' = done /\ run'.read = run.read
          /\ run'.scheduled = Current.scheduled
          /\ Current.scheduledAt # NoTime => run'.at = Current.scheduledAt
      BY <1>0, <1>5 DEF PrepareRun, RunType
    <2>2. Job \in 1 .. Len(commands)
      BY <2>1, CurrentType DEF Inv, TypeInv, HasCommand
    <2>3. RunCarriesOccurrence'
      BY <1>0, <2>1, <2>2 DEF RunCarriesOccurrence, Inv, TimedAreScheduled, Current, Job
    <2> QED BY <1>a, <2>1, <2>3 DEF Inv, CopiesNameOccurrence
  <1>6. CASE SaveStartedConnection \/ SaveEndedConnection \/ SyncReturns
    <2>1. /\ run.pc \notin {"idle", "prepare"} /\ sched' = sched /\ done' = done
          /\ run'.read = run.read /\ run'.scheduled = run.scheduled /\ run'.at = run.at
      BY <1>0, <1>6 DEF SaveStartedConnection, SaveEndedConnection, SaveConnection, SyncReturns,
                        RunType
    <2> QED BY <1>a, <1>b, <2>1 DEF Inv, CopiesNameOccurrence
  <1>7. CASE ReadForStart \/ CompletionFails
    <2>1. /\ run.pc \notin {"idle", "prepare"} /\ sched' = sched /\ done' = done
          /\ run'.read \in {run.read, EmptyRow, sched[Conn]}
          /\ run'.read = sched[Conn] =>
                run'.read \in {run.read, EmptyRow} \/ sched[Conn] # NoSchedule
          /\ run'.scheduled = run.scheduled /\ run'.at = run.at
      BY <1>0, <1>7 DEF ReadForStart, CompletionFails, Missing, RunType
    <2>2. NamesOccurrence(run'.read)
      BY <1>1, <1>c, <2>1 DEF Inv, CopiesNameOccurrence, ReferenceNamesOccurrence
    <2> QED BY <1>a, <1>b, <2>1, <2>2
  <1>8. CASE ReadForEnd
    <2>1. run.pc \notin {"idle", "prepare"} /\ sched' = sched
      BY <1>8 DEF ReadForEnd
    <2>2. CASE sched[Conn] = NoSchedule
      BY <1>0, <1>8, <1>a, <1>e, <2>1, <2>2 DEF ReadForEnd, Missing, RunType
    <2>3. CASE sched[Conn] # NoSchedule
      <3>1. /\ run'.read = sched[Conn] /\ run'.scheduled = run.scheduled /\ run'.at = run.at
            /\ done' = done
        BY <1>0, <1>8, <2>3 DEF ReadForEnd, Missing, RunType
      <3>2. NamesOccurrence(run'.read)
        BY <1>c, <2>1, <2>3, <3>1 DEF Inv, ReferenceNamesOccurrence
      <3> QED BY <1>a, <1>b, <2>1, <3>1, <3>2
    <2> QED BY <2>2, <2>3
  <1>9. CASE SaveForStart
    <2>1. /\ run.pc \notin {"idle", "prepare"} /\ done' = done /\ run'.read = EmptyRow
          /\ run'.scheduled = run.scheduled /\ run'.at = run.at
      BY <1>0, <1>9 DEF SaveForStart, RunType
    <2> QED BY <1>1, <1>9, <1>b, <1>d, <2>1 DEF SaveForStart
  <1>10. CASE SaveForEnd
    <2>1. run.pc \notin {"idle", "prepare"} /\ run.failed \in BOOLEAN
      BY <1>0, <1>10 DEF SaveForEnd, RunType
    <2> QED BY <1>10, <1>d, <1>e, <2>1 DEF SaveForEnd
  <1>11. CASE RunFails
    BY <1>11, <1>a, <1>e DEF RunFails
  <1> QED BY <1>3, <1>4, <1>5, <1>6, <1>7, <1>8, <1>9, <1>10, <1>11 DEF Run

\* A user's step: the edited row keeps the reference of the row that was read.
LEMMA UserReference == ASSUME Inv, TypeInv', User PROVE Inv'
  <1>0. /\ sched \in [Connections -> RowType \cup {NoSchedule}]
        /\ edit \in EditType /\ edit.row \in RowType
        /\ edit.pc = "save" => edit.conn \in Connections
    BY DEF Inv, TypeInv, TypeOK, HasConnection, EditType
  <1>1. ASSUME NEW c \in Connections, NEW r \in RowType, NamesOccurrence(r), BeginEdit(c, r)
        PROVE  Inv'
    <2>1. edit'.row = r /\ UNCHANGED <<sched, commands, done, run>>
      BY <1>1 DEF BeginEdit
    <2> QED BY <1>1, <2>1 DEF Inv, ReferenceNamesOccurrence, CopiesNameOccurrence, NamesOccurrence,
                              TimedAreScheduled, RunCarriesOccurrence, Current, Job
  \* What is left to show of an edit of the row that was read.
  <1>2. ASSUME NEW c \in Connections, sched[c] # NoSchedule, NEW r \in RowType,
               r.lastJob = sched[c].lastJob, r.lastScheduledAt = sched[c].lastScheduledAt
        PROVE  NamesOccurrence(r)
    BY <1>2 DEF Inv, ReferenceNamesOccurrence, NamesOccurrence
  <1>t. AskedTimes \subseteq Times
    BY BankScheduleAssumption DEF AskedTimes, Times
  <1>3. ASSUME NEW c \in Connections, Pause(c) \/ Resume(c) PROVE Inv'
    <2>0. sched[c] # NoSchedule /\ sched[c] \in RowType
      BY <1>0, <1>3 DEF Pause, Resume
    <2>1. CASE Pause(c)
      <3> DEFINE r == [sched[c] EXCEPT !.enabled = FALSE, !.nextRunAt = NoTime]
      <3>1. r \in RowType /\ r.lastJob = sched[c].lastJob
            /\ r.lastScheduledAt = sched[c].lastScheduledAt
        BY <2>0 DEF RowType, Times
      <3>2. BeginEdit(c, r)
        BY <2>1 DEF Pause
      <3> HIDE DEF r
      <3> QED BY <1>1, <1>2, <2>0, <3>1, <3>2
    <2>2. CASE Resume(c)
      <3>0. PICK at \in AskedTimes :
                BeginEdit(c, [sched[c] EXCEPT !.enabled = TRUE, !.nextRunAt = at])
        BY <2>2 DEF Resume
      <3> DEFINE r == [sched[c] EXCEPT !.enabled = TRUE, !.nextRunAt = at]
      <3>1. r \in RowType /\ r.lastJob = sched[c].lastJob
            /\ r.lastScheduledAt = sched[c].lastScheduledAt
        BY <1>t, <2>0 DEF RowType
      <3>2. BeginEdit(c, r)
        BY <3>0
      <3> HIDE DEF r
      <3> QED BY <1>1, <1>2, <2>0, <3>1, <3>2
    <2> QED BY <1>3, <2>1, <2>2
  <1>4. ASSUME NEW c \in Connections, Upsert(c) PROVE Inv'
    <2>0. PICK i \in Intervals, at \in AskedTimes :
              BeginEdit(c, IF sched[c] = NoSchedule THEN Schedule(i, at)
                           ELSE [sched[c] EXCEPT !.interval = i, !.nextRunAt = at,
                                                 !.enabled = TRUE])
      BY <1>4 DEF Upsert
    <2>i. i \in Nat \ {0} /\ at \in Times
      BY <1>t, BankScheduleAssumption
    <2>1. CASE sched[c] = NoSchedule
      <3>1. Schedule(i, at) \in RowType
        BY <2>i, ConstantTypes
      <3>2. NamesOccurrence(Schedule(i, at))
        BY DEF NamesOccurrence, Schedule
      <3> QED BY <1>1, <2>0, <2>1, <3>1, <3>2
    <2>2. CASE sched[c] # NoSchedule
      <3> DEFINE r == [sched[c] EXCEPT !.interval = i, !.nextRunAt = at, !.enabled = TRUE]
      <3>1. r \in RowType /\ r.lastJob = sched[c].lastJob
            /\ r.lastScheduledAt = sched[c].lastScheduledAt
        BY <1>0, <2>i, <2>2 DEF RowType
      <3>2. BeginEdit(c, r)
        BY <2>0, <2>2
      <3> HIDE DEF r
      <3> QED BY <1>1, <1>2, <2>2, <3>1, <3>2
    <2> QED BY <2>1, <2>2
  <1>5. CASE SaveEdit
    <2>1. /\ sched' = [sched EXCEPT ![edit.conn] = edit.row] /\ edit.conn \in Connections
          /\ NamesOccurrence(edit.row)
      BY <1>0, <1>5 DEF SaveEdit, Inv, CopiesNameOccurrence
    <2>2. edit'.row.lastJob = NoJob /\ UNCHANGED <<commands, done, run>>
      BY <1>5 DEF SaveEdit, NoEdit, EmptyRow, Schedule
    <2>3. \A c \in Connections : sched'[c] # NoSchedule => NamesOccurrence(sched'[c])
      BY <1>0, <2>1 DEF Inv, ReferenceNamesOccurrence
    <2>4. ReferenceNamesOccurrence' /\ CopiesNameOccurrence'
      BY <2>2, <2>3 DEF ReferenceNamesOccurrence, CopiesNameOccurrence, NamesOccurrence, Inv
    <2> QED BY <2>2, <2>4 DEF Inv, TimedAreScheduled, RunCarriesOccurrence, Current, Job
  <1>6. ASSUME NEW c \in Connections, NEW scheduled \in BOOLEAN, Trigger(c, scheduled) PROVE Inv'
    <2> DEFINE e == Command(c, scheduled, NoTime, NoTime)
    <2>1. e \in CommandType /\ e.scheduledAt = NoTime
      BY DEF Command, CommandType, Times
    <2>2. commands' = Append(commands, e) /\ UNCHANGED <<sched, done, run, edit>>
      BY <1>6 DEF Trigger
    <2> HIDE DEF e
    <2>3. /\ CopiesNameOccurrence' /\ TimedAreScheduled' /\ RunCarriesOccurrence'
          /\ \A o \in Connections :
               sched[o] # NoSchedule /\ sched'[o] = sched[o] => NamesOccurrence(sched[o])'
      BY <2>1, <2>2, LogGrows
    <2> QED BY <2>2, <2>3 DEF Inv, ReferenceNamesOccurrence
  <1>7. ASSUME NEW c \in Connections, Delete(c) PROVE Inv'
    <2>1. UNCHANGED <<commands, done, run, edit>>
          /\ sched' = [sched EXCEPT ![c] = NoSchedule]
      BY <1>7 DEF Delete
    <2>2. \A o \in Connections : sched'[o] # NoSchedule => NamesOccurrence(sched'[o])
      BY <1>0, <2>1 DEF Inv, ReferenceNamesOccurrence
    <2>3. ReferenceNamesOccurrence' /\ CopiesNameOccurrence'
      BY <2>1, <2>2 DEF ReferenceNamesOccurrence, CopiesNameOccurrence, NamesOccurrence, Inv
    <2> QED BY <2>1, <2>3 DEF Inv, TimedAreScheduled, RunCarriesOccurrence, Current, Job
  <1> QED BY <1>3, <1>4, <1>5, <1>6, <1>7 DEF User

\* A schedule row that names a scheduler's command shows that command's occurrence
\* (ReferenceNamesOccurrence): the reference and the occurrence travel together
\* through every copy that the worker and the users write back.
THEOREM ReferencesNameOccurrences == Spec => []ReferenceNamesOccurrence
  <1>1. Init => Inv
    <2> SUFFICES ASSUME Init PROVE Inv
      OBVIOUS
    <2>1. \A c \in Connections : sched[c] # NoSchedule => sched[c].lastJob = NoJob
      BY DEF Init, Schedule
    <2> QED BY <2>1, InitType
            DEF Inv, Init, ReferenceNamesOccurrence, CopiesNameOccurrence, NamesOccurrence,
                TimedAreScheduled, RunCarriesOccurrence, NoRun, NoEdit, EmptyRow, Schedule
  <1>2. ASSUME Inv, [Next]_vars PROVE Inv'
    <2>1. TypeInv'
      BY <1>2, TypeStep DEF Inv
    <2>2. CASE UNCHANGED vars \/ Tick
      BY <1>2, <2>1, <2>2
         DEF vars, Tick, Inv, ReferenceNamesOccurrence, CopiesNameOccurrence, NamesOccurrence,
             TimedAreScheduled, RunCarriesOccurrence, Current, Job
    <2> QED BY <1>2, <2>1, <2>2, EnqueueReference, RunReference, UserReference DEF Next
  <1>3. Inv => ReferenceNamesOccurrence
    BY DEF Inv
  <1> QED BY <1>1, <1>2, <1>3, PTL DEF Spec
=============================================================================
