----------------------------- MODULE WindowSync -----------------------------
(***************************************************************************)
(* Provider synchronization of one bank connection: the windowed, two-phase *)
(* copy of a bank's transactions into the ledger (finance/internal/         *)
(* providers and the finance persistence it runs on).  A run plans a target *)
(* window from the last journal entry, splits it oldest first, and for each *)
(* chunk fetches the bank's transactions, loads what the ledger already     *)
(* holds, decides row by row what to create or merge, and applies the       *)
(* decision in one transaction together with the journal entry the next     *)
(* plan starts from.                                                        *)
(*                                                                          *)
(* Nothing locks a connection, a window or a row between the load and the   *)
(* apply, so a second run, or a user, can step in between.  One connection  *)
(* with one provider account is modelled; instants are days; amount,        *)
(* currency and description are one value; of the pair-owned columns        *)
(* (kind, group, matched at, excluded) only the state they encode is kept.  *)
(* The kind of a created row (new, weak, ambiguous) only words an issue.    *)
(***************************************************************************)
EXTENDS Integers, Sequences, FiniteSets

CONSTANTS Runs,           \* executions of RunBankConnectionSync
          NItems,         \* transactions the bank will ever report
          Values,         \* contents of a transaction
          PostedFirst,    \* those it reports from the start
          ItemDays,       \* days the bank and the user date transactions at
          FirstDays,      \* days the bank first dates them at
          ChunkDays,      \* providerSyncWindowChunkDays
          RecentDays,     \* recentRefreshDays
          BackfillDays,   \* initialBackfillYears
          ManualWindows,  \* windows a user may ask for
          MaxClock,       \* bound on the clock
          MaxStarts,      \* bound on the runs started
          MaxEvents,      \* bound on what the bank, users and failures do
          None            \* nil

ASSUME WindowSyncAssumption ==
    /\ NItems \in Nat
    /\ ChunkDays \in Nat \ {0}
    /\ RecentDays \in Nat \ {0}
    /\ BackfillDays \in Nat \ {0}
    /\ MaxClock \in Nat
    /\ BackfillDays <= MaxClock
    /\ ItemDays \subseteq 0 .. MaxClock
    /\ FirstDays \subseteq ItemDays
    /\ None \notin Values \cup Int
    /\ ManualWindows \subseteq [start : Int \cup {None}, end : Int \cup {None}]
    /\ MaxStarts \in Nat
    /\ MaxEvents \in Nat

VARIABLES
    clock,    \* today
    bank,     \* what the bank reports of each of its transactions
    linked,   \* the connection row exists
    account,  \* finance account mapped to the provider account, or 0
    accounts, \* finance accounts created so far
    rows,     \* provider transactions of the ledger, by identifier
    matches,  \* provider transaction matches, by identifier
    made,     \* the highest identifier a row or a match was given
    last,     \* the latest journal entry, or None
    run,      \* run -> what it is doing
    edit,     \* a user's read-modify-write of a row under way, or None
    history,  \* what has happened, for the properties only
    budget    \* operations the bounds leave

vars == <<clock, bank, linked, account, accounts, rows, matches, made, last, run, edit,
          history, budget>>

Items == 1 .. NItems

-----------------------------------------------------------------------------
(* The bank and what it reports *)

\* Identifiers change when a pending transaction is booked; the fingerprint is
\* a hash of the account, content and day.
Report(i, n, value, day) == [pid |-> <<i, n>>, value |-> value, day |-> day]

Fingerprint(o) == <<o.value, o.day>>

InWindow(day, w) == w.start <= day /\ day < w.end

\* Fetch: the bank's transactions dated in the window, in the bank's order, which
\* is that of Items.
Observed(w) ==
    [i \in {i \in Items : bank[i].posted /\ InWindow(bank[i].report.day, w)} |->
        bank[i].report]

-----------------------------------------------------------------------------
(* Planning of windows *)

\* Mutant: a failed entry counts as progress.
CheckpointOf_IgnoresFailure(state) == state.end

CheckpointOf(state) == IF state.ok THEN state.end ELSE state.start

DetermineStart(end, state) ==
    IF state = None THEN end - BackfillDays
    ELSE IF CheckpointOf(state) < end - RecentDays
         THEN CheckpointOf(state) ELSE end - RecentDays

Determine(request, now) ==
    LET end == IF request.end = None THEN now ELSE request.end
    IN  [start |-> IF request.start = None THEN DetermineStart(end, last)
                   ELSE request.start,
         end   |-> end]

\* Contiguous chunks, oldest first; the last one may be shorter.
Split(w) ==
    [k \in 1 .. (w.end - w.start + ChunkDays - 1) \div ChunkDays |->
        LET start == w.start + (k - 1) * ChunkDays
        IN  [start |-> start,
             end   |-> IF start + ChunkDays > w.end THEN w.end ELSE start + ChunkDays]]

-----------------------------------------------------------------------------
(* The snapshot of a window, and the decisions made on it *)

WindowTransactions(w) ==
    {t \in DOMAIN rows : account # 0 /\ rows[t].account = account
                         /\ InWindow(rows[t].day, w)}

WindowMatches(w) == {m \in DOMAIN matches : matches[m].tx \in WindowTransactions(w)}

\* Mutant: identifiers are looked up inside the window only.
IdentityMatches_WindowOnly(obs) == {}

IdentityMatches(obs) ==
    {m \in DOMAIN matches : \E i \in DOMAIN obs : matches[m].pid = obs[i].pid}

ByProviderID(o, ms) == {m \in ms : matches[m].pid = o.pid}

\* Mutant: the fallback compares days and accounts only.
ByFingerprint_DayOnly(o, ms) == {m \in ms : matches[m].fp[2] = o.day}

ByFingerprint(o, ms) == {m \in ms : matches[m].fp = Fingerprint(o)}

\* Mutant: the bank always wins.
Refreshed_BankWins(current, original, observed) == observed

\* A field the user has not changed follows the bank.
Refreshed(current, original, observed) ==
    IF current = original THEN observed ELSE current

Merge(row, o) ==
    [row EXCEPT !.value = Refreshed(row.value, row.original.value, o.value),
                !.day   = Refreshed(row.day, row.original.day, o.day),
                !.original = [value |-> o.value, day |-> o.day]]

Create(o) == [by |-> "new", obs |-> o, tx |-> 0, row |-> None, match |-> 0]

Update(o, by, m) ==
    LET t == matches[m].tx
    IN  [by |-> by, obs |-> o, tx |-> t, row |-> Merge(rows[t], o), match |-> 0]

Unique(ms) == CHOOSE m \in ms : TRUE

\* planTransactionAction: the bank's identifier anywhere in the connection,
\* else the fingerprint inside the window; more than one candidate creates.
Plan(o, w, obs) ==
    LET strong == ByProviderID(o, WindowMatches(w) \cup IdentityMatches(obs))
        alike  == ByFingerprint(o, WindowMatches(w))
    IN  IF Cardinality(strong) = 1 THEN Update(o, "id", Unique(strong))
        ELSE IF strong # {} THEN Create(o)
        ELSE IF Cardinality(alike) = 1 THEN Update(o, "fp", Unique(alike))
        ELSE Create(o)

\* The match row a write reuses, looked up in the snapshot taken again at apply.
PriorMatch(write, w, obs) ==
    LET known == WindowMatches(w) \cup IdentityMatches(obs)
        mine  == {m \in known : /\ matches[m].tx = write.tx
                                /\ IF write.by = "id" THEN matches[m].pid = write.obs.pid
                                   ELSE matches[m].fp = Fingerprint(write.obs)}
    IN  IF write.tx # 0 /\ Cardinality(mine) = 1 THEN Unique(mine) ELSE 0

-----------------------------------------------------------------------------
(* Writes *)

\* Mutant: the upsert writes the pair-owned columns of the row it was given.
SavedRow_AsGiven(stored, row) == row

\* An upsert writes every column but those the transfer workflows own.
SavedRow(stored, row) == [row EXCEPT !.pair = stored.pair]

NewRow(o, owner) ==
    [account |-> owner, value |-> o.value, day |-> o.day, hidden |-> FALSE,
     original |-> [value |-> o.value, day |-> o.day], pair |-> "none"]

\* What a write creates is given an identifier of its own.
RowOf(write, i) == IF write.tx = 0 THEN made + i ELSE write.tx
MatchOf(write, i) == IF write.match = 0 THEN made + i ELSE write.match

\* Of several writes of one row, or of one match, the last one stays.
Last(is) == CHOOSE i \in is : \A j \in is : j <= i

RowWrites(r, t) == {i \in DOMAIN run[r].plan : RowOf(run[r].plan[i], i) = t}
MatchWrites(r, m) == {i \in DOMAIN run[r].plan : MatchOf(run[r].plan[i], i) = m}

WrittenRow(write, t, owner) ==
    IF write.tx = 0 THEN NewRow(write.obs, owner) ELSE SavedRow(rows[t], write.row)

\* Mutant: the match of a created row keeps the empty transaction of the plan.
WrittenMatch_PlannedTransaction(write, i) ==
    [pid |-> write.obs.pid, fp |-> Fingerprint(write.obs), tx |-> write.tx]

WrittenMatch(write, i) ==
    [pid |-> write.obs.pid, fp |-> Fingerprint(write.obs), tx |-> RowOf(write, i)]

\* The transactions and their matches, one write after the other, in one transaction.
RowsAfter(r, owner) ==
    [t \in DOMAIN rows \cup {RowOf(run[r].plan[i], i) : i \in DOMAIN run[r].plan} |->
        IF RowWrites(r, t) = {} THEN rows[t]
        ELSE WrittenRow(run[r].plan[Last(RowWrites(r, t))], t, owner)]

MatchesAfter(r) ==
    [m \in DOMAIN matches \cup {MatchOf(run[r].plan[i], i) : i \in DOMAIN run[r].plan} |->
        IF MatchWrites(r, m) = {} THEN matches[m]
        ELSE WrittenMatch(run[r].plan[Last(MatchWrites(r, m))], Last(MatchWrites(r, m)))]

Creates(r) ==
    \E i \in DOMAIN run[r].plan : run[r].plan[i].tx = 0 \/ run[r].plan[i].match = 0

\* Mutant: only the snapshot is asked for the mapping.
ClaimAccount_SnapshotOnly(known) == IF known # 0 THEN known ELSE accounts + 1

\* A known provider account keeps its finance account, and so does one another
\* run has mapped since the snapshot; otherwise the run's new account is saved.
ClaimAccount(known) ==
    IF known # 0 THEN known ELSE IF account # 0 THEN account ELSE accounts + 1

-----------------------------------------------------------------------------
(* History: which bank transactions a row was written for, what its user      *)
(* corrected, and which writes were decided on a snapshot something changed.  *)

NoNote == [of |-> {}, value |-> None, day |-> None, hidden |-> FALSE, raced |-> FALSE]

\* A correction the bank comes to agree with is no correction any more.
Noted(note, written, edited) ==
    [note EXCEPT !.of    = @ \cup {o.pid[1] : o \in written},
                 !.value = IF @ \in {o.value : o \in written} THEN None ELSE @,
                 !.day   = IF @ \in {o.day : o \in written} THEN None ELSE @,
                 !.raced = @ \/ edited]

NotesAfter(r) ==
    [t \in DOMAIN rows \cup {RowOf(run[r].plan[i], i) : i \in DOMAIN run[r].plan} |->
        Noted(IF t \in DOMAIN rows THEN history.notes[t] ELSE NoNote,
              {run[r].plan[i].obs : i \in RowWrites(r, t)},
              t \in run[r].edited /\ RowWrites(r, t) # {})]

-----------------------------------------------------------------------------
(* Runs *)

Idle == [pc |-> "idle", todo |-> <<>>, obs |-> <<>>, plan |-> <<>>, account |-> 0,
         edited |-> {}, outrun |-> FALSE]

AnEvent == budget.events > 0 /\ budget' = [budget EXCEPT !.events = @ - 1]

TypeOK ==
    /\ clock \in Nat
    /\ linked \in BOOLEAN
    /\ account \in 0 .. accounts
    /\ accounts \in Nat
    /\ \A t \in DOMAIN rows :
          /\ rows[t].value \in Values
          /\ rows[t].day \in ItemDays
          /\ rows[t].original \in [value : Values, day : ItemDays]
          /\ rows[t].hidden \in BOOLEAN
          /\ rows[t].pair \in {"none", "linked", "excluded"}
    /\ \A m \in DOMAIN matches : matches[m].tx \in DOMAIN rows
    /\ DOMAIN history.notes = DOMAIN rows
    /\ \A r \in Runs : run[r].pc \in {"idle", "planned", "fetched", "loaded", "applying"}

Init ==
    /\ clock = BackfillDays
    /\ \E value \in [Items -> Values], day \in [Items -> FirstDays] :
          bank = [i \in Items |-> [posted |-> i \in PostedFirst,
                                  report |-> Report(i, 0, value[i], day[i])]]
    /\ linked = TRUE
    /\ account = 0
    /\ accounts = 0
    /\ rows = <<>>
    /\ matches = <<>>
    /\ made = 0
    /\ last = None
    /\ run = [r \in Runs |-> Idle]
    /\ edit = None
    /\ history = [notes |-> <<>>, covered |-> {}, backfill |-> 0, manual |-> FALSE,
                  overlapped |-> FALSE, late |-> FALSE,
                  prints |-> [i \in Items |-> {Fingerprint(bank[i].report)}]]
    /\ budget = [starts |-> MaxStarts, events |-> MaxEvents]

\* Orchestrate, up to the loop: the journal is read only without a window start.
\* Nothing else reads the clock, so time passes here.
Start(r, request, now) ==
    /\ run[r].pc = "idle"
    /\ linked
    /\ budget.starts > 0
    /\ request \in ManualWindows => budget.events > 0
    /\ budget' = [starts |-> budget.starts - 1,
                  events |-> IF request \in ManualWindows THEN budget.events - 1
                             ELSE budget.events]
    /\ LET w == Determine(request, now) IN
         /\ w.start < w.end
         /\ run' = [run EXCEPT ![r] = [Idle EXCEPT !.pc = "planned", !.todo = Split(w)]]
         /\ history' = [history EXCEPT
                !.manual = @ \/ request.start # None,
                !.backfill = IF request.start = None /\ last = None /\ w.start > @
                             THEN w.start ELSE @]
    /\ clock' = now
    /\ UNCHANGED <<bank, linked, account, accounts, rows, matches, made, last, edit>>

Fetch(r) ==
    /\ run[r].pc = "planned"
    /\ run' = [run EXCEPT ![r].pc = "fetched", ![r].obs = Observed(Head(run[r].todo))]
    /\ UNCHANGED <<clock, bank, linked, account, accounts, rows, matches, made, last, edit,
                   history, budget>>

\* LoadExistingWindow and the two planners, which touch no store.
Load(r) ==
    LET w == Head(run[r].todo)
        obs == run[r].obs
    IN  /\ run[r].pc = "fetched"
        /\ run' = [run EXCEPT ![r].pc = "loaded",
                              ![r].plan = [i \in DOMAIN obs |-> Plan(obs[i], w, obs)],
                              ![r].edited = {}, ![r].outrun = FALSE]
        /\ UNCHANGED <<clock, bank, linked, account, accounts, rows, matches, made, last,
                       edit, history, budget>>

\* Mutant: the apply transaction does not read the connection.
ConnectionFound_Always == TRUE

\* GetBankConnection, in the apply transaction.
ConnectionFound == linked

\* ApplySync reloads the snapshot, opens the transaction and reads the connection.
BeginApply(r) ==
    LET w == Head(run[r].todo)
        obs == run[r].obs
    IN  /\ run[r].pc = "loaded"
        /\ ConnectionFound
        /\ run' = [run EXCEPT ![r].pc = "applying",
                              ![r].account = account,
                              ![r].plan = [i \in DOMAIN obs |->
                                 [run[r].plan[i] EXCEPT
                                    !.match = PriorMatch(run[r].plan[i], w, obs)]]]
        /\ UNCHANGED <<clock, bank, linked, account, accounts, rows, matches, made, last,
                       edit, history, budget>>

\* The transaction commits accounts, transactions, matches, the journal entry and
\* the completion event; the run goes on to its next chunk.
Commit(r) ==
    LET w == Head(run[r].todo)
        owner == ClaimAccount(run[r].account)
        next == IF Len(run[r].todo) = 1 THEN Idle
                ELSE [Idle EXCEPT !.pc = "planned", !.todo = Tail(run[r].todo)]
    IN  /\ run[r].pc = "applying"
        /\ account' = owner
        /\ accounts' = IF owner > accounts THEN owner ELSE accounts
        /\ rows' = RowsAfter(r, owner)
        /\ matches' = MatchesAfter(r)
        /\ made' = IF Creates(r) THEN made + NItems ELSE made
        /\ last' = [start |-> w.start, end |-> w.end, ok |-> TRUE]
        /\ run' = [q \in Runs |-> IF q = r THEN next
                                  ELSE [run[q] EXCEPT !.outrun = @ \/ run[q].pc \in
                                                         {"loaded", "applying"}]]
        /\ history' = [history EXCEPT
                !.notes = NotesAfter(r),
                !.covered = @ \cup (w.start .. (w.end - 1)),
                !.overlapped = @ \/ run[r].outrun]
        /\ UNCHANGED <<clock, bank, linked, edit, budget>>

\* A failed fetch, load or apply: whatever was written is rolled back, and a
\* failed entry is appended on its own, even for a connection that is gone.
Fail(r) ==
    /\ run[r].pc # "idle"
    /\ \/ AnEvent
       \/ run[r].pc = "loaded" /\ ~linked /\ UNCHANGED budget
    /\ last' = [start |-> Head(run[r].todo).start, end |-> Head(run[r].todo).end,
                ok |-> FALSE]
    /\ run' = [run EXCEPT ![r] = Idle]
    /\ UNCHANGED <<clock, bank, linked, account, accounts, rows, matches, made, edit,
                   history>>

\* The process dies, or the failed entry cannot be appended either.
Crash(r) ==
    /\ run[r].pc # "idle"
    /\ AnEvent
    /\ run' = [run EXCEPT ![r] = Idle]
    /\ UNCHANGED <<clock, bank, linked, account, accounts, rows, matches, made, last, edit,
                   history>>

-----------------------------------------------------------------------------
(* Users, the bank and the clock *)

\* UpdateTransaction and HideTransaction read the row ...
OpenEdit(t) ==
    /\ edit = None
    /\ AnEvent
    /\ edit' = [tx |-> t, row |-> rows[t]]
    /\ UNCHANGED <<clock, bank, linked, account, accounts, rows, matches, made, last, run,
                   history>>

Correction(new, original) == IF new = original THEN None ELSE new

\* ... and save it whole, with the fields the user changed.
SaveEdit(value, day, hidden) ==
    LET t == edit.tx
        row == [edit.row EXCEPT !.value = value, !.day = day, !.hidden = hidden]
    IN  /\ edit # None
        /\ \/ hidden = edit.row.hidden
           \/ hidden /\ value = edit.row.value /\ day = edit.row.day
        /\ rows' = [rows EXCEPT ![t] = SavedRow(rows[t], row)]
        /\ history' = [history EXCEPT !.notes[t] =
                [@ EXCEPT !.value = Correction(value, row.original.value),
                          !.day = Correction(day, row.original.day),
                          !.hidden = hidden, !.raced = FALSE]]
        /\ run' = [r \in Runs |-> [run[r] EXCEPT !.edited =
                      IF run[r].pc \in {"loaded", "applying"} THEN @ \cup {t} ELSE @]]
        /\ edit' = None
        /\ UNCHANGED <<clock, bank, linked, account, accounts, matches, made, last, budget>>

\* A transfer workflow updates the pair-owned columns only.
LinkPair(t) ==
    /\ rows[t].pair # "linked"
    /\ ~rows[t].hidden
    /\ AnEvent
    /\ rows' = [rows EXCEPT ![t].pair = "linked"]
    /\ UNCHANGED <<clock, bank, linked, account, accounts, matches, made, last, run, edit,
                   history>>

UnlinkPair(t) ==
    /\ rows[t].pair = "linked"
    /\ AnEvent
    /\ rows' = [rows EXCEPT ![t].pair = "excluded"]
    /\ UNCHANGED <<clock, bank, linked, account, accounts, matches, made, last, run, edit,
                   history>>

\* DeleteBankConnection: the connection, then what it owns; the ledger stays.
Disconnect ==
    /\ linked
    /\ AnEvent
    /\ linked' = FALSE
    /\ last' = None
    /\ matches' = <<>>
    /\ account' = 0
    /\ history' = [history EXCEPT !.late = \E r \in Runs : run[r].pc = "applying"]
    /\ UNCHANGED <<clock, bank, accounts, rows, made, run, edit>>

\* A transaction appears in the bank's reports, possibly long after its day.
Post(i) ==
    /\ ~bank[i].posted
    /\ AnEvent
    /\ bank' = [bank EXCEPT ![i].posted = TRUE]
    /\ UNCHANGED <<clock, linked, account, accounts, rows, matches, made, last, run, edit,
                   history>>

\* The bank corrects a transaction, or gives it another identifier.
Revise(i, report) ==
    /\ bank[i].posted
    /\ report # bank[i].report
    /\ AnEvent
    /\ bank' = [bank EXCEPT ![i].report = report]
    /\ history' = [history EXCEPT !.prints[i] = @ \cup {Fingerprint(report)}]
    /\ UNCHANGED <<clock, linked, account, accounts, rows, matches, made, last, run, edit>>

\* A request names both ends, one, or none; validateBankConnectionSyncWindows
\* only refuses zero times, and Determine an end that is not after the start.
Requests == {[start |-> None, end |-> None]} \cup ManualWindows

Next ==
    \/ \E r \in Runs : \/ \E request \in Requests, now \in clock .. MaxClock :
                             Start(r, request, now)
                       \/ Fetch(r) \/ Load(r) \/ BeginApply(r) \/ Commit(r)
                       \/ Fail(r) \/ Crash(r)
    \/ \E t \in DOMAIN rows : OpenEdit(t) \/ LinkPair(t) \/ UnlinkPair(t)
    \/ \E value \in Values, day \in ItemDays, hidden \in BOOLEAN :
          SaveEdit(value, day, hidden)
    \/ Disconnect
    \/ \E i \in Items : \/ Post(i)
                        \/ \E n \in {0, 1}, value \in Values, day \in ItemDays :
                              Revise(i, Report(i, n, value, day))

Spec == Init /\ [][Next]_vars

-----------------------------------------------------------------------------
(* Properties *)

\* Automatic runs leave no gap behind the checkpoint: as long as nobody asked for
\* a window with a start of its own, every day from the backfill to the point the
\* next plan starts from was in a window that was applied, whatever runs
\* overlapped, failed half way or died (Orchestrate, determineStart).
CheckpointCovered ==
    linked /\ last # None /\ ~history.manual =>
        history.backfill .. (CheckpointOf(last) - 1) \subseteq history.covered

Lookalike(i, j) == history.prints[i] \cap history.prints[j] # {}

\* Two of the bank's transactions share a row of the ledger only if they once had
\* the same fingerprint, in any interleaving (planTransactionAction); and unless a
\* run applied what another had outrun, one identifier of the bank is matched once,
\* so it never becomes ambiguous: a row the user dated out of the window is found
\* by the identifier (ListProviderTransactionIdentityMatches).
TransactionsToldApart ==
    /\ \A t \in DOMAIN rows : \A i \in history.notes[t].of :
          \/ history.notes[t].of = {i}
          \/ \E j \in history.notes[t].of \ {i} : Lookalike(i, j)
    /\ ~history.overlapped =>
          \A m, n \in DOMAIN matches : matches[m].pid = matches[n].pid => m = n

\* What the user corrected is still what the ledger shows.
Kept(t) ==
    LET note == history.notes[t]
    IN  /\ note.value # None => rows[t].value = note.value
        /\ note.day # None => rows[t].day = note.day
        /\ note.hidden => rows[t].hidden

\* A correction survives every later synchronization, a revision by the bank
\* included, unless it was saved while a run held its snapshot (MergeTransaction).
CorrectionsKept == \A t \in DOMAIN rows : ~history.notes[t].raced => Kept(t)

\* openspec/specs/finance-management/spec.md:71: later syncs MUST NOT silently
\* overwrite user corrections.  The code does when the correction is saved between
\* LoadExistingWindow and the commit of ApplySync.
CorrectionsNeverOverwritten == \A t \in DOMAIN rows : Kept(t)

\* However many first runs race, the provider account gets one finance account,
\* and every row is in it (claimObservedProviderAccount); and once the connection
\* is deleted no run leaves anything behind for it (ApplySync reads the connection
\* in its transaction), except one that was applying at that moment.
OneFinanceAccount ==
    ~history.late =>
        /\ accounts <= 1 /\ \A t \in DOMAIN rows : rows[t].account = 1
        /\ ~linked => matches = <<>> /\ account = 0

\* No synchronization and no save of a row read earlier moves the pair-owned
\* columns: only linking and unlinking do (saveTransactionModel).
PairStateOwned ==
    [][\A t \in DOMAIN rows :
          rows'[t].pair # rows[t].pair => LinkPair(t) \/ UnlinkPair(t)]_vars
=============================================================================
