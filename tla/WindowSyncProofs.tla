-------------------------- MODULE WindowSyncProofs --------------------------
(* Theorems about WindowSync, for any runs, transactions, contents, windows   *)
(* and numbers of events, and any clock.                                      *)
EXTENDS WindowSync, FiniteSetTheorems, SequenceTheorems, WellFoundedInduction, TLAPS

-----------------------------------------------------------------------------
(* The inductive invariant: types.                                           *)

Windows == [start : Int, end : Int]

Reports == [pid : Items \X {0, 1}, value : Values, day : ItemDays]

Content == [value : Values, day : ItemDays]

RowType ==
    [account : Nat, value : Values, day : ItemDays, hidden : BOOLEAN,
     original : Content, pair : {"none", "linked", "excluded"}]

MatchType == [pid : Items \X {0, 1}, fp : Values \X ItemDays, tx : Nat]

NoteType ==
    [of : SUBSET Items, value : Values \cup {None}, day : ItemDays \cup {None},
     hidden : BOOLEAN, raced : BOOLEAN]

WriteType ==
    [by : {"new", "id", "fp"}, obs : Reports, tx : Nat, row : RowType \cup {None},
     match : Nat]

\* What is known of some of the bank's transactions.
Partly(S) == UNION {[I -> S] : I \in SUBSET Items}

RunType ==
    [pc : {"idle", "planned", "fetched", "loaded", "applying"}, todo : Seq(Windows),
     obs : Partly(Reports), plan : Partly(WriteType), account : Nat,
     edited : SUBSET Nat, outrun : BOOLEAN]

HistoryType ==
    [notes : [DOMAIN rows -> NoteType], covered : SUBSET Int, backfill : Int,
     manual : BOOLEAN, overlapped : BOOLEAN, late : BOOLEAN,
     prints : [Items -> SUBSET (Values \X ItemDays)]]

SyncTypes ==
    /\ clock \in Nat
    /\ bank \in [Items -> [posted : BOOLEAN, report : Reports]]
    /\ linked \in BOOLEAN
    /\ accounts \in Nat /\ account \in 0 .. accounts
    /\ made \in Nat
    /\ rows \in [DOMAIN rows -> RowType] /\ DOMAIN rows \subseteq 1 .. made
    /\ matches \in [DOMAIN matches -> MatchType] /\ DOMAIN matches \subseteq 1 .. made
    /\ last # None => last \in [start : Int, end : Int, ok : BOOLEAN]
    /\ run \in [Runs -> RunType]
    /\ edit # None => edit \in [tx : DOMAIN rows, row : RowType]
    /\ history \in HistoryType

-----------------------------------------------------------------------------
(* The inductive invariant: what the runs and the ledger know of each other.  *)

\* The bank's transaction i, as it once was reported.
Known(i, o) == o.pid[1] = i /\ Fingerprint(o) \in history.prints[i]

BankKnown == \A i \in Items : Known(i, bank[i].report)

\* A run under way has windows to apply, each one where the one before it ends.
Contiguous(todo) ==
    /\ todo # <<>>
    /\ \A k \in 1 .. Len(todo) : todo[k].start < todo[k].end
    /\ \A k \in 1 .. Len(todo) - 1 : todo[k + 1].start = todo[k].end

TodoContiguous == \A r \in Runs : run[r].pc # "idle" => Contiguous(run[r].todo)

Decided(r) == run[r].pc \in {"loaded", "applying"}

\* A decision is about what was observed; one that merges has read the row it writes.
PlansDecided ==
    \A r \in Runs :
        /\ \A i \in DOMAIN run[r].obs : Known(i, run[r].obs[i])
        /\ ~Decided(r) => run[r].plan = <<>>
        /\ Decided(r) => DOMAIN run[r].plan = DOMAIN run[r].obs
        /\ \A i \in DOMAIN run[r].plan :
              /\ i \in DOMAIN run[r].obs /\ run[r].plan[i].obs = run[r].obs[i]
              /\ run[r].plan[i].match \in 0 .. made
              /\ run[r].plan[i].tx # 0 =>
                    /\ run[r].plan[i].tx \in DOMAIN rows
                    /\ run[r].plan[i].row \in RowType
                    /\ run[r].plan[i].row.account = rows[run[r].plan[i].tx].account
                    /\ run[r].plan[i].row.original.value = run[r].plan[i].obs.value
                    /\ run[r].plan[i].row.original.day = run[r].plan[i].obs.day

\* An edit under way has read the row it writes.
EditRead == edit # None => edit.row.account = rows[edit.tx].account

\* Every day before d is covered.
CoveredBefore(d) ==
    \A x \in Int : history.backfill <= x /\ x < d => x \in history.covered

ProgressCovered ==
    ~history.manual =>
        /\ linked /\ last # None => CoveredBefore(CheckpointOf(last))
        /\ \A r \in Runs : run[r].pc # "idle" => CoveredBefore(Head(run[r].todo).start)

\* As long as no run was applying when the connection was deleted, there is one
\* finance account, and nothing of a deleted connection.
AccountClaimed ==
    /\ linked => ~history.late
    /\ \A r \in Runs : run[r].account <= accounts
    /\ ~history.late =>
          /\ accounts <= 1 /\ \A t \in DOMAIN rows : rows[t].account = 1
          /\ linked => account = accounts
          /\ ~linked => /\ matches = <<>> /\ account = 0
                        /\ \A r \in Runs : run[r].pc # "applying"

\* What the user corrected differs from what the bank says, and is in a row that
\* keeps it.
Keeps(note, row) ==
    /\ note.value # None => row.value = note.value
    /\ note.day # None => row.day = note.day
    /\ note.hidden => row.hidden

Corrects(note, row) ==
    /\ note.value # None => row.original.value # note.value
    /\ note.day # None => row.original.day # note.day

CorrectionsInRows ==
    \A t \in DOMAIN rows : ~history.notes[t].raced =>
        Keeps(history.notes[t], rows[t]) /\ Corrects(history.notes[t], rows[t])

\* A merge keeps what was corrected before its run has read the row.
CorrectionsInPlans ==
    \A r \in Runs : \A i \in DOMAIN run[r].plan :
        LET t == run[r].plan[i].tx
        IN  t # 0 /\ t \notin run[r].edited /\ ~history.notes[t].raced =>
                Keeps(history.notes[t], run[r].plan[i].row)

\* A match belongs to a row that was written for its transaction.
MatchesKnown ==
    \A m \in DOMAIN matches :
        /\ matches[m].tx \in DOMAIN rows
        /\ matches[m].pid[1] \in history.notes[matches[m].tx].of
        /\ matches[m].fp \in history.prints[matches[m].pid[1]]

\* A merge writes a row of its transaction, or of one it once looked like.
MergesAlike ==
    \A r \in Runs : \A i \in DOMAIN run[r].plan :
        run[r].plan[i].tx # 0 =>
            \E j \in history.notes[run[r].plan[i].tx].of : j = i \/ Lookalike(i, j)

RowsApart ==
    \A t \in DOMAIN rows : \A i \in history.notes[t].of :
        \/ history.notes[t].of = {i}
        \/ \E j \in history.notes[t].of \ {i} : Lookalike(i, j)

\* An identifier of the bank is matched once.
MatchedOnce ==
    ~history.overlapped =>
        \A m, n \in DOMAIN matches : matches[m].pid = matches[n].pid => m = n

\* A run that nothing has outrun has found the match of every identifier it observed.
MatchFound ==
    ~history.overlapped =>
        \A r \in Runs : ~run[r].outrun =>
            \A i \in DOMAIN run[r].plan : \A m \in DOMAIN matches :
                matches[m].pid = run[r].plan[i].obs.pid =>
                    /\ run[r].plan[i].by = "id"
                    /\ run[r].plan[i].tx = matches[m].tx
                    /\ run[r].pc = "applying" => run[r].plan[i].match = m

SyncInv ==
    /\ SyncTypes
    /\ BankKnown
    /\ TodoContiguous
    /\ PlansDecided
    /\ EditRead
    /\ ProgressCovered
    /\ AccountClaimed
    /\ CorrectionsInRows
    /\ CorrectionsInPlans
    /\ MatchesKnown
    /\ MergesAlike
    /\ RowsApart
    /\ MatchedOnce
    /\ MatchFound

-----------------------------------------------------------------------------
(* Numbers, and the order of the bank's transactions.                        *)

\* A set of naturals has a least element.
LEMMA Least ==
    ASSUME NEW S \in SUBSET Nat, S # {}
    PROVE  \E n \in S : \A m \in S : n <= m
  <1> DEFINE Less == {p \in Nat \X Nat : p[1] < p[2]}
  <1>1. IsWellFoundedOn(Less, Nat)
    BY NatLessThanWellFounded, Zenon DEF OpToRel
  <1>2. \A x, y \in Nat : <<y, x>> \in Less <=> y < x
    OBVIOUS
  <1> HIDE DEF Less
  <1>3. PICK n \in S : \A m \in S : ~ (<<m, n>> \in Less)
    BY <1>1, WFMin
  <1>4. ASSUME NEW m \in S PROVE n <= m
    <2>1. ~ (<<m, n>> \in Less) /\ m \in Nat /\ n \in Nat
      BY <1>3
    <2>2. ~ (m < n)
      BY <2>1, <1>2
    <2> QED BY <2>1, <2>2
  <1> QED BY <1>4

\* Some transactions of the bank have a last one among them.
LEMMA LastOf ==
    ASSUME NEW is \in SUBSET Items, is # {}
    PROVE  Last(is) \in is /\ \A j \in is : j <= Last(is)
  <1>1. NItems \in Nat
    BY WindowSyncAssumption
  <1> DEFINE mirrored == {n \in Nat : NItems - n \in is}
  <1>2. mirrored # {}
    <2>1. PICK i \in is : TRUE
      OBVIOUS
    <2>2. NItems - i \in Nat /\ NItems - (NItems - i) = i
      BY <1>1 DEF Items
    <2> QED BY <2>1, <2>2
  <1>3. PICK n \in mirrored : \A m \in mirrored : n <= m
    BY <1>2, Least
  <1>4. ASSUME NEW j \in is PROVE j <= NItems - n
    <2>1. NItems - j \in Nat /\ NItems - (NItems - j) = j
      BY <1>1 DEF Items
    <2>2. n <= NItems - j
      BY <2>1, <1>3
    <2> QED BY <2>1, <2>2, <1>1 DEF Items
  <1>5. NItems - n \in is
    BY <1>3
  <1> QED BY <1>4, <1>5 DEF Last

\* The chunks of a window: contiguous, from its start.
LEMMA SplitContiguous ==
    ASSUME NEW w \in Windows, w.start < w.end
    PROVE  /\ Split(w) \in Seq(Windows)
           /\ Contiguous(Split(w))
           /\ Head(Split(w)).start = w.start
  <1> DEFINE n == (w.end - w.start + ChunkDays - 1) \div ChunkDays
             chunk(k) == Split(w)[k]
  <1>1. w.start \in Int /\ w.end \in Int /\ ChunkDays \in Nat /\ ChunkDays > 0
    BY WindowSyncAssumption DEF Windows
  <1>2. /\ n \in Nat /\ n >= 1
        /\ (n - 1) * ChunkDays < w.end - w.start
    BY <1>1
  <1>3. /\ DOMAIN Split(w) = 1 .. n
        /\ Split(w) = [k \in 1 .. n |-> Split(w)[k]]
        /\ \A k \in 1 .. n :
              /\ Split(w)[k].start = w.start + (k - 1) * ChunkDays
              /\ Split(w)[k].end = IF w.start + (k - 1) * ChunkDays + ChunkDays > w.end
                                  THEN w.end ELSE w.start + (k - 1) * ChunkDays + ChunkDays
              /\ Split(w)[k] \in Windows
    BY SMTT(60), <1>1, <1>2 DEF Split, Windows
  <1> HIDE DEF n
  <1>4. Split(w) \in Seq(Windows) /\ Len(Split(w)) = n
    <2>1. Split(w) \in [1 .. n -> Windows]
      BY <1>3
    <2>2. Split(w) \in Seq(Windows)
      BY <2>1, <1>2
    <2> QED BY <2>2, <1>2, <1>3, LenProperties
  <1>5. ASSUME NEW k \in 1 .. n
        PROVE  Split(w)[k].start < Split(w)[k].end
    <2>1. k \in Int /\ k <= n /\ n \in Int
      BY <1>2
    <2>2. PICK before \in Int : before = (k - 1) * ChunkDays
      BY <1>1, <2>1
    <2>3. before < w.end - w.start
      <3>1. before <= (n - 1) * ChunkDays /\ (n - 1) * ChunkDays \in Int
        BY <1>1, <2>1, <2>2
      <3> QED BY <1>1, <1>2, <2>2, <3>1
    <2>4. /\ Split(w)[k].start = w.start + before
          /\ Split(w)[k].end = IF w.start + before + ChunkDays > w.end
                               THEN w.end ELSE w.start + before + ChunkDays
      BY <1>3, <2>2
    <2> QED BY <1>1, <2>2, <2>3, <2>4
  <1>6. ASSUME NEW k \in 1 .. n - 1
        PROVE  Split(w)[k + 1].start = Split(w)[k].end
    <2>1. k \in Int /\ k <= n - 1 /\ n \in Int /\ k \in 1 .. n /\ k + 1 \in 1 .. n
          /\ (k + 1) - 1 = k
      BY <1>2
    <2>2. PICK before \in Int : before = (k - 1) * ChunkDays
      BY <1>1, <2>1
    <2>3. k * ChunkDays = before + ChunkDays
      BY <1>1, <2>1, <2>2
    <2>4. before + ChunkDays < w.end - w.start
      <3>1. k * ChunkDays <= (n - 1) * ChunkDays /\ (n - 1) * ChunkDays \in Int
        BY <1>1, <2>1
      <3> QED BY <1>1, <1>2, <2>2, <2>3, <3>1
    <2>5. Split(w)[k + 1].start = w.start + k * ChunkDays
      BY <1>3, <2>1
    <2>6. Split(w)[k].end = IF w.start + before + ChunkDays > w.end
                            THEN w.end ELSE w.start + before + ChunkDays
      BY <1>3, <2>1, <2>2
    <2> QED BY <1>1, <2>2, <2>3, <2>4, <2>5, <2>6
  <1>7. Split(w) # <<>> /\ Head(Split(w)).start = w.start
    BY <1>1, <1>2, <1>3, <1>4
  <1> QED BY <1>4, <1>5, <1>6, <1>7 DEF Contiguous

-----------------------------------------------------------------------------
(* Rows, decisions and writes.                                               *)

\* What is known of some of the bank's transactions is a function on them.
LEMMA PartlyFunction ==
    ASSUME NEW S
    PROVE  /\ <<>> \in Partly(S) /\ DOMAIN <<>> = {}
           /\ \A f \in Partly(S) : /\ DOMAIN f \subseteq Items
                                   /\ f = [i \in DOMAIN f |-> f[i]]
                                   /\ \A i \in DOMAIN f : f[i] \in S
           /\ \A I \in SUBSET Items : \A f \in [I -> S] : f \in Partly(S)
  <1>1. <<>> \in [{} -> S] /\ DOMAIN <<>> = {}
    OBVIOUS
  <1> QED BY <1>1 DEF Partly

\* A run at rest.
LEMMA IdleRun == Idle \in RunType /\ Idle.pc = "idle" /\ Idle.plan = <<>> /\ Idle.obs = <<>>
                 /\ Idle.account = 0 /\ ~Idle.outrun
  <1>1. <<>> \in Seq(Windows)
    OBVIOUS
  <1> QED BY <1>1, PartlyFunction DEF Idle, RunType

\* A merge follows the bank where the user has corrected nothing.
LEMMA MergeKeeps ==
    ASSUME NEW row \in RowType, NEW o \in Reports
    PROVE  /\ Merge(row, o) \in RowType
           /\ Merge(row, o).account = row.account
           /\ Merge(row, o).original.value = o.value
           /\ Merge(row, o).original.day = o.day
           /\ \A note \in NoteType :
                 Keeps(note, row) /\ Corrects(note, row) => Keeps(note, Merge(row, o))
  <1>1. o.value \in Values /\ o.day \in ItemDays
    BY DEF Reports
  <1>2. /\ row.value \in Values /\ row.day \in ItemDays /\ row.original \in Content
        /\ Refreshed(row.value, row.original.value, o.value) \in Values
        /\ Refreshed(row.day, row.original.day, o.day) \in ItemDays
    BY <1>1 DEF RowType, Refreshed
  <1> DEFINE value == Refreshed(row.value, row.original.value, o.value)
             day == Refreshed(row.day, row.original.day, o.day)
             merged == [row EXCEPT !.value = value, !.day = day,
                                   !.original = [value |-> o.value, day |-> o.day]]
  <1>3. [value |-> o.value, day |-> o.day] \in Content
    BY <1>1 DEF Content
  <1>4. Merge(row, o) = merged
    BY DEF Merge
  <1> HIDE DEF value, day
  <1>5. /\ merged \in RowType /\ merged.account = row.account /\ merged.value = value
        /\ merged.day = day /\ merged.hidden = row.hidden
        /\ merged.original = [value |-> o.value, day |-> o.day]
    BY <1>2, <1>3 DEF RowType, value, day
  <1>6. ASSUME NEW note \in NoteType, Keeps(note, row), Corrects(note, row)
        PROVE  Keeps(note, merged)
    BY <1>5, <1>6 DEF Keeps, Corrects, Refreshed, value, day
  <1> QED BY <1>4, <1>5, <1>6

\* A save writes every column but the pair's.
LEMMA SavedRowKeeps ==
    ASSUME NEW stored \in RowType, NEW row \in RowType
    PROVE  /\ SavedRow(stored, row) \in RowType
           /\ SavedRow(stored, row).pair = stored.pair
           /\ SavedRow(stored, row).account = row.account
           /\ SavedRow(stored, row).value = row.value
           /\ SavedRow(stored, row).day = row.day
           /\ SavedRow(stored, row).hidden = row.hidden
           /\ SavedRow(stored, row).original = row.original
  BY DEF SavedRow, RowType

\* A row the bank's transaction makes.
LEMMA NewRowType ==
    ASSUME NEW o \in Reports, NEW owner \in Nat
    PROVE  /\ NewRow(o, owner) \in RowType
           /\ NewRow(o, owner).account = owner
  BY DEF NewRow, RowType, Reports, Content

-----------------------------------------------------------------------------
(* Decisions.                                                                *)

\* The identifier of a bank transaction is looked up in the whole connection.
LEMMA IdentifiersEverywhere ==
    ASSUME NEW w, NEW obs, NEW i \in DOMAIN obs
    PROVE  ByProviderID(obs[i], WindowMatches(w) \cup IdentityMatches(obs)) =
               {m \in DOMAIN matches : matches[m].pid = obs[i].pid}
  BY DEF ByProviderID, WindowMatches, IdentityMatches

\* A set of one element has no other, and it is the one chosen.
LEMMA UniqueOf ==
    ASSUME NEW ms, IsFiniteSet(ms)
    PROVE  /\ Cardinality(ms) = 1 => ms = {Unique(ms)}
           /\ ms # {} /\ (\A m, n \in ms : m = n) => Cardinality(ms) = 1
  <1>1. ASSUME Cardinality(ms) = 1 PROVE ms = {Unique(ms)}
    <2>1. PICK m : ms = {m}
      BY <1>1, FS_Singleton
    <2> QED BY <2>1 DEF Unique
  <1>2. ASSUME ms # {}, \A m, n \in ms : m = n PROVE Cardinality(ms) = 1
    <2>1. PICK m \in ms : ms = {m}
      BY <1>2
    <2> QED BY <2>1, FS_Singleton
  <1> QED BY <1>1, <1>2

\* The matches the ledger holds are finitely many.
LEMMA MatchesFinite ==
    ASSUME SyncTypes, NEW ms \in SUBSET DOMAIN matches
    PROVE  IsFiniteSet(ms)
  <1>1. IsFiniteSet(1 .. made)
    <2>1. made \in Int
      BY DEF SyncTypes
    <2> QED BY <2>1, FS_Interval
  <1>2. ms \subseteq 1 .. made
    BY DEF SyncTypes
  <1> QED BY <1>1, <1>2, FS_Subset

\* What planTransactionAction decides: a merge writes a row of the transaction, or
\* of one it once looked like, and an identifier matched once is found.
LEMMA PlanDecides ==
    ASSUME SyncTypes, MatchesKnown, MatchedOnce, NEW w, NEW obs \in Partly(Reports),
           NEW i \in DOMAIN obs, Known(i, obs[i])
    PROVE  LET p == Plan(obs[i], w, obs)
           IN  /\ p \in WriteType /\ p.obs = obs[i] /\ p.match = 0
               /\ p.tx # 0 =>
                     /\ p.tx \in DOMAIN rows /\ p.row = Merge(rows[p.tx], obs[i])
                     /\ \E j \in history.notes[p.tx].of : j = i \/ Lookalike(i, j)
               /\ ~history.overlapped =>
                     \A m \in DOMAIN matches :
                         matches[m].pid = obs[i].pid => p.by = "id" /\ p.tx = matches[m].tx
  <1> DEFINE p == Plan(obs[i], w, obs)
             strong == {m \in DOMAIN matches : matches[m].pid = obs[i].pid}
             alike == ByFingerprint(obs[i], WindowMatches(w))
  <1>1. p = IF Cardinality(strong) = 1 THEN Update(obs[i], "id", Unique(strong))
            ELSE IF strong # {} THEN Create(obs[i])
            ELSE IF Cardinality(alike) = 1 THEN Update(obs[i], "fp", Unique(alike))
            ELSE Create(obs[i])
    BY ZenonT(60), IdentifiersEverywhere DEF Plan
  <1>2. obs[i] \in Reports /\ i \in Items
    BY PartlyFunction
  <1>3. alike \subseteq DOMAIN matches
    BY DEF ByFingerprint, WindowMatches
  <1>4. IsFiniteSet(strong) /\ IsFiniteSet(alike)
    BY <1>3, MatchesFinite
  <1>5. ASSUME NEW m \in DOMAIN matches, NEW by \in {"id", "fp"}
        PROVE  LET u == Update(obs[i], by, m)
               IN  /\ u \in WriteType /\ u.obs = obs[i] /\ u.match = 0 /\ u.by = by
                   /\ u.tx = matches[m].tx
                   /\ u.tx \in DOMAIN rows /\ u.row = Merge(rows[u.tx], obs[i])
    <2>1. matches[m].tx \in DOMAIN rows /\ matches[m].tx \in Nat
      BY DEF MatchesKnown, SyncTypes, MatchType
    <2>2. rows[matches[m].tx] \in RowType
      BY <2>1 DEF SyncTypes
    <2>3. Merge(rows[matches[m].tx], obs[i]) \in RowType
      BY <1>2, <2>2, MergeKeeps
    <2> QED BY <1>2, <2>1, <2>3 DEF Update, WriteType
  <1>6. LET c == Create(obs[i])
        IN  c \in WriteType /\ c.obs = obs[i] /\ c.match = 0 /\ c.tx = 0
    BY <1>2 DEF Create, WriteType
  <1>7. CASE Cardinality(strong) = 1
    <2>1. strong = {Unique(strong)} /\ Unique(strong) \in strong
      BY <1>4, <1>7, UniqueOf
    <2> DEFINE m == Unique(strong)
    <2>2. p = Update(obs[i], "id", m) /\ m \in DOMAIN matches /\ matches[m].pid = obs[i].pid
      BY <1>1, <1>7, <2>1
    <2> HIDE DEF m
    <2>3. matches[m].pid[1] = i /\ i \in history.notes[matches[m].tx].of
      BY <2>2 DEF MatchesKnown, Known
    <2>4. \A n \in DOMAIN matches : matches[n].pid = obs[i].pid => n = m
      BY <2>1 DEF m
    <2> QED BY <1>5, <2>2, <2>3, <2>4
  <1>8. CASE Cardinality(strong) # 1 /\ strong # {}
    <2>1. p = Create(obs[i])
      BY <1>1, <1>8
    <2>2. history.overlapped
      BY <1>4, <1>8, UniqueOf DEF MatchedOnce
    <2> QED BY <1>6, <2>1, <2>2
  <1>9. CASE strong = {} /\ Cardinality(alike) = 1 /\ Cardinality(strong) # 1
    <2>1. Unique(alike) \in alike
      BY <1>4, <1>9, UniqueOf
    <2> DEFINE m == Unique(alike)
    <2>2. p = Update(obs[i], "fp", m) /\ m \in DOMAIN matches
          /\ matches[m].fp = Fingerprint(obs[i])
      BY <1>1, <1>3, <1>9, <2>1 DEF ByFingerprint
    <2> HIDE DEF m
    <2>3. /\ matches[m].pid[1] \in history.notes[matches[m].tx].of
          /\ Lookalike(i, matches[m].pid[1])
      BY <2>2 DEF MatchesKnown, Known, Lookalike
    <2>4. \A n \in DOMAIN matches : matches[n].pid # obs[i].pid
      BY <1>9
    <2> QED BY <1>5, <2>2, <2>3, <2>4
  <1>10. CASE strong = {} /\ Cardinality(strong) # 1 /\ Cardinality(alike) # 1
    <2>1. p = Create(obs[i])
      BY <1>1, <1>10
    <2>2. \A n \in DOMAIN matches : matches[n].pid # obs[i].pid
      BY <1>10
    <2> QED BY <1>6, <2>1, <2>2
  <1> QED BY <1>7, <1>8, <1>9, <1>10

\* The match a write reuses is one of the ledger's; where a transaction is matched
\* once and the run has found it, it is that one.
LEMMA PriorMatchFound ==
    ASSUME SyncTypes, MatchedOnce, NEW write, NEW w, NEW obs, NEW i \in DOMAIN obs,
           write.obs = obs[i]
    PROVE  /\ PriorMatch(write, w, obs) \in 0 .. made
           /\ ~history.overlapped /\ write.by = "id" /\ write.tx # 0 =>
                 \A m \in DOMAIN matches :
                     matches[m].pid = obs[i].pid /\ matches[m].tx = write.tx =>
                         PriorMatch(write, w, obs) = m
  <1> DEFINE known == WindowMatches(w) \cup IdentityMatches(obs)
             mine == {m \in known : /\ matches[m].tx = write.tx
                                    /\ IF write.by = "id" THEN matches[m].pid = write.obs.pid
                                       ELSE matches[m].fp = Fingerprint(write.obs)}
  <1>1. PriorMatch(write, w, obs) =
            IF write.tx # 0 /\ Cardinality(mine) = 1 THEN Unique(mine) ELSE 0
    BY DEF PriorMatch
  <1>2. known \subseteq DOMAIN matches
    BY DEF WindowMatches, IdentityMatches
  <1>3. mine \subseteq DOMAIN matches /\ IsFiniteSet(mine)
    BY <1>2, MatchesFinite
  <1>4. \A m \in DOMAIN matches :
            matches[m].pid = obs[i].pid /\ matches[m].tx = write.tx /\ write.by = "id" =>
                m \in mine
    BY DEF IdentityMatches
  <1>5. write.by = "id" => \A m \in mine : matches[m].pid = obs[i].pid
    OBVIOUS
  <1> HIDE DEF mine
  <1>6. Cardinality(mine) = 1 => mine = {Unique(mine)}
    BY <1>3, UniqueOf
  <1>7. PriorMatch(write, w, obs) \in 0 .. made
    <2>1. Cardinality(mine) = 1 => Unique(mine) \in 1 .. made
      BY <1>3, <1>6 DEF SyncTypes
    <2>2. made \in Nat
      BY DEF SyncTypes
    <2> QED BY <1>1, <2>1, <2>2
  <1>8. ASSUME ~history.overlapped, write.by = "id", write.tx # 0, NEW m \in DOMAIN matches,
               matches[m].pid = obs[i].pid, matches[m].tx = write.tx
        PROVE  PriorMatch(write, w, obs) = m
    <2>1. m \in mine
      BY <1>4, <1>8
    <2>2. \A n \in mine : n = m
      BY <1>3, <1>5, <1>8 DEF MatchedOnce
    <2>3. Cardinality(mine) = 1
      BY <1>3, <2>1, <2>2, UniqueOf
    <2> QED BY <1>1, <1>6, <1>8, <2>1, <2>3
  <1> QED BY <1>7, <1>8

-----------------------------------------------------------------------------
(* What a commit writes.                                                     *)

\* A row of the ledger is written by the merges that read it, a new row once.
LEMMA RowsWritten ==
    ASSUME SyncTypes, PlansDecided, NEW r \in Runs
    PROVE  /\ \A t \in DOMAIN rows : \A i \in RowWrites(r, t) : run[r].plan[i].tx = t
           /\ \A t : t \notin DOMAIN rows =>
                 \A i \in RowWrites(r, t) :
                     run[r].plan[i].tx = 0 /\ t = made + i /\ RowWrites(r, t) = {i}
           /\ \A t : RowWrites(r, t) \subseteq DOMAIN run[r].plan
           /\ DOMAIN run[r].plan \subseteq Items
  <1>1. DOMAIN run[r].plan \subseteq Items
    BY PartlyFunction DEF SyncTypes, RunType
  <1>2. \A t \in DOMAIN rows : t \in Nat /\ t > 0 /\ t <= made
    BY DEF SyncTypes
  <1>3. made \in Nat /\ \A i \in DOMAIN run[r].plan : i \in Nat /\ i > 0
    BY <1>1 DEF SyncTypes, Items
  <1>4. \A i \in DOMAIN run[r].plan :
            run[r].plan[i].tx # 0 => run[r].plan[i].tx \in DOMAIN rows
    BY DEF PlansDecided
  <1>5. ASSUME NEW t \in DOMAIN rows, NEW i \in RowWrites(r, t) PROVE run[r].plan[i].tx = t
    BY <1>2, <1>3, <1>5 DEF RowWrites, RowOf
  <1>6. ASSUME NEW t, t \notin DOMAIN rows, NEW i \in RowWrites(r, t)
        PROVE  run[r].plan[i].tx = 0 /\ t = made + i
    BY <1>4, <1>6 DEF RowWrites, RowOf
  <1>7. ASSUME NEW t, t \notin DOMAIN rows, NEW i \in RowWrites(r, t),
               NEW j \in RowWrites(r, t)
        PROVE  i = j
    <2>1. t = made + i /\ t = made + j /\ i \in Nat /\ j \in Nat
      BY <1>3, <1>6, <1>7 DEF RowWrites
    <2> QED BY <1>3, <2>1
  <1>8. \A t : RowWrites(r, t) \subseteq DOMAIN run[r].plan
    BY DEF RowWrites
  <1> QED BY <1>1, <1>5, <1>6, <1>7, <1>8

\* What a commit leaves in a row: the last merge, or the new row, or what there was.
LEMMA RowsStored ==
    ASSUME SyncTypes, PlansDecided, NEW r \in Runs, NEW owner \in Nat,
           NEW t \in DOMAIN RowsAfter(r, owner)
    PROVE  \/ /\ t \in DOMAIN rows /\ RowWrites(r, t) = {}
              /\ RowsAfter(r, owner)[t] = rows[t]
           \/ /\ t \in DOMAIN rows
              /\ \E i \in RowWrites(r, t) :
                    /\ i \in DOMAIN run[r].plan /\ run[r].plan[i].tx = t
                    /\ \A j \in RowWrites(r, t) : j <= i
                    /\ RowsAfter(r, owner)[t] = SavedRow(rows[t], run[r].plan[i].row)
           \/ /\ t \notin DOMAIN rows
              /\ \E i \in DOMAIN run[r].plan :
                    /\ RowWrites(r, t) = {i} /\ t = made + i /\ run[r].plan[i].tx = 0
                    /\ RowsAfter(r, owner)[t] = NewRow(run[r].plan[i].obs, owner)
  <1> DEFINE is == RowWrites(r, t)
  <1>1. is \in SUBSET Items /\ is \subseteq DOMAIN run[r].plan
    BY RowsWritten
  <1>2. is # {} => Last(is) \in is /\ \A j \in is : j <= Last(is)
    BY <1>1, LastOf
  <1>3. RowsAfter(r, owner)[t] =
            IF is = {} THEN rows[t] ELSE WrittenRow(run[r].plan[Last(is)], t, owner)
    BY DEF RowsAfter
  <1>4. CASE is = {}
    <2>1. t \in DOMAIN rows
      BY <1>4 DEF RowsAfter, RowWrites
    <2> QED BY <1>3, <1>4, <2>1
  <1>5. CASE is # {} /\ t \in DOMAIN rows
    <2>1. run[r].plan[Last(is)].tx = t /\ t # 0
      BY <1>2, <1>5, RowsWritten DEF SyncTypes
    <2>2. RowsAfter(r, owner)[t] = SavedRow(rows[t], run[r].plan[Last(is)].row)
      BY <1>3, <1>5, <2>1 DEF WrittenRow
    <2> HIDE DEF is
    <2>3. Last(is) \in is /\ Last(is) \in DOMAIN run[r].plan
          /\ \A j \in is : j <= Last(is)
      BY <1>1, <1>2, <1>5
    <2> QED BY <1>5, <2>1, <2>2, <2>3 DEF is
  <1>6. CASE is # {} /\ t \notin DOMAIN rows
    <2>1. /\ run[r].plan[Last(is)].tx = 0 /\ t = made + Last(is)
          /\ RowWrites(r, t) = {Last(is)}
      BY <1>2, <1>6, RowsWritten
    <2>2. RowsAfter(r, owner)[t] = NewRow(run[r].plan[Last(is)].obs, owner)
      BY <1>3, <1>6, <2>1 DEF WrittenRow
    <2> HIDE DEF is
    <2>3. Last(is) \in DOMAIN run[r].plan
      BY <1>1, <1>2, <1>6
    <2> QED BY <1>6, <2>1, <2>2, <2>3
  <1> QED BY <1>4, <1>5, <1>6

\* What a commit leaves in a match: the last write of it, or what there was.
LEMMA MatchesStored ==
    ASSUME SyncTypes, PlansDecided, NEW r \in Runs, NEW m \in DOMAIN MatchesAfter(r)
    PROVE  \/ /\ m \in DOMAIN matches /\ MatchWrites(r, m) = {}
              /\ MatchesAfter(r)[m] = matches[m]
           \/ \E i \in DOMAIN run[r].plan :
                 /\ MatchOf(run[r].plan[i], i) = m
                 /\ MatchesAfter(r)[m] = WrittenMatch(run[r].plan[i], i)
  <1> DEFINE is == MatchWrites(r, m)
  <1>1. is \subseteq DOMAIN run[r].plan /\ is \in SUBSET Items
    BY RowsWritten DEF MatchWrites
  <1>2. is # {} => Last(is) \in is
    BY <1>1, LastOf
  <1>3. MatchesAfter(r)[m] =
            IF is = {} THEN matches[m] ELSE WrittenMatch(run[r].plan[Last(is)], Last(is))
    BY DEF MatchesAfter
  <1>4. CASE is = {}
    <2>1. m \in DOMAIN matches
      BY <1>4 DEF MatchesAfter, MatchWrites
    <2> QED BY <1>3, <1>4, <2>1
  <1>5. CASE is # {}
    <2>1. Last(is) \in DOMAIN run[r].plan /\ MatchOf(run[r].plan[Last(is)], Last(is)) = m
      BY <1>2, <1>5 DEF MatchWrites
    <2> QED BY <1>3, <1>5, <2>1
  <1> QED BY <1>4, <1>5

\* What a commit leaves in a note: a correction the bank agrees with is dropped, and
\* the row is noted for the transactions it was written for.
LEMMA NotesStored ==
    ASSUME SyncTypes, PlansDecided, NEW r \in Runs, NEW t \in DOMAIN NotesAfter(r)
    PROVE  LET note == IF t \in DOMAIN rows THEN history.notes[t] ELSE NoNote
               new == NotesAfter(r)[t]
           IN  /\ new \in NoteType
               /\ new.of = note.of \cup RowWrites(r, t)
               /\ new.value # None =>
                     /\ new.value = note.value
                     /\ \A i \in RowWrites(r, t) : run[r].plan[i].obs.value # note.value
               /\ new.day # None =>
                     /\ new.day = note.day
                     /\ \A i \in RowWrites(r, t) : run[r].plan[i].obs.day # note.day
               /\ new.hidden = note.hidden
               /\ new.raced = (note.raced \/ (t \in run[r].edited /\ RowWrites(r, t) # {}))
  <1> DEFINE note == IF t \in DOMAIN rows THEN history.notes[t] ELSE NoNote
             is == RowWrites(r, t)
             written == {run[r].plan[i].obs : i \in is}
             edited == t \in run[r].edited /\ is # {}
             new == NotesAfter(r)[t]
  <1>1. note \in NoteType
    <2>1. NoNote \in NoteType
      BY DEF NoNote, NoteType
    <2>2. t \in DOMAIN rows => history.notes[t] \in NoteType
      BY DEF SyncTypes, HistoryType
    <2> QED BY <2>1, <2>2
  <1>2. new = Noted(note, written, edited)
    BY DEF NotesAfter
  <1>3. /\ is \subseteq DOMAIN run[r].plan /\ DOMAIN run[r].plan \subseteq Items
        /\ \A i \in is : run[r].plan[i].obs.pid[1] = i
    <2>1. is \subseteq DOMAIN run[r].plan /\ DOMAIN run[r].plan \subseteq Items
      BY RowsWritten
    <2>2. \A i \in DOMAIN run[r].plan : run[r].plan[i].obs.pid[1] = i
      BY DEF PlansDecided, Known
    <2> QED BY <2>1, <2>2
  <1> HIDE DEF note, is
  <1>4. {o.pid[1] : o \in written} = is
    BY <1>3
  <1> DEFINE values == {o.value : o \in written}
             days == {o.day : o \in written}
             value == IF note.value \in values THEN None ELSE note.value
             day == IF note.day \in days THEN None ELSE note.day
  <1>5. /\ \A i \in is : run[r].plan[i].obs.value \in values
        /\ \A i \in is : run[r].plan[i].obs.day \in days
    OBVIOUS
  <1>6. new = [note EXCEPT !.of = @ \cup is, !.value = value, !.day = day,
                           !.raced = @ \/ edited]
    BY <1>2, <1>4 DEF Noted
  <1> HIDE DEF values, days, edited
  <1>7. value \in Values \cup {None} /\ day \in ItemDays \cup {None} /\ is \in SUBSET Items
        /\ edited \in BOOLEAN
    BY <1>1, <1>3 DEF NoteType, edited
  <1> HIDE DEF value, day, new
  <1>8. /\ new \in NoteType /\ new.of = note.of \cup is /\ new.value = value /\ new.day = day
        /\ new.hidden = note.hidden /\ new.raced = (note.raced \/ edited)
    BY <1>1, <1>6, <1>7 DEF NoteType
  <1>9. /\ value # None => value = note.value /\ note.value \notin values
        /\ day # None => day = note.day /\ note.day \notin days
    BY DEF value, day
  <1> USE DEF new, note, is, edited
  <1> QED BY <1>5, <1>8, <1>9

\* A commit's rows, matches and notes have their types, and identifiers of their own.
LEMMA StoredTypes ==
    ASSUME SyncTypes, PlansDecided, NEW r \in Runs, NEW owner \in Nat, NEW top,
           top = IF Creates(r) THEN made + NItems ELSE made
    PROVE  /\ top \in Nat /\ made <= top
           /\ DOMAIN rows \subseteq DOMAIN RowsAfter(r, owner)
           /\ DOMAIN RowsAfter(r, owner) \subseteq 1 .. top
           /\ DOMAIN MatchesAfter(r) \subseteq 1 .. top
           /\ DOMAIN NotesAfter(r) = DOMAIN RowsAfter(r, owner)
           /\ RowsAfter(r, owner) \in [DOMAIN RowsAfter(r, owner) -> RowType]
           /\ MatchesAfter(r) \in [DOMAIN MatchesAfter(r) -> MatchType]
           /\ NotesAfter(r) \in [DOMAIN NotesAfter(r) -> NoteType]
           /\ \A i \in DOMAIN run[r].plan :
                 /\ RowOf(run[r].plan[i], i) \in DOMAIN RowsAfter(r, owner)
                 /\ i \in RowWrites(r, RowOf(run[r].plan[i], i))
  <1> DEFINE plan == run[r].plan
  <1>1. /\ NItems \in Nat /\ made \in Nat /\ top \in Nat /\ made <= top
        /\ \A i \in DOMAIN plan : i \in 1 .. NItems
    BY SMTT(60), RowsWritten, WindowSyncAssumption DEF SyncTypes, Items
  <1>2. \A i \in DOMAIN plan :
            plan[i].tx = 0 \/ plan[i].match = 0 => top = made + NItems
    BY DEF Creates
  <1>3. ASSUME NEW i \in DOMAIN plan
        PROVE  RowOf(plan[i], i) \in 1 .. top /\ MatchOf(plan[i], i) \in 1 .. top
    <2>1. /\ plan[i].match \in 0 .. made
          /\ plan[i].tx # 0 => plan[i].tx \in 1 .. made
      BY DEF PlansDecided, SyncTypes
    <2> QED BY <1>1, <1>2, <2>1 DEF RowOf, MatchOf
  <1>4. DOMAIN rows \subseteq 1 .. made /\ DOMAIN matches \subseteq 1 .. made
    BY DEF SyncTypes
  <1>5. /\ DOMAIN rows \subseteq DOMAIN RowsAfter(r, owner)
        /\ DOMAIN RowsAfter(r, owner) \subseteq 1 .. top
    BY <1>1, <1>3, <1>4 DEF RowsAfter
  <1>6. DOMAIN MatchesAfter(r) \subseteq 1 .. top
    BY <1>1, <1>3, <1>4 DEF MatchesAfter
  <1>7. DOMAIN NotesAfter(r) = DOMAIN RowsAfter(r, owner)
    BY DEF RowsAfter, NotesAfter
  <1>8. \A i \in DOMAIN plan :
            /\ plan[i].obs \in Reports
            /\ i \in Items /\ Known(i, plan[i].obs)
            /\ plan[i].tx # 0 => plan[i].row \in RowType
    BY PartlyFunction DEF SyncTypes, RunType, PlansDecided
  <1>9. ASSUME NEW t \in DOMAIN RowsAfter(r, owner)
        PROVE  RowsAfter(r, owner)[t] \in RowType
    <2>1. t \in DOMAIN rows => rows[t] \in RowType /\ t # 0
      BY DEF SyncTypes
    <2>2. \A i \in DOMAIN plan : plan[i].tx = t /\ t \in DOMAIN rows =>
              SavedRow(rows[t], plan[i].row) \in RowType
      BY <1>8, <2>1, SavedRowKeeps
    <2>3. \A i \in DOMAIN plan : NewRow(plan[i].obs, owner) \in RowType
      BY <1>8, NewRowType
    <2> QED BY <2>1, <2>2, <2>3, RowsStored
  <1>10. ASSUME NEW m \in DOMAIN MatchesAfter(r)
         PROVE  MatchesAfter(r)[m] \in MatchType
    <2>1. m \in DOMAIN matches => matches[m] \in MatchType
      BY DEF SyncTypes
    <2>2. ASSUME NEW i \in DOMAIN plan PROVE WrittenMatch(plan[i], i) \in MatchType
      <3>1. RowOf(plan[i], i) \in Nat
        BY <1>1, <1>3
      <3>2. Fingerprint(plan[i].obs) \in Values \X ItemDays
            /\ plan[i].obs.pid \in Items \X {0, 1}
        BY <1>8 DEF Fingerprint, Reports
      <3> QED BY <3>1, <3>2 DEF WrittenMatch, MatchType
    <2> QED BY <2>1, <2>2, MatchesStored
  <1>11. \A t \in DOMAIN NotesAfter(r) : NotesAfter(r)[t] \in NoteType
    BY NotesStored
  <1>12. /\ RowsAfter(r, owner) \in [DOMAIN RowsAfter(r, owner) -> RowType]
         /\ MatchesAfter(r) \in [DOMAIN MatchesAfter(r) -> MatchType]
         /\ NotesAfter(r) \in [DOMAIN NotesAfter(r) -> NoteType]
    <2>1. /\ RowsAfter(r, owner) =
                 [t \in DOMAIN RowsAfter(r, owner) |-> RowsAfter(r, owner)[t]]
          /\ MatchesAfter(r) = [m \in DOMAIN MatchesAfter(r) |-> MatchesAfter(r)[m]]
          /\ NotesAfter(r) = [t \in DOMAIN NotesAfter(r) |-> NotesAfter(r)[t]]
      BY DEF RowsAfter, MatchesAfter, NotesAfter
    <2> QED BY <1>9, <1>10, <1>11, <2>1
  <1>13. \A i \in DOMAIN plan :
             /\ RowOf(plan[i], i) \in DOMAIN RowsAfter(r, owner)
             /\ i \in RowWrites(r, RowOf(plan[i], i))
    BY DEF RowsAfter, RowWrites
  <1> QED BY <1>1, <1>5, <1>6, <1>7, <1>12, <1>13

-----------------------------------------------------------------------------
(* Commit preserves the invariant.                                           *)

\* The chunks ahead of a run: the first one, and the others.
LEMMA ChunksAhead ==
    ASSUME NEW todo \in Seq(Windows), Contiguous(todo)
    PROVE  /\ todo # <<>> /\ Head(todo) \in Windows /\ Head(todo).start < Head(todo).end
           /\ Len(todo) # 1 =>
                 /\ Tail(todo) \in Seq(Windows) /\ Contiguous(Tail(todo))
                 /\ Head(Tail(todo)).start = Head(todo).end
  <1> DEFINE rest == Tail(todo)
             n == Len(todo)
  <1>1. /\ todo # <<>> /\ n \in Nat \ {0}
        /\ \A k \in 1 .. n : todo[k] \in Windows /\ todo[k].start < todo[k].end
        /\ \A k \in 1 .. n - 1 : todo[k + 1].start = todo[k].end
        /\ Head(todo) = todo[1]
    BY ElementOfSeq, EmptySeq DEF Contiguous
  <1>2. /\ rest \in Seq(Windows) /\ Len(rest) = n - 1 /\ Len(rest) \in Nat
        /\ \A k \in 1 .. Len(rest) : rest[k] = todo[k + 1]
        /\ Head(rest) = rest[1]
    <2>1. /\ rest \in Seq(Windows) /\ Len(rest) = n - 1
          /\ \A k \in 1 .. Len(rest) : rest[k] = todo[k + 1]
      BY <1>1, HeadTailProperties
    <2>2. Len(rest) \in Nat
      BY <2>1, LenProperties
    <2>3. Head(rest) = rest[1]
      <3> HIDE DEF rest
      <3> QED OBVIOUS
    <2> QED BY <2>1, <2>2, <2>3
  <1>3. Len(<<>>) = 0
    OBVIOUS
  <1> HIDE DEF rest, n
  <1>4. ASSUME n # 1
        PROVE  /\ rest # <<>> /\ Head(rest).start = Head(todo).end
               /\ \A k \in 1 .. Len(rest) : rest[k].start < rest[k].end
               /\ \A k \in 1 .. Len(rest) - 1 : rest[k + 1].start = rest[k].end
    <2> DEFINE l == Len(rest)
    <2>1. l \in Nat /\ l >= 1 /\ n = l + 1
      BY <1>1, <1>2, <1>4
    <2>2. rest # <<>>
      BY <1>3, <2>1
    <2> HIDE DEF l
    <2>3. \A k \in 1 .. l : rest[k] = todo[k + 1]
      BY <1>2 DEF l
    <2>4. ASSUME NEW k \in 1 .. l PROVE rest[k].start < rest[k].end
      BY <1>1, <2>1, <2>3
    <2>5. ASSUME NEW k \in 1 .. l - 1 PROVE rest[k + 1].start = rest[k].end
      <3>1. k \in 1 .. l /\ k + 1 \in 1 .. l /\ k + 1 \in 1 .. n - 1
        BY <2>1
      <3>2. rest[k] = todo[k + 1] /\ rest[k + 1] = todo[(k + 1) + 1]
        BY <2>3, <3>1
      <3> QED BY <1>1, <3>1, <3>2
    <2>6. Head(rest).start = Head(todo).end
      BY <1>1, <1>2, <2>1, <2>3
    <2> QED BY <2>2, <2>4, <2>5, <2>6 DEF l
  <1>5. Contiguous(todo) => Head(todo).start < Head(todo).end /\ Head(todo) \in Windows
    BY <1>1
  <1> USE DEF rest, n
  <1> QED BY <1>1, <1>2, <1>4, <1>5 DEF Contiguous

\* A commit's run goes on to its next chunk or ends; the others are outrun.
LEMMA CommitRuns ==
    ASSUME SyncTypes, TodoContiguous, NEW r \in Runs, Commit(r)
    PROVE  /\ run' \in [Runs -> RunType]
           /\ run[r].todo \in Seq(Windows) /\ run[r].todo # <<>>
           /\ Head(run[r].todo) \in Windows /\ Head(run[r].todo).start < Head(run[r].todo).end
           /\ run'[r].plan = <<>> /\ run'[r].obs = <<>> /\ run'[r].account = 0
           /\ run'[r].pc \in {"idle", "planned"}
           /\ run'[r].pc = "planned" =>
                 /\ Contiguous(run'[r].todo)
                 /\ Head(run'[r].todo).start = Head(run[r].todo).end
           /\ \A q \in Runs \ {r} :
                 /\ run'[q].pc = run[q].pc /\ run'[q].todo = run[q].todo
                 /\ run'[q].obs = run[q].obs /\ run'[q].plan = run[q].plan
                 /\ run'[q].account = run[q].account /\ run'[q].edited = run[q].edited
                 /\ run'[q].outrun = (run[q].outrun \/ Decided(q))
  <1> DEFINE todo == run[r].todo
             next == IF Len(todo) = 1 THEN Idle
                     ELSE [Idle EXCEPT !.pc = "planned", !.todo = Tail(todo)]
  <1>1. /\ run' = [q \in Runs |-> IF q = r THEN next
                                  ELSE [run[q] EXCEPT !.outrun = @ \/ run[q].pc \in
                                                         {"loaded", "applying"}]]
        /\ run[r].pc = "applying"
    BY DEF Commit
  <1>2. todo \in Seq(Windows) /\ Contiguous(todo)
    BY <1>1 DEF SyncTypes, RunType, TodoContiguous
  <1>3. todo # <<>> /\ Head(todo) \in Windows /\ Head(todo).start < Head(todo).end
    BY <1>2, ChunksAhead
  <1>4. ASSUME Len(todo) # 1
        PROVE  /\ Tail(todo) \in Seq(Windows) /\ Contiguous(Tail(todo))
               /\ Head(Tail(todo)).start = Head(todo).end
    BY <1>2, <1>4, ChunksAhead
  <1>5. /\ next \in RunType /\ next.plan = <<>> /\ next.obs = <<>> /\ next.account = 0
        /\ next.pc \in {"idle", "planned"}
        /\ next.pc = "planned" => /\ Contiguous(next.todo)
                                  /\ Head(next.todo).start = Head(todo).end
    <2>1. CASE Len(todo) = 1
      BY <2>1, IdleRun
    <2>2. CASE Len(todo) # 1
      <3> DEFINE go == [Idle EXCEPT !.pc = "planned", !.todo = Tail(todo)]
      <3>1. /\ go \in RunType /\ go.plan = Idle.plan /\ go.obs = Idle.obs
            /\ go.account = Idle.account
            /\ go.pc = "planned" /\ go.todo = Tail(todo)
        BY <1>4, <2>2, IdleRun DEF RunType
      <3>2. next = go
        BY <2>2
      <3> HIDE DEF go
      <3> QED BY <1>4, <2>2, <3>1, <3>2, IdleRun
    <2> QED BY <2>1, <2>2
  <1> HIDE DEF next
  <1>6. \A q \in Runs \ {r} :
           /\ run'[q] \in RunType
           /\ run'[q].pc = run[q].pc /\ run'[q].todo = run[q].todo
           /\ run'[q].obs = run[q].obs /\ run'[q].plan = run[q].plan
           /\ run'[q].account = run[q].account /\ run'[q].edited = run[q].edited
           /\ run'[q].outrun = (run[q].outrun \/ Decided(q))
    BY ZenonT(60), <1>1 DEF SyncTypes, RunType, Decided
  <1>7. run' \in [Runs -> RunType] /\ run'[r] = next
    BY <1>1, <1>5, <1>6
  <1> QED BY <1>3, <1>2, <1>5, <1>6, <1>7

\* What a commit does to the connection and to the history.
LEMMA CommitHistory ==
    ASSUME SyncTypes, AccountClaimed, NEW r \in Runs, Commit(r)
    PROVE  LET w == Head(run[r].todo)
           IN  /\ accounts' \in Nat /\ account' \in 0 .. accounts' /\ accounts <= accounts'
               /\ ~history.late => linked /\ account' = 1 /\ accounts' = 1
               /\ rows' = RowsAfter(r, account') /\ account' \in Nat
               /\ matches' = MatchesAfter(r)
               /\ made' = IF Creates(r) THEN made + NItems ELSE made
               /\ history'.notes = NotesAfter(r)
               /\ history'.covered = history.covered \cup (w.start .. (w.end - 1))
               /\ history'.overlapped = (history.overlapped \/ run[r].outrun)
               /\ history'.backfill = history.backfill
               /\ history'.manual = history.manual
               /\ history'.late = history.late
               /\ history'.prints = history.prints
  <1>1. /\ accounts \in Nat /\ account \in 0 .. accounts
        /\ run[r].account \in Nat /\ run[r].account <= accounts
    BY DEF SyncTypes, RunType, AccountClaimed
  <1>2. account' = ClaimAccount(run[r].account)
        /\ accounts' = IF account' > accounts THEN account' ELSE accounts
    BY DEF Commit
  <1>3. accounts' \in Nat /\ account' \in 0 .. accounts' /\ accounts <= accounts'
        /\ account' \in Nat
    BY <1>1, <1>2 DEF ClaimAccount
  <1>4. ASSUME ~history.late PROVE linked /\ account' = 1 /\ accounts' = 1
    <2>1. linked /\ account = accounts /\ accounts <= 1
      BY <1>4 DEF AccountClaimed, Commit
    <2> QED BY <1>1, <1>2, <2>1 DEF ClaimAccount
  <1>5. history \in HistoryType
    BY DEF SyncTypes
  <1>6. /\ history'.notes = NotesAfter(r)
        /\ history'.covered = history.covered \cup
              (Head(run[r].todo).start .. (Head(run[r].todo).end - 1))
        /\ history'.overlapped = (history.overlapped \/ run[r].outrun)
        /\ history'.backfill = history.backfill
        /\ history'.manual = history.manual
        /\ history'.late = history.late
        /\ history'.prints = history.prints
    BY <1>5 DEF Commit, HistoryType
  <1> QED BY <1>2, <1>3, <1>4, <1>6 DEF Commit

\* The transaction writes rows, matches and journal of their types.
LEMMA CommitTypes ==
    ASSUME SyncTypes, TodoContiguous, PlansDecided, AccountClaimed, NEW r \in Runs, Commit(r)
    PROVE  SyncTypes'
  <1> DEFINE w == Head(run[r].todo)
  <1>1. run' \in [Runs -> RunType]
    BY CommitRuns
  <1>2. /\ made' \in Nat /\ made <= made'
        /\ DOMAIN rows \subseteq DOMAIN rows' /\ DOMAIN rows' \subseteq 1 .. made'
        /\ DOMAIN matches' \subseteq 1 .. made' /\ DOMAIN history'.notes = DOMAIN rows'
        /\ rows' \in [DOMAIN rows' -> RowType]
        /\ matches' \in [DOMAIN matches' -> MatchType]
        /\ history'.notes \in [DOMAIN rows' -> NoteType]
    BY CommitHistory, StoredTypes
  <1>3. /\ accounts' \in Nat /\ account' \in 0 .. accounts'
    BY CommitHistory
  <1>4. last' \in [start : Int, end : Int, ok : BOOLEAN] /\ w.start \in Int /\ w.end \in Int
    BY CommitRuns DEF Commit, Windows
  <1>5. edit' # None => edit' \in [tx : DOMAIN rows', row : RowType]
    BY <1>2 DEF Commit, SyncTypes
  <1>6. history' \in HistoryType'
    <2>1. history \in HistoryType
      BY DEF SyncTypes
    <2>2. history' = [history EXCEPT
                !.notes = NotesAfter(r),
                !.covered = @ \cup (w.start .. (w.end - 1)),
                !.overlapped = @ \/ run[r].outrun]
      BY DEF Commit
    <2>3. /\ w.start .. (w.end - 1) \subseteq Int /\ run[r].outrun \in BOOLEAN
          /\ NotesAfter(r) \in [DOMAIN rows' -> NoteType]
      BY SMTT(60), <1>2, <1>4, CommitHistory DEF SyncTypes, RunType
    <2> HIDE DEF w
    <2> QED BY <2>1, <2>2, <2>3 DEF HistoryType
  <1>7. /\ clock' \in Nat /\ bank' \in [Items -> [posted : BOOLEAN, report : Reports]]
        /\ linked' \in BOOLEAN
    BY DEF SyncTypes, Commit
  <1> QED BY <1>1, <1>2, <1>3, <1>4, <1>5, <1>6, <1>7 DEF SyncTypes

\* Rows only become more, keep their owner, and are noted for more transactions.
LEMMA CommitKeepsRows ==
    ASSUME SyncInv, NEW r \in Runs, Commit(r)
    PROVE  /\ DOMAIN rows \subseteq DOMAIN rows'
           /\ \A t \in DOMAIN rows : rows'[t].account = rows[t].account
           /\ \A t \in DOMAIN rows' \ DOMAIN rows : rows'[t].account = account'
           /\ \A t \in DOMAIN rows :
                 /\ history.notes[t].of \subseteq history'.notes[t].of
                 /\ history.notes[t].raced => history'.notes[t].raced
                 /\ \A row : Keeps(history.notes[t], row) => Keeps(history'.notes[t], row)
           /\ made \in Nat /\ made' \in Nat /\ made <= made'
  <1>1. /\ account' \in Nat /\ rows' = RowsAfter(r, account')
        /\ history'.notes = NotesAfter(r)
        /\ DOMAIN history'.notes = DOMAIN rows' /\ DOMAIN rows \subseteq DOMAIN rows'
        /\ made' = IF Creates(r) THEN made + NItems ELSE made
    BY CommitHistory, StoredTypes DEF SyncInv
  <1>2. /\ made \in Nat /\ made' \in Nat /\ made <= made'
    BY <1>1, StoredTypes DEF SyncInv, SyncTypes
  <1>3. ASSUME NEW t \in DOMAIN rows PROVE rows'[t].account = rows[t].account
    <2>1. ASSUME NEW i \in DOMAIN run[r].plan, run[r].plan[i].tx = t
          PROVE  SavedRow(rows[t], run[r].plan[i].row).account = rows[t].account
      <3>1. t # 0 /\ rows[t] \in RowType
        BY DEF SyncInv, SyncTypes
      <3>2. run[r].plan[i].row \in RowType /\ run[r].plan[i].row.account = rows[t].account
        BY <2>1, <3>1 DEF SyncInv, PlansDecided
      <3> QED BY <3>1, <3>2, SavedRowKeeps
    <2> QED BY <1>1, <2>1, RowsStored DEF SyncInv
  <1>4. ASSUME NEW t \in DOMAIN rows', t \notin DOMAIN rows PROVE rows'[t].account = account'
    <2>1. PICK i \in DOMAIN run[r].plan : rows'[t] = NewRow(run[r].plan[i].obs, account')
      BY <1>1, <1>4, RowsStored DEF SyncInv
    <2> QED BY <1>1, <2>1 DEF NewRow
  <1>5. ASSUME NEW t \in DOMAIN rows
        PROVE  /\ history.notes[t].of \subseteq history'.notes[t].of
               /\ history.notes[t].raced => history'.notes[t].raced
               /\ \A row : Keeps(history.notes[t], row) => Keeps(history'.notes[t], row)
    <2> DEFINE note == history.notes[t]
               new == history'.notes[t]
    <2>1. t \in DOMAIN NotesAfter(r) /\ new = NotesAfter(r)[t]
      BY <1>1
    <2>2. /\ new.of = note.of \cup RowWrites(r, t)
          /\ new.value # None => new.value = note.value
          /\ new.day # None => new.day = note.day
          /\ new.hidden = note.hidden
          /\ new.raced = (note.raced \/ (t \in run[r].edited /\ RowWrites(r, t) # {}))
      BY <2>1, NotesStored DEF SyncInv
    <2> HIDE DEF note, new
    <2>3. note.of \subseteq new.of /\ (note.raced => new.raced)
          /\ \A row : Keeps(note, row) => Keeps(new, row)
      BY <2>2 DEF Keeps
    <2> QED BY <2>3 DEF note, new
  <1> QED BY <1>1, <1>2, <1>3, <1>4, <1>5

\* What other runs decided stays what they decided; the committed run's plan is gone.
LEMMA CommitPlans ==
    ASSUME SyncInv, NEW r \in Runs, Commit(r)
    PROVE  PlansDecided' /\ EditRead' /\ CorrectionsInPlans' /\ MergesAlike'
  <1>1. run'[r].plan = <<>> /\ run'[r].obs = <<>> /\ DOMAIN <<>> = {}
    BY CommitRuns DEF SyncInv
  <1>2. \A q \in Runs \ {r} :
            /\ run'[q].obs = run[q].obs /\ run'[q].plan = run[q].plan
            /\ run'[q].pc = run[q].pc /\ run'[q].edited = run[q].edited
    BY CommitRuns DEF SyncInv
  <1>3. history'.prints = history.prints
    BY CommitHistory DEF SyncInv
  <1>4. PlansDecided'
    <2>1. ASSUME NEW q \in Runs, q # r
          PROVE  /\ \A i \in DOMAIN run'[q].obs : Known(i, run[q].obs[i])'
                 /\ ~Decided(q)' => run'[q].plan = <<>>
                 /\ Decided(q)' => DOMAIN run'[q].plan = DOMAIN run'[q].obs
                 /\ \A i \in DOMAIN run'[q].plan :
                       /\ i \in DOMAIN run'[q].obs /\ run'[q].plan[i].obs = run'[q].obs[i]
                       /\ run'[q].plan[i].match \in 0 .. made'
                       /\ run'[q].plan[i].tx # 0 =>
                             /\ run'[q].plan[i].tx \in DOMAIN rows'
                             /\ run'[q].plan[i].row \in RowType
                             /\ run'[q].plan[i].row.account =
                                    rows'[run'[q].plan[i].tx].account
                             /\ run'[q].plan[i].row.original.value = run'[q].plan[i].obs.value
                             /\ run'[q].plan[i].row.original.day = run'[q].plan[i].obs.day
      BY SMTT(60), <1>2, <1>3, <2>1, CommitKeepsRows DEF SyncInv, PlansDecided, Known, Decided
    <2> QED BY <1>1, <2>1 DEF PlansDecided
  <1>5. EditRead'
    BY CommitKeepsRows DEF SyncInv, SyncTypes, EditRead, Commit
  <1>6. CorrectionsInPlans'
    <2>1. \A q \in Runs \ {r} : \A i \in DOMAIN run[q].plan :
              run[q].plan[i].tx # 0 => run[q].plan[i].tx \in DOMAIN rows
      BY DEF SyncInv, PlansDecided
    <2> QED BY <1>1, <1>2, <2>1, CommitKeepsRows DEF SyncInv, CorrectionsInPlans
  <1>7. MergesAlike'
    <2>1. ASSUME NEW q \in Runs, q # r, NEW i \in DOMAIN run[q].plan, run[q].plan[i].tx # 0
          PROVE  \E j \in history'.notes[run[q].plan[i].tx].of :
                     j = i \/ Lookalike(i, j)'
      <3>1. run[q].plan[i].tx \in DOMAIN rows
        BY <2>1 DEF SyncInv, PlansDecided
      <3>2. PICK j \in history.notes[run[q].plan[i].tx].of : j = i \/ Lookalike(i, j)
        BY <2>1 DEF SyncInv, MergesAlike
      <3> QED BY <1>3, <3>1, <3>2, CommitKeepsRows DEF Lookalike
    <2> QED BY <1>1, <1>2, <2>1 DEF MergesAlike
  <1> QED BY <1>4, <1>5, <1>6, <1>7

\* A committed chunk is the oldest of its run: the days before the checkpoint are covered.
LEMMA CommitProgress ==
    ASSUME SyncInv, NEW r \in Runs, Commit(r)
    PROVE  TodoContiguous' /\ ProgressCovered'
  <1>1. TodoContiguous'
    <2>1. run'[r].pc # "idle" => Contiguous(run'[r].todo)
      BY CommitRuns DEF SyncInv
    <2>2. ASSUME NEW q \in Runs, q # r, run'[q].pc # "idle" PROVE Contiguous(run'[q].todo)
      <3>1. run'[q].todo = run[q].todo /\ run[q].pc # "idle"
        BY <2>2, CommitRuns DEF SyncInv
      <3> QED BY <3>1 DEF SyncInv, TodoContiguous
    <2> QED BY <2>1, <2>2 DEF TodoContiguous
  <1>2. ASSUME ~history'.manual
        PROVE  /\ last' # None => CoveredBefore(CheckpointOf(last))'
               /\ \A q \in Runs : run'[q].pc # "idle" =>
                     CoveredBefore(Head(run[q].todo).start)'
    <2> DEFINE w == Head(run[r].todo)
    <2>1. /\ ~history.manual
          /\ history'.covered = history.covered \cup (w.start .. (w.end - 1))
          /\ history'.backfill = history.backfill
      BY <1>2, CommitHistory DEF SyncInv
    <2>2. w.start \in Int /\ w.end \in Int
      BY CommitRuns DEF SyncInv, Windows
    <2>3. \A d : CoveredBefore(d) => CoveredBefore(d)'
      BY <2>1 DEF CoveredBefore
    <2>4. CoveredBefore(w.start)
      BY <2>1 DEF SyncInv, ProgressCovered, Commit
    <2>5. \A x \in Int : history'.backfill <= x /\ x < w.end => x \in history'.covered
      <3>1. history.backfill \in Int
        BY DEF SyncInv, SyncTypes, HistoryType
      <3> HIDE DEF w
      <3> QED BY <2>1, <2>2, <2>4, <3>1 DEF CoveredBefore
    <2>6. last' # None => CoveredBefore(CheckpointOf(last))'
      <3>1. last' = [start |-> w.start, end |-> w.end, ok |-> TRUE]
        BY DEF Commit
      <3> HIDE DEF w
      <3>2. CheckpointOf(last') = w.end
        BY <3>1 DEF CheckpointOf
      <3> QED BY <2>5, <3>2 DEF CoveredBefore, CheckpointOf
    <2>7. run'[r].pc # "idle" => CoveredBefore(Head(run[r].todo).start)'
      <3>1. run'[r].pc # "idle" => Head(run'[r].todo).start = w.end
        BY CommitRuns DEF SyncInv
      <3> QED BY <2>5, <3>1 DEF CoveredBefore
    <2>8. ASSUME NEW q \in Runs, q # r, run'[q].pc # "idle"
          PROVE  CoveredBefore(Head(run[q].todo).start)'
      <3>1. run'[q].todo = run[q].todo /\ run[q].pc # "idle"
        BY <2>8, CommitRuns DEF SyncInv
      <3>2. CoveredBefore(Head(run[q].todo).start)
        BY <2>1, <3>1 DEF SyncInv, ProgressCovered
      <3> QED BY <2>3, <3>1, <3>2 DEF CoveredBefore
    <2> QED BY <2>6, <2>7, <2>8
  <1> QED BY <1>1, <1>2 DEF ProgressCovered

\* A merge keeps the corrections the plan saw; one saved later marks its row as raced.
LEMMA CommitCorrections ==
    ASSUME SyncInv, NEW r \in Runs, Commit(r)
    PROVE  CorrectionsInRows'
  <1> SUFFICES ASSUME NEW t \in DOMAIN rows', ~history'.notes[t].raced
               PROVE  /\ Keeps(history'.notes[t], rows'[t])
                      /\ Corrects(history'.notes[t], rows'[t])
    BY DEF CorrectionsInRows
  <1> DEFINE note == IF t \in DOMAIN rows THEN history.notes[t] ELSE NoNote
             new == history'.notes[t]
             is == RowWrites(r, t)
             row == rows'[t]
  <1>1. /\ account' \in Nat /\ rows' = RowsAfter(r, account')
        /\ history'.notes = NotesAfter(r) /\ t \in DOMAIN NotesAfter(r)
    BY CommitHistory, StoredTypes DEF SyncInv
  <1>2. /\ new.value # None =>
              /\ new.value = note.value
              /\ \A i \in is : run[r].plan[i].obs.value # note.value
        /\ new.day # None =>
              /\ new.day = note.day
              /\ \A i \in is : run[r].plan[i].obs.day # note.day
        /\ new.hidden = note.hidden
        /\ new.raced = (note.raced \/ (t \in run[r].edited /\ is # {}))
    BY <1>1, NotesStored DEF SyncInv
  <1>3. CASE t \in DOMAIN rows /\ is = {}
    <2>1. row = rows[t] /\ note = history.notes[t] /\ ~note.raced
      BY <1>1, <1>2, <1>3, RowsStored DEF SyncInv
    <2>2. Keeps(note, row) /\ Corrects(note, row)
      BY <1>3, <2>1 DEF SyncInv, CorrectionsInRows
    <2> HIDE DEF note, new, is, row
    <2>3. Keeps(new, row) /\ Corrects(new, row)
      BY <1>2, <2>2 DEF Keeps, Corrects
    <2> QED BY <2>3 DEF new, row
  <1>4. CASE t \in DOMAIN rows /\ is # {}
    <2>1. PICK i \in is : /\ i \in DOMAIN run[r].plan /\ run[r].plan[i].tx = t
                          /\ row = SavedRow(rows[t], run[r].plan[i].row)
      BY <1>1, <1>4, RowsStored DEF SyncInv
    <2> DEFINE merged == run[r].plan[i].row
    <2>2. /\ merged \in RowType /\ rows[t] \in RowType /\ t # 0
          /\ merged.original.value = run[r].plan[i].obs.value
          /\ merged.original.day = run[r].plan[i].obs.day
      BY <1>4, <2>1 DEF SyncInv, SyncTypes, PlansDecided
    <2>3. note = history.notes[t] /\ ~note.raced /\ t \notin run[r].edited
      BY <1>2, <1>4
    <2>4. Keeps(note, merged)
      BY <2>1, <2>2, <2>3 DEF SyncInv, CorrectionsInPlans
    <2>5. /\ row.value = merged.value /\ row.day = merged.day /\ row.hidden = merged.hidden
          /\ row.original = merged.original
      BY <2>1, <2>2, SavedRowKeeps
    <2> HIDE DEF note, new, row, merged
    <2>6. Keeps(new, row) /\ Corrects(new, row)
      BY <1>2, <2>1, <2>2, <2>4, <2>5 DEF Keeps, Corrects
    <2> QED BY <2>6 DEF new, row
  <1>5. CASE t \notin DOMAIN rows
    <2>1. note.value = None /\ note.day = None /\ note.hidden = FALSE
      BY <1>5 DEF NoNote
    <2> HIDE DEF note, new
    <2>2. Keeps(new, row) /\ Corrects(new, row)
      BY <1>2, <2>1 DEF Keeps, Corrects
    <2> QED BY <2>2 DEF new
  <1> QED BY <1>3, <1>4, <1>5

\* A row is shared only by transactions that once looked alike.
LEMMA CommitApart ==
    ASSUME SyncInv, NEW r \in Runs, Commit(r)
    PROVE  RowsApart'
  <1> SUFFICES ASSUME NEW t \in DOMAIN rows', NEW i \in history'.notes[t].of,
                      history'.notes[t].of # {i}
               PROVE  \E j \in history'.notes[t].of \ {i} : Lookalike(i, j)'
    BY DEF RowsApart
  <1> DEFINE is == RowWrites(r, t)
             of == IF t \in DOMAIN rows THEN history.notes[t].of ELSE {}
  <1>1. /\ history'.notes[t].of = of \cup is /\ history'.prints = history.prints
    <2>1. /\ account' \in Nat /\ rows' = RowsAfter(r, account')
          /\ history'.notes = NotesAfter(r) /\ t \in DOMAIN NotesAfter(r)
          /\ history'.prints = history.prints
      BY CommitHistory, StoredTypes DEF SyncInv
    <2> QED BY ZenonT(60), <2>1, NotesStored DEF SyncInv, NoNote
  <1>2. \A j, k : Lookalike(j, k) <=> Lookalike(k, j)
    BY DEF Lookalike
  <1>3. \A j, k : Lookalike(j, k)' <=> Lookalike(j, k)
    BY <1>1 DEF Lookalike
  <1>4. CASE t \notin DOMAIN rows
    <2>1. of = {} /\ i \in is /\ is = {i}
      BY <1>1, <1>4, RowsWritten DEF SyncInv
    <2> QED BY <1>1, <2>1
  <1>5. CASE t \in DOMAIN rows
    <2>1. \A k \in is : \E j \in of : j = k \/ Lookalike(k, j)
      <3>1. ASSUME NEW k \in is
            PROVE  k \in DOMAIN run[r].plan /\ run[r].plan[k].tx = t /\ t # 0
        BY <1>5, RowsWritten DEF SyncInv, SyncTypes
      <3> QED BY <1>5, <3>1 DEF SyncInv, MergesAlike
    <2>2. \A k \in of : of = {k} \/ \E j \in of \ {k} : Lookalike(k, j)
      BY <1>5 DEF SyncInv, RowsApart
    <2> HIDE DEF of, is
    <2>3. \E j \in (of \cup is) \ {i} : Lookalike(i, j)
      <3>1. of \cup is # {i} /\ i \in of \cup is
        BY <1>1
      <3>2. CASE i \notin of
        BY <2>1, <3>1, <3>2
      <3>3. CASE of = {i}
        <4>1. PICK k \in is : k # i
          BY <3>1, <3>3
        <4>2. Lookalike(k, i)
          BY <2>1, <3>3, <4>1
        <4> QED BY <1>2, <4>1, <4>2
      <3>4. CASE i \in of /\ of # {i}
        BY <2>2, <3>4
      <3> QED BY <3>2, <3>3, <3>4
    <2> QED BY <1>1, <1>3, <2>3
  <1> QED BY <1>4, <1>5

\* A run that was not outrun writes each identifier to the one match it has.
LEMMA CommitMatches ==
    ASSUME SyncInv, NEW r \in Runs, Commit(r)
    PROVE  MatchesKnown' /\ MatchedOnce' /\ MatchFound'
  <1> DEFINE plan == run[r].plan
  <1>1. /\ account' \in Nat /\ rows' = RowsAfter(r, account') /\ matches' = MatchesAfter(r)
        /\ history'.notes = NotesAfter(r) /\ DOMAIN NotesAfter(r) = DOMAIN rows'
        /\ history'.prints = history.prints
        /\ history'.overlapped = (history.overlapped \/ run[r].outrun)
    BY CommitHistory, StoredTypes DEF SyncInv
  <1>2. \A i \in DOMAIN plan :
            /\ Known(i, plan[i].obs)
            /\ RowOf(plan[i], i) \in DOMAIN rows'
            /\ i \in history'.notes[RowOf(plan[i], i)].of
    <2>1. ASSUME NEW i \in DOMAIN plan
          PROVE  /\ RowOf(plan[i], i) \in DOMAIN NotesAfter(r)
                 /\ i \in RowWrites(r, RowOf(plan[i], i))
      BY <1>1, StoredTypes DEF SyncInv
    <2>2. \A t \in DOMAIN NotesAfter(r) : RowWrites(r, t) \subseteq NotesAfter(r)[t].of
      BY NotesStored DEF SyncInv
    <2>3. \A i \in DOMAIN plan : Known(i, plan[i].obs)
      BY DEF SyncInv, PlansDecided
    <2> QED BY <1>1, <2>1, <2>2, <2>3
  <1>3. \A m \in DOMAIN matches' :
           \/ /\ m \in DOMAIN matches /\ matches'[m] = matches[m]
              /\ \A i \in DOMAIN plan : MatchOf(plan[i], i) # m
           \/ \E i \in DOMAIN plan :
                 /\ MatchOf(plan[i], i) = m /\ matches'[m] = WrittenMatch(plan[i], i)
    BY <1>1, MatchesStored DEF SyncInv, MatchWrites
  <1>4. MatchesKnown'
    <2>1. ASSUME NEW m \in DOMAIN matches'
          PROVE  /\ matches'[m].tx \in DOMAIN rows'
                 /\ matches'[m].pid[1] \in history'.notes[matches'[m].tx].of
                 /\ matches'[m].fp \in history'.prints[matches'[m].pid[1]]
      <3>1. CASE m \in DOMAIN matches /\ matches'[m] = matches[m]
        BY <1>1, <3>1, CommitKeepsRows DEF SyncInv, MatchesKnown
      <3>2. ASSUME NEW i \in DOMAIN plan, matches'[m] = WrittenMatch(plan[i], i)
            PROVE  /\ matches'[m].tx \in DOMAIN rows'
                   /\ matches'[m].pid[1] \in history'.notes[matches'[m].tx].of
                   /\ matches'[m].fp \in history'.prints[matches'[m].pid[1]]
        BY <1>1, <1>2, <3>2 DEF WrittenMatch, Known
      <3> QED BY <1>3, <3>1, <3>2
    <2> QED BY <2>1 DEF MatchesKnown
  <1>5. MatchedOnce'
    <2> SUFFICES ASSUME ~history'.overlapped, NEW m \in DOMAIN matches',
                        NEW n \in DOMAIN matches', matches'[m].pid = matches'[n].pid
                 PROVE  m = n
      BY DEF MatchedOnce
    <2>1. ~history.overlapped /\ ~run[r].outrun /\ run[r].pc = "applying"
      BY <1>1 DEF Commit
    <2>2. ASSUME NEW k \in DOMAIN matches, NEW i \in DOMAIN plan,
                 plan[i].obs.pid = matches[k].pid
          PROVE  MatchOf(plan[i], i) = k
      <3>1. plan[i].match = k /\ k # 0
        BY <2>1, <2>2 DEF SyncInv, SyncTypes, MatchFound
      <3> QED BY <3>1 DEF MatchOf
    <2>3. ASSUME NEW i \in DOMAIN plan, NEW j \in DOMAIN plan,
                 plan[i].obs.pid = plan[j].obs.pid
          PROVE  i = j
      BY <1>2, <2>3 DEF Known
    <2>4. \A i \in DOMAIN plan : WrittenMatch(plan[i], i).pid = plan[i].obs.pid
      BY DEF WrittenMatch
    <2> QED BY <1>3, <2>1, <2>2, <2>3, <2>4 DEF SyncInv, MatchedOnce
  <1>6. MatchFound'
    <2>1. run'[r].plan = <<>> /\ DOMAIN <<>> = {}
      BY CommitRuns DEF SyncInv
    <2>2. ASSUME NEW q \in Runs, q # r, ~run'[q].outrun PROVE run'[q].plan = <<>>
      <3>1. ~Decided(q) /\ run'[q].plan = run[q].plan
        BY <2>2, CommitRuns DEF SyncInv
      <3> QED BY <3>1 DEF SyncInv, PlansDecided
    <2> QED BY <2>1, <2>2 DEF MatchFound
  <1> QED BY <1>4, <1>5, <1>6

\* The mapping that another run made since the snapshot is found by the claim.
LEMMA CommitAccount ==
    ASSUME SyncInv, NEW r \in Runs, Commit(r)
    PROVE  AccountClaimed' /\ BankKnown'
  <1>1. BankKnown'
    BY CommitHistory DEF SyncInv, BankKnown, Known, Commit
  <1>2. linked' = linked /\ history'.late = history.late /\ accounts <= accounts'
        /\ accounts \in Nat /\ accounts' \in Nat
        /\ (~history.late => linked /\ account' = 1 /\ accounts' = 1)
    BY CommitHistory DEF SyncInv, SyncTypes, Commit
  <1>3. ASSUME NEW q \in Runs PROVE run'[q].account <= accounts'
    <2>1. /\ run[q].account <= accounts /\ run[q].account \in Nat
      BY DEF SyncInv, SyncTypes, RunType, AccountClaimed
    <2>2. run'[q].account = 0 \/ run'[q].account = run[q].account
      BY CommitRuns DEF SyncInv
    <2> QED BY <1>2, <2>1, <2>2
  <1>4. ~history.late => \A t \in DOMAIN rows' : rows'[t].account = 1
    BY <1>2, CommitKeepsRows DEF SyncInv, AccountClaimed
  <1>5. linked => ~history.late
    BY DEF SyncInv, AccountClaimed
  <1> QED BY <1>1, <1>2, <1>3, <1>4, <1>5 DEF AccountClaimed

\* The conjuncts together: a commit keeps the invariant.
LEMMA CommitStep ==
    ASSUME SyncInv, NEW r \in Runs, Commit(r)
    PROVE  SyncInv'
  BY CommitTypes, CommitPlans, CommitProgress, CommitCorrections, CommitApart, CommitMatches,
     CommitAccount DEF SyncInv

-----------------------------------------------------------------------------
(* The other steps of a run preserve the invariant.                          *)

\* What the invariant says of one run, in the state s.
Fits(s) ==
    /\ s \in RunType
    /\ s.pc # "idle" => Contiguous(s.todo)
    /\ \A i \in DOMAIN s.obs : Known(i, s.obs[i])
    /\ s.pc \notin {"loaded", "applying"} => s.plan = <<>>
    /\ s.pc \in {"loaded", "applying"} => DOMAIN s.plan = DOMAIN s.obs
    /\ s.account <= accounts
    /\ ~history.late /\ ~linked => s.pc # "applying"
    /\ \A i \in DOMAIN s.plan :
          /\ i \in DOMAIN s.obs /\ s.plan[i].obs = s.obs[i]
          /\ s.plan[i].match \in 0 .. made
          /\ s.plan[i].tx # 0 =>
                /\ s.plan[i].tx \in DOMAIN rows
                /\ s.plan[i].row \in RowType
                /\ s.plan[i].row.account = rows[s.plan[i].tx].account
                /\ s.plan[i].row.original.value = s.plan[i].obs.value
                /\ s.plan[i].row.original.day = s.plan[i].obs.day
                /\ s.plan[i].tx \notin s.edited /\ ~history.notes[s.plan[i].tx].raced =>
                       Keeps(history.notes[s.plan[i].tx], s.plan[i].row)
                /\ \E j \in history.notes[s.plan[i].tx].of : j = i \/ Lookalike(i, j)
          /\ ~history.overlapped /\ ~s.outrun =>
                \A m \in DOMAIN matches :
                    matches[m].pid = s.plan[i].obs.pid =>
                        /\ s.plan[i].by = "id"
                        /\ s.plan[i].tx = matches[m].tx
                        /\ s.pc = "applying" => s.plan[i].match = m

\* The invariant says it of every run.
LEMMA RunsFit ==
    ASSUME SyncInv, NEW r \in Runs
    PROVE  Fits(run[r])
  <1>1. /\ run[r] \in RunType
        /\ run[r].pc # "idle" => Contiguous(run[r].todo)
        /\ \A i \in DOMAIN run[r].obs : Known(i, run[r].obs[i])
        /\ run[r].pc \notin {"loaded", "applying"} => run[r].plan = <<>>
        /\ run[r].pc \in {"loaded", "applying"} => DOMAIN run[r].plan = DOMAIN run[r].obs
        /\ run[r].account <= accounts
        /\ ~history.late /\ ~linked => run[r].pc # "applying"
    BY DEF SyncInv, SyncTypes, TodoContiguous, PlansDecided, Decided, AccountClaimed
  <1>2. ASSUME NEW i \in DOMAIN run[r].plan
        PROVE  /\ i \in DOMAIN run[r].obs /\ run[r].plan[i].obs = run[r].obs[i]
               /\ run[r].plan[i].match \in 0 .. made
               /\ run[r].plan[i].tx # 0 =>
                     /\ run[r].plan[i].tx \in DOMAIN rows
                     /\ run[r].plan[i].row \in RowType
                     /\ run[r].plan[i].row.account = rows[run[r].plan[i].tx].account
                     /\ run[r].plan[i].row.original.value = run[r].plan[i].obs.value
                     /\ run[r].plan[i].row.original.day = run[r].plan[i].obs.day
    BY DEF SyncInv, PlansDecided
  <1>3. ASSUME NEW i \in DOMAIN run[r].plan, run[r].plan[i].tx # 0
        PROVE  /\ run[r].plan[i].tx \notin run[r].edited
                    /\ ~history.notes[run[r].plan[i].tx].raced =>
                         Keeps(history.notes[run[r].plan[i].tx], run[r].plan[i].row)
               /\ \E j \in history.notes[run[r].plan[i].tx].of : j = i \/ Lookalike(i, j)
    BY <1>3 DEF SyncInv, CorrectionsInPlans, MergesAlike
  <1>4. ASSUME NEW i \in DOMAIN run[r].plan, ~history.overlapped, ~run[r].outrun,
               NEW m \in DOMAIN matches, matches[m].pid = run[r].plan[i].obs.pid
        PROVE  /\ run[r].plan[i].by = "id" /\ run[r].plan[i].tx = matches[m].tx
               /\ run[r].pc = "applying" => run[r].plan[i].match = m
    BY <1>4 DEF SyncInv, MatchFound
  <1> HIDE DEF SyncInv
  <1> QED BY <1>1, <1>2, <1>3, <1>4 DEF Fits

\* So where the runs change to states it holds of, it still holds.
LEMMA RunsChange ==
    ASSUME SyncInv, clock' \in Nat,
           UNCHANGED <<bank, linked, account, accounts, rows, matches, made, edit>>,
           history' \in HistoryType, history'.notes = history.notes,
           history'.prints = history.prints, history'.overlapped = history.overlapped,
           history'.late = history.late,
           last' # None => last' \in [start : Int, end : Int, ok : BOOLEAN],
           ProgressCovered', DOMAIN run' = Runs, run' = [r \in Runs |-> run'[r]],
           \A r \in Runs : Fits(run'[r])
    PROVE  SyncInv'
  <1>1. SyncTypes'
    <2>1. run' \in [Runs -> RunType]
      BY DEF Fits
    <2>2. history' \in HistoryType'
      BY DEF HistoryType
    <2> QED BY <2>1, <2>2 DEF SyncInv, SyncTypes
  <1>2. /\ \A i, o : Known(i, o)' <=> Known(i, o)
        /\ \A i, j : Lookalike(i, j)' <=> Lookalike(i, j)
    BY DEF Known, Lookalike
  <1>3. BankKnown'
    BY <1>2 DEF SyncInv, BankKnown, Known
  <1>4. TodoContiguous'
    BY DEF Fits, TodoContiguous
  <1>5. PlansDecided'
    <2>1. ASSUME NEW r \in Runs
          PROVE  /\ \A i \in DOMAIN run'[r].obs : Known(i, run'[r].obs[i])
                 /\ run'[r].pc \notin {"loaded", "applying"} => run'[r].plan = <<>>
                 /\ run'[r].pc \in {"loaded", "applying"} =>
                       DOMAIN run'[r].plan = DOMAIN run'[r].obs
                 /\ \A i \in DOMAIN run'[r].plan :
                       /\ i \in DOMAIN run'[r].obs /\ run'[r].plan[i].obs = run'[r].obs[i]
                       /\ run'[r].plan[i].match \in 0 .. made
                       /\ run'[r].plan[i].tx # 0 =>
                             /\ run'[r].plan[i].tx \in DOMAIN rows
                             /\ run'[r].plan[i].row \in RowType
                             /\ run'[r].plan[i].row.account =
                                    rows[run'[r].plan[i].tx].account
                             /\ run'[r].plan[i].row.original.value = run'[r].plan[i].obs.value
                             /\ run'[r].plan[i].row.original.day = run'[r].plan[i].obs.day
      BY DEF Fits
    <2> QED BY <1>2, <2>1 DEF PlansDecided, Decided, Known
  <1>6. EditRead' /\ MatchesKnown' /\ RowsApart' /\ MatchedOnce' /\ CorrectionsInRows'
    <2>1. EditRead' /\ MatchedOnce' /\ CorrectionsInRows'
      BY DEF SyncInv, EditRead, MatchedOnce, CorrectionsInRows
    <2>2. MatchesKnown'
      BY DEF SyncInv, MatchesKnown
    <2>3. RowsApart'
      BY <1>2 DEF SyncInv, RowsApart
    <2> QED BY <2>1, <2>2, <2>3
  <1>7. AccountClaimed'
    BY DEF SyncInv, AccountClaimed, Fits
  <1>8. CorrectionsInPlans'
    <2>1. ASSUME NEW r \in Runs, NEW i \in DOMAIN run'[r].plan, run'[r].plan[i].tx # 0,
                 run'[r].plan[i].tx \notin run'[r].edited,
                 ~history.notes[run'[r].plan[i].tx].raced
          PROVE  Keeps(history.notes[run'[r].plan[i].tx], run'[r].plan[i].row)
      BY <2>1 DEF Fits
    <2> QED BY <2>1 DEF CorrectionsInPlans
  <1>9. MergesAlike'
    <2>1. ASSUME NEW r \in Runs, NEW i \in DOMAIN run'[r].plan, run'[r].plan[i].tx # 0
          PROVE  \E j \in history.notes[run'[r].plan[i].tx].of : j = i \/ Lookalike(i, j)
      BY <2>1 DEF Fits
    <2> QED BY <1>2, <2>1 DEF MergesAlike
  <1>10. MatchFound'
    <2>1. ASSUME NEW r \in Runs, ~history.overlapped, ~run'[r].outrun,
                 NEW i \in DOMAIN run'[r].plan, NEW m \in DOMAIN matches,
                 matches[m].pid = run'[r].plan[i].obs.pid
          PROVE  /\ run'[r].plan[i].by = "id" /\ run'[r].plan[i].tx = matches[m].tx
                 /\ run'[r].pc = "applying" => run'[r].plan[i].match = m
      BY SMTT(60), <2>1 DEF Fits
    <2> QED BY <2>1 DEF MatchFound
  <1> HIDE DEF SyncInv
  <1> QED BY <1>1, <1>3, <1>4, <1>5, <1>6, <1>7, <1>8, <1>9, <1>10 DEF SyncInv

\* A run at rest knows nothing.
LEMMA IdleFits ==
    ASSUME SyncInv
    PROVE  Fits(Idle)
  <1>1. accounts \in Nat /\ DOMAIN <<>> = {}
    BY DEF SyncInv, SyncTypes
  <1> HIDE DEF SyncInv
  <1> QED BY <1>1, IdleRun DEF Fits

\* A step of one run, which leaves the ledger and the history alone.
LEMMA RunMoves ==
    ASSUME SyncInv, NEW r \in Runs, NEW s, Fits(s), run' = [run EXCEPT ![r] = s],
           s.pc # "idle" => run[r].pc # "idle" /\ s.todo = run[r].todo,
           UNCHANGED <<clock, bank, linked, account, accounts, rows, matches, made, edit,
                       history>>,
           \/ last' = last
           \/ /\ run[r].pc # "idle"
              /\ last' = [start |-> Head(run[r].todo).start, end |-> Head(run[r].todo).end,
                          ok |-> FALSE]
    PROVE  SyncInv'
  <1>1. /\ clock' \in Nat /\ history' \in HistoryType /\ history' = history
        /\ run \in [Runs -> RunType]
    BY DEF SyncInv, SyncTypes
  <1>2. /\ DOMAIN run' = Runs /\ run' = [q \in Runs |-> run'[q]] /\ run'[r] = s
        /\ \A q \in Runs \ {r} : run'[q] = run[q]
    BY <1>1
  <1>3. \A q \in Runs : Fits(run'[q])
    BY <1>2, RunsFit
  <1>4. ASSUME run[r].pc # "idle"
        PROVE  Head(run[r].todo).start \in Int /\ Head(run[r].todo).end \in Int
    <2>1. run[r].todo \in Seq(Windows) /\ Contiguous(run[r].todo)
      BY <1>4 DEF SyncInv, SyncTypes, RunType, TodoContiguous
    <2> QED BY <2>1, ChunksAhead DEF Windows
  <1>5. last' # None => last' \in [start : Int, end : Int, ok : BOOLEAN]
    <2>1. last # None => last \in [start : Int, end : Int, ok : BOOLEAN]
      BY DEF SyncInv, SyncTypes
    <2> HIDE DEF SyncInv
    <2> DEFINE from == Head(run[r].todo).start
               to == Head(run[r].todo).end
    <2>2. run[r].pc # "idle" => from \in Int /\ to \in Int
      BY <1>4
    <2> HIDE DEF from, to
    <2>3. CASE last' = last
      BY <2>1, <2>3
    <2>4. CASE run[r].pc # "idle" /\ last' = [start |-> from, end |-> to, ok |-> FALSE]
      <3>1. [start |-> from, end |-> to, ok |-> FALSE] \in [start : Int, end : Int, ok : BOOLEAN]
        BY <2>2, <2>4
      <3> QED BY <2>4, <3>1
    <2> QED BY <2>3, <2>4 DEF from, to
  <1>6. ProgressCovered'
    <2> SUFFICES ASSUME ~history'.manual
                 PROVE  /\ linked' /\ last' # None => CoveredBefore(CheckpointOf(last))'
                        /\ \A q \in Runs : run'[q].pc # "idle" =>
                              CoveredBefore(Head(run[q].todo).start)'
      BY DEF ProgressCovered
    <2>1. \A d : CoveredBefore(d)' <=> CoveredBefore(d)
      BY DEF CoveredBefore
    <2>2. /\ linked /\ last # None => CoveredBefore(CheckpointOf(last))
          /\ \A q \in Runs : run[q].pc # "idle" => CoveredBefore(Head(run[q].todo).start)
      BY <1>1 DEF SyncInv, ProgressCovered
    <2>3. linked' /\ last' # None => CoveredBefore(CheckpointOf(last'))
      BY <2>2 DEF CheckpointOf
    <2>4. \A q \in Runs : run'[q].pc # "idle" => CoveredBefore(Head(run'[q].todo).start)
      BY <1>2, <2>2
    <2> QED BY <2>1, <2>3, <2>4 DEF CoveredBefore, CheckpointOf
  <1> QED BY <1>1, <1>2, <1>3, <1>5, <1>6, RunsChange

\* A fetch remembers what the bank reported at that moment.
LEMMA FetchStep ==
    ASSUME SyncInv, NEW r \in Runs, Fetch(r)
    PROVE  SyncInv'
  <1> DEFINE obs == Observed(Head(run[r].todo))
             s == [run[r] EXCEPT !.pc = "fetched", !.obs = obs]
  <1>1. obs \in Partly(Reports) /\ \A i \in DOMAIN obs : Known(i, obs[i])
    <2>1. /\ DOMAIN obs \in SUBSET Items
          /\ obs = [i \in DOMAIN obs |-> obs[i]]
          /\ \A i \in DOMAIN obs : obs[i] = bank[i].report /\ i \in Items
      BY DEF Observed
    <2>2. \A i \in Items : bank[i].report \in Reports /\ Known(i, bank[i].report)
      BY DEF SyncInv, SyncTypes, BankKnown
    <2> HIDE DEF obs
    <2>3. obs \in [DOMAIN obs -> Reports]
      BY <2>1, <2>2
    <2> QED BY <2>1, <2>2, <2>3, PartlyFunction
  <1>2. /\ run[r].pc = "planned" /\ run[r] \in RunType /\ Fits(run[r])
    BY RunsFit DEF Fetch, SyncInv, SyncTypes
  <1>3. run' = [run EXCEPT ![r] = s]
    BY <1>2 DEF Fetch, SyncInv, SyncTypes
  <1> HIDE DEF obs
  <1>4. /\ s \in RunType /\ s.pc = "fetched" /\ s.obs = obs /\ s.todo = run[r].todo
        /\ s.plan = run[r].plan /\ s.account = run[r].account
    BY <1>1, <1>2 DEF RunType
  <1> HIDE DEF s
  <1>5. Fits(s)
    <2>1. /\ Contiguous(run[r].todo) /\ run[r].plan = <<>> /\ run[r].account <= accounts
          /\ DOMAIN <<>> = {}
      BY <1>2 DEF Fits
    <2> HIDE DEF SyncInv
    <2> QED BY <1>1, <1>4, <2>1 DEF Fits
  <1> QED BY <1>2, <1>3, <1>4, <1>5, RunMoves DEF Fetch

\* A failed or dead run leaves nothing but a failed journal entry.
LEMMA FailStep ==
    ASSUME SyncInv, NEW r \in Runs, Fail(r) \/ Crash(r)
    PROVE  SyncInv'
  BY IdleFits, IdleRun, RunMoves DEF Fail, Crash

\* The decisions of a load fit the ledger they were made on.
LEMMA LoadStep ==
    ASSUME SyncInv, NEW r \in Runs, Load(r)
    PROVE  SyncInv'
  <1> DEFINE w == Head(run[r].todo)
             obs == run[r].obs
             plan == [i \in DOMAIN obs |-> Plan(obs[i], w, obs)]
             s == [run[r] EXCEPT !.pc = "loaded", !.plan = plan, !.edited = {},
                                 !.outrun = FALSE]
  <1>1. /\ run[r].pc = "fetched" /\ run[r] \in RunType /\ run \in [Runs -> RunType]
        /\ obs \in Partly(Reports) /\ DOMAIN obs \in SUBSET Items
        /\ Contiguous(run[r].todo) /\ run[r].account <= accounts
        /\ \A i \in DOMAIN obs : obs[i] \in Reports /\ Known(i, obs[i])
    <2>1. /\ run[r].pc = "fetched" /\ run[r] \in RunType /\ run \in [Runs -> RunType]
          /\ Fits(run[r])
      BY RunsFit DEF Load, SyncInv, SyncTypes
    <2>2. obs \in Partly(Reports)
      BY <2>1 DEF RunType
    <2>3. DOMAIN obs \in SUBSET Items /\ \A i \in DOMAIN obs : obs[i] \in Reports
      BY <2>2, PartlyFunction
    <2> QED BY <2>1, <2>2, <2>3 DEF Fits
  <1>2. run' = [run EXCEPT ![r] = s]
    BY <1>1 DEF Load
  <1>3. ASSUME NEW i \in DOMAIN obs
        PROVE  /\ plan[i] \in WriteType /\ plan[i].obs = obs[i] /\ plan[i].match = 0
               /\ plan[i].tx # 0 =>
                     /\ plan[i].tx \in DOMAIN rows /\ plan[i].row = Merge(rows[plan[i].tx], obs[i])
                     /\ \E j \in history.notes[plan[i].tx].of : j = i \/ Lookalike(i, j)
               /\ ~history.overlapped =>
                     \A m \in DOMAIN matches :
                         matches[m].pid = obs[i].pid =>
                             plan[i].by = "id" /\ plan[i].tx = matches[m].tx
    <2>1. SyncTypes /\ MatchesKnown /\ MatchedOnce
      BY DEF SyncInv
    <2>2. obs \in Partly(Reports) /\ Known(i, obs[i])
      BY <1>1
    <2>3. plan[i] = Plan(obs[i], w, obs)
      OBVIOUS
    <2> HIDE DEF SyncInv, plan, obs, w
    <2> QED BY <2>1, <2>2, <2>3, PlanDecides
  <1>4. DOMAIN plan = DOMAIN obs /\ plan \in [DOMAIN obs -> WriteType]
    BY <1>3
  <1> HIDE DEF plan
  <1>5. plan \in Partly(WriteType)
    BY <1>1, <1>4, PartlyFunction
  <1>6. ASSUME NEW i \in DOMAIN obs, plan[i].tx # 0
        PROVE  /\ plan[i].tx \in DOMAIN rows
               /\ plan[i].row \in RowType
               /\ plan[i].row.account = rows[plan[i].tx].account
               /\ plan[i].row.original.value = obs[i].value
               /\ plan[i].row.original.day = obs[i].day
               /\ ~history.notes[plan[i].tx].raced =>
                      Keeps(history.notes[plan[i].tx], plan[i].row)
    <2> DEFINE t == plan[i].tx
    <2>1. t \in DOMAIN rows /\ plan[i].row = Merge(rows[t], obs[i])
      BY <1>3, <1>6
    <2> HIDE DEF t
    <2>2. rows[t] \in RowType /\ history.notes[t] \in NoteType
      BY <2>1 DEF SyncInv, SyncTypes, HistoryType
    <2>3. ~history.notes[t].raced =>
            Keeps(history.notes[t], rows[t]) /\ Corrects(history.notes[t], rows[t])
      BY <2>1 DEF SyncInv, CorrectionsInRows
    <2>4. obs[i] \in Reports
      BY <1>1
    <2> QED BY <2>1, <2>2, <2>3, <2>4, MergeKeeps DEF t
  <1>7. /\ s \in RunType /\ s.pc = "loaded" /\ s.plan = plan /\ s.obs = obs
        /\ s.todo = run[r].todo /\ s.account = run[r].account /\ s.edited = {}
    BY <1>1, <1>5 DEF RunType
  <1> HIDE DEF s, obs
  <1>8. Fits(s)
    <2>1. made \in Nat
      BY DEF SyncInv, SyncTypes
    <2>2. ASSUME NEW i \in DOMAIN s.plan
          PROVE  /\ i \in DOMAIN s.obs /\ s.plan[i].obs = s.obs[i]
                 /\ s.plan[i].match \in 0 .. made
                 /\ s.plan[i].tx # 0 =>
                       /\ s.plan[i].tx \in DOMAIN rows
                       /\ s.plan[i].row \in RowType
                       /\ s.plan[i].row.account = rows[s.plan[i].tx].account
                       /\ s.plan[i].row.original.value = s.plan[i].obs.value
                       /\ s.plan[i].row.original.day = s.plan[i].obs.day
                       /\ ~history.notes[s.plan[i].tx].raced =>
                              Keeps(history.notes[s.plan[i].tx], s.plan[i].row)
                       /\ \E j \in history.notes[s.plan[i].tx].of :
                              j = i \/ Lookalike(i, j)
                 /\ ~history.overlapped =>
                       \A m \in DOMAIN matches :
                           matches[m].pid = s.plan[i].obs.pid =>
                               s.plan[i].by = "id" /\ s.plan[i].tx = matches[m].tx
      BY <1>3, <1>4, <1>6, <1>7, <2>1, <2>2
    <2> HIDE DEF SyncInv
    <2> QED BY <1>1, <1>4, <1>7, <2>2 DEF Fits
  <1> QED BY <1>1, <1>2, <1>7, <1>8, RunMoves DEF Load

\* The apply transaction finds the matches to reuse, and the connection, still there.
LEMMA BeginApplyStep ==
    ASSUME SyncInv, NEW r \in Runs, BeginApply(r)
    PROVE  SyncInv'
  <1> DEFINE w == Head(run[r].todo)
             obs == run[r].obs
             old == run[r].plan
             plan == [i \in DOMAIN obs |->
                         [old[i] EXCEPT !.match = PriorMatch(old[i], w, obs)]]
             s == [run[r] EXCEPT !.pc = "applying", !.account = account, !.plan = plan]
  <1>1. /\ run[r].pc = "loaded" /\ run[r] \in RunType /\ run \in [Runs -> RunType]
        /\ DOMAIN obs \in SUBSET Items /\ old \in Partly(WriteType)
        /\ account \in Nat /\ account <= accounts /\ made \in Nat
        /\ linked /\ Fits(run[r])
    BY PartlyFunction, RunsFit DEF BeginApply, ConnectionFound, SyncInv, SyncTypes, RunType
  <1>2. run' = [run EXCEPT ![r] = s]
    BY <1>1 DEF BeginApply
  <1>3. /\ DOMAIN old = DOMAIN obs
        /\ \A i \in DOMAIN obs : old[i] \in WriteType /\ old[i].obs = obs[i]
    BY <1>1, PartlyFunction DEF Fits
  <1>4. ASSUME NEW i \in DOMAIN obs
        PROVE  /\ PriorMatch(old[i], w, obs) \in 0 .. made
               /\ ~history.overlapped /\ ~run[r].outrun =>
                     \A m \in DOMAIN matches :
                         matches[m].pid = obs[i].pid =>
                             /\ old[i].by = "id" /\ old[i].tx = matches[m].tx
                             /\ PriorMatch(old[i], w, obs) = m
    <2>1. \A m \in DOMAIN matches : matches[m].tx # 0
      BY DEF SyncInv, MatchesKnown, SyncTypes
    <2>2. ~history.overlapped /\ ~run[r].outrun =>
              \A m \in DOMAIN matches :
                  matches[m].pid = obs[i].pid =>
                      old[i].by = "id" /\ old[i].tx = matches[m].tx
      BY <1>1, <1>3 DEF Fits
    <2>3. /\ PriorMatch(old[i], w, obs) \in 0 .. made
          /\ ~history.overlapped /\ old[i].by = "id" /\ old[i].tx # 0 =>
                \A m \in DOMAIN matches :
                    matches[m].pid = obs[i].pid /\ matches[m].tx = old[i].tx =>
                        PriorMatch(old[i], w, obs) = m
      <3>1. SyncTypes /\ MatchedOnce /\ old[i].obs = obs[i]
        BY <1>3 DEF SyncInv
      <3> HIDE DEF SyncInv, old, obs, w
      <3> QED BY ZenonT(60), <3>1, PriorMatchFound
    <2> HIDE DEF SyncInv, old, obs, w
    <2> QED BY <2>1, <2>2, <2>3
  <1> HIDE DEF w
  <1>5. ASSUME NEW i \in DOMAIN obs
        PROVE  /\ plan[i] \in WriteType /\ plan[i].obs = obs[i] /\ plan[i].tx = old[i].tx
               /\ plan[i].row = old[i].row /\ plan[i].by = old[i].by
               /\ plan[i].match = PriorMatch(old[i], w, obs)
    <2> DEFINE m == PriorMatch(old[i], w, obs)
    <2>1. m \in Nat /\ plan[i] = [old[i] EXCEPT !.match = m]
      BY <1>1, <1>4
    <2> HIDE DEF m, plan
    <2>2. old[i] \in WriteType /\ old[i].obs = obs[i]
      BY <1>3
    <2>3. plan[i] \in WriteType /\ plan[i].obs = old[i].obs /\ plan[i].tx = old[i].tx
          /\ plan[i].row = old[i].row /\ plan[i].by = old[i].by /\ plan[i].match = m
      BY <2>1, <2>2 DEF WriteType
    <2> QED BY <2>2, <2>3 DEF m
  <1>6. DOMAIN plan = DOMAIN obs /\ plan \in [DOMAIN obs -> WriteType]
    BY <1>5
  <1> HIDE DEF plan
  <1>7. plan \in Partly(WriteType)
    BY <1>1, <1>6, PartlyFunction
  <1>8. /\ s \in RunType /\ s.pc = "applying" /\ s.plan = plan /\ s.obs = obs
        /\ s.todo = run[r].todo /\ s.account = account /\ s.edited = run[r].edited
        /\ s.outrun = run[r].outrun
    BY <1>1, <1>7 DEF RunType
  <1> HIDE DEF s
  <1>9. Fits(s)
    <2>1. ASSUME NEW i \in DOMAIN obs
          PROVE  /\ plan[i].match \in 0 .. made
                 /\ plan[i].tx # 0 =>
                       /\ plan[i].tx \in DOMAIN rows
                       /\ plan[i].row \in RowType
                       /\ plan[i].row.account = rows[plan[i].tx].account
                       /\ plan[i].row.original.value = plan[i].obs.value
                       /\ plan[i].row.original.day = plan[i].obs.day
                       /\ plan[i].tx \notin run[r].edited
                               /\ ~history.notes[plan[i].tx].raced =>
                              Keeps(history.notes[plan[i].tx], plan[i].row)
                       /\ \E j \in history.notes[plan[i].tx].of : j = i \/ Lookalike(i, j)
      <3>1. i \in DOMAIN old /\ old[i].obs = obs[i]
        BY <1>3
      <3> HIDE DEF SyncInv
      <3> QED BY <1>1, <1>4, <1>5, <3>1 DEF Fits
    <2>2. ASSUME NEW i \in DOMAIN obs
          PROVE  ~history.overlapped /\ ~run[r].outrun =>
                     \A m \in DOMAIN matches :
                         matches[m].pid = plan[i].obs.pid =>
                             /\ plan[i].by = "id" /\ plan[i].tx = matches[m].tx
                             /\ plan[i].match = m
      BY <1>4, <1>5
    <2>3. \A i \in DOMAIN obs : Known(i, obs[i]) /\ plan[i].obs = obs[i]
      BY <1>1, <1>5 DEF Fits
    <2>4. Contiguous(run[r].todo)
      BY <1>1 DEF Fits
    <2> HIDE DEF SyncInv, obs
    <2> QED BY <1>1, <1>6, <1>8, <2>1, <2>2, <2>3, <2>4 DEF Fits
  <1> QED BY <1>1, <1>2, <1>8, <1>9, RunMoves DEF BeginApply

\* A plan begins at or before the checkpoint and is split into adjoining chunks.
LEMMA StartStep ==
    ASSUME SyncInv, NEW r \in Runs, NEW request \in Requests, NEW now \in clock .. MaxClock,
           Start(r, request, now)
    PROVE  SyncInv'
  <1> DEFINE w == Determine(request, now)
             s == [Idle EXCEPT !.pc = "planned", !.todo = Split(w)]
  <1>1. /\ request.start \in Int \cup {None} /\ request.end \in Int \cup {None}
        /\ clock \in Nat /\ now \in Nat
        /\ BackfillDays \in Int /\ RecentDays \in Int
    BY WindowSyncAssumption DEF Requests, SyncInv, SyncTypes
  <1>2. last # None => CheckpointOf(last) \in Int
    <2>1. last # None => last \in [start : Int, end : Int, ok : BOOLEAN]
      BY DEF SyncInv, SyncTypes
    <2> HIDE DEF SyncInv
    <2> QED BY <2>1 DEF CheckpointOf
  <1>3. /\ w.start \in Int /\ w.end \in Int /\ w \in Windows
        /\ request.start = None => w.start = DetermineStart(w.end, last)
    BY <1>1, <1>2 DEF Determine, DetermineStart, Windows
  <1>4. /\ run[r].pc = "idle" /\ linked /\ w.start < w.end
        /\ run' = [run EXCEPT ![r] = s]
        /\ history' = [history EXCEPT
               !.manual = @ \/ request.start # None,
               !.backfill = IF request.start = None /\ last = None /\ w.start > @
                            THEN w.start ELSE @]
        /\ clock' = now /\ last' = last
        /\ UNCHANGED <<bank, linked, account, accounts, rows, matches, made, edit>>
    BY DEF Start
  <1> HIDE DEF w
  <1>5. /\ Split(w) \in Seq(Windows) /\ Contiguous(Split(w)) /\ Head(Split(w)).start = w.start
    BY <1>3, <1>4, SplitContiguous
  <1>6. /\ s \in RunType /\ s.pc = "planned" /\ s.todo = Split(w) /\ s.plan = <<>>
        /\ s.obs = <<>> /\ s.account = 0
    BY <1>5, IdleRun DEF RunType
  <1> HIDE DEF s
  <1>7. Fits(s)
    <2>1. accounts \in Nat /\ DOMAIN <<>> = {}
      BY DEF SyncInv, SyncTypes
    <2> HIDE DEF SyncInv
    <2> QED BY <1>5, <1>6, <2>1 DEF Fits
  <1>8. history \in HistoryType /\ run \in [Runs -> RunType]
    BY DEF SyncInv, SyncTypes
  <1>9. /\ history' \in HistoryType /\ history'.notes = history.notes
        /\ history'.prints = history.prints /\ history'.overlapped = history.overlapped
        /\ history'.late = history.late /\ history'.covered = history.covered
        /\ history'.manual = (history.manual \/ request.start # None)
        /\ history'.backfill = IF request.start = None /\ last = None
                                  /\ w.start > history.backfill
                               THEN w.start ELSE history.backfill
    BY <1>3, <1>4, <1>8 DEF HistoryType
  <1>10. /\ DOMAIN run' = Runs /\ run' = [q \in Runs |-> run'[q]] /\ run'[r] = s
         /\ \A q \in Runs \ {r} : run'[q] = run[q]
    BY <1>4, <1>8
  <1>11. \A q \in Runs : Fits(run'[q])
    BY <1>7, <1>10, RunsFit
  <1>12. ProgressCovered'
    <2> SUFFICES ASSUME ~history'.manual
                 PROVE  /\ linked' /\ last' # None => CoveredBefore(CheckpointOf(last))'
                        /\ \A q \in Runs : run'[q].pc # "idle" =>
                              CoveredBefore(Head(run[q].todo).start)'
      BY DEF ProgressCovered
    <2> DEFINE Now(d) == \A x \in Int : history'.backfill <= x /\ x < d =>
                             x \in history'.covered
    <2>1. history.backfill \in Int /\ history'.backfill \in Int
          /\ history.backfill <= history'.backfill
      BY <1>3, <1>8, <1>9 DEF HistoryType
    <2>2. \A d \in Int : CoveredBefore(d) => Now(d)
      BY <1>9, <2>1 DEF CoveredBefore
    <2>3. ~history.manual /\ request.start = None
      BY <1>9
    <2>4. /\ linked /\ last # None => CoveredBefore(CheckpointOf(last))
          /\ \A q \in Runs : run[q].pc # "idle" => CoveredBefore(Head(run[q].todo).start)
      BY <2>3 DEF SyncInv, ProgressCovered
    <2>5. Now(w.start)
      <3>1. CASE last = None
        BY <1>3, <1>9, <2>1, <2>3, <3>1
      <3>2. CASE last # None
        <4>1. w.start <= CheckpointOf(last)
          BY <1>1, <1>2, <1>3, <2>3, <3>2 DEF DetermineStart
        <4>2. CoveredBefore(w.start)
          BY <1>2, <1>3, <1>4, <2>4, <3>2, <4>1 DEF CoveredBefore
        <4> QED BY <1>3, <2>2, <4>2
      <3> QED BY <3>1, <3>2
    <2> HIDE DEF Now
    <2>6. linked' /\ last' # None => Now(CheckpointOf(last'))
      BY <1>2, <1>4, <2>2, <2>4
    <2>7. ASSUME NEW q \in Runs, q # r, run'[q].pc # "idle"
          PROVE  Now(Head(run'[q].todo).start)
      <3>1. run[q].todo \in Seq(Windows) /\ Contiguous(run[q].todo)
            /\ run'[q] = run[q] /\ run[q].pc # "idle"
        BY <1>8, <1>10, <2>7 DEF SyncInv, RunType, TodoContiguous
      <3>2. Head(run[q].todo).start \in Int
        BY <3>1, ChunksAhead DEF Windows
      <3> QED BY <2>2, <2>4, <3>1, <3>2
    <2>8. Now(Head(run'[r].todo).start)
      BY <1>5, <1>6, <1>10, <2>5
    <2>9. \A q \in Runs : run'[q].pc # "idle" => Now(Head(run'[q].todo).start)
      BY <2>7, <2>8
    <2> QED BY <2>6, <2>9 DEF CoveredBefore, CheckpointOf, Now
  <1>13. last' # None => last' \in [start : Int, end : Int, ok : BOOLEAN]
    BY <1>4 DEF SyncInv, SyncTypes
  <1> HIDE DEF SyncInv
  <1> QED BY <1>1, <1>4, <1>9, <1>10, <1>11, <1>12, <1>13, RunsChange

-----------------------------------------------------------------------------
(* The steps of users and of the bank preserve the invariant.                *)

\* An edit begins with a copy of the row.
LEMMA OpenEditStep ==
    ASSUME SyncInv, NEW t \in DOMAIN rows, OpenEdit(t)
    PROVE  SyncInv'
  <1>1. UNCHANGED <<clock, bank, linked, account, accounts, rows, matches, made, last, run,
                    history>>
    BY DEF OpenEdit
  <1>2. edit' \in [tx : DOMAIN rows, row : RowType] /\ edit'.row.account = rows[edit'.tx].account
    BY DEF OpenEdit, SyncInv, SyncTypes
  <1>3. SyncTypes'
    BY <1>1, <1>2 DEF SyncInv, SyncTypes, HistoryType
  <1>4. BankKnown' /\ TodoContiguous' /\ EditRead' /\ AccountClaimed'
    BY <1>1, <1>2 DEF SyncInv, BankKnown, Known, TodoContiguous, EditRead, AccountClaimed
  <1>5. PlansDecided'
    BY <1>1 DEF SyncInv, PlansDecided, Known, Decided
  <1>6. ProgressCovered'
    BY <1>1 DEF SyncInv, ProgressCovered, CoveredBefore, CheckpointOf
  <1>7. CorrectionsInRows' /\ CorrectionsInPlans'
    BY <1>1 DEF SyncInv, CorrectionsInRows, CorrectionsInPlans
  <1>8. MatchesKnown' /\ MatchedOnce' /\ MatchFound'
    BY <1>1 DEF SyncInv, MatchesKnown, MatchedOnce, MatchFound
  <1>9. MergesAlike' /\ RowsApart'
    BY <1>1 DEF SyncInv, MergesAlike, RowsApart, Lookalike
  <1> QED BY <1>3, <1>4, <1>5, <1>6, <1>7, <1>8, <1>9 DEF SyncInv

\* Linking and unlinking a pair touch nothing else of a row.
LEMMA PairStep ==
    ASSUME SyncInv, NEW t \in DOMAIN rows, LinkPair(t) \/ UnlinkPair(t)
    PROVE  SyncInv'
  <1>1. UNCHANGED <<clock, bank, linked, account, accounts, matches, made, last, run, edit,
                    history>>
    BY DEF LinkPair, UnlinkPair
  <1>2. PICK pair \in {"linked", "excluded"} : rows' = [rows EXCEPT ![t].pair = pair]
    BY DEF LinkPair, UnlinkPair
  <1>3. /\ DOMAIN rows' = DOMAIN rows /\ rows' \in [DOMAIN rows -> RowType]
        /\ \A u \in DOMAIN rows :
              /\ rows'[u].account = rows[u].account /\ rows'[u].value = rows[u].value
              /\ rows'[u].day = rows[u].day /\ rows'[u].hidden = rows[u].hidden
              /\ rows'[u].original = rows[u].original
    <2>1. rows \in [DOMAIN rows -> RowType]
      BY DEF SyncInv, SyncTypes
    <2> HIDE DEF SyncInv
    <2> QED BY <1>2, <2>1 DEF RowType
  <1>4. SyncTypes'
    BY <1>1, <1>3 DEF SyncInv, SyncTypes, HistoryType
  <1>5. BankKnown' /\ TodoContiguous' /\ EditRead' /\ AccountClaimed'
    BY <1>1, <1>3 DEF SyncInv, SyncTypes, BankKnown, Known, TodoContiguous, EditRead,
                      AccountClaimed
  <1>6. PlansDecided'
    BY <1>1, <1>3 DEF SyncInv, PlansDecided, Known, Decided
  <1>7. ProgressCovered'
    BY <1>1 DEF SyncInv, ProgressCovered, CoveredBefore, CheckpointOf
  <1>8. CorrectionsInRows' /\ CorrectionsInPlans'
    <2>1. CorrectionsInRows /\ CorrectionsInPlans
      BY DEF SyncInv
    <2>2. CorrectionsInRows'
      BY <1>1, <1>3, <2>1 DEF CorrectionsInRows, Keeps, Corrects
    <2>3. CorrectionsInPlans'
      BY <1>1, <2>1 DEF CorrectionsInPlans
    <2> QED BY <2>2, <2>3
  <1>9. MatchesKnown' /\ MatchedOnce' /\ MatchFound'
    BY <1>1, <1>3 DEF SyncInv, MatchesKnown, MatchedOnce, MatchFound
  <1>10. MergesAlike' /\ RowsApart'
    BY <1>1, <1>3 DEF SyncInv, MergesAlike, RowsApart, Lookalike
  <1> QED BY <1>4, <1>5, <1>6, <1>7, <1>8, <1>9, <1>10 DEF SyncInv

\* A deletion takes matches, mapping and journal; runs that apply over it are late.
LEMMA DisconnectStep ==
    ASSUME SyncInv, Disconnect
    PROVE  SyncInv'
  <1>1. /\ UNCHANGED <<clock, bank, accounts, rows, made, run, edit>>
        /\ linked /\ linked' = FALSE /\ last' = None /\ matches' = <<>> /\ account' = 0
        /\ history' = [history EXCEPT !.late = \E r \in Runs : run[r].pc = "applying"]
        /\ DOMAIN <<>> = {}
    BY DEF Disconnect
  <1>2. /\ history' \in HistoryType /\ history'.notes = history.notes
        /\ history'.prints = history.prints /\ history'.overlapped = history.overlapped
        /\ history'.covered = history.covered /\ history'.manual = history.manual
        /\ history'.backfill = history.backfill
        /\ history'.late = \E r \in Runs : run[r].pc = "applying"
    <2>1. history \in HistoryType
      BY DEF SyncInv, SyncTypes
    <2> HIDE DEF SyncInv
    <2> QED BY <1>1, <2>1 DEF HistoryType
  <1>3. SyncTypes'
    <2>1. history' \in HistoryType'
      BY <1>1, <1>2 DEF HistoryType
    <2>2. /\ matches' \in [DOMAIN matches' -> MatchType] /\ DOMAIN matches' \subseteq 1 .. made'
      BY <1>1
    <2>3. accounts' \in Nat /\ account' \in 0 .. accounts'
      BY <1>1 DEF SyncInv, SyncTypes
    <2>4. /\ clock' \in Nat /\ bank' \in [Items -> [posted : BOOLEAN, report : Reports]]
          /\ linked' \in BOOLEAN /\ made' \in Nat
          /\ rows' \in [DOMAIN rows' -> RowType] /\ DOMAIN rows' \subseteq 1 .. made'
          /\ run' \in [Runs -> RunType]
          /\ edit' # None => edit' \in [tx : DOMAIN rows', row : RowType]
      BY <1>1 DEF SyncInv, SyncTypes
    <2>5. last' = None
      BY <1>1
    <2> HIDE DEF SyncInv
    <2> QED BY <2>1, <2>2, <2>3, <2>4, <2>5 DEF SyncTypes
  <1>4. BankKnown' /\ TodoContiguous' /\ EditRead'
    BY <1>1, <1>2 DEF SyncInv, BankKnown, Known, TodoContiguous, EditRead
  <1>5. AccountClaimed'
    BY <1>1, <1>2 DEF SyncInv, AccountClaimed
  <1>6. PlansDecided'
    BY <1>1, <1>2 DEF SyncInv, PlansDecided, Known, Decided
  <1>7. ProgressCovered'
    BY <1>1, <1>2 DEF SyncInv, ProgressCovered, CoveredBefore
  <1>8. CorrectionsInRows' /\ CorrectionsInPlans'
    BY <1>1, <1>2 DEF SyncInv, CorrectionsInRows, CorrectionsInPlans
  <1>9. MatchesKnown' /\ MatchedOnce' /\ MatchFound'
    BY <1>1 DEF MatchesKnown, MatchedOnce, MatchFound
  <1>10. MergesAlike' /\ RowsApart'
    BY <1>1, <1>2 DEF SyncInv, MergesAlike, RowsApart, Lookalike
  <1> QED BY <1>3, <1>4, <1>5, <1>6, <1>7, <1>8, <1>9, <1>10 DEF SyncInv

\* The bank's transactions are remembered by every fingerprint they ever had.
LEMMA BankStep ==
    ASSUME SyncInv, NEW i \in Items,
           \/ Post(i)
           \/ \E n \in {0, 1}, value \in Values, day \in ItemDays :
                 Revise(i, Report(i, n, value, day))
    PROVE  SyncInv'
  <1>1. UNCHANGED <<clock, linked, account, accounts, rows, matches, made, last, run, edit>>
    BY DEF Post, Revise
  <1>2. /\ history \in HistoryType /\ bank \in [Items -> [posted : BOOLEAN, report : Reports]]
        /\ \A j \in Items : Known(j, bank[j].report)
    BY DEF SyncInv, SyncTypes, BankKnown
  <1> DEFINE Moved ==
                 /\ bank' \in [Items -> [posted : BOOLEAN, report : Reports]]
                 /\ history' \in HistoryType
                 /\ history'.notes = history.notes
                 /\ history'.overlapped = history.overlapped
                 /\ history'.covered = history.covered /\ history'.manual = history.manual
                 /\ history'.backfill = history.backfill /\ history'.late = history.late
                 /\ \A j \in Items : history.prints[j] \subseteq history'.prints[j]
                 /\ \A j \in Items :
                       /\ bank'[j].report.pid[1] = j
                       /\ Fingerprint(bank'[j].report) \in history'.prints[j]
  <1>3. Moved
    <2>1. CASE Post(i)
      <3>1. bank' = [bank EXCEPT ![i].posted = TRUE] /\ history' = history
        BY <2>1 DEF Post
      <3> HIDE DEF SyncInv
      <3> QED BY ZenonT(60), <1>2, <3>1 DEF Known
    <2>2. ASSUME NEW n \in {0, 1}, NEW value \in Values, NEW day \in ItemDays,
                 Revise(i, Report(i, n, value, day))
          PROVE  Moved
      <3> DEFINE report == Report(i, n, value, day)
                 print == Fingerprint(report)
      <3>1. /\ report \in Reports /\ report.pid[1] = i
            /\ print \in Values \X ItemDays
        BY DEF Report, Reports, Fingerprint
      <3>2. /\ bank' = [bank EXCEPT ![i].report = report]
            /\ history' = [history EXCEPT !.prints[i] = @ \cup {print}]
        BY <2>2 DEF Revise
      <3>3. print = Fingerprint(report)
        OBVIOUS
      <3> HIDE DEF SyncInv, report, print
      <3>4. /\ bank' \in [Items -> [posted : BOOLEAN, report : Reports]]
            /\ bank'[i].report = report
            /\ \A j \in Items \ {i} : bank'[j].report = bank[j].report
        BY <1>2, <3>1, <3>2
      <3>5. /\ history' \in HistoryType
            /\ history'.notes = history.notes
            /\ history'.overlapped = history.overlapped
            /\ history'.covered = history.covered /\ history'.manual = history.manual
            /\ history'.backfill = history.backfill /\ history'.late = history.late
            /\ history'.prints = [history.prints EXCEPT ![i] = @ \cup {print}]
            /\ history.prints \in [Items -> SUBSET (Values \X ItemDays)]
        BY ZenonT(60), <1>2, <3>1, <3>2 DEF HistoryType
      <3>6. /\ \A j \in Items : history.prints[j] \subseteq history'.prints[j]
            /\ print \in history'.prints[i]
        BY <3>5
      <3> QED BY <1>2, <3>1, <3>3, <3>4, <3>5, <3>6 DEF Known
    <2> QED BY <2>1, <2>2
  <1>4. /\ \A j \in Items : \A o : Known(j, o) => Known(j, o)'
        /\ \A j, k \in Items : Lookalike(j, k) => Lookalike(j, k)'
    BY <1>3 DEF Known, Lookalike
  <1>5. SyncTypes'
    <2>1. history' \in HistoryType'
      BY <1>1, <1>3 DEF HistoryType
    <2> QED BY <1>1, <1>3, <2>1 DEF SyncInv, SyncTypes
  <1>6. BankKnown' /\ TodoContiguous' /\ EditRead'
    BY <1>1, <1>3 DEF SyncInv, BankKnown, Known, TodoContiguous, EditRead
  <1>7. AccountClaimed'
    BY <1>1, <1>3 DEF SyncInv, AccountClaimed
  <1>8. PlansDecided'
    <2>1. \A r \in Runs : DOMAIN run[r].obs \subseteq Items
      BY PartlyFunction DEF SyncInv, SyncTypes, RunType
    <2> QED BY <1>1, <1>3, <2>1 DEF SyncInv, PlansDecided, Decided, Known
  <1>9. ProgressCovered'
    BY <1>1, <1>3 DEF SyncInv, ProgressCovered, CoveredBefore, CheckpointOf
  <1>10. CorrectionsInRows' /\ CorrectionsInPlans'
    BY <1>1, <1>3 DEF SyncInv, CorrectionsInRows, CorrectionsInPlans
  <1>11. MatchesKnown' /\ MatchedOnce' /\ MatchFound'
    <2>1. \A m \in DOMAIN matches : matches[m].pid[1] \in Items
      BY DEF SyncInv, SyncTypes, MatchType
    <2>2. MatchesKnown'
      BY <1>1, <1>3, <2>1 DEF SyncInv, MatchesKnown
    <2> QED BY <1>1, <1>3, <2>2 DEF SyncInv, MatchedOnce, MatchFound
  <1>12. MergesAlike' /\ RowsApart'
    <2>1. \A t \in DOMAIN rows : history.notes[t].of \subseteq Items
      BY DEF SyncInv, SyncTypes, HistoryType, NoteType
    <2>2. \A r \in Runs : \A j \in DOMAIN run[r].plan :
              j \in Items /\ (run[r].plan[j].tx # 0 => run[r].plan[j].tx \in DOMAIN rows)
      BY RowsWritten DEF SyncInv, PlansDecided
    <2>3. MergesAlike'
      <3>1. ASSUME NEW r \in Runs, NEW k \in DOMAIN run[r].plan, run[r].plan[k].tx # 0
            PROVE  \E j \in history.notes[run[r].plan[k].tx].of :
                       j = k \/ Lookalike(k, j)'
        <4>1. PICK j \in history.notes[run[r].plan[k].tx].of : j = k \/ Lookalike(k, j)
          BY <3>1 DEF SyncInv, MergesAlike
        <4> QED BY <1>4, <2>1, <2>2, <3>1, <4>1
      <3> QED BY <1>1, <1>3, <3>1 DEF MergesAlike
    <2>4. RowsApart'
      <3>1. ASSUME NEW t \in DOMAIN rows, NEW k \in history.notes[t].of
            PROVE  \/ history.notes[t].of = {k}
                   \/ \E j \in history.notes[t].of \ {k} : Lookalike(k, j)'
        BY <1>4, <2>1 DEF SyncInv, RowsApart
      <3> QED BY <1>1, <1>3, <3>1 DEF RowsApart
    <2> QED BY <2>3, <2>4
  <1> QED BY <1>5, <1>6, <1>7, <1>8, <1>9, <1>10, <1>11, <1>12 DEF SyncInv

\* A save by a user is a correction; the runs that have decided have not seen it.
LEMMA SaveEditStep ==
    ASSUME SyncInv, NEW value \in Values, NEW day \in ItemDays, NEW hidden \in BOOLEAN,
           SaveEdit(value, day, hidden)
    PROVE  SyncInv'
  <1> DEFINE t == edit.tx
             row == [edit.row EXCEPT !.value = value, !.day = day, !.hidden = hidden]
             saved == SavedRow(rows[t], row)
             note == [history.notes[t] EXCEPT
                         !.value = Correction(value, row.original.value),
                         !.day = Correction(day, row.original.day),
                         !.hidden = hidden, !.raced = FALSE]
  <1>1. /\ edit # None
        /\ rows' = [rows EXCEPT ![t] = saved]
        /\ history' = [history EXCEPT !.notes[t] = note]
        /\ run' = [r \in Runs |-> [run[r] EXCEPT !.edited =
                      IF run[r].pc \in {"loaded", "applying"} THEN @ \cup {t} ELSE @]]
        /\ edit' = None
        /\ UNCHANGED <<clock, bank, linked, account, accounts, matches, made, last>>
    BY DEF SaveEdit
  <1>2. /\ t \in DOMAIN rows /\ edit.row \in RowType /\ edit.row.account = rows[t].account
        /\ rows \in [DOMAIN rows -> RowType] /\ DOMAIN rows \subseteq Nat
        /\ history \in HistoryType /\ history.notes \in [DOMAIN rows -> NoteType]
        /\ run \in [Runs -> RunType]
    BY <1>1 DEF SyncInv, SyncTypes, EditRead, HistoryType
  <1>3. /\ row \in RowType /\ row.value = value /\ row.day = day /\ row.hidden = hidden
        /\ row.account = rows[t].account
    BY <1>2 DEF RowType
  <1> HIDE DEF SyncInv, row
  <1>4. /\ saved \in RowType /\ saved.account = rows[t].account /\ saved.value = value
        /\ saved.day = day /\ saved.hidden = hidden /\ saved.original = row.original
    BY <1>2, <1>3, SavedRowKeeps
  <1> HIDE DEF saved
  <1>5. /\ note \in NoteType /\ note.of = history.notes[t].of /\ note.hidden = hidden
        /\ note.value = Correction(value, row.original.value)
        /\ note.day = Correction(day, row.original.day)
    <2>1. /\ history.notes[t] \in NoteType
          /\ Correction(value, row.original.value) \in Values \cup {None}
          /\ Correction(day, row.original.day) \in ItemDays \cup {None}
      BY <1>2 DEF Correction
    <2> QED BY <2>1 DEF NoteType
  <1>6. /\ note.value # None => note.value = saved.value /\ saved.original.value # note.value
        /\ note.day # None => note.day = saved.day /\ saved.original.day # note.day
        /\ note.hidden => saved.hidden
    BY <1>4, <1>5 DEF Correction
  <1> HIDE DEF note, t
  <1>7. /\ DOMAIN rows' = DOMAIN rows /\ rows' \in [DOMAIN rows -> RowType]
        /\ \A u \in DOMAIN rows : rows'[u].account = rows[u].account
        /\ rows'[t] = saved /\ \A u \in DOMAIN rows \ {t} : rows'[u] = rows[u]
    BY <1>1, <1>2, <1>4
  <1>8. /\ history' \in HistoryType
        /\ history'.notes = [history.notes EXCEPT ![t] = note]
        /\ history'.prints = history.prints /\ history'.overlapped = history.overlapped
        /\ history'.late = history.late /\ history'.covered = history.covered
        /\ history'.manual = history.manual /\ history'.backfill = history.backfill
    BY <1>1, <1>2, <1>5 DEF HistoryType
  <1>9. /\ history'.notes[t] = note
        /\ \A u \in DOMAIN rows \ {t} : history'.notes[u] = history.notes[u]
        /\ \A u \in DOMAIN rows : history'.notes[u].of = history.notes[u].of
    BY <1>2, <1>5, <1>8
  <1>10. /\ run' \in [Runs -> RunType]
         /\ \A r \in Runs :
               /\ run'[r].pc = run[r].pc /\ run'[r].todo = run[r].todo
               /\ run'[r].obs = run[r].obs /\ run'[r].plan = run[r].plan
               /\ run'[r].account = run[r].account /\ run'[r].outrun = run[r].outrun
               /\ run[r].edited \subseteq run'[r].edited
               /\ Decided(r) => t \in run'[r].edited
    <2>1. t \in Nat
      BY <1>2
    <2> QED BY ZenonT(60), <1>1, <1>2, <2>1 DEF RunType, Decided
  <1>11. SyncTypes'
    <2>1. history' \in HistoryType'
      BY <1>7, <1>8 DEF HistoryType
    <2> QED BY <1>1, <1>7, <1>10, <2>1 DEF SyncInv, SyncTypes
  <1>12. BankKnown' /\ TodoContiguous' /\ EditRead'
    BY <1>1, <1>8, <1>10 DEF SyncInv, BankKnown, Known, TodoContiguous, EditRead
  <1>13. AccountClaimed'
    <2>1. /\ linked => ~history.late
          /\ \A r \in Runs : run[r].account <= accounts
          /\ ~history.late =>
                /\ accounts <= 1 /\ \A u \in DOMAIN rows : rows[u].account = 1
                /\ linked => account = accounts
                /\ ~linked => /\ matches = <<>> /\ account = 0
                              /\ \A r \in Runs : run[r].pc # "applying"
      BY DEF SyncInv, AccountClaimed
    <2>2. \A r \in Runs : run'[r].account <= accounts'
      BY <1>1, <1>10, <2>1
    <2>3. \A r \in Runs : run'[r].pc = run[r].pc
      BY <1>10
    <2>4. DOMAIN rows' = DOMAIN rows /\ \A u \in DOMAIN rows : rows'[u].account = rows[u].account
      BY <1>7
    <2>5. /\ accounts' = accounts /\ account' = account /\ linked' = linked
          /\ matches' = matches /\ history'.late = history.late
      BY <1>1, <1>8
    <2> QED BY <2>1, <2>2, <2>3, <2>4, <2>5 DEF AccountClaimed
  <1>14. PlansDecided'
    <2>1. ASSUME NEW r \in Runs
          PROVE  /\ run'[r].pc = run[r].pc /\ run'[r].obs = run[r].obs
                 /\ run'[r].plan = run[r].plan
      BY <1>10
    <2>2. DOMAIN rows' = DOMAIN rows /\ \A u \in DOMAIN rows : rows'[u].account = rows[u].account
      BY <1>7
    <2>3. made' = made /\ history'.prints = history.prints
      BY <1>1, <1>8
    <2> QED BY <2>1, <2>2, <2>3 DEF SyncInv, PlansDecided, Known, Decided
  <1>15. ProgressCovered'
    BY <1>1, <1>8, <1>10 DEF SyncInv, ProgressCovered, CoveredBefore, CheckpointOf
  <1>16. CorrectionsInRows'
    <2>1. ASSUME NEW u \in DOMAIN rows, ~history'.notes[u].raced
          PROVE  Keeps(history'.notes[u], rows'[u]) /\ Corrects(history'.notes[u], rows'[u])
      <3>1. CASE u = t
        BY <1>6, <1>7, <1>9, <3>1 DEF Keeps, Corrects
      <3>2. CASE u # t
        BY <1>7, <1>9, <2>1, <3>2 DEF SyncInv, CorrectionsInRows
      <3> QED BY <3>1, <3>2
    <2> QED BY <1>7, <2>1 DEF CorrectionsInRows
  <1>17. CorrectionsInPlans'
    <2> SUFFICES ASSUME NEW r \in Runs, NEW i \in DOMAIN run[r].plan, run[r].plan[i].tx # 0,
                        run[r].plan[i].tx \notin run'[r].edited,
                        ~history'.notes[run[r].plan[i].tx].raced
                 PROVE  Keeps(history'.notes[run[r].plan[i].tx], run[r].plan[i].row)
      BY <1>10 DEF CorrectionsInPlans
    <2>1. Decided(r)
      <3>1. DOMAIN <<>> = {}
        OBVIOUS
      <3> QED BY <3>1 DEF SyncInv, PlansDecided
    <2>2. run[r].plan[i].tx \in DOMAIN rows \ {t}
      BY <1>10, <2>1 DEF SyncInv, PlansDecided
    <2> QED BY <1>9, <1>10, <2>2 DEF SyncInv, CorrectionsInPlans
  <1>18. MatchesKnown' /\ MatchedOnce' /\ MatchFound'
    <2>1. /\ matches' = matches /\ DOMAIN rows' = DOMAIN rows
          /\ history'.prints = history.prints /\ history'.overlapped = history.overlapped
          /\ \A u \in DOMAIN rows : history'.notes[u].of = history.notes[u].of
      BY <1>1, <1>7, <1>8, <1>9
    <2>2. \A r \in Runs : /\ run'[r].plan = run[r].plan /\ run'[r].pc = run[r].pc
                          /\ run'[r].outrun = run[r].outrun
      BY <1>10
    <2>3. MatchesKnown' /\ MatchedOnce'
      BY <2>1 DEF SyncInv, MatchesKnown, MatchedOnce
    <2>4. MatchFound'
      BY <2>1, <2>2 DEF SyncInv, MatchFound
    <2> QED BY <2>3, <2>4
  <1>19. MergesAlike' /\ RowsApart'
    <2>1. \A i, j : Lookalike(i, j)' <=> Lookalike(i, j)
      BY <1>8 DEF Lookalike
    <2>2. MergesAlike'
      <3>1. \A r \in Runs : \A i \in DOMAIN run[r].plan :
                run[r].plan[i].tx # 0 => run[r].plan[i].tx \in DOMAIN rows
        BY DEF SyncInv, PlansDecided
      <3>2. \A r \in Runs : run'[r].plan = run[r].plan
        BY <1>10
      <3>3. \A u \in DOMAIN rows : history'.notes[u].of = history.notes[u].of
        BY <1>9
      <3> QED BY <2>1, <3>1, <3>2, <3>3 DEF SyncInv, MergesAlike
    <2>3. RowsApart'
      BY <1>7, <1>9, <2>1 DEF SyncInv, RowsApart
    <2> QED BY <2>2, <2>3
  <1> QED BY <1>11, <1>12, <1>13, <1>14, <1>15, <1>16, <1>17, <1>18, <1>19 DEF SyncInv

-----------------------------------------------------------------------------
(* The invariant, and what follows from it.                                  *)

\* An empty ledger and idle runs: the invariant holds at the start.
LEMMA SyncInit == Init => SyncInv
  <1> SUFFICES ASSUME Init PROVE SyncInv
    OBVIOUS
  <1>1. /\ clock = BackfillDays /\ linked = TRUE /\ account = 0 /\ accounts = 0
        /\ rows = <<>> /\ matches = <<>> /\ made = 0 /\ last = None /\ edit = None
        /\ run = [r \in Runs |-> Idle]
        /\ history = [notes |-> <<>>, covered |-> {}, backfill |-> 0, manual |-> FALSE,
                      overlapped |-> FALSE, late |-> FALSE,
                      prints |-> [i \in Items |-> {Fingerprint(bank[i].report)}]]
        /\ DOMAIN <<>> = {} /\ BackfillDays \in Nat
    BY WindowSyncAssumption DEF Init
  <1>2. PICK value \in [Items -> Values], day \in [Items -> FirstDays] :
            bank = [i \in Items |-> [posted |-> i \in PostedFirst,
                                    report |-> Report(i, 0, value[i], day[i])]]
    BY DEF Init
  <1>3. FirstDays \subseteq ItemDays
    BY WindowSyncAssumption
  <1>4. /\ bank \in [Items -> [posted : BOOLEAN, report : Reports]]
        /\ \A i \in Items : /\ bank[i].report.pid[1] = i
                            /\ Fingerprint(bank[i].report) \in Values \X ItemDays
    BY <1>2, <1>3 DEF Report, Reports, Fingerprint
  <1>5. /\ history.notes = <<>> /\ history.manual = FALSE /\ history.late = FALSE
        /\ history.overlapped = FALSE
        /\ history.prints = [i \in Items |-> {Fingerprint(bank[i].report)}]
    BY <1>1
  <1>6. SyncTypes
    <2>1. history \in HistoryType
      <3>1. history.prints \in [Items -> SUBSET (Values \X ItemDays)]
        BY <1>4, <1>5
      <3>2. <<>> \in [{} -> NoteType]
        OBVIOUS
      <3> DEFINE prints == history.prints
      <3>3. history = [notes |-> <<>>, covered |-> {}, backfill |-> 0, manual |-> FALSE,
                       overlapped |-> FALSE, late |-> FALSE, prints |-> prints]
        BY <1>1
      <3> HIDE DEF prints
      <3> QED BY <1>1, <3>1, <3>2, <3>3 DEF HistoryType, prints
    <2>2. run \in [Runs -> RunType]
      BY <1>1, IdleRun
    <2>3. rows \in [DOMAIN rows -> RowType] /\ matches \in [DOMAIN matches -> MatchType]
      BY <1>1
    <2> QED BY <1>1, <1>4, <2>1, <2>2, <2>3 DEF SyncTypes
  <1>7. \A r \in Runs : run[r] = Idle
    BY <1>1
  <1>8. BankKnown /\ EditRead
    BY <1>1, <1>4, <1>5 DEF BankKnown, Known, EditRead
  <1>9. TodoContiguous /\ PlansDecided
    BY <1>1, <1>7, IdleRun DEF TodoContiguous, PlansDecided, Decided
  <1>10. ProgressCovered
    BY <1>1, <1>7, IdleRun DEF ProgressCovered
  <1>11. AccountClaimed
    BY <1>1, <1>5, <1>7, IdleRun DEF AccountClaimed
  <1>12. CorrectionsInRows /\ CorrectionsInPlans /\ MergesAlike /\ RowsApart
    BY <1>1, <1>7, IdleRun DEF CorrectionsInRows, CorrectionsInPlans, MergesAlike, RowsApart
  <1>13. MatchesKnown /\ MatchedOnce /\ MatchFound
    BY <1>1, <1>7, IdleRun DEF MatchesKnown, MatchedOnce, MatchFound
  <1> QED BY <1>6, <1>8, <1>9, <1>10, <1>11, <1>12, <1>13 DEF SyncInv

\* The invariant reads the variables of the model only.
LEMMA SyncStutter == SyncInv /\ UNCHANGED vars => SyncInv'
  <1> SUFFICES ASSUME SyncInv, UNCHANGED vars PROVE SyncInv'
    OBVIOUS
  <1>1. UNCHANGED <<clock, bank, linked, account, accounts, rows, matches, made, last, run,
                    edit, history>>
    BY DEF vars
  <1>2. SyncTypes'
    BY <1>1 DEF SyncInv, SyncTypes, HistoryType
  <1>3. BankKnown' /\ TodoContiguous' /\ EditRead' /\ AccountClaimed'
    BY <1>1 DEF SyncInv, BankKnown, Known, TodoContiguous, EditRead, AccountClaimed
  <1>4. PlansDecided'
    BY <1>1 DEF SyncInv, PlansDecided, Known, Decided
  <1>5. ProgressCovered'
    BY <1>1 DEF SyncInv, ProgressCovered, CoveredBefore, CheckpointOf
  <1>6. CorrectionsInRows' /\ CorrectionsInPlans'
    BY <1>1 DEF SyncInv, CorrectionsInRows, CorrectionsInPlans
  <1>7. MatchesKnown' /\ MatchedOnce' /\ MatchFound'
    BY <1>1 DEF SyncInv, MatchesKnown, MatchedOnce, MatchFound
  <1>8. MergesAlike' /\ RowsApart'
    BY <1>1 DEF SyncInv, MergesAlike, RowsApart, Lookalike
  <1> QED BY <1>2, <1>3, <1>4, <1>5, <1>6, <1>7, <1>8 DEF SyncInv

\* Every step keeps the invariant, action by action.
LEMMA SyncStep == SyncInv /\ [Next]_vars => SyncInv'
  <1> SUFFICES ASSUME SyncInv, [Next]_vars PROVE SyncInv'
    OBVIOUS
  <1>1. ASSUME NEW r \in Runs, NEW request \in Requests, NEW now \in clock .. MaxClock,
               Start(r, request, now)
        PROVE  SyncInv'
    BY <1>1, StartStep
  <1>2. ASSUME NEW r \in Runs,
               Fetch(r) \/ Load(r) \/ BeginApply(r) \/ Commit(r) \/ Fail(r) \/ Crash(r)
        PROVE  SyncInv'
    BY <1>2, FetchStep, LoadStep, BeginApplyStep, CommitStep, FailStep
  <1>3. ASSUME NEW t \in DOMAIN rows, OpenEdit(t) \/ LinkPair(t) \/ UnlinkPair(t)
        PROVE  SyncInv'
    BY <1>3, OpenEditStep, PairStep
  <1>4. ASSUME NEW value \in Values, NEW day \in ItemDays, NEW hidden \in BOOLEAN,
               SaveEdit(value, day, hidden)
        PROVE  SyncInv'
    BY <1>4, SaveEditStep
  <1>5. ASSUME Disconnect PROVE SyncInv'
    BY <1>5, DisconnectStep
  <1>6. ASSUME NEW i \in Items,
               \/ Post(i)
               \/ \E n \in {0, 1}, value \in Values, day \in ItemDays :
                     Revise(i, Report(i, n, value, day))
        PROVE  SyncInv'
    BY <1>6, BankStep
  <1>7. CASE UNCHANGED vars
    BY <1>7, SyncStutter
  <1> QED BY <1>1, <1>2, <1>3, <1>4, <1>5, <1>6, <1>7 DEF Next

\* In every behaviour: the invariant, with its types.
THEOREM SyncInvariant == Spec => []SyncInv
  BY SyncInit, SyncStep, PTL DEF Spec

\* Types: every row holds contents and days, every match points to a row.
THEOREM SyncTypesCorrect == Spec => []TypeOK
  <1>1. SyncInv => TypeOK
    <2> SUFFICES ASSUME SyncInv PROVE TypeOK
      OBVIOUS
    <2>1. /\ clock \in Nat /\ linked \in BOOLEAN /\ account \in 0 .. accounts
          /\ accounts \in Nat
          /\ DOMAIN history.notes = DOMAIN rows
          /\ \A t \in DOMAIN rows : rows[t] \in RowType
          /\ \A r \in Runs : run[r] \in RunType
      BY DEF SyncInv, SyncTypes, HistoryType
    <2>2. \A m \in DOMAIN matches : matches[m].tx \in DOMAIN rows
      BY DEF SyncInv, MatchesKnown
    <2> HIDE DEF SyncInv
    <2> QED BY <2>1, <2>2 DEF TypeOK, RowType, Content, RunType
  <1> QED BY <1>1, SyncInvariant, PTL

\* Automatic runs leave no gap behind the checkpoint, whatever overlaps, fails or dies
\* (determineStart, Orchestrate).
THEOREM NoGap == Spec => []CheckpointCovered
  <1>1. SyncInv => CheckpointCovered
    <2> SUFFICES ASSUME SyncInv, linked, last # None, ~history.manual
                 PROVE  history.backfill .. (CheckpointOf(last) - 1) \subseteq history.covered
      BY DEF CheckpointCovered
    <2>1. CoveredBefore(CheckpointOf(last)) /\ history.backfill \in Int
      BY DEF SyncInv, ProgressCovered, SyncTypes, HistoryType
    <2>2. CheckpointOf(last) \in Int
      <3>1. last \in [start : Int, end : Int, ok : BOOLEAN]
        BY DEF SyncInv, SyncTypes
      <3> QED BY <3>1 DEF CheckpointOf
    <2> QED BY <2>1, <2>2 DEF CoveredBefore
  <1> QED BY <1>1, SyncInvariant, PTL

\* Different transactions share a row only if they once looked alike, and without an
\* overlap an identifier is matched once (planTransactionAction).
THEOREM ToldApart == Spec => []TransactionsToldApart
  <1>1. SyncInv => TransactionsToldApart
    BY DEF SyncInv, RowsApart, MatchedOnce, TransactionsToldApart
  <1> QED BY <1>1, SyncInvariant, PTL

\* A user's correction survives every later synchronization, unless it was saved while
\* a run held its snapshot (MergeTransaction).
THEOREM CorrectionsSurvive == Spec => []CorrectionsKept
  <1>1. SyncInv => CorrectionsKept
    BY DEF SyncInv, CorrectionsInRows, Keeps, CorrectionsKept, Kept
  <1> QED BY <1>1, SyncInvariant, PTL

\* First runs that race make one finance account, and no run brings anything back for
\* a deleted connection (claimObservedProviderAccount, ApplySync).
THEOREM OneAccount == Spec => []OneFinanceAccount
  <1>1. SyncInv => OneFinanceAccount
    BY DEF SyncInv, AccountClaimed, OneFinanceAccount
  <1> QED BY <1>1, SyncInvariant, PTL

\* Only linking and unlinking move the pair-owned columns of a row, neither a
\* synchronization nor the save of a row read earlier (saveTransactionModel).
THEOREM PairsOwned == Spec => PairStateOwned
  <1>1. ASSUME SyncInv, [Next]_vars, NEW t \in DOMAIN rows, rows'[t].pair # rows[t].pair
        PROVE  LinkPair(t) \/ UnlinkPair(t)
    <2>1. rows' # rows
      BY <1>1
    <2>2. ASSUME NEW r \in Runs, Commit(r) PROVE FALSE
      <3>1. /\ account' \in Nat /\ rows' = RowsAfter(r, account') /\ t \in DOMAIN rows'
            /\ rows[t] \in RowType
        BY <1>1, <2>2, CommitHistory, CommitKeepsRows DEF SyncInv, SyncTypes
      <3>2. ASSUME NEW i \in DOMAIN run[r].plan, run[r].plan[i].tx = t
            PROVE  SavedRow(rows[t], run[r].plan[i].row).pair = rows[t].pair
        <4>1. t # 0 /\ run[r].plan[i].row \in RowType
          BY <1>1, <3>2 DEF SyncInv, SyncTypes, PlansDecided
        <4> QED BY <3>1, <4>1, SavedRowKeeps
      <3> QED BY <1>1, <3>1, <3>2, RowsStored DEF SyncInv
    <2>3. ASSUME NEW value \in Values, NEW day \in ItemDays, NEW hidden \in BOOLEAN,
                 SaveEdit(value, day, hidden)
          PROVE  FALSE
      <3> DEFINE row == [edit.row EXCEPT !.value = value, !.day = day, !.hidden = hidden]
      <3>1. /\ rows' = [rows EXCEPT ![edit.tx] = SavedRow(rows[edit.tx], row)]
            /\ edit # None
        BY <2>3 DEF SaveEdit
      <3>2. edit.row \in RowType /\ rows[edit.tx] \in RowType /\ edit.tx \in DOMAIN rows
        BY <1>1, <3>1 DEF SyncInv, SyncTypes
      <3>3. row \in RowType
        BY <3>2 DEF RowType
      <3> HIDE DEF row
      <3>4. SavedRow(rows[edit.tx], row).pair = rows[edit.tx].pair
        BY <3>2, <3>3, SavedRowKeeps
      <3> QED BY <1>1, <3>1, <3>2, <3>4
    <2>4. ASSUME NEW u \in DOMAIN rows, LinkPair(u) \/ UnlinkPair(u) PROVE u = t
      BY <1>1, <2>4 DEF LinkPair, UnlinkPair
    <2> QED BY ZenonT(60), <1>1, <2>1, <2>2, <2>3, <2>4
            DEF Next, Start, Fetch, Load, BeginApply, Fail, Crash, OpenEdit, Disconnect, Post,
                Revise, vars
  <1>2. SyncInv /\ [Next]_vars =>
            [\A t \in DOMAIN rows :
                rows'[t].pair # rows[t].pair => LinkPair(t) \/ UnlinkPair(t)]_vars
    BY <1>1
  <1> QED BY <1>2, SyncInvariant, PTL DEF Spec, PairStateOwned
=============================================================================
