------------------------------ MODULE CsvImport ------------------------------
(***************************************************************************)
(* CSV imports (finance/service_csv_import.go, persistence/                 *)
(* csv_import_store.go): a preview predicts what a file would do, a user    *)
(* confirms it, and a job, delivered at least once, imports row after row,  *)
(* each in a transaction of its own that also records the row's outcome.    *)
(* The import's record is read once and saved whole, by confirmations and   *)
(* by runs alike.                                                           *)
(*                                                                          *)
(* A row of a file is a record: whether it parses, its account, currency,   *)
(* category (or None), and a key that stands for the date, amount and       *)
(* description, with the sign of the amount apart.  Tags, which are created *)
(* on demand as categories are, are left out.                               *)
(***************************************************************************)
EXTENDS Integers, Sequences, FiniteSets, SequencesExt

CONSTANTS Imports,     \* import identifiers
          Situations,  \* files, with their types, and catalogs to start from
          Users,       \* requests of one user to confirm
          Runners,     \* deliveries of import jobs at a time
          MaxFaults,   \* bound on crashes, errors, repeated deliveries, hidden accounts
          None         \* nil

VARIABLES
    files,      \* import -> its type, rows and selected accounts
    records,    \* import -> the saved record
    outcomes,   \* import, row -> outcome
    accounts,   \* name -> the accounts of that name
    categories, \* name -> the kinds of the categories of that name
    posted,     \* import, row -> how often the row was written
    messages,   \* import -> its job's message
    confirming, \* user -> a confirmation under way
    runs,       \* runner -> a run under way
    seen,       \* import -> what has happened, for the properties only
    faults

vars == <<files, records, outcomes, accounts, categories, posted,
          messages, confirming, runs, seen, faults>>

catalog == <<accounts, categories, posted, outcomes>>

Rows(i) == DOMAIN files[i].rows
Row(i, r) == files[i].rows[r]

\* Rows of deselected accounts are passed over, as are those that do not parse.
Chosen(i, r) == Row(i, r).account \in files[i].selected
ToImport(i) == {r \in Rows(i) : Row(i, r).parses /\ Chosen(i, r)}

\* The same account, currency, amount, description and time.
SameEntry(row, other) == [row EXCEPT !.category = None] = [other EXCEPT !.category = None]

\* Mutant: rows are new within one file.
InLedger_OtherFiles(i, r) ==
    \E j \in Imports \ {i} :
        \E q \in Rows(j) : posted[j][q] > 0 /\ SameEntry(Row(j, q), Row(i, r))

\* isDuplicateCSVImportTransaction and rejectDuplicateImportTransaction.
InLedger(i, r) ==
    \E j \in Imports :
        \E q \in Rows(j) : posted[j][q] > 0 /\ SameEntry(Row(j, q), Row(i, r))

Kind(row) == IF row.expense THEN "expense" ELSE "income"

\* What the catalog makes of a row; resolveImportAccount and resolveImportCategory.
Acceptable(row) ==
    /\ \/ accounts[row.account] = <<>>
       \/ /\ Len(accounts[row.account]) = 1
          /\ accounts[row.account][1] = [currency |-> row.currency, hidden |-> FALSE]
    /\ \/ row.category = None
       \/ categories[row.category] = <<>>
       \/ categories[row.category] = <<Kind(row)>>

-----------------------------------------------------------------------------
(* Preview *)

\* Rows one after the other, with the currencies and kinds of what earlier rows
\* would create (previewTransactionRow, validateCatalogRow).
NoProposal == [currency |-> [n \in DOMAIN accounts |-> None],
               kind     |-> [n \in DOMAIN categories |-> None],
               importable |-> {}, duplicate |-> {}]

Agrees(proposal, row) ==
    /\ Acceptable(row)
    /\ proposal.currency[row.account] \in {None, row.currency}
    /\ row.category = None \/ proposal.kind[row.category] \in {None, Kind(row)}

Proposed(proposal, i, r) ==
    LET row == Row(i, r)
        kind == IF row.category = None THEN proposal.kind
                ELSE [proposal.kind EXCEPT ![row.category] =
                         IF categories[row.category] = <<>> THEN Kind(row) ELSE @]
        currency == [proposal.currency EXCEPT ![row.account] =
                        IF accounts[row.account] = <<>> THEN row.currency ELSE @]
    IN  IF ~Agrees(proposal, row) THEN proposal
        ELSE [proposal EXCEPT !.kind = kind, !.currency = currency,
                              !.importable = IF InLedger(i, r) THEN @ ELSE @ \cup {r},
                              !.duplicate = IF InLedger(i, r) THEN @ \cup {r} ELSE @]

\* Mutant: rows are judged by the catalog alone.
Preview_Apart(i) ==
    LET fit == {r \in ToImport(i) : Acceptable(Row(i, r))}
    IN  [NoProposal EXCEPT !.importable = {r \in fit : ~InLedger(i, r)},
                           !.duplicate = {r \in fit : InLedger(i, r)}]

\* What the first n rows propose.
After(i) ==
    LET proposal[n \in 0 .. Len(files[i].rows)] ==
          IF n = 0 THEN NoProposal
          ELSE IF n \in ToImport(i) THEN Proposed(proposal[n - 1], i, n)
          ELSE proposal[n - 1]
    IN  proposal

Preview(i) == After(i)[Len(files[i].rows)]

\* Mutant: rows are counted with the header.
RejectedAtPreview_Shifted(i) == {r + 1 : r \in {q \in Rows(i) : ~Row(i, q).parses}}

\* An account file's rows with a missing field are rejected from the start.
RejectedAtPreview(i) ==
    IF files[i].type = "accounts" THEN {r \in Rows(i) : ~Row(i, r).parses}
    ELSE {r \in Rows(i) : Chosen(i, r) /\ r \notin Preview(i).importable \cup Preview(i).duplicate}

-----------------------------------------------------------------------------
(* The record *)

NoRecord == [status |-> "none", job |-> FALSE, imported |-> 0, rejected |-> {}]

NeedsPublication(record) ==
    \/ record.status = "previewed"
    \/ record.status \in {"confirmed", "running"} /\ ~record.job

Confirmed(record) ==
    IF record.status = "previewed" THEN [record EXCEPT !.status = "confirmed"] ELSE record

\* Mutant: the command goes out before the confirmation is saved.
ConfirmSteps_PublishFirst == <<"publish", "confirm", "reference">>

\* ConfirmCSVImport, once the record is read.
ConfirmSteps == <<"confirm", "publish", "reference">>

-----------------------------------------------------------------------------

Init ==
    /\ \E s \in Situations :
          /\ files = s.files /\ accounts = s.accounts
          /\ categories = s.categories
    /\ records = [i \in Imports |-> NoRecord]
    /\ outcomes = [i \in Imports |-> [r \in Rows(i) |-> "none"]]
    /\ posted = [i \in Imports |-> [r \in Rows(i) |-> 0]]
    /\ messages = [i \in Imports |-> "none"]
    /\ confirming = [u \in Users |-> None]
    /\ runs = [w \in Runners |-> None]
    /\ seen = [i \in Imports |-> [foretold |-> {}, disturbed |-> FALSE, erred |-> FALSE,
                                  overtaken |-> FALSE, overlapped |-> FALSE, begun |-> 0]]
    /\ faults = MaxFaults

AFault == faults > 0 /\ faults' = faults - 1

\* The catalog or the ledger moves under the predictions of the others.
Disturbed(others) ==
    [i \in Imports |-> IF i \in others THEN [seen[i] EXCEPT !.disturbed = TRUE] ELSE seen[i]]

\* Rows of one file may repeat, and a duplicate may propose a category.
Misjudged(i) ==
    \/ \E r, q \in Rows(i) : r # q /\ SameEntry(Row(i, r), Row(i, q))
    \/ \E r \in Preview(i).duplicate : /\ Row(i, r).category # None
                                       /\ categories[Row(i, r).category] = <<>>

PreviewCSVImport(i) ==
    /\ records[i].status = "none"
    /\ records' = [records EXCEPT ![i] = [NoRecord EXCEPT !.status = "previewed",
                                                          !.rejected = RejectedAtPreview(i)]]
    /\ seen' = [seen EXCEPT ![i].foretold = Preview(i).importable,
                            ![i].disturbed = Misjudged(i)]
    /\ UNCHANGED <<files, catalog, messages, confirming, runs, faults>>

OpenConfirm(u, i) ==
    /\ confirming[u] = None
    /\ NeedsPublication(records[i])
    /\ confirming' = [confirming EXCEPT ![u] = [import |-> i, copy |-> records[i],
                                                steps |-> ConfirmSteps]]
    /\ UNCHANGED <<files, records, catalog, messages, runs, seen, faults>>

\* The next step of a confirmation: the record saved as confirmed, the command
\* published under the key of the import, the job's reference saved.
StepConfirm(u) ==
    /\ confirming[u] # None
    /\ LET i    == confirming[u].import
           copy == confirming[u].copy
           next == Head(confirming[u].steps)
           rest == Tail(confirming[u].steps)
       IN  /\ confirming' = [confirming EXCEPT ![u] =
                  IF rest = <<>> THEN None
                  ELSE [@ EXCEPT !.steps = rest,
                                 !.copy = IF next = "confirm" THEN Confirmed(copy) ELSE copy]]
           /\ \/ /\ next = "confirm"
                 /\ records' = IF copy.status = "previewed"
                               THEN [records EXCEPT ![i] = Confirmed(copy)] ELSE records
                 /\ seen' = [seen EXCEPT ![i].overtaken =
                                @ \/ (copy.status = "previewed" /\ records[i].status = "completed")]
                 /\ UNCHANGED messages
              \/ /\ next = "publish"
                 /\ messages' = [messages EXCEPT ![i] = IF @ = "none" THEN "pending" ELSE @]
                 /\ UNCHANGED <<records, seen>>
              \/ /\ next = "reference"
                 /\ records' = [records EXCEPT ![i] = [copy EXCEPT !.job = TRUE]]
                 /\ seen' = [seen EXCEPT ![i].overtaken =
                                @ \/ records[i].status = "completed"]
                 /\ UNCHANGED messages
    /\ UNCHANGED <<files, catalog, runs, faults>>

\* A failed save or publication, or a crash.
DropConfirm(u) ==
    /\ confirming[u] # None
    /\ AFault
    /\ confirming' = [confirming EXCEPT ![u] = None]
    /\ UNCHANGED <<files, records, catalog, messages, runs, seen>>

-----------------------------------------------------------------------------
(* Runs *)

Done(i) == messages' = [messages EXCEPT ![i] = "done"]

\* A delivery reads the record.  A second one while a run of the import is under
\* way takes a fault; the runs of the others come from other workers.
OpenRun(w, i) ==
    /\ runs[w] = None
    /\ messages[i] = "pending"
    /\ IF \E v \in Runners \ {w} : runs[v] # None /\ runs[v].import = i
       THEN AFault ELSE UNCHANGED faults
    /\ \/ /\ records[i].status \in {"confirmed", "running"}
          /\ runs' = [runs EXCEPT ![w] = [import |-> i, copy |-> records[i], pc |-> "opened",
                                          todo |-> {}, imported |-> 0, rejected |-> {},
                                          row |-> None]]
          /\ seen' = [seen EXCEPT ![i].begun = IF @ = 0 THEN 1 ELSE 2]
          /\ UNCHANGED messages
       \/ /\ records[i].status \notin {"confirmed", "running"}
          /\ Done(i)
          /\ UNCHANGED <<runs, seen>>
    /\ UNCHANGED <<files, records, catalog, confirming>>

Saved(w) == [runs[w].copy EXCEPT !.status = "running"]

SaveRunning(w) ==
    /\ runs[w] # None /\ runs[w].pc = "opened"
    /\ LET i == runs[w].import
           legacy == files[i].type = "accounts"
           todo == IF legacy THEN Rows(i) \ runs[w].copy.rejected ELSE ToImport(i)
       IN  /\ records' = [records EXCEPT ![i] = Saved(w)]
           /\ runs' = [runs EXCEPT ![w] =
                 [@ EXCEPT !.pc = "rows", !.copy = Saved(w),
                           !.todo = todo,
                           !.rejected = IF legacy THEN runs[w].copy.rejected
                                        ELSE {r \in Rows(i) : Chosen(i, r) /\ ~Row(i, r).parses}]]
           /\ seen' = [seen EXCEPT ![i].overtaken = @ \/ records[i].status = "completed"]
    /\ UNCHANGED <<files, catalog, messages, confirming, faults>>

\* The transaction of a row looks up its outcome, the catalog and the ledger ...
Lookup(i, r) ==
    IF files[i].type = "accounts" THEN "create"
    ELSE IF outcomes[i][r] # "none" THEN outcomes[i][r]
    ELSE IF Acceptable(Row(i, r)) /\ ~InLedger(i, r) THEN "post" ELSE "reject"

OpenRow(w) ==
    /\ runs[w] # None /\ runs[w].pc = "rows" /\ runs[w].row = None
    /\ \E r \in runs[w].todo :
       LET i == runs[w].import
           row == Row(i, r)
           found == Lookup(i, r)
           others == {v \in Runners \ {w} : runs[v] # None /\ runs[v].row # None}
       IN  /\ \A q \in runs[w].todo : r <= q
           /\ runs' = [runs EXCEPT ![w].row =
                 [number |-> r, found |-> found,
                  account |-> found = "post" /\ accounts[row.account] = <<>>,
                  category |-> found = "post" /\ row.category # None
                                 /\ categories[row.category] = <<>>]]
           /\ seen' = [j \in Imports |->
                 IF others # {} /\ (j = i \/ \E v \in others : runs[v].import = j)
                 THEN [seen[j] EXCEPT !.overlapped = TRUE, !.disturbed = TRUE] ELSE seen[j]]
    /\ UNCHANGED <<files, records, catalog, messages, confirming, faults>>

\* The row is done with: imported, or among the rejected.
Count(w, imported) ==
    runs' = [runs EXCEPT ![w] =
        [runs[w] EXCEPT
            !.todo = @ \ {runs[w].row.number}, !.row = None,
            !.imported = IF imported THEN @ + 1 ELSE @,
            !.rejected = IF imported THEN @ ELSE @ \cup {runs[w].row.number}]]

Made(wanted, seq, item) == IF wanted THEN Append(seq, item) ELSE seq

\* Mutant: a retried row that is found imported does not count.
FoundImported_New(found) == found \in {"post", "create"}

FoundImported(found) == found \in {"post", "create", "imported"}

\* Mutant: the outcome is an upsert.
Conflicts_Never(i, r) == FALSE

\* The key of an outcome is its import and row.
Conflicts(i, r) == outcomes[i][r] # "none"

\* ... and commits: the row with what it needs, or its rejection.  A conflict with
\* an outcome written meanwhile, like any other error, rolls the row back and only
\* shows in the result.
CommitRow(w) ==
    /\ runs[w] # None /\ runs[w].row # None
    /\ LET i == runs[w].import
           r == runs[w].row.number
           row == Row(i, r)
           found == runs[w].row.found
       IN  \/ /\ found \in {"imported", "rejected"}
              /\ Count(w, FoundImported(found))
              /\ UNCHANGED <<catalog, seen>>
           \/ /\ found = "create"
              /\ accounts' = [accounts EXCEPT ![row.account] =
                     Append(@, [currency |-> row.currency, hidden |-> FALSE])]
              /\ posted' = [posted EXCEPT ![i][r] = @ + 1]
              /\ Count(w, FoundImported(found))
              /\ seen' = Disturbed(Imports \ {i})
              /\ UNCHANGED <<categories, outcomes>>
           \/ /\ found = "post" /\ ~Conflicts(i, r)
              /\ accounts' = [accounts EXCEPT ![row.account] =
                     Made(runs[w].row.account, @, [currency |-> row.currency, hidden |-> FALSE])]
              /\ categories' = [n \in DOMAIN categories |->
                     Made(n = row.category /\ runs[w].row.category, categories[n], Kind(row))]
              /\ posted' = [posted EXCEPT ![i][r] = @ + 1]
              /\ outcomes' = [outcomes EXCEPT ![i][r] = "imported"]
              /\ Count(w, FoundImported(found))
              /\ seen' = Disturbed(Imports \ {i})
           \/ /\ found = "reject" /\ ~Conflicts(i, r)
              /\ outcomes' = [outcomes EXCEPT ![i][r] = "rejected"]
              /\ Count(w, FALSE)
              /\ UNCHANGED <<accounts, categories, posted, seen>>
           \/ /\ found \in {"post", "reject"} /\ Conflicts(i, r)
              /\ Count(w, FALSE)
              /\ seen' = [seen EXCEPT ![i].erred = TRUE]
              /\ UNCHANGED catalog
    /\ UNCHANGED <<files, records, messages, confirming, faults>>

\* A database error in a row.
FailRow(w) ==
    /\ runs[w] # None /\ runs[w].row # None
    /\ AFault
    /\ Count(w, FALSE)
    /\ seen' = [seen EXCEPT ![runs[w].import].erred = TRUE]
    /\ UNCHANGED <<files, records, catalog, messages, confirming>>

\* The process may crash before its message is done with.
FinishRun(w) ==
    /\ runs[w] # None /\ runs[w].pc = "rows" /\ runs[w].todo = {}
    /\ LET i == runs[w].import IN
         /\ records' = [records EXCEPT ![i] = [status   |-> "completed",
                                               job      |-> TRUE,
                                               imported |-> runs[w].imported,
                                               rejected |-> runs[w].rejected]]
         /\ \/ Done(i) /\ UNCHANGED faults
            \/ AFault /\ UNCHANGED messages
         /\ seen' = [seen EXCEPT ![i].overtaken = FALSE]
    /\ runs' = [runs EXCEPT ![w] = None]
    /\ UNCHANGED <<files, catalog, confirming>>

\* A crash or a failed save: the message is delivered again.
DropRun(w) ==
    /\ runs[w] # None
    /\ AFault
    /\ runs' = [runs EXCEPT ![w] = None]
    /\ UNCHANGED <<files, records, catalog, messages, confirming, seen>>

\* A user hides an account; a fault to the import.
HideAccount(name) ==
    /\ AFault
    /\ Len(accounts[name]) = 1 /\ ~accounts[name][1].hidden
    /\ accounts' = [accounts EXCEPT ![name][1].hidden = TRUE]
    /\ seen' = Disturbed(Imports)
    /\ UNCHANGED <<files, records, outcomes, categories, posted, messages,
                   confirming, runs>>

Next ==
    \/ \E i \in Imports : PreviewCSVImport(i) \/ \E u \in Users : OpenConfirm(u, i)
    \/ \E u \in Users : StepConfirm(u) \/ DropConfirm(u)
    \/ \E w \in Runners :
          \/ \E i \in Imports : OpenRun(w, i)
          \/ SaveRunning(w) \/ OpenRow(w) \/ CommitRow(w) \/ FailRow(w)
          \/ FinishRun(w) \/ DropRun(w)
    \/ \E name \in DOMAIN accounts : HideAccount(name)

Spec == Init /\ [][Next]_vars

-----------------------------------------------------------------------------
(* Properties *)

TypeOK ==
    \A i \in Imports :
        /\ records[i].status \in {"none", "previewed", "confirmed", "running", "completed"}
        /\ records[i].rejected \subseteq Rows(i)
        /\ records[i].imported \in 0 .. Len(files[i].rows)
        /\ messages[i] \in {"none", "pending", "done"}
        /\ \A r \in Rows(i) : outcomes[i][r] \in {"none", "imported", "rejected"}

\* The outcome and the transaction of a row come and go together: however often a
\* job is delivered, crashes or runs beside itself, a row is posted once at most,
\* and its outcome says whether it was.  Account files keep no outcomes: their rows
\* are only safe while the job runs once.
PostedOnce(i) ==
    \A r \in Rows(i) :
        IF files[i].type = "accounts"
        THEN seen[i].begun <= 1 => posted[i][r] <= 1
        ELSE posted[i][r] = IF outcomes[i][r] = "imported" THEN 1 ELSE 0

\* What a completed import reports agrees with the outcomes of its rows, whichever
\* run they are from, unless a row's error was swallowed.
AuditAgrees(i) ==
    records[i].status = "completed" /\ files[i].type = "transactions" /\ ~seen[i].erred =>
        /\ records[i].imported = Cardinality({r \in Rows(i) : outcomes[i][r] = "imported"})
        /\ records[i].rejected = {r \in Rows(i) : Chosen(i, r) /\ outcomes[i][r] # "imported"}

\* An import whose message is done with has completed: the job never finds it
\* unconfirmed, and nobody takes it back, except a confirmation or a second run that
\* read the record before the run ended and saves it after.
DoneMeansCompleted(i) ==
    messages[i] = "done" /\ ~seen[i].overtaken => records[i].status = "completed"

\* Transactions, outcomes and record of an import agree: its rows are posted once at
\* most (ImportTransactionRow), its counts are those of all its runs
\* (RunCSVImportJob), and its status follows its message (ConfirmCSVImport).
ImportsConsistent ==
    \A i \in Imports : PostedOnce(i) /\ AuditAgrees(i) /\ DoneMeansCompleted(i)

\* Unless the transactions of two rows overlap, no entry is posted twice, of one file
\* or of several.
NoDoubleEntry ==
    LET sound == {i \in Imports : files[i].type = "transactions" /\ ~seen[i].overlapped}
    IN  \A i \in sound : \A r \in Rows(i) : posted[i][r] > 0 =>
           \A j \in sound : \A q \in Rows(j) :
               posted[j][q] > 0 /\ <<i, r>> # <<j, q>> => ~SameEntry(Row(i, r), Row(j, q))

\* What the preview promised is what the import does, if nothing else moves the
\* catalog or the ledger in between.  A file that repeats a row, or whose duplicate
\* brings a new category, is previewed too well or too badly and excepted.
PreviewKept ==
    \A i \in Imports :
        /\ records[i].status = "completed" /\ files[i].type = "transactions"
        /\ ~seen[i].disturbed /\ ~seen[i].erred
        => {r \in Rows(i) : outcomes[i][r] = "imported"} = seen[i].foretold
=============================================================================
