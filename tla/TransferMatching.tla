-------------------------- MODULE TransferMatching --------------------------
(***************************************************************************)
(* Matching of internal transfers: the two legs of a transfer, booked on    *)
(* different accounts, are found and linked (finance/                       *)
(* service_transfer_matching.go, persistence/transfer_pair_store.go).       *)
(* An attempt covers a range of instants.  It loads every eligible row of   *)
(* an extended range in one statement, decides all pairs on that load, and  *)
(* then links pair after pair, each in a transaction of its own that does   *)
(* not look at the rows again.  Attempts come from two consumers: the one   *)
(* of committed sync windows, and the one of ranges users submit; a user    *)
(* links and unlinks by hand at the same time.                              *)
(*                                                                          *)
(* What the rules read of a row never changes here, as every attempt reads  *)
(* a row once; identifiers are numbers; the unit of time is the matching    *)
(* window of 72 hours.  The kind transfer and the matching timestamp go     *)
(* with the group, so a group stands for the three.                         *)
(***************************************************************************)
EXTENDS Integers, Sequences, FiniteSets, SequencesExt

CONSTANTS Ledgers,      \* ledgers to start from, each a sequence of rows
          Window,       \* transferMatchingWindow
          Extension,    \* transferMatchingLoadExtension
          MaxCandidates,\* transferMatchingMaxCandidates
          MinInt,       \* math.MinInt64
          Ranges,       \* ranges users submit
          MaxWindows,   \* bound on sync windows
          MaxSubmitted, \* bound on submissions
          MaxUserOps,   \* bound on user operations
          MaxFaults,    \* bound on failed attempts
          None          \* nil

\* Identifiers have an order, instants and amounts are integers of 64 bits.
ASSUME TransferMatchingAssumption ==
    /\ Window \in Nat
    /\ Extension = 2 * Window
    /\ MaxCandidates = 2
    /\ MinInt \in Int
    /\ Ranges \subseteq [start : Int, end : Int]
    /\ \A rows \in Ledgers :
          /\ IsFiniteSet(DOMAIN rows) /\ DOMAIN rows \subseteq Int
          /\ \A t \in DOMAIN rows :
                /\ rows[t].at \in Int
                /\ rows[t].amount \in MinInt .. -(MinInt + 1)
                /\ rows[t].operation # None => rows[t].operation.amount \in Int

VARIABLES
    ledger,    \* the rows of one tenant
    state,     \* row -> what changes of it
    windows,   \* completed sync windows to match, in order
    submitted, \* ranges submitted, in order
    attempt,   \* consumer -> whether it is saving, and the pairs still to save
    user,      \* a user's operation under way, or None
    groups,    \* transfer groups made so far
    past,      \* what has happened, for the properties only
    budget     \* operations the bounds leave

vars == <<ledger, state, windows, submitted, attempt, user, groups, past, budget>>

Consumers == {"windows", "submitted"}
Rows == DOMAIN ledger

-----------------------------------------------------------------------------
(* Eligibility and the rules *)

\* Mutants: a clause of the selection is missing.
Eligible_Grouped(t) ==
    state[t].status = "booked" /\ ~state[t].hidden /\ ~state[t].excluded
Eligible_Excluded(t) ==
    state[t].status = "booked" /\ ~state[t].hidden /\ state[t].group = 0

\* hidden_at, status, transfer_matching_excluded and transfer_group_id.
Eligible(t) ==
    /\ state[t].status = "booked"
    /\ ~state[t].hidden
    /\ ~state[t].excluded
    /\ state[t].group = 0

EligibleRows == {t \in Rows : Eligible(t)}

\* Mutant: one matching window on either side is enough.
Loaded_Short(range) ==
    {t \in EligibleRows : /\ range.start - Window <= ledger[t].at
                          /\ ledger[t].at < range.end + Window}

\* ListEligibleTransferMatchingTransactions.
Loaded(range) ==
    {t \in EligibleRows : /\ range.start - Extension <= ledger[t].at
                          /\ ledger[t].at < range.end + Extension}

Near(t, u) == /\ ledger[u].at >= ledger[t].at - Window
              /\ ledger[u].at <= ledger[t].at + Window

OtherAccount(t, u) == ledger[u].account # ledger[t].account

SameConnection(t, u) == /\ ledger[t].connection # None
                        /\ ledger[t].connection = ledger[u].connection

SameCurrency(t, u) ==
    /\ ledger[t].amount # MinInt
    /\ ledger[u].currency = ledger[t].currency
    /\ ledger[u].amount = -ledger[t].amount

\* The base amount at the quoted rate, rounded half up, is the quote amount.
Converts(fx, base, quote) ==
    LET converted == base * fx.rate
        quotient  == converted \div fx.per
    IN  quote = IF 2 * (converted % fx.per) >= fx.per THEN quotient + 1 ELSE quotient

Magnitude(amount) == IF amount < 0 THEN -amount ELSE amount

\* Equal evidence in both descriptions, opposite signs, and the conversion.
ForeignExchange(t, u) ==
    LET fx == ledger[t].fx
        a == ledger[t]
        b == ledger[u]
    IN  /\ fx # None /\ b.fx = fx /\ SameConnection(t, u)
        /\ (a.amount < 0) # (b.amount < 0)
        /\ \/ /\ a.currency = fx.base /\ b.currency = fx.quote
              /\ Converts(fx, Magnitude(a.amount), Magnitude(b.amount))
           \/ /\ a.currency = fx.quote /\ b.currency = fx.base
              /\ Converts(fx, Magnitude(b.amount), Magnitude(a.amount))

\* Evidence of a provider snapshot counts while the amount is the provider's own.
Unedited(t) == ledger[t].amount = ledger[t].original

Monobank(t, u) ==
    LET a == ledger[t]
        b == ledger[u]
    IN  /\ a.operation # None /\ b.operation # None /\ SameConnection(t, u)
        /\ Unedited(t) /\ Unedited(u)
        /\ b.currency = a.operation.currency /\ b.amount = -a.operation.amount
        /\ b.operation.currency = a.currency /\ b.operation.amount = -a.amount

\* Same route, one leg out and one leg in, in different currencies.
PKO(t, u) ==
    LET a == ledger[t]
        b == ledger[u]
    IN  /\ a.route # None /\ b.route = a.route /\ SameConnection(t, u)
        /\ Unedited(t) /\ Unedited(u)
        /\ (a.amount < 0) # (b.amount < 0)
        /\ a.currency # b.currency

-----------------------------------------------------------------------------
(* Decisions *)

Earlier(t, u) == \/ ledger[t].at < ledger[u].at
                 \/ ledger[t].at = ledger[u].at /\ t < u

\* The first n of some rows, by time and identifier.
First(n, rows) == {u \in rows : Cardinality({v \in rows : Earlier(v, u)}) < n}

\* A rule's candidates in the load, up to the cap.
ByRule(t, load, Rule(_, _)) ==
    First(MaxCandidates, {u \in load \ {t} : /\ OtherAccount(t, u) /\ Near(t, u)
                                             /\ Rule(t, u)})

\* Mutant: the first rule that has a candidate settles it.
Candidates_FirstRule(t, load) ==
    LET byRule == <<ByRule(t, load, SameCurrency), ByRule(t, load, ForeignExchange),
                    ByRule(t, load, Monobank), ByRule(t, load, PKO)>>
        found == {k \in DOMAIN byRule : byRule[k] # {}}
    IN  IF found = {} THEN {} ELSE byRule[CHOOSE k \in found : \A j \in found : k <= j]

\* addCandidate: a row found by two rules counts once, up to the cap.
Adding(found, more) ==
    found \cup First(MaxCandidates - Cardinality(found), more \ found)

\* The rules one after the other.
Candidates(t, load) ==
    Adding(Adding(Adding(ByRule(t, load, SameCurrency), ByRule(t, load, ForeignExchange)),
                  ByRule(t, load, Monobank)), ByRule(t, load, PKO))

\* evaluateTransferMatchingStart: the only candidate of a row, if the row is also
\* its only candidate.
Paired(t, load) ==
    LET mine == Candidates(t, load)
    IN  {u \in mine : mine = {u} /\ Candidates(u, load) = {t}}

\* Mutant: both legs must lie in the range.
Starting_Both(range, load) ==
    {t \in load : /\ range.start <= ledger[t].at /\ ledger[t].at < range.end
                  /\ \A u \in Paired(t, load) : range.start <= ledger[u].at
                                                /\ ledger[u].at < range.end}

Starting(range, load) == {t \in load : range.start <= ledger[t].at /\ ledger[t].at < range.end}

\* The lesser identifier first.
Ordered(t, u) == IF t < u THEN <<t, u>> ELSE <<u, t>>

Decide(range, load) ==
    UNION {{Ordered(t, u) : u \in Paired(t, load)} : t \in Starting(range, load)}

\* Pairs are saved in this order.
Precedes(p, q) == p[1] < q[1] \/ (p[1] = q[1] /\ p[2] < q[2])

-----------------------------------------------------------------------------
(* Pair writes *)

\* Mutant: the group is taken once.
NewGroup_Once == IF groups = 0 THEN 1 ELSE groups

\* newID, for each pair.
NewGroup == groups + 1

\* updatePair writes both legs, whatever they hold by now.
Linked(t, u, by) ==
    [state EXCEPT ![t].group = NewGroup, ![t].by = by,
                  ![u].group = NewGroup, ![u].by = by]

Unlinked(t, u) ==
    [state EXCEPT ![t].group = 0, ![t].excluded = TRUE,
                  ![u].group = 0, ![u].excluded = TRUE]

-----------------------------------------------------------------------------

Idle == [pc |-> "idle", todo |-> {}, stale |-> FALSE]

\* For the properties: what the others read of the legs is no longer so.
Writes(legs) ==
    [c \in Consumers |-> [attempt[c] EXCEPT !.stale =
        @ \/ \E pair \in attempt[c].todo : {pair[1], pair[2]} \cap legs # {}]]

AnOp == budget.userOps > 0 /\ budget' = [budget EXCEPT !.userOps = @ - 1]

TypeOK ==
    /\ \A t \in Rows : /\ state[t].status \in {"absent", "pending", "booked"}
                       /\ state[t].group \in 0 .. groups
                       /\ state[t].by \in {"none", "matcher", "user"}
                       /\ state[t].excluded \in BOOLEAN /\ state[t].hidden \in BOOLEAN
    /\ \A c \in Consumers : \/ attempt[c] = Idle
                             \/ /\ attempt[c].pc = "saving"
                                /\ attempt[c].todo \subseteq Rows \X Rows

Init ==
    /\ ledger \in Ledgers
    /\ state = [t \in Rows |-> [status |-> "absent", hidden |-> FALSE, group |-> 0,
                                         excluded |-> FALSE, by |-> "none"]]
    /\ windows = <<>>
    /\ submitted = <<>>
    /\ attempt = [c \in Consumers |-> Idle]
    /\ user = None
    /\ groups = 0
    /\ past = [raced |-> FALSE, overlapped |-> FALSE, disturbed |-> FALSE]
    /\ budget = [windows |-> MaxWindows, submitted |-> MaxSubmitted,
                 userOps |-> MaxUserOps, faults |-> MaxFaults]

\* A sync commits a window: it brings rows in, or books pending ones.
Synchronize(rows, status) ==
    /\ budget.windows > 0
    /\ \A t \in rows : state[t].status \notin {status, "booked"}
    /\ state' = [t \in Rows |-> IF t \in rows THEN [state[t] EXCEPT !.status = status]
                                ELSE state[t]]
    /\ LET instants == {ledger[t].at : t \in rows} IN
         windows' = Append(windows, [start |-> Min(instants), end |-> Max(instants) + 1])
    /\ budget' = [budget EXCEPT !.windows = @ - 1]
    /\ UNCHANGED <<ledger, submitted, attempt, user, groups, past>>

\* Submit, with a valid range.
Submit(range) ==
    /\ budget.submitted > 0
    /\ range.start < range.end
    /\ submitted' = Append(submitted, range)
    /\ budget' = [budget EXCEPT !.submitted = @ - 1]
    /\ UNCHANGED <<ledger, state, windows, attempt, user, groups, past>>

Queue(c) == IF c = "windows" THEN windows ELSE submitted

\* Match, up to the first pair write.
Begin(c) ==
    /\ attempt[c].pc = "idle"
    /\ Queue(c) # <<>>
    /\ LET range == Head(Queue(c))
       IN  attempt' = [attempt EXCEPT ![c] = [pc   |-> "saving",
                                              todo |-> Decide(range, Loaded(range)),
                                              stale |-> FALSE]]
    /\ past' = [past EXCEPT !.overlapped =
                   @ \/ \E d \in Consumers \ {c} : attempt[d].pc = "saving"]
    /\ UNCHANGED <<ledger, state, windows, submitted, user, groups, budget>>

\* LinkTransferPair for the next pair.
SavePair(c) ==
    /\ attempt[c].pc = "saving"
    /\ \E pair \in attempt[c].todo :
         /\ \A other \in attempt[c].todo \ {pair} : Precedes(pair, other)
         /\ state' = Linked(pair[1], pair[2], "matcher")
         /\ attempt' = [Writes({pair[1], pair[2]}) EXCEPT
                           ![c] = [attempt[c] EXCEPT !.todo = @ \ {pair}]]
         /\ user' = IF user # None /\ {pair[1], pair[2]} \cap ToSet(user.legs) # {}
                    THEN [user EXCEPT !.stale = TRUE] ELSE user
    /\ past' = [past EXCEPT !.raced = @ \/ attempt[c].stale]
    /\ groups' = NewGroup
    /\ UNCHANGED <<ledger, windows, submitted, budget>>

\* The handler returns and its message is done with.
Finish(c) ==
    /\ attempt[c].pc = "saving"
    /\ attempt[c].todo = {}
    /\ attempt' = [attempt EXCEPT ![c] = Idle]
    /\ windows' = IF c = "windows" THEN Tail(windows) ELSE windows
    /\ submitted' = IF c = "submitted" THEN Tail(submitted) ELSE submitted
    /\ UNCHANGED <<ledger, state, user, groups, past, budget>>

\* A database error, a cancelled context or a crash: pairs already saved stay, and
\* the message is delivered again.
FailAttempt(c) ==
    /\ attempt[c].pc = "saving"
    /\ budget.faults > 0
    /\ budget' = [budget EXCEPT !.faults = @ - 1]
    /\ attempt' = [attempt EXCEPT ![c] = Idle]
    /\ UNCHANGED <<ledger, state, windows, submitted, user, groups, past>>

\* LinkTransfers and UnlinkTransfers read and validate both rows ...
OpenLink(t, u) ==
    /\ AnOp
    /\ user = None
    /\ t < u /\ OtherAccount(t, u)
    /\ state[t].status = "booked" /\ state[u].status = "booked"
    /\ (ledger[t].amount > 0) # (ledger[u].amount > 0)
    /\ state[t].group = 0 /\ state[u].group = 0
    /\ user' = [op |-> "link", legs |-> <<t, u>>, stale |-> FALSE]
    /\ UNCHANGED <<ledger, state, windows, submitted, attempt, groups, past>>

OpenUnlink(t, u) ==
    /\ AnOp
    /\ user = None
    /\ t < u
    /\ state[t].group # 0 /\ state[t].group = state[u].group
    /\ user' = [op |-> "unlink", legs |-> <<t, u>>, stale |-> FALSE]
    /\ UNCHANGED <<ledger, state, windows, submitted, attempt, groups, past>>

\* ... and write both.
CompleteUser ==
    /\ user # None
    /\ LET t == user.legs[1]
           u == user.legs[2]
       IN  /\ \/ /\ user.op = "link"
                 /\ state' = Linked(t, u, "user")
                 /\ groups' = NewGroup
              \/ /\ user.op = "unlink"
                 /\ state' = Unlinked(t, u)
                 /\ UNCHANGED groups
           /\ attempt' = Writes({t, u})
    /\ past' = [past EXCEPT !.raced = @ \/ user.stale, !.disturbed = TRUE]
    /\ user' = None
    /\ UNCHANGED <<ledger, windows, submitted, budget>>

\* HideTransaction.
Hide(t) ==
    /\ AnOp
    /\ state[t].status # "absent"
    /\ ~state[t].hidden
    /\ state' = [state EXCEPT ![t].hidden = TRUE]
    /\ past' = [past EXCEPT !.disturbed = TRUE]
    /\ UNCHANGED <<ledger, windows, submitted, attempt, user, groups>>

Next ==
    \/ \E rows \in (SUBSET Rows) \ {{}}, status \in {"pending", "booked"} :
          Synchronize(rows, status)
    \/ \E t \in Rows : \/ Hide(t)
                       \/ \E u \in Rows : OpenLink(t, u) \/ OpenUnlink(t, u)
    \/ CompleteUser
    \/ \E range \in Ranges : Submit(range)
    \/ \E c \in Consumers : Begin(c) \/ SavePair(c) \/ Finish(c) \/ FailAttempt(c)

Spec == Init /\ [][Next]_vars

-----------------------------------------------------------------------------
(* Properties *)

\* The counterparts of a row in a set of rows, read off the rules without the
\* order, caps and loads of the code.
Counterparts(t, among) ==
    {u \in among \ {t} :
        /\ OtherAccount(t, u)
        /\ Near(t, u)
        /\ \/ SameCurrency(t, u) \/ ForeignExchange(t, u) \/ Monobank(t, u) \/ PKO(t, u)}

MutuallyUnique(t, u, among) ==
    Counterparts(t, among) = {u} /\ Counterparts(u, among) = {t}

InRange(t, range) == range.start <= ledger[t].at /\ ledger[t].at < range.end

\* An attempt decides on exactly the pairs, with a leg in its range, that are each
\* other's only counterpart in the whole ledger: the extended load misses no
\* competitor, and neither the cap nor the order of the rules shows
\* (decideTransferMatchingPairs).
DecisionsExact ==
    [][\A c \in Consumers : attempt[c].pc = "idle" /\ attempt'[c].pc = "saving" =>
          LET range == Head(Queue(c))
          IN  attempt'[c].todo =
                 {p \in EligibleRows \X EligibleRows :
                     /\ p[1] < p[2]
                     /\ InRange(p[1], range) \/ InRange(p[2], range)
                     /\ MutuallyUnique(p[1], p[2], EligibleRows)}]_vars

\* GetTransferPartner.
PartnersOf(t) == IF state[t].group = 0 THEN {}
                 ELSE {u \in Rows \ {t} : state[u].group = state[t].group}

\* In any interleaving of attempts and users a row has at most one partner, so the
\* detail view never meets a group it cannot show.  As long as no pair was written
\* over a leg that had changed since it was read, no leg is left without its partner
\* and a leg the user took apart is never matched again (LinkTransferPair and
\* UnlinkTransferPair write both legs or neither, under one new group).
PairsSound ==
    /\ \A t \in Rows : Cardinality(PartnersOf(t)) <= 1
    /\ ~past.raced => \A t \in Rows :
          /\ state[t].group # 0 => PartnersOf(t) # {}
          /\ ~(state[t].excluded /\ state[t].by = "matcher" /\ state[t].group # 0)

\* Once the windows of all the rows are matched, failures and retries included, no
\* two rows are left that only have each other: whichever leg came last, its window
\* found the other one.  Users who link, unlink or hide free counterparts without
\* completing a window, and so do two attempts at once.
AllUniquePaired ==
    /\ windows = <<>>
    /\ ~past.disturbed /\ ~past.overlapped
    /\ \A c \in Consumers : attempt[c].pc = "idle"
    => \A t, u \in EligibleRows : ~MutuallyUnique(t, u, EligibleRows)
=============================================================================
