------------------------ MODULE MatchingImportProofs ------------------------
(* Theorems about the transfer matching and the CSV imports of Components, for  *)
(* any ledgers, files, catalogs and numbers of attempts, users and runs.        *)
EXTENDS Components, FiniteSetTheorems, SequenceTheorems, WellFoundedInduction, TLAPS

-----------------------------------------------------------------------------
(* Least elements.                                                            *)

\* A finite set has an element that nothing precedes.
LEMMA Minimal ==
    ASSUME NEW S, IsFiniteSet(S), S # {}, NEW R,
           \A x \in S : ~(<<x, x>> \in R),
           \A x, y, z \in S : <<x, y>> \in R /\ <<y, z>> \in R => <<x, z>> \in R
    PROVE  \E x \in S : \A y \in S : ~(<<y, x>> \in R)
  <1> DEFINE Before(x) == {y \in S : <<y, x>> \in R}
             Sets == {T \in SUBSET S : \E x \in S : T = Before(x)}
  <1>1. IsWellFoundedOn(StrictSubsetOrdering(S), FiniteSubsetsOf(S))
    BY FS_StrictSubsetOrderingWellFounded, Zenon
  <1>2. Sets \in SUBSET FiniteSubsetsOf(S)
    BY FS_FiniteSubsetsOfFinite
  <1>3. Sets # {}
    <2>1. PICK x : x \in S
      BY Zenon
    <2>2. Before(x) \in Sets
      BY <2>1, Zenon
    <2> QED BY <2>2
  <1> HIDE DEF Sets
  <1>4. PICK T \in Sets : \A U \in Sets : ~(<<U, T>> \in StrictSubsetOrdering(S))
    BY <1>1, <1>2, <1>3, WFMin, Zenon
  <1>5. PICK x \in S : T = Before(x)
    BY DEF Sets
  <1>6. ASSUME NEW y \in S, <<y, x>> \in R PROVE FALSE
    <2>1. Before(y) \in Sets /\ Before(x) \in Sets
      BY DEF Sets
    <2>2. Before(y) \subseteq Before(x) /\ y \in Before(x) /\ y \notin Before(y)
      BY <1>6
    <2>3. <<Before(y), Before(x)>> \in StrictSubsetOrdering(S)
      BY <2>2 DEF StrictSubsetOrdering
    <2> QED BY <2>1, <2>3, <1>4, <1>5
  <1> QED BY <1>6

\* A finite set of integers has a least and a greatest element.
LEMMA Bounds ==
    ASSUME NEW S \in SUBSET Int, IsFiniteSet(S), S # {}
    PROVE  /\ Min(S) \in S /\ \A x \in S : Min(S) <= x
           /\ Max(S) \in S /\ \A x \in S : x <= Max(S)
  <1>1. \E x \in S : \A y \in S : x <= y
    <2> DEFINE R == {p \in S \X S : p[1] < p[2]}
    <2>1. \A x, y \in S : <<x, y>> \in R <=> x < y
      OBVIOUS
    <2>2. \A x \in S : ~(<<x, x>> \in R)
      BY <2>1
    <2>3. \A x, y, z \in S : <<x, y>> \in R /\ <<y, z>> \in R => <<x, z>> \in R
      BY <2>1
    <2> HIDE DEF R
    <2>4. PICK x \in S : \A y \in S : ~(<<y, x>> \in R)
      BY <2>2, <2>3, Minimal
    <2>5. ASSUME NEW y \in S PROVE x <= y
      <3>1. ~(<<y, x>> \in R) /\ x \in Int /\ y \in Int
        BY <2>4
      <3> QED BY <3>1, <2>1
    <2> QED BY <2>5
  <1>2. \E x \in S : \A y \in S : y <= x
    <2> DEFINE R == {p \in S \X S : p[2] < p[1]}
    <2>1. \A x, y \in S : <<x, y>> \in R <=> y < x
      OBVIOUS
    <2>2. \A x \in S : ~(<<x, x>> \in R)
      BY <2>1
    <2>3. \A x, y, z \in S : <<x, y>> \in R /\ <<y, z>> \in R => <<x, z>> \in R
      BY <2>1
    <2> HIDE DEF R
    <2>4. PICK x \in S : \A y \in S : ~(<<y, x>> \in R)
      BY <2>2, <2>3, Minimal
    <2>5. ASSUME NEW y \in S PROVE y <= x
      <3>1. ~(<<y, x>> \in R) /\ x \in Int /\ y \in Int
        BY <2>4
      <3> QED BY <3>1, <2>1
    <2> QED BY <2>5
  <1> QED BY <1>1, <1>2 DEF Min, Max

-----------------------------------------------------------------------------
(* Matching: the rules, the caps and the load.                                *)

\* Rows of ledgers that the code can hold.
Booked(rows) ==
    /\ IsFiniteSet(DOMAIN rows) /\ DOMAIN rows \subseteq Int
    /\ \A t \in DOMAIN rows :
          /\ rows[t].at \in Int
          /\ rows[t].amount \in MinInt .. -(MinInt + 1)
          /\ rows[t].operation # None => rows[t].operation.amount \in Int

\* What makes two rows counterparts.
Fits(t, u) ==
    /\ t # u
    /\ OtherAccount(t, u)
    /\ Near(t, u)
    /\ \/ SameCurrency(t, u) \/ ForeignExchange(t, u) \/ Monobank(t, u) \/ PKO(t, u)

\* The candidates kept tell what matters of all of them: whether there is none, and
\* which one is the only one.
StandsFor(kept, all) ==
    /\ kept \in SUBSET all
    /\ kept = {} <=> all = {}
    /\ \A u : kept = {u} <=> all = {u}

\* The first rows by time and identifier: some row is the first, and with the cap of
\* two no second row hides behind a single one.
LEMMA FirstRows ==
    ASSUME Booked(ledger), NEW S \in SUBSET Rows
    PROVE  /\ \A n : First(n, S) \subseteq S
           /\ S # {} => First(1, S) # {}
           /\ StandsFor(First(2, S), S)
  <1> DEFINE R == {p \in Rows \X Rows : Earlier(p[1], p[2])}
             Before(T, u) == {v \in T : Earlier(v, u)}
  <1>0. /\ IsFiniteSet(Rows) /\ Rows \subseteq Int
        /\ \A t \in Rows : ledger[t].at \in Int
    BY DEF Booked, Rows
  <1>1. \A x, y \in Rows : <<x, y>> \in R <=> Earlier(x, y)
    OBVIOUS
  <1>2. \A x \in Rows : ~(<<x, x>> \in R)
    BY <1>0, <1>1 DEF Earlier
  <1>3. \A x, y, z \in Rows : <<x, y>> \in R /\ <<y, z>> \in R => <<x, z>> \in R
    BY <1>0, <1>1 DEF Earlier
  <1> HIDE DEF R
  <1>4. ASSUME NEW T \in SUBSET Rows, T # {}
        PROVE  \E x \in T : Before(T, x) = {}
    <2>1. IsFiniteSet(T)
      BY <1>0, FS_Subset
    <2>2. PICK x \in T : \A y \in T : ~(<<y, x>> \in R)
      BY <2>1, <1>2, <1>3, <1>4, Minimal
    <2> QED BY <2>2, <1>1
  <1>5. \A n : First(n, S) \subseteq S
    BY DEF First
  <1>6. ASSUME S # {} PROVE \E x \in S : x \in First(1, S) /\ x \in First(2, S)
    <2>1. PICK x \in S : Before(S, x) = {}
      BY <1>4, <1>6
    <2>2. Cardinality(Before(S, x)) = 0
      BY <2>1, FS_EmptySet
    <2>3. Cardinality(Before(S, x)) < 1 /\ Cardinality(Before(S, x)) < 2
      BY <2>2
    <2> QED BY <2>3 DEF First
  <1>7. ASSUME NEW u \in S, S # {u} PROVE \E x \in S \ {u} : x \in First(2, S)
    <2>1. PICK x \in S \ {u} : Before(S \ {u}, x) = {}
      BY <1>4, <1>7
    <2>2. Before(S, x) = {} \/ Before(S, x) = {u}
      BY <2>1
    <2>3. Cardinality(Before(S, x)) < 2
      BY <2>2, FS_EmptySet, FS_Singleton
    <2> QED BY <2>3 DEF First
  <1>8. ASSUME NEW u, S = {u} PROVE First(2, S) = {u}
    BY <1>5, <1>6, <1>8
  <1>9. ASSUME NEW u, First(2, S) = {u} PROVE S = {u}
    BY <1>5, <1>7, <1>9
  <1>10. First(2, S) = {} <=> S = {}
    BY <1>5, <1>6
  <1> QED BY <1>5, <1>6, <1>8, <1>9, <1>10 DEF StandsFor

\* Candidates of one more rule, added to those of the rules before, stand for the
\* candidates of all these rules.
LEMMA AddingExact ==
    ASSUME Booked(ledger), NEW S \in SUBSET Rows, NEW T \in SUBSET Rows,
           NEW F, StandsFor(F, S)
    PROVE  StandsFor(Adding(F, First(2, T)), S \cup T)
  <1> DEFINE G == First(2, T)
  <1>0. StandsFor(G, T) /\ G \in SUBSET Rows
    BY FirstRows
  <1> HIDE DEF G
  <1>1. MaxCandidates = 2
    BY TransferMatchingAssumption
  <1>2. \A n : First(n, G \ F) \subseteq G \ F
    BY <1>0, FirstRows
  <1>3. F \subseteq Adding(F, G) /\ Adding(F, G) \subseteq F \cup G
    BY <1>2 DEF Adding
  <1>4. ASSUME F = {} PROVE StandsFor(Adding(F, G), S \cup T)
    <2>1. Adding(F, G) = First(2, G)
      <3>1. Cardinality(F) = 0 /\ G \ F = G
        BY <1>4, FS_EmptySet
      <3> QED BY <3>1, <1>1, <1>4 DEF Adding
    <2>2. StandsFor(First(2, G), G)
      BY <1>0, FirstRows
    <2>3. S = {}
      BY <1>4 DEF StandsFor
    <2> QED BY <2>1, <2>2, <2>3, <1>0 DEF G, StandsFor
  <1>5. ASSUME NEW u, F = {u} PROVE StandsFor(Adding(F, G), S \cup T)
    <2>1. Adding(F, G) = {u} \cup First(1, G \ {u})
      <3>1. Cardinality(F) = 1
        BY <1>5, FS_Singleton
      <3> QED BY <3>1, <1>1, <1>5 DEF Adding
    <2>2. /\ G \ {u} # {} => First(1, G \ {u}) # {}
          /\ First(1, G \ {u}) \subseteq G \ {u}
      BY <1>0, FirstRows
    <2>3. S = {u}
      BY <1>5 DEF StandsFor
    <2>4. G \ {u} = {} <=> T \ {u} = {}
      BY <1>0 DEF StandsFor
    <2>5. Adding(F, G) \subseteq S \cup T
      BY <1>0, <2>1, <2>2, <2>3 DEF StandsFor
    <2>6. \A v : Adding(F, G) = {v} <=> S \cup T = {v}
      BY <2>1, <2>2, <2>3, <2>4
    <2> QED BY <2>1, <2>3, <2>5, <2>6 DEF StandsFor
  <1>6. ASSUME F # {}, \A u : F # {u} PROVE StandsFor(Adding(F, G), S \cup T)
    <2>1. \A v : Adding(F, G) # {v}
      BY <1>3, <1>6
    <2>2. \A v : S \cup T # {v}
      BY <1>6 DEF StandsFor
    <2>3. Adding(F, G) \subseteq S \cup T
      BY <1>0, <1>3 DEF StandsFor
    <2>4. Adding(F, G) # {} /\ S \cup T # {}
      BY <1>3, <1>6 DEF StandsFor
    <2> QED BY <2>1, <2>2, <2>3, <2>4 DEF StandsFor
  <1>7. StandsFor(Adding(F, G), S \cup T)
    BY <1>4, <1>5, <1>6
  <1> QED BY <1>7 DEF G

\* A row has one candidate, and it is u, if u is its only counterpart in the load.
LEMMA CandidatesExact ==
    ASSUME Booked(ledger), NEW load \in SUBSET Rows, NEW t
    PROVE  /\ Candidates(t, load) \subseteq load
           /\ \A u : Candidates(t, load) = {u} <=> Counterparts(t, load) = {u}
  <1> DEFINE Meets(u) == u \in load \ {t} /\ OtherAccount(t, u) /\ Near(t, u)
             S1 == {u \in load \ {t} : OtherAccount(t, u) /\ Near(t, u) /\ SameCurrency(t, u)}
             S2 == {u \in load \ {t} : OtherAccount(t, u) /\ Near(t, u)
                                       /\ ForeignExchange(t, u)}
             S3 == {u \in load \ {t} : OtherAccount(t, u) /\ Near(t, u) /\ Monobank(t, u)}
             S4 == {u \in load \ {t} : OtherAccount(t, u) /\ Near(t, u) /\ PKO(t, u)}
             C1 == First(2, S1)
             C2 == Adding(C1, First(2, S2))
             C3 == Adding(C2, First(2, S3))
             C4 == Adding(C3, First(2, S4))
  <1>1. /\ S1 \in SUBSET Rows /\ S2 \in SUBSET Rows
        /\ S3 \in SUBSET Rows /\ S4 \in SUBSET Rows
    OBVIOUS
  <1>2. Candidates(t, load) = C4
    <2>1. MaxCandidates = 2
      BY TransferMatchingAssumption
    <2> QED BY <2>1, Zenon DEF Candidates, ByRule
  <1>3. Counterparts(t, load) = S1 \cup S2 \cup S3 \cup S4
    BY DEF Counterparts
  <1> HIDE DEF S1, S2, S3, S4
  <1>4. StandsFor(C1, S1)
    BY <1>1, FirstRows
  <1> HIDE DEF C1
  <1>5. StandsFor(C2, S1 \cup S2)
    BY <1>1, <1>4, AddingExact
  <1> HIDE DEF C2
  <1>6. StandsFor(C3, S1 \cup S2 \cup S3)
    <2>1. S1 \cup S2 \in SUBSET Rows
      BY <1>1
    <2> QED BY <2>1, <1>1, <1>5, AddingExact
  <1> HIDE DEF C3
  <1>7. StandsFor(C4, S1 \cup S2 \cup S3 \cup S4)
    <2>1. S1 \cup S2 \cup S3 \in SUBSET Rows
      BY <1>1
    <2> QED BY <2>1, <1>1, <1>6, AddingExact
  <1>9. S1 \cup S2 \cup S3 \cup S4 \subseteq load
    BY DEF S1, S2, S3, S4
  <1> QED BY <1>2, <1>3, <1>7, <1>9 DEF StandsFor

\* Counterparts are counterparts of each other: the rules read both rows alike, and no
\* amount is the opposite of the least one.
LEMMA FitsBothWays ==
    ASSUME Booked(ledger), NEW t \in Rows, NEW u \in Rows
    PROVE  Fits(t, u) <=> Fits(u, t)
  <1>1. ASSUME NEW a \in Rows, NEW b \in Rows, Fits(a, b) PROVE Fits(b, a)
    <2>1. /\ ledger[a].at \in Int /\ ledger[b].at \in Int
          /\ MinInt \in Int /\ Window \in Nat
          /\ ledger[a].amount \in MinInt .. -(MinInt + 1)
          /\ ledger[b].amount \in MinInt .. -(MinInt + 1)
      BY TransferMatchingAssumption DEF Booked, Rows
    <2>2. Near(b, a) /\ OtherAccount(b, a) /\ b # a
      BY <2>1, <1>1 DEF Fits, Near, OtherAccount
    <2>3. CASE SameCurrency(a, b)
      BY <2>1, <2>2, <2>3 DEF Fits, SameCurrency
    <2>4. CASE ForeignExchange(a, b)
      <3>1. ForeignExchange(b, a)
        BY <2>4, Zenon DEF ForeignExchange, SameConnection
      <3> QED BY <3>1, <2>2 DEF Fits
    <2>5. CASE Monobank(a, b)
      <3>1. /\ ledger[a].operation # None => ledger[a].operation.amount \in Int
            /\ ledger[b].operation # None => ledger[b].operation.amount \in Int
        BY DEF Booked, Rows
      <3>2. Monobank(b, a)
        BY <2>1, <3>1, <2>5 DEF Monobank, SameConnection
      <3> QED BY <3>2, <2>2 DEF Fits
    <2>6. CASE PKO(a, b)
      <3>1. PKO(b, a)
        BY <2>6, Zenon DEF PKO, SameConnection
      <3> QED BY <3>1, <2>2 DEF Fits
    <2> QED BY <2>3, <2>4, <2>5, <2>6, <1>1 DEF Fits
  <1> QED BY <1>1

\* The counterparts that decide on a pair are the rows that fit.
LEMMA CounterpartsFit ==
    ASSUME NEW t, NEW among
    PROVE  Counterparts(t, among) = {u \in among : Fits(t, u)}
  BY DEF Counterparts, Fits

\* The extended load holds every counterpart of a row in the range, and every
\* counterpart of such a counterpart.
LEMMA LoadSuffices ==
    ASSUME Booked(ledger), NEW range \in [start : Int, end : Int],
           NEW t \in EligibleRows, InRange(t, range)
    PROVE  /\ t \in Loaded(range)
           /\ Counterparts(t, Loaded(range)) = Counterparts(t, EligibleRows)
           /\ \A u \in Counterparts(t, EligibleRows) :
                 /\ u \in Loaded(range)
                 /\ Counterparts(u, Loaded(range)) = Counterparts(u, EligibleRows)
  <1>1. /\ Window \in Nat /\ Extension = 2 * Window
        /\ range.start \in Int /\ range.end \in Int
        /\ EligibleRows \subseteq Rows
        /\ \A u \in Rows : ledger[u].at \in Int
    BY TransferMatchingAssumption DEF Booked, Rows, EligibleRows
  <1>2. ASSUME NEW u \in EligibleRows, ledger[t].at - Extension <= ledger[u].at,
               ledger[u].at <= ledger[t].at + Extension
        PROVE  u \in Loaded(range)
    BY <1>1, <1>2 DEF Loaded, InRange
  <1>3. t \in Loaded(range) /\ Loaded(range) \subseteq EligibleRows
    BY <1>1, <1>2 DEF Loaded
  <1>4. ASSUME NEW u \in EligibleRows, Near(t, u) PROVE u \in Loaded(range)
    BY <1>1, <1>2, <1>4 DEF Near
  <1>5. ASSUME NEW u \in EligibleRows, Near(t, u), NEW v \in EligibleRows, Near(u, v)
        PROVE  v \in Loaded(range)
    BY <1>1, <1>2, <1>5 DEF Near
  <1>6. Counterparts(t, Loaded(range)) = Counterparts(t, EligibleRows)
    BY <1>3, <1>4, CounterpartsFit DEF Fits
  <1>7. ASSUME NEW u \in Counterparts(t, EligibleRows)
        PROVE  /\ u \in Loaded(range)
               /\ Counterparts(u, Loaded(range)) = Counterparts(u, EligibleRows)
    <2>1. u \in EligibleRows /\ Near(t, u)
      BY CounterpartsFit DEF Fits
    <2> QED BY <2>1, <1>3, <1>4, <1>5, CounterpartsFit DEF Fits
  <1> QED BY <1>3, <1>6, <1>7

\* The pairs an attempt decides on are those that are each other's only counterpart
\* among all the eligible rows.
LEMMA DecideExact ==
    ASSUME Booked(ledger), NEW range \in [start : Int, end : Int]
    PROVE  Decide(range, Loaded(range)) =
              {p \in EligibleRows \X EligibleRows :
                  /\ p[1] < p[2]
                  /\ InRange(p[1], range) \/ InRange(p[2], range)
                  /\ MutuallyUnique(p[1], p[2], EligibleRows)}
  <1> DEFINE load == Loaded(range)
             E == EligibleRows
  <1>1. load \subseteq E /\ E \subseteq Rows /\ Rows \subseteq Int
    BY DEF Loaded, EligibleRows, Booked, Rows
  <1>2. \A t : t \in Starting(range, load) <=> t \in E /\ InRange(t, range)
    BY <1>1, LoadSuffices DEF Starting, InRange
  <1> HIDE DEF load, E
  <1>3. ASSUME NEW t \in E, InRange(t, range), NEW u
        PROVE  u \in Paired(t, load) <=> u \in E /\ MutuallyUnique(t, u, E)
    <2>1. /\ Counterparts(t, load) = Counterparts(t, E)
          /\ \A v \in Counterparts(t, E) : Counterparts(v, load) = Counterparts(v, E)
      BY <1>3, LoadSuffices DEF load, E
    <2>2. /\ \A v : Candidates(t, load) = {v} <=> Counterparts(t, load) = {v}
          /\ \A v : Candidates(u, load) = {v} <=> Counterparts(u, load) = {v}
      <3>1. load \in SUBSET Rows
        BY <1>1
      <3> QED BY <3>1, CandidatesExact
    <2>3. u \in Paired(t, load) <=> Candidates(t, load) = {u} /\ Candidates(u, load) = {t}
      BY DEF Paired
    <2>4. Counterparts(t, E) \subseteq E
      BY CounterpartsFit
    <2> QED BY <2>1, <2>2, <2>3, <2>4 DEF MutuallyUnique
  <1>4. ASSUME NEW p \in Decide(range, load)
        PROVE  /\ p \in E \X E
               /\ p[1] < p[2]
               /\ InRange(p[1], range) \/ InRange(p[2], range)
               /\ MutuallyUnique(p[1], p[2], E)
    <2>1. PICK t \in Starting(range, load) : \E u \in Paired(t, load) : p = Ordered(t, u)
      BY DEF Decide
    <2>2. PICK u \in Paired(t, load) : p = Ordered(t, u)
      BY <2>1
    <2>3. t \in E /\ u \in E /\ InRange(t, range) /\ MutuallyUnique(t, u, E)
      BY <2>1, <2>2, <1>2, <1>3
    <2>4. t # u
      BY <2>3, CounterpartsFit DEF MutuallyUnique, Fits
    <2> QED BY <2>2, <2>3, <2>4, <1>1 DEF Ordered, MutuallyUnique
  <1>5. ASSUME NEW t \in E, NEW u \in E, t < u,
               InRange(t, range) \/ InRange(u, range), MutuallyUnique(t, u, E)
        PROVE  <<t, u>> \in Decide(range, load)
    <2>1. MutuallyUnique(u, t, E) /\ Ordered(t, u) = <<t, u>> /\ Ordered(u, t) = <<t, u>>
      BY <1>1, <1>5 DEF MutuallyUnique, Ordered
    <2>2. CASE InRange(t, range)
      <3>1. t \in Starting(range, load) /\ u \in Paired(t, load)
        BY <2>2, <1>2, <1>3, <1>5
      <3> QED BY <3>1, <2>1 DEF Decide
    <2>3. CASE InRange(u, range)
      <3>1. u \in Starting(range, load) /\ t \in Paired(u, load)
        BY <2>1, <2>3, <1>2, <1>3
      <3> QED BY <3>1, <2>1 DEF Decide
    <2> QED BY <2>2, <2>3, <1>5
  <1> QED BY <1>4, <1>5 DEF load, E

-----------------------------------------------------------------------------
(* Matching: the inductive invariant.                                         *)

RowState ==
    [status : {"absent", "pending", "booked"}, hidden : BOOLEAN, group : Nat,
     excluded : BOOLEAN, by : {"none", "matcher", "user"}]

Interval == [start : Int, end : Int]

AttemptType == [pc : {"idle", "saving"}, todo : SUBSET (Rows \X Rows), stale : BOOLEAN]

UserType == [op : {"link", "unlink"}, legs : Rows \X Rows, stale : BOOLEAN]

PastType == [raced : BOOLEAN, overlapped : BOOLEAN, disturbed : BOOLEAN]

MatchTypes ==
    /\ ledger \in Ledgers
    /\ state \in [Rows -> RowState]
    /\ windows \in Seq(Interval)
    /\ submitted \in Seq(Interval)
    /\ attempt \in [Consumers -> AttemptType]
    /\ user \in UserType \cup {None}
    /\ groups \in Nat
    /\ past \in PastType

\* Groups are numbered as they are made; no third row has the group of two.
GroupsOfTwo ==
    /\ \A t \in Rows : state[t].group <= groups
    /\ \A t, u, v \in Rows :
          /\ t # u /\ t # v
          /\ state[t].group # 0
          /\ state[u].group = state[t].group
          /\ state[v].group = state[t].group
          => u = v

\* The pairs an attempt still saves have no row in common.
PairsApart ==
    /\ \A c \in Consumers :
          /\ attempt[c].pc = "idle" => attempt[c].todo = {} /\ ~attempt[c].stale
          /\ \A p, q \in attempt[c].todo :
                /\ p[1] # p[2]
                /\ p # q => {p[1], p[2]} \cap {q[1], q[2]} = {}
    /\ user # None => user.legs[1] # user.legs[2]

\* While nothing was written over a change, a grouped row has a partner, and users
\* alone group a row that was excluded.
PartnersThere ==
    ~past.raced =>
        \A t \in Rows : state[t].group # 0 =>
            /\ \E u \in Rows \ {t} : state[u].group = state[t].group
            /\ state[t].excluded => state[t].by = "user"

\* An attempt that is not told otherwise finds the rows it saves as it read them ...
AttemptsAsRead ==
    ~past.raced =>
        \A c \in Consumers : ~attempt[c].stale =>
            \A p \in attempt[c].todo :
                /\ state[p[1]].group = 0 /\ ~state[p[1]].excluded
                /\ state[p[2]].group = 0 /\ ~state[p[2]].excluded

\* ... and so does a user.
UserAsRead ==
    ~past.raced /\ user # None /\ ~user.stale =>
        /\ state[user.legs[1]].group = state[user.legs[2]].group
        /\ user.op = "link" <=> state[user.legs[1]].group = 0

\* An attempt saves pairs of the range it was given, which it still has.
RangeInHand ==
    /\ \A c \in Consumers : attempt[c].pc = "saving" => Queue(c) # <<>>
    /\ \A p \in attempt["windows"].todo :
          InRange(p[1], Head(windows)) \/ InRange(p[2], Head(windows))
    /\ ~past.overlapped => \E c \in Consumers : attempt[c].pc = "idle"

\* The rows of the pairs still to save.
Legs == {t \in Rows : \E c \in Consumers : \E p \in attempt[c].todo : t = p[1] \/ t = p[2]}

\* The eligible counterparts of a row are u, and rows about to be linked.
OnlyLeft(t, u) == \A v \in EligibleRows : Fits(t, v) => v = u \/ v \in Legs

\* A window that is still to be matched has a leg of the pair.
Awaits(t, u) ==
    \E k \in DOMAIN windows : /\ attempt["windows"].pc = "saving" => k # 1
                              /\ InRange(t, windows[k]) \/ InRange(u, windows[k])

\* Two rows that only have each other, or will when the pairs at hand are saved, are
\* waited for by a window, or such a pair themselves.
NobodyLeft ==
    ~past.disturbed /\ ~past.overlapped =>
        \A t, u \in EligibleRows :
            /\ Fits(t, u)
            /\ OnlyLeft(t, u) /\ OnlyLeft(u, t)
            => Awaits(t, u) \/ Ordered(t, u) \in attempt["windows"].todo

MatchInv ==
    /\ MatchTypes
    /\ GroupsOfTwo
    /\ PairsApart
    /\ PartnersThere
    /\ AttemptsAsRead
    /\ UserAsRead
    /\ RangeInHand
    /\ NobodyLeft

-----------------------------------------------------------------------------
(* Matching: what the steps have in common.                                   *)

\* The assumption on ledgers holds of the one at hand.
LEMMA LedgerBooked == MatchTypes => Booked(ledger)
  BY TransferMatchingAssumption DEF MatchTypes, Booked

\* The rules read the ledger alone, which no step changes.
LEMMA RulesKept ==
    ASSUME ledger' = ledger
    PROVE  /\ Rows' = Rows
           /\ \A t, u : Fits(t, u)' <=> Fits(t, u)
           /\ \A t, range : InRange(t, range)' <=> InRange(t, range)
  BY DEF Rows, Fits, OtherAccount, Near, SameCurrency, ForeignExchange, Monobank, PKO,
         SameConnection, Converts, Magnitude, Unedited, InRange

\* One field of one row is written.
Grouped(s, t, g) == [s EXCEPT ![t].group = g]
Signed(s, t, b) == [s EXCEPT ![t].by = b]
Barred(s, t, e) == [s EXCEPT ![t].excluded = e]

\* The other fields and the other rows stay, for the group (LinkTransferPair) ...
LEMMA GroupedParts ==
    ASSUME NEW s \in [Rows -> RowState], NEW t \in Rows, NEW g \in Nat
    PROVE  /\ Grouped(s, t, g) \in [Rows -> RowState]
           /\ \A v \in Rows \ {t} : Grouped(s, t, g)[v] = s[v]
           /\ Grouped(s, t, g)[t].group = g
           /\ Grouped(s, t, g)[t].status = s[t].status
           /\ Grouped(s, t, g)[t].hidden = s[t].hidden
           /\ Grouped(s, t, g)[t].excluded = s[t].excluded
           /\ Grouped(s, t, g)[t].by = s[t].by
  <1>1. s[t] \in RowState
    OBVIOUS
  <1>2. [s[t] EXCEPT !.group = g] \in RowState
    BY <1>1 DEF RowState
  <1>3. /\ Grouped(s, t, g) \in [Rows -> RowState]
        /\ \A v \in Rows \ {t} : Grouped(s, t, g)[v] = s[v]
        /\ Grouped(s, t, g)[t] = [s[t] EXCEPT !.group = g]
    BY <1>2 DEF Grouped
  <1> QED BY <1>1, <1>3 DEF RowState

\* ... for who matched ...
LEMMA SignedParts ==
    ASSUME NEW s \in [Rows -> RowState], NEW t \in Rows, NEW b \in {"none", "matcher", "user"}
    PROVE  /\ Signed(s, t, b) \in [Rows -> RowState]
           /\ \A v \in Rows \ {t} : Signed(s, t, b)[v] = s[v]
           /\ Signed(s, t, b)[t].by = b
           /\ Signed(s, t, b)[t].status = s[t].status
           /\ Signed(s, t, b)[t].hidden = s[t].hidden
           /\ Signed(s, t, b)[t].group = s[t].group
           /\ Signed(s, t, b)[t].excluded = s[t].excluded
  <1>1. s[t] \in RowState
    OBVIOUS
  <1>2. [s[t] EXCEPT !.by = b] \in RowState
    BY <1>1 DEF RowState
  <1>3. /\ Signed(s, t, b) \in [Rows -> RowState]
        /\ \A v \in Rows \ {t} : Signed(s, t, b)[v] = s[v]
        /\ Signed(s, t, b)[t] = [s[t] EXCEPT !.by = b]
    BY <1>2 DEF Signed
  <1> QED BY <1>1, <1>3 DEF RowState

\* ... and for the exclusion (UnlinkTransferPair).
LEMMA BarredParts ==
    ASSUME NEW s \in [Rows -> RowState], NEW t \in Rows, NEW e \in BOOLEAN
    PROVE  /\ Barred(s, t, e) \in [Rows -> RowState]
           /\ \A v \in Rows \ {t} : Barred(s, t, e)[v] = s[v]
           /\ Barred(s, t, e)[t].excluded = e
           /\ Barred(s, t, e)[t].status = s[t].status
           /\ Barred(s, t, e)[t].hidden = s[t].hidden
           /\ Barred(s, t, e)[t].group = s[t].group
           /\ Barred(s, t, e)[t].by = s[t].by
  <1>1. s[t] \in RowState
    OBVIOUS
  <1>2. [s[t] EXCEPT !.excluded = e] \in RowState
    BY <1>1 DEF RowState
  <1>3. /\ Barred(s, t, e) \in [Rows -> RowState]
        /\ \A v \in Rows \ {t} : Barred(s, t, e)[v] = s[v]
        /\ Barred(s, t, e)[t] = [s[t] EXCEPT !.excluded = e]
    BY <1>2 DEF Barred
  <1> QED BY <1>1, <1>3 DEF RowState

\* What barring a row makes of its group and of the others.
LEMMA BarredGroup ==
    ASSUME NEW s \in [Rows -> RowState], NEW t \in Rows
    PROVE  /\ Barred(s, t, TRUE) \in [Rows -> RowState]
           /\ \A v \in Rows \ {t} : Barred(s, t, TRUE)[v] = s[v]
           /\ Barred(s, t, TRUE)[t].group = s[t].group
  <1> DEFINE e == TRUE
  <1>1. e \in BOOLEAN
    OBVIOUS
  <1> HIDE DEF e
  <1>2. /\ Barred(s, t, e) \in [Rows -> RowState]
        /\ \A v \in Rows \ {t} : Barred(s, t, e)[v] = s[v]
        /\ Barred(s, t, e)[t].group = s[t].group
    BY <1>1, BarredParts
  <1> USE DEF e
  <1> QED BY <1>2, Zenon

\* What linking two rows makes of them and of the others.
LEMMA LinkedParts ==
    ASSUME MatchTypes, NEW t \in Rows, NEW u \in Rows, NEW by \in {"matcher", "user"}
    PROVE  /\ Linked(t, u, by) \in [Rows -> RowState]
           /\ \A v \in Rows :
                 /\ Linked(t, u, by)[v].status = state[v].status
                 /\ Linked(t, u, by)[v].hidden = state[v].hidden
                 /\ Linked(t, u, by)[v].excluded = state[v].excluded
                 /\ v \in {t, u} => /\ Linked(t, u, by)[v].group = groups + 1
                                    /\ Linked(t, u, by)[v].by = by
                 /\ v \notin {t, u} => Linked(t, u, by)[v] = state[v]
  <1> DEFINE s1 == Grouped(state, t, groups + 1)
             s2 == Signed(s1, t, by)
             s3 == Grouped(s2, u, groups + 1)
             s4 == Signed(s3, u, by)
  <1>1. /\ state \in [Rows -> RowState] /\ groups + 1 \in Nat
        /\ by \in {"none", "matcher", "user"}
    BY DEF MatchTypes
  <1>2. Linked(t, u, by) = s4
    BY Zenon DEF Linked, NewGroup, Grouped, Signed
  <1>3. /\ s1 \in [Rows -> RowState]
        /\ \A v \in Rows \ {t} : s1[v] = state[v]
        /\ s1[t].group = groups + 1
        /\ s1[t].status = state[t].status /\ s1[t].hidden = state[t].hidden
        /\ s1[t].excluded = state[t].excluded
    BY <1>1, GroupedParts
  <1> HIDE DEF s1
  <1>4. /\ s2 \in [Rows -> RowState]
        /\ \A v \in Rows \ {t} : s2[v] = s1[v]
        /\ s2[t].group = s1[t].group /\ s2[t].by = by
        /\ s2[t].status = s1[t].status /\ s2[t].hidden = s1[t].hidden
        /\ s2[t].excluded = s1[t].excluded
    BY <1>1, <1>3, SignedParts
  <1> HIDE DEF s2
  <1>5. /\ s3 \in [Rows -> RowState]
        /\ \A v \in Rows \ {u} : s3[v] = s2[v]
        /\ s3[u].group = groups + 1 /\ s3[u].by = s2[u].by
        /\ s3[u].status = s2[u].status /\ s3[u].hidden = s2[u].hidden
        /\ s3[u].excluded = s2[u].excluded
    BY <1>1, <1>4, GroupedParts
  <1> HIDE DEF s3
  <1>6. /\ s4 \in [Rows -> RowState]
        /\ \A v \in Rows \ {u} : s4[v] = s3[v]
        /\ s4[u].group = s3[u].group /\ s4[u].by = by
        /\ s4[u].status = s3[u].status /\ s4[u].hidden = s3[u].hidden
        /\ s4[u].excluded = s3[u].excluded
    BY <1>1, <1>5, SignedParts
  <1> HIDE DEF s4
  <1> QED BY <1>2, <1>3, <1>4, <1>5, <1>6

\* What unlinking two rows makes of them and of the others.
LEMMA UnlinkedParts ==
    ASSUME MatchTypes, NEW t \in Rows, NEW u \in Rows
    PROVE  /\ Unlinked(t, u) \in [Rows -> RowState]
           /\ \A v \in Rows :
                 /\ v \in {t, u} => Unlinked(t, u)[v].group = 0
                 /\ v \notin {t, u} => Unlinked(t, u)[v] = state[v]
  <1> DEFINE s1 == Grouped(state, t, 0)
             s2 == Barred(s1, t, TRUE)
             s3 == Grouped(s2, u, 0)
             s4 == Barred(s3, u, TRUE)
  <1>1. state \in [Rows -> RowState] /\ 0 \in Nat /\ TRUE \in BOOLEAN
    BY DEF MatchTypes
  <1>2. Unlinked(t, u) = s4
    BY Zenon DEF Unlinked, Grouped, Barred
  <1>3. /\ s1 \in [Rows -> RowState]
        /\ \A v \in Rows \ {t} : s1[v] = state[v]
        /\ s1[t].group = 0
    BY <1>1, GroupedParts
  <1> HIDE DEF s1
  <1>4. /\ s2 \in [Rows -> RowState]
        /\ \A v \in Rows \ {t} : s2[v] = s1[v]
        /\ s2[t].group = s1[t].group
    BY <1>1, <1>3, BarredGroup
  <1> HIDE DEF s2
  <1>5. /\ s3 \in [Rows -> RowState]
        /\ \A v \in Rows \ {u} : s3[v] = s2[v]
        /\ s3[u].group = 0
    BY <1>1, <1>4, GroupedParts
  <1> HIDE DEF s3
  <1>6. /\ s4 \in [Rows -> RowState]
        /\ \A v \in Rows \ {u} : s4[v] = s3[v]
        /\ s4[u].group = s3[u].group
    BY <1>1, <1>5, BarredGroup
  <1> HIDE DEF s4
  <1> QED BY <1>2, <1>3, <1>4, <1>5, <1>6

\* The attempts beside a write to two rows: those with a row in common are told.
LEMMA WritesParts ==
    ASSUME MatchTypes, NEW legs
    PROVE  /\ Writes(legs) \in [Consumers -> AttemptType]
           /\ \A c \in Consumers :
                 /\ Writes(legs)[c].pc = attempt[c].pc
                 /\ Writes(legs)[c].todo = attempt[c].todo
                 /\ attempt[c].todo = {} => Writes(legs)[c].stale = attempt[c].stale
                 /\ ~Writes(legs)[c].stale =>
                       /\ ~attempt[c].stale
                       /\ \A p \in attempt[c].todo : {p[1], p[2]} \cap legs = {}
  <1>1. \A c \in Consumers :
           Writes(legs)[c] =
              [attempt[c] EXCEPT !.stale =
                  @ \/ \E pair \in attempt[c].todo : {pair[1], pair[2]} \cap legs # {}]
    BY DEF Writes
  <1>2. ASSUME NEW c \in Consumers
        PROVE  /\ Writes(legs)[c] \in AttemptType
               /\ Writes(legs)[c].pc = attempt[c].pc
               /\ Writes(legs)[c].todo = attempt[c].todo
               /\ Writes(legs)[c].stale \in BOOLEAN /\ attempt[c].stale \in BOOLEAN
               /\ Writes(legs)[c].stale <=>
                     \/ attempt[c].stale
                     \/ \E pair \in attempt[c].todo : {pair[1], pair[2]} \cap legs # {}
    <2>1. attempt[c] \in AttemptType
      BY DEF MatchTypes
    <2> DEFINE told == attempt[c].stale
                       \/ \E pair \in attempt[c].todo : {pair[1], pair[2]} \cap legs # {}
    <2>2. told \in BOOLEAN
      OBVIOUS
    <2>3. Writes(legs)[c] = [attempt[c] EXCEPT !.stale = told]
      BY <1>1, Zenon
    <2> HIDE DEF told
    <2>4. /\ Writes(legs)[c] \in AttemptType
          /\ Writes(legs)[c].pc = attempt[c].pc
          /\ Writes(legs)[c].todo = attempt[c].todo
          /\ Writes(legs)[c].stale = told
      BY <2>1, <2>2, <2>3 DEF AttemptType
    <2> QED BY <2>1, <2>2, <2>4 DEF told, AttemptType
  <1>3. Writes(legs) \in [Consumers -> AttemptType]
    BY <1>2 DEF Writes
  <1> QED BY <1>2, <1>3

\* The save of a pair, part by part.
LEMMA SaveParts ==
    ASSUME MatchTypes, PairsApart, NEW c \in Consumers, SavePair(c)
    PROVE  \E pair \in attempt[c].todo :
              /\ pair \in Rows \X Rows /\ pair[1] # pair[2]
              /\ attempt[c].pc = "saving"
              /\ state' = Linked(pair[1], pair[2], "matcher")
              /\ attempt' \in [Consumers -> AttemptType]
              /\ attempt'[c].todo = attempt[c].todo \ {pair}
              /\ attempt'[c].stale = attempt[c].stale
              /\ \A d \in Consumers :
                    /\ attempt'[d].pc = attempt[d].pc
                    /\ d # c => attempt'[d].todo = attempt[d].todo
                    /\ d # c /\ attempt[d].todo = {} => attempt'[d].stale = attempt[d].stale
                    /\ d # c /\ ~attempt'[d].stale =>
                          /\ ~attempt[d].stale
                          /\ \A p \in attempt[d].todo :
                                {p[1], p[2]} \cap {pair[1], pair[2]} = {}
              /\ user' \in UserType \cup {None}
              /\ user' # None => user # None /\ user'.legs = user.legs
              /\ user' # None /\ ~user'.stale =>
                    /\ user' = user
                    /\ {user.legs[1], user.legs[2]} \cap {pair[1], pair[2]} = {}
  <1>1. PICK pair \in attempt[c].todo :
           /\ state' = Linked(pair[1], pair[2], "matcher")
           /\ attempt' = [Writes({pair[1], pair[2]}) EXCEPT
                             ![c] = [attempt[c] EXCEPT !.todo = @ \ {pair}]]
           /\ user' = IF user # None /\ {pair[1], pair[2]} \cap ToSet(user.legs) # {}
                      THEN [user EXCEPT !.stale = TRUE] ELSE user
    BY DEF SavePair
  <1>2. attempt[c] \in AttemptType /\ attempt[c].pc = "saving"
    BY DEF MatchTypes, SavePair
  <1>3. pair \in Rows \X Rows /\ pair[1] # pair[2]
    BY <1>2 DEF AttemptType, PairsApart
  <1>4. [attempt[c] EXCEPT !.todo = @ \ {pair}] \in AttemptType
    BY <1>2 DEF AttemptType
  <1>5. /\ Writes({pair[1], pair[2]}) \in [Consumers -> AttemptType]
        /\ \A d \in Consumers :
              /\ Writes({pair[1], pair[2]})[d].pc = attempt[d].pc
              /\ Writes({pair[1], pair[2]})[d].todo = attempt[d].todo
              /\ attempt[d].todo = {} =>
                    Writes({pair[1], pair[2]})[d].stale = attempt[d].stale
              /\ ~Writes({pair[1], pair[2]})[d].stale =>
                    /\ ~attempt[d].stale
                    /\ \A p \in attempt[d].todo : {p[1], p[2]} \cap {pair[1], pair[2]} = {}
    BY WritesParts
  <1>6. /\ attempt' \in [Consumers -> AttemptType]
        /\ attempt'[c] = [attempt[c] EXCEPT !.todo = @ \ {pair}]
        /\ \A d \in Consumers \ {c} : attempt'[d] = Writes({pair[1], pair[2]})[d]
    BY <1>1, <1>4, <1>5
  <1>7. /\ user' \in UserType \cup {None}
        /\ user' # None => user # None /\ user'.legs = user.legs
        /\ user' # None /\ ~user'.stale =>
              /\ user' = user
              /\ {user.legs[1], user.legs[2]} \cap {pair[1], pair[2]} = {}
    <2>1. CASE user = None
      BY <1>1, <2>1
    <2>2. CASE user # None
      <3>1. user \in UserType
        BY <2>2 DEF MatchTypes
      <3>2. ToSet(user.legs) = {user.legs[1], user.legs[2]}
        BY <3>1 DEF UserType, ToSet
      <3>3. [user EXCEPT !.stale = TRUE] \in UserType
        BY <3>1 DEF UserType
      <3> QED BY <1>1, <2>2, <3>1, <3>2, <3>3 DEF UserType
    <2> QED BY <2>1, <2>2
  <1>8. /\ attempt'[c].todo = attempt[c].todo \ {pair}
        /\ attempt'[c].stale = attempt[c].stale
        /\ attempt'[c].pc = attempt[c].pc
    BY <1>2, <1>6 DEF AttemptType
  <1>9. ASSUME NEW d \in Consumers
        PROVE  /\ attempt'[d].pc = attempt[d].pc
               /\ d # c => attempt'[d].todo = attempt[d].todo
               /\ d # c /\ attempt[d].todo = {} => attempt'[d].stale = attempt[d].stale
               /\ d # c /\ ~attempt'[d].stale =>
                     /\ ~attempt[d].stale
                     /\ \A p \in attempt[d].todo :
                           {p[1], p[2]} \cap {pair[1], pair[2]} = {}
    <2>1. CASE d = c
      BY <1>8, <2>1
    <2>2. CASE d # c
      BY <1>5, <1>6, <2>2
    <2> QED BY <2>1, <2>2
  <1> QED BY <1>1, <1>2, <1>3, <1>6, <1>7, <1>8, <1>9

\* The groups and exclusions of the rows stay, and so does who read them.
LEMMA LegsKept ==
    ASSUME MatchInv, ledger' = ledger, attempt' = attempt, user' = user, groups' = groups,
           past'.raced = past.raced,
           \A t \in Rows : /\ state'[t].group = state[t].group
                           /\ state'[t].excluded = state[t].excluded
                           /\ state'[t].by = state[t].by
    PROVE  /\ GroupsOfTwo' /\ PairsApart'
           /\ PartnersThere' /\ AttemptsAsRead' /\ UserAsRead'
  <1>1. Rows' = Rows
    BY DEF Rows
  <1>2. GroupsOfTwo'
    BY <1>1 DEF MatchInv, GroupsOfTwo
  <1>3. PairsApart'
    BY DEF MatchInv, PairsApart
  <1>4. PartnersThere'
    BY <1>1 DEF MatchInv, PartnersThere
  <1>5. AttemptsAsRead'
    <2>1. \A c \in Consumers : attempt[c].todo \subseteq Rows \X Rows
      BY DEF MatchInv, MatchTypes, AttemptType
    <2> QED BY <2>1 DEF MatchInv, AttemptsAsRead
  <1>6. UserAsRead'
    <2>1. user # None => user.legs[1] \in Rows /\ user.legs[2] \in Rows
      BY DEF MatchInv, MatchTypes, UserType
    <2> QED BY <2>1 DEF MatchInv, UserAsRead
  <1> QED BY <1>2, <1>3, <1>4, <1>5, <1>6

\* The pairs and windows wait as before, if no row became eligible and no row about to
\* be linked was let go.
LEMMA WaitKept ==
    ASSUME MatchInv, ledger' = ledger, EligibleRows' \subseteq EligibleRows,
           windows' = windows,
           past'.overlapped = past.overlapped, past'.disturbed = past.disturbed,
           attempt'["windows"] = attempt["windows"],
           ~past.disturbed /\ ~past.overlapped =>
               EligibleRows \cap Legs' = EligibleRows \cap Legs /\ EligibleRows' = EligibleRows
    PROVE  NobodyLeft'
  <1> SUFFICES ASSUME ~past.disturbed, ~past.overlapped,
                      NEW t \in EligibleRows', NEW u \in EligibleRows',
                      Fits(t, u)', OnlyLeft(t, u)', OnlyLeft(u, t)'
               PROVE  (Awaits(t, u) \/ Ordered(t, u) \in attempt["windows"].todo)'
    BY DEF NobodyLeft
  <1>1. Fits(t, u) /\ t \in EligibleRows /\ u \in EligibleRows
    BY RulesKept
  <1>2. OnlyLeft(t, u) /\ OnlyLeft(u, t)
    BY RulesKept DEF OnlyLeft
  <1>3. Awaits(t, u) \/ Ordered(t, u) \in attempt["windows"].todo
    BY <1>1, <1>2 DEF MatchInv, NobodyLeft
  <1> QED BY <1>3, RulesKept DEF Awaits, Ordered

-----------------------------------------------------------------------------
(* Matching: every step preserves the invariant.                              *)

\* The matching starts with no row, group, pair or operation.
LEMMA MatchInit == Init => MatchInv
  <1> SUFFICES ASSUME Init PROVE MatchInv
    OBVIOUS
  <1>1. /\ ledger \in Ledgers
        /\ state = [t \in Rows |-> [status |-> "absent", hidden |-> FALSE, group |-> 0,
                                    excluded |-> FALSE, by |-> "none"]]
        /\ windows = <<>> /\ submitted = <<>>
        /\ attempt = [c \in Consumers |-> Idle]
        /\ user = None /\ groups = 0
        /\ past = [raced |-> FALSE, overlapped |-> FALSE, disturbed |-> FALSE]
    BY DEF Init
  <1>2. MatchTypes
    <2>1. state \in [Rows -> RowState]
      BY <1>1 DEF RowState
    <2>2. attempt \in [Consumers -> AttemptType]
      BY <1>1 DEF Idle, AttemptType
    <2> QED BY <1>1, <2>1, <2>2 DEF MatchTypes, PastType
  <1>3. \A c \in Consumers :
           attempt[c].todo = {} /\ attempt[c].pc = "idle" /\ ~attempt[c].stale
    BY <1>1 DEF Idle
  <1>4. \A t \in Rows : state[t].group = 0 /\ state[t].status # "booked"
    BY <1>1
  <1>5. GroupsOfTwo /\ PairsApart /\ PartnersThere /\ AttemptsAsRead /\ UserAsRead
    BY <1>1, <1>3, <1>4
       DEF GroupsOfTwo, PairsApart, PartnersThere, AttemptsAsRead, UserAsRead
  <1>6. RangeInHand
    BY <1>3 DEF RangeInHand, Consumers
  <1>7. NobodyLeft
    BY <1>4 DEF NobodyLeft, EligibleRows, Eligible
  <1> QED BY <1>2, <1>5, <1>6, <1>7 DEF MatchInv

\* A sync's window waits for the rows it brings.
LEMMA SynchronizeStep ==
    ASSUME MatchInv, NEW rows \in SUBSET Rows, rows # {},
           NEW status \in {"pending", "booked"}, Synchronize(rows, status)
    PROVE  MatchInv'
  <1> DEFINE instants == {ledger[t].at : t \in rows}
             added == [start |-> Min(instants), end |-> Max(instants) + 1]
  <1>1. /\ ledger' = ledger /\ submitted' = submitted /\ attempt' = attempt
        /\ user' = user /\ groups' = groups /\ past' = past
        /\ windows' = Append(windows, added)
        /\ state' = [t \in Rows |-> IF t \in rows THEN [state[t] EXCEPT !.status = status]
                                    ELSE state[t]]
    BY DEF Synchronize
  <1>2. MatchTypes
    BY DEF MatchInv
  <1>3. added \in Interval /\ \A t \in rows : InRange(t, added)
    <2>1. Booked(ledger)
      BY <1>2, LedgerBooked
    <2>2. instants \in SUBSET Int /\ instants # {} /\ IsFiniteSet(instants)
      <3>1. IsFiniteSet(rows)
        BY <2>1, FS_Subset DEF Booked, Rows
      <3>2. [t \in rows |-> ledger[t].at] \in Surjection(rows, instants)
        BY DEF Surjection
      <3> QED BY <2>1, <3>1, <3>2, FS_Surjection DEF Booked, Rows
    <2> HIDE DEF instants
    <2>3. /\ Min(instants) \in Int /\ Max(instants) \in Int
          /\ \A x \in instants : Min(instants) <= x /\ x <= Max(instants)
      BY <2>2, Bounds
    <2>4. \A t \in rows : ledger[t].at \in instants /\ ledger[t].at \in Int
      BY <2>1 DEF instants, Booked, Rows
    <2> QED BY <2>3, <2>4 DEF Interval, InRange
  <1> HIDE DEF added
  <1>4. /\ state' \in [Rows -> RowState]
        /\ \A t \in Rows : /\ state'[t].group = state[t].group
                           /\ state'[t].excluded = state[t].excluded
                           /\ state'[t].hidden = state[t].hidden
                           /\ state'[t].by = state[t].by
        /\ \A t \in Rows \ rows : state'[t] = state[t]
    <2>1. ASSUME NEW t \in Rows
          PROVE  /\ state'[t] \in RowState
                 /\ state'[t].group = state[t].group
                 /\ state'[t].excluded = state[t].excluded
                 /\ state'[t].hidden = state[t].hidden
                 /\ state'[t].by = state[t].by
                 /\ t \notin rows => state'[t] = state[t]
      <3>1. state[t] \in RowState
        BY <1>2 DEF MatchTypes
      <3>2. CASE t \in rows
        BY <1>1, <3>1, <3>2 DEF RowState
      <3>3. CASE t \notin rows
        BY <1>1, <3>1, <3>3
      <3> QED BY <3>2, <3>3
    <2> QED BY <1>1, <2>1
  <1>5. /\ windows' \in Seq(Interval)
        /\ Len(windows') = Len(windows) + 1
        /\ windows'[Len(windows) + 1] = added
        /\ \A k \in DOMAIN windows : k \in DOMAIN windows' /\ windows'[k] = windows[k]
        /\ Len(windows) + 1 \in DOMAIN windows'
    BY <1>1, <1>2, <1>3 DEF MatchTypes
  <1>6. MatchTypes'
    BY <1>1, <1>2, <1>4, <1>5
       DEF MatchTypes, Rows, AttemptType, UserType
  <1>7. GroupsOfTwo' /\ PairsApart' /\ PartnersThere' /\ AttemptsAsRead' /\ UserAsRead'
    BY <1>1, <1>4, LegsKept
  <1>8. windows # <<>> => Head(windows') = Head(windows) /\ windows' # <<>>
    BY <1>1, <1>2, <1>5 DEF MatchTypes
  <1>9. RangeInHand'
    <2>1. \A c \in Consumers : attempt[c].pc = "saving" => Queue(c)' # <<>>
      BY <1>1, <1>8 DEF MatchInv, RangeInHand, Queue
    <2>2. ASSUME NEW p \in attempt["windows"].todo
          PROVE  (InRange(p[1], Head(windows)) \/ InRange(p[2], Head(windows)))'
      <3>1. windows # <<>>
        BY <1>2 DEF MatchInv, RangeInHand, PairsApart, Queue, Consumers, MatchTypes,
                    AttemptType
      <3> QED BY <3>1, <1>1, <1>8, RulesKept DEF MatchInv, RangeInHand, InRange
    <2> QED BY <1>1, <2>1, <2>2 DEF MatchInv, RangeInHand
  <1>10. NobodyLeft'
    <2> SUFFICES ASSUME ~past.disturbed, ~past.overlapped,
                        NEW t \in EligibleRows', NEW u \in EligibleRows',
                        Fits(t, u)', OnlyLeft(t, u)', OnlyLeft(u, t)'
                 PROVE  (Awaits(t, u) \/ Ordered(t, u) \in attempt["windows"].todo)'
      BY <1>1 DEF NobodyLeft
    <2>1. Rows' = Rows /\ Legs' = Legs
      BY <1>1 DEF Rows, Legs
    <2>2. EligibleRows \subseteq EligibleRows'
          /\ \A v \in EligibleRows' : v \notin rows => v \in EligibleRows
      <3>1. \A v \in rows : state[v].status # "booked"
        BY DEF Synchronize
      <3> QED BY <2>1, <3>1, <1>4 DEF EligibleRows, Eligible
    <2>3. CASE t \in rows \/ u \in rows
      <3>1. InRange(t, added) \/ InRange(u, added)
        BY <2>3, <1>3
      <3>2. attempt["windows"].pc = "saving" => Len(windows) + 1 # 1
        <4>1. attempt["windows"].pc = "saving" => windows # <<>>
          BY DEF MatchInv, RangeInHand, Queue, Consumers
        <4> QED BY <4>1, <1>2 DEF MatchTypes
      <3> QED BY <3>1, <3>2, <1>1, <1>5, <1>3 DEF Awaits, InRange
    <2>4. CASE t \notin rows /\ u \notin rows
      <3>1. t \in EligibleRows /\ u \in EligibleRows /\ Fits(t, u)
        BY <2>2, <2>4, <1>1, RulesKept
      <3>2. OnlyLeft(t, u) /\ OnlyLeft(u, t)
        BY <2>1, <2>2, <1>1, RulesKept DEF OnlyLeft
      <3>3. Awaits(t, u) \/ Ordered(t, u) \in attempt["windows"].todo
        BY <3>1, <3>2 DEF MatchInv, NobodyLeft
      <3> QED BY <3>3, <1>1, <1>5, RulesKept DEF Awaits, Ordered, InRange
    <2> QED BY <2>3, <2>4
  <1> QED BY <1>6, <1>7, <1>9, <1>10 DEF MatchInv

\* A submission waits behind those before it.
LEMMA SubmitStep ==
    ASSUME MatchInv, NEW range \in Ranges, Submit(range)
    PROVE  MatchInv'
  <1>1. /\ ledger' = ledger /\ state' = state /\ windows' = windows /\ attempt' = attempt
        /\ user' = user /\ groups' = groups /\ past' = past
        /\ submitted' = Append(submitted, range)
    BY DEF Submit
  <1>2. MatchTypes
    BY DEF MatchInv
  <1>3. submitted' \in Seq(Interval) /\ submitted' # <<>>
    <2>1. range \in Interval
      BY TransferMatchingAssumption DEF Interval
    <2>2. submitted \in Seq(Interval)
      BY <1>2 DEF MatchTypes
    <2>3. Len(submitted') = Len(submitted) + 1 /\ Len(submitted) \in Nat
      BY <1>1, <2>1, <2>2
    <2> QED BY <1>1, <2>1, <2>2, <2>3
  <1>4. MatchTypes'
    BY <1>1, <1>2, <1>3 DEF MatchTypes, Rows, AttemptType, UserType
  <1>5. GroupsOfTwo' /\ PairsApart' /\ PartnersThere' /\ AttemptsAsRead' /\ UserAsRead'
    BY <1>1, LegsKept
  <1>6. RangeInHand'
    BY <1>1, <1>3 DEF MatchInv, RangeInHand, Queue, InRange
  <1>7. NobodyLeft'
    BY <1>1, WaitKept DEF Legs, Rows, EligibleRows, Eligible
  <1> QED BY <1>4, <1>5, <1>6, <1>7 DEF MatchInv

\* Hiding a row touches no group.
LEMMA HideStep ==
    ASSUME MatchInv, NEW t \in Rows, Hide(t)
    PROVE  MatchInv'
  <1>1. /\ ledger' = ledger /\ windows' = windows /\ submitted' = submitted
        /\ attempt' = attempt /\ user' = user /\ groups' = groups
        /\ state' = [state EXCEPT ![t].hidden = TRUE]
        /\ past' = [past EXCEPT !.disturbed = TRUE]
    BY DEF Hide
  <1>2. MatchTypes
    BY DEF MatchInv
  <1>3. /\ state' \in [Rows -> RowState]
        /\ \A v \in Rows : /\ state'[v].group = state[v].group
                           /\ state'[v].excluded = state[v].excluded
                           /\ state'[v].by = state[v].by
    <2>1. state \in [Rows -> RowState] /\ state[t] \in RowState
      BY <1>2 DEF MatchTypes
    <2>2. [state[t] EXCEPT !.hidden = TRUE] \in RowState
      BY <2>1 DEF RowState
    <2>3. /\ state' \in [Rows -> RowState]
          /\ state'[t] = [state[t] EXCEPT !.hidden = TRUE]
          /\ \A v \in Rows \ {t} : state'[v] = state[v]
      BY <1>1, <2>1, <2>2
    <2> QED BY <2>1, <2>3 DEF RowState
  <1>4. past' \in PastType /\ past'.raced = past.raced /\ past'.disturbed
        /\ past'.overlapped = past.overlapped
    BY <1>1, <1>2 DEF MatchTypes, PastType
  <1>5. MatchTypes'
    BY <1>1, <1>2, <1>3, <1>4 DEF MatchTypes, Rows, AttemptType, UserType
  <1>6. GroupsOfTwo' /\ PairsApart' /\ PartnersThere' /\ AttemptsAsRead' /\ UserAsRead'
    BY <1>1, <1>3, <1>4, LegsKept
  <1>7. RangeInHand'
    BY <1>1, <1>4 DEF MatchInv, RangeInHand, Queue, InRange
  <1>8. NobodyLeft'
    BY <1>4 DEF NobodyLeft
  <1> QED BY <1>5, <1>6, <1>7, <1>8 DEF MatchInv

\* A user reads two rows.
LEMMA OpenUserSteps ==
    ASSUME MatchInv, NEW t \in Rows, NEW u \in Rows, OpenLink(t, u) \/ OpenUnlink(t, u)
    PROVE  MatchInv'
  <1>1. /\ ledger' = ledger /\ state' = state /\ windows' = windows
        /\ submitted' = submitted /\ attempt' = attempt /\ groups' = groups /\ past' = past
    BY DEF OpenLink, OpenUnlink
  <1>2. MatchTypes
    BY DEF MatchInv
  <1>3. /\ user' \in UserType
        /\ user'.legs = <<t, u>>
        /\ state[t].group = state[u].group
        /\ user'.op = "link" <=> state[t].group = 0
    <2>1. CASE OpenLink(t, u)
      BY <2>1 DEF OpenLink, UserType
    <2>2. CASE OpenUnlink(t, u)
      BY <2>2 DEF OpenUnlink, UserType
    <2> QED BY <2>1, <2>2
  <1>4. t # u
    <2>1. t \in Int /\ u \in Int /\ t < u
      BY <1>2, LedgerBooked DEF Booked, Rows, OpenLink, OpenUnlink
    <2> QED BY <2>1
  <1>5. MatchTypes'
    BY <1>1, <1>2, <1>3 DEF MatchTypes, Rows, AttemptType, UserType
  <1>6. GroupsOfTwo' /\ PartnersThere' /\ AttemptsAsRead'
    BY <1>1 DEF MatchInv, GroupsOfTwo, PartnersThere, AttemptsAsRead, Rows
  <1>7. PairsApart' /\ UserAsRead'
    BY <1>1, <1>3, <1>4 DEF MatchInv, PairsApart, UserAsRead
  <1>8. RangeInHand'
    BY <1>1 DEF MatchInv, RangeInHand, Queue, InRange
  <1>9. NobodyLeft'
    BY <1>1, WaitKept DEF Legs, Rows, EligibleRows, Eligible
  <1> QED BY <1>5, <1>6, <1>7, <1>8, <1>9 DEF MatchInv

\* Two rows get a group of their own: a third never shares it, and the rows that shared
\* a group with neither keep their partners.
LEMMA LinkedGroups ==
    ASSUME MatchInv, NEW t \in Rows, NEW u \in Rows, t # u, NEW by \in {"matcher", "user"},
           ledger' = ledger, groups' = groups + 1, state' = Linked(t, u, by)
    PROVE  /\ GroupsOfTwo'
           /\ /\ ~past.raced
              /\ state[t].group = 0 /\ state[u].group = 0
              /\ by = "user" \/ (~state[t].excluded /\ ~state[u].excluded)
              => \A v \in Rows : state'[v].group # 0 =>
                    /\ \E w \in Rows \ {v} : state'[w].group = state'[v].group
                    /\ state'[v].excluded => state'[v].by = "user"
  <1>1. /\ MatchTypes /\ GroupsOfTwo /\ PartnersThere
        /\ groups \in Nat
        /\ \A v \in Rows : state[v].group \in Nat /\ state[v].group <= groups
    BY DEF MatchInv, MatchTypes, RowState, GroupsOfTwo
  <1>2. \A v \in Rows :
           /\ state'[v].excluded = state[v].excluded
           /\ v \in {t, u} => state'[v].group = groups + 1 /\ state'[v].by = by
           /\ v \notin {t, u} => state'[v] = state[v]
    BY <1>1, LinkedParts
  <1>3. Rows' = Rows
    BY DEF Rows
  <1>4. GroupsOfTwo'
    <2>1. \A v \in Rows : state'[v].group <= groups + 1
      BY <1>1, <1>2
    <2>2. \A v \in Rows : state'[v].group = groups + 1 <=> v \in {t, u}
      BY <1>1, <1>2
    <2>3. ASSUME NEW a \in Rows, NEW b \in Rows, NEW c \in Rows,
                 a # b, a # c, state'[a].group # 0,
                 state'[b].group = state'[a].group, state'[c].group = state'[a].group
          PROVE  b = c
      <3>1. CASE a \in {t, u}
        BY <2>2, <2>3, <3>1, <1>2
      <3>2. CASE a \notin {t, u}
        <4>1. b \notin {t, u} /\ c \notin {t, u}
          BY <2>2, <2>3, <3>2
        <4> QED BY <4>1, <2>3, <3>2, <1>1, <1>2 DEF GroupsOfTwo
      <3> QED BY <3>1, <3>2
    <2> QED BY <2>1, <2>3, <1>3 DEF GroupsOfTwo
  <1>5. ASSUME ~past.raced, state[t].group = 0, state[u].group = 0,
               by = "user" \/ (~state[t].excluded /\ ~state[u].excluded),
               NEW v \in Rows, state'[v].group # 0
        PROVE  /\ \E w \in Rows \ {v} : state'[w].group = state'[v].group
               /\ state'[v].excluded => state'[v].by = "user"
    <2>1. CASE v \in {t, u}
      BY <2>1, <1>2, <1>5
    <2>2. CASE v \notin {t, u}
      <3>1. state'[v] = state[v]
        BY <2>2, <1>2
      <3>2. PICK w \in Rows \ {v} : state[w].group = state[v].group
        BY <3>1, <1>1, <1>5 DEF PartnersThere
      <3>3. w \notin {t, u}
        BY <3>1, <3>2, <1>5
      <3> QED BY <3>1, <3>2, <3>3, <1>1, <1>2, <1>5 DEF PartnersThere
    <2> QED BY <2>1, <2>2
  <1> QED BY <1>4, <1>5

\* A user's write tells the attempts that read one of its rows.
LEMMA CompleteUserStep ==
    ASSUME MatchInv, CompleteUser
    PROVE  MatchInv'
  <1> DEFINE t == user.legs[1]
             u == user.legs[2]
  <1>1. /\ ledger' = ledger /\ windows' = windows /\ submitted' = submitted /\ user' = None
        /\ past' = [past EXCEPT !.raced = @ \/ user.stale, !.disturbed = TRUE]
        /\ attempt' = Writes({t, u})
        /\ \/ user.op = "link" /\ state' = Linked(t, u, "user") /\ groups' = NewGroup
           \/ user.op = "unlink" /\ state' = Unlinked(t, u) /\ groups' = groups
        /\ user # None
    BY DEF CompleteUser
  <1>2. MatchTypes
    BY DEF MatchInv
  <1>3. user \in UserType /\ t \in Rows /\ u \in Rows /\ t # u
    BY <1>1, <1>2 DEF MatchTypes, UserType, MatchInv, PairsApart
  <1>4. /\ past' \in PastType /\ past'.disturbed
        /\ past'.overlapped = past.overlapped
        /\ ~past'.raced => ~past.raced /\ ~user.stale
    <2>1. past \in PastType /\ user.stale \in BOOLEAN
      BY <1>2, <1>3 DEF MatchTypes, UserType
    <2> QED BY <2>1, <1>1 DEF PastType
  <1> HIDE DEF t, u
  <1>5. /\ attempt' \in [Consumers -> AttemptType]
        /\ \A c \in Consumers :
              /\ attempt'[c].pc = attempt[c].pc
              /\ attempt'[c].todo = attempt[c].todo
              /\ attempt[c].todo = {} => attempt'[c].stale = attempt[c].stale
              /\ ~attempt'[c].stale =>
                    /\ ~attempt[c].stale
                    /\ \A p \in attempt[c].todo : {p[1], p[2]} \cap {t, u} = {}
    BY <1>1, <1>2, WritesParts
  <1>6. /\ state' \in [Rows -> RowState]
        /\ \A v \in Rows \ {t, u} : state'[v] = state[v]
        /\ groups' \in Nat
    <2>1. CASE user.op = "link"
      BY <1>1, <1>2, <1>3, <2>1, LinkedParts DEF NewGroup, MatchTypes
    <2>2. CASE user.op = "unlink"
      BY <1>1, <1>2, <1>3, <2>2, UnlinkedParts DEF MatchTypes
    <2> QED BY <1>1, <2>1, <2>2
  <1>7. Rows' = Rows
    BY <1>1 DEF Rows
  <1>8. MatchTypes'
    BY <1>1, <1>2, <1>4, <1>5, <1>6, <1>7 DEF MatchTypes, AttemptType, UserType, PastType
  <1>9. ~past'.raced => /\ state[t].group = state[u].group
                        /\ user.op = "link" <=> state[t].group = 0
    BY <1>1, <1>4 DEF MatchInv, UserAsRead, t, u
  <1>10. GroupsOfTwo' /\ PartnersThere'
    <2>1. CASE user.op = "link"
      <3>1. state' = Linked(t, u, "user") /\ groups' = groups + 1
        BY <1>1, <2>1 DEF NewGroup
      <3>2. /\ GroupsOfTwo'
            /\ ~past.raced /\ state[t].group = 0 /\ state[u].group = 0 =>
                  \A v \in Rows : state'[v].group # 0 =>
                     /\ \E w \in Rows \ {v} : state'[w].group = state'[v].group
                     /\ state'[v].excluded => state'[v].by = "user"
        BY <3>1, <1>1, <1>3, LinkedGroups
      <3> QED BY <3>2, <1>4, <1>7, <1>9, <2>1 DEF PartnersThere
    <2>2. CASE user.op = "unlink"
      <3>1. groups' = groups /\ state' = Unlinked(t, u)
        BY <1>1, <2>2
      <3>2. \A v \in Rows : /\ v \in {t, u} => state'[v].group = 0
                            /\ v \notin {t, u} => state'[v] = state[v]
        BY <3>1, <1>2, <1>3, UnlinkedParts
      <3>3. GroupsOfTwo /\ PartnersThere /\ groups \in Nat
        BY DEF MatchInv, MatchTypes
      <3>4. GroupsOfTwo'
        <4>1. \A v \in Rows : state'[v].group <= groups
          BY <3>2, <3>3 DEF GroupsOfTwo
        <4> QED BY <4>1, <3>1, <3>2, <3>3, <1>7 DEF GroupsOfTwo
      <3>5. ASSUME ~past'.raced, NEW v \in Rows, state'[v].group # 0
            PROVE  /\ \E w \in Rows \ {v} : state'[w].group = state'[v].group
                   /\ state'[v].excluded => state'[v].by = "user"
        <4>1. v \notin {t, u} /\ state'[v] = state[v]
          BY <3>2, <3>5
        <4>2. PICK w \in Rows \ {v} : state[w].group = state[v].group
          BY <4>1, <3>3, <3>5, <1>4 DEF PartnersThere
        <4>3. w \notin {t, u}
          \* A leg's partner is the other leg, and v would be a third row.
          <5>1. state[t].group = state[u].group
            BY <3>5, <1>9
          <5>2. ASSUME w \in {t, u} PROVE FALSE
            <6>1. state[t].group = state[v].group /\ state[u].group = state[v].group
              BY <5>1, <5>2, <4>2
            <6>2. state[v].group # 0
              BY <4>1, <3>5
            <6> QED BY <6>1, <6>2, <4>1, <3>3, <1>3 DEF GroupsOfTwo
          <5> QED BY <5>2
        <4> QED BY <4>1, <4>2, <4>3, <3>2, <3>3, <3>5, <1>4 DEF PartnersThere
      <3> QED BY <3>4, <3>5, <1>7 DEF PartnersThere
    <2> QED BY <1>1, <2>1, <2>2
  <1>11. PairsApart' /\ UserAsRead'
    BY <1>1, <1>5 DEF MatchInv, PairsApart, UserAsRead
  <1>12. AttemptsAsRead'
    <2> SUFFICES ASSUME ~past'.raced, NEW c \in Consumers, ~attempt'[c].stale,
                        NEW p \in attempt'[c].todo
                 PROVE  /\ state'[p[1]].group = 0 /\ ~state'[p[1]].excluded
                        /\ state'[p[2]].group = 0 /\ ~state'[p[2]].excluded
      BY DEF AttemptsAsRead
    <2>1. /\ p \in attempt[c].todo /\ ~attempt[c].stale
          /\ p[1] \notin {t, u} /\ p[2] \notin {t, u}
      BY <1>5
    <2>2. p[1] \in Rows /\ p[2] \in Rows
      BY <2>1, <1>2 DEF MatchTypes, AttemptType
    <2> QED BY <2>1, <2>2, <1>4, <1>6 DEF MatchInv, AttemptsAsRead
  <1>13. RangeInHand'
    BY <1>1, <1>4, <1>5 DEF MatchInv, RangeInHand, Queue, InRange, Consumers
  <1>14. NobodyLeft'
    BY <1>4 DEF NobodyLeft
  <1> QED BY <1>8, <1>10, <1>11, <1>12, <1>13, <1>14 DEF MatchInv

\* An attempt decides on pairs of eligible rows that have each other alone: they are
\* apart, and what is left over then was left over before.
LEMMA BeginStep ==
    ASSUME MatchInv, NEW c \in Consumers, Begin(c)
    PROVE  MatchInv'
  <1> DEFINE range == Head(Queue(c))
             todo == Decide(range, Loaded(range))
             E == EligibleRows
  <1>1. /\ ledger' = ledger /\ state' = state /\ windows' = windows
        /\ submitted' = submitted /\ user' = user /\ groups' = groups
        /\ attempt[c].pc = "idle" /\ Queue(c) # <<>>
        /\ attempt' = [attempt EXCEPT ![c] = [pc |-> "saving", todo |-> todo,
                                              stale |-> FALSE]]
        /\ past' = [past EXCEPT !.overlapped =
                      @ \/ \E d \in Consumers \ {c} : attempt[d].pc = "saving"]
    BY DEF Begin
  <1>2. MatchTypes /\ Booked(ledger)
    BY LedgerBooked DEF MatchInv
  <1>3. range \in Interval
    BY <1>1, <1>2 DEF MatchTypes, Queue
  <1>4. todo = {p \in E \X E : /\ p[1] < p[2]
                               /\ InRange(p[1], range) \/ InRange(p[2], range)
                               /\ MutuallyUnique(p[1], p[2], E)}
    BY <1>2, <1>3, DecideExact DEF Interval
  <1>5. E \subseteq Rows /\ Rows \subseteq Int
    BY <1>2 DEF EligibleRows, Booked, Rows
  <1> HIDE DEF todo, range
  <1>6. /\ attempt' \in [Consumers -> AttemptType]
        /\ attempt'[c].todo = todo /\ attempt'[c].pc = "saving" /\ ~attempt'[c].stale
        /\ \A d \in Consumers \ {c} : attempt'[d] = attempt[d]
    <2>1. todo \subseteq Rows \X Rows
      BY <1>4, <1>5
    <2>2. [pc |-> "saving", todo |-> todo, stale |-> FALSE] \in AttemptType
      BY <2>1 DEF AttemptType
    <2> QED BY <1>1, <1>2, <2>2 DEF MatchTypes
  <1>7. /\ past' \in PastType /\ past'.raced = past.raced
        /\ past'.disturbed = past.disturbed
        /\ ~past'.overlapped =>
              /\ ~past.overlapped
              /\ \A d \in Consumers \ {c} : attempt[d].pc # "saving"
    <2> DEFINE beside == past.overlapped
                         \/ \E d \in Consumers \ {c} : attempt[d].pc = "saving"
    <2>1. past \in PastType /\ beside \in BOOLEAN
      BY <1>2 DEF MatchTypes
    <2>2. past' = [past EXCEPT !.overlapped = beside]
      BY <1>1, Zenon
    <2> HIDE DEF beside
    <2>3. /\ past' \in PastType /\ past'.raced = past.raced
          /\ past'.disturbed = past.disturbed
          /\ past'.overlapped = beside
      BY <2>1, <2>2 DEF PastType
    <2> QED BY <2>3 DEF beside
  <1>8. MatchTypes'
    BY <1>1, <1>2, <1>6, <1>7 DEF MatchTypes, AttemptType, Rows, UserType
  <1>9. GroupsOfTwo' /\ PartnersThere' /\ UserAsRead'
    BY <1>1, <1>7 DEF MatchInv, GroupsOfTwo, PartnersThere, UserAsRead, Rows
  <1>10. \A p \in todo : /\ p \in E \X E /\ p[1] < p[2] /\ p[1] # p[2]
                         /\ InRange(p[1], range) \/ InRange(p[2], range)
                         /\ \A v \in E : Fits(p[1], v) <=> v = p[2]
                         /\ \A v \in E : Fits(p[2], v) <=> v = p[1]
    <2> SUFFICES ASSUME NEW p \in todo
                 PROVE  /\ p \in E \X E /\ p[1] < p[2] /\ p[1] # p[2]
                        /\ InRange(p[1], range) \/ InRange(p[2], range)
                        /\ \A v \in E : Fits(p[1], v) <=> v = p[2]
                        /\ \A v \in E : Fits(p[2], v) <=> v = p[1]
      OBVIOUS
    <2>1. /\ p \in E \X E /\ p[1] < p[2]
          /\ InRange(p[1], range) \/ InRange(p[2], range)
          /\ MutuallyUnique(p[1], p[2], E)
      BY <1>4
    <2>2. /\ {v \in E : Fits(p[1], v)} = {p[2]}
          /\ {v \in E : Fits(p[2], v)} = {p[1]}
      BY <2>1, CounterpartsFit DEF MutuallyUnique
    <2> HIDE DEF E
    <2>3. p[1] # p[2]
      <3>1. p[1] \in Int /\ p[2] \in Int
        BY <2>1, <1>5
      <3> QED BY <2>1, <3>1
    <2> QED BY <2>1, <2>2, <2>3
  <1> HIDE DEF E
  <1>11. PairsApart'
    <2>1. \A p, q \in todo : p # q => {p[1], p[2]} \cap {q[1], q[2]} = {}
      <3> SUFFICES ASSUME NEW p \in todo, NEW q \in todo,
                          {p[1], p[2]} \cap {q[1], q[2]} # {}
                   PROVE  p = q
        OBVIOUS
      <3>1. p[1] = q[1] /\ p[2] = q[2]
        \* A common leg has one counterpart, and the lesser leg comes first.
        <4>1. /\ p \in E \X E /\ q \in E \X E
              /\ p[1] \in Int /\ p[2] \in Int /\ q[1] \in Int /\ q[2] \in Int
              /\ p[1] < p[2] /\ q[1] < q[2]
          BY <1>5, <1>10
        <4>2. CASE p[1] = q[1]
          BY <4>1, <4>2, <1>10
        <4>3. CASE p[2] = q[2]
          BY <4>1, <4>3, <1>10
        <4>4. CASE p[1] = q[2]
          <5>1. p[2] = q[1]
            BY <4>1, <4>4, <1>10
          <5> QED BY <4>1, <4>4, <5>1
        <4>5. CASE p[2] = q[1]
          <5>1. p[1] = q[2]
            BY <4>1, <4>5, <1>10
          <5> QED BY <4>1, <4>5, <5>1
        <4> QED BY <4>2, <4>3, <4>4, <4>5
      <3> QED BY <3>1, <1>10
    <2> QED BY <2>1, <1>1, <1>6, <1>10 DEF MatchInv, PairsApart
  <1>12. AttemptsAsRead'
    <2> SUFFICES ASSUME ~past.raced, NEW d \in Consumers, ~attempt'[d].stale,
                        NEW p \in attempt'[d].todo
                 PROVE  /\ state[p[1]].group = 0 /\ ~state[p[1]].excluded
                        /\ state[p[2]].group = 0 /\ ~state[p[2]].excluded
      BY <1>1, <1>7 DEF AttemptsAsRead
    <2>1. CASE d = c
      <3>1. p[1] \in E /\ p[2] \in E
        BY <2>1, <1>6, <1>10
      <3> QED BY <3>1 DEF E, EligibleRows, Eligible
    <2>2. CASE d # c
      BY <2>2, <1>6 DEF MatchInv, AttemptsAsRead
    <2> QED BY <2>1, <2>2
  <1>13. RangeInHand'
    <2>1. \A d \in Consumers : attempt'[d].pc = "saving" => Queue(d) # <<>>
      BY <1>1, <1>6 DEF MatchInv, RangeInHand
    <2>2. ASSUME NEW p \in attempt'["windows"].todo
          PROVE  InRange(p[1], Head(windows)) \/ InRange(p[2], Head(windows))
      <3>1. CASE c = "windows"
        BY <3>1, <1>6, <1>10 DEF range, Queue
      <3>2. CASE c # "windows"
        BY <3>2, <1>6 DEF MatchInv, RangeInHand, Consumers
      <3> QED BY <3>1, <3>2
    <2>3. ~past'.overlapped => \E d \in Consumers : attempt'[d].pc = "idle"
      <3>1. PICK d \in Consumers : d # c
        BY DEF Consumers
      <3>2. attempt[d].pc # "saving" => attempt'[d].pc = "idle"
        BY <3>1, <1>2, <1>6 DEF MatchTypes, AttemptType
      <3> QED BY <3>1, <3>2, <1>7
    <2> QED BY <2>1, <2>2, <2>3, <1>1 DEF RangeInHand, Queue, InRange
  <1>14. NobodyLeft'
    <2> SUFFICES ASSUME ~past.disturbed, ~past'.overlapped,
                        NEW t \in E, NEW u \in E, Fits(t, u),
                        OnlyLeft(t, u)', OnlyLeft(u, t)'
                 PROVE  (Awaits(t, u) \/ Ordered(t, u) \in attempt["windows"].todo)'
      <3>1. EligibleRows' = E
        BY <1>1 DEF E, EligibleRows, Eligible, Rows
      <3> QED BY <3>1, <1>1, <1>7, RulesKept DEF NobodyLeft
    <2>1. \A d \in Consumers \ {c} : attempt[d].todo = {}
      BY <1>2, <1>7 DEF MatchInv, PairsApart, MatchTypes, AttemptType
    <2>2. \A v \in Legs' : \E p \in todo : v = p[1] \/ v = p[2]
      BY <2>1, <1>6 DEF Legs
    <2>3. /\ \A v \in E : Fits(t, v) => v = u \/ v \in Legs'
          /\ \A v \in E : Fits(u, v) => v = t \/ v \in Legs'
      <3>1. EligibleRows' = E
        BY <1>1 DEF E, EligibleRows, Eligible, Rows
      <3> QED BY <3>1, <1>1, RulesKept DEF OnlyLeft
    <2>4. Fits(u, t) /\ t \in Rows /\ u \in Rows
      BY <1>2, <1>5, FitsBothWays
    <2>5. ASSUME NEW a \in E, NEW b \in E, Fits(a, b), NEW v \in E, Fits(a, v),
                 \A x \in E : Fits(a, x) => x = b \/ x \in Legs'
          PROVE  v = b
      \* A leg about to be linked has the other leg alone.
      <3>1. CASE v \in Legs'
        <4>1. PICK p \in todo : v = p[1] \/ v = p[2]
          BY <2>2, <3>1
        <4>2. Fits(v, a)
          BY <2>5, <1>2, <1>5, FitsBothWays
        <4>3. /\ v = p[1] => a = p[2]
              /\ v = p[2] => a = p[1]
          BY <4>2, <1>10
        <4> QED BY <4>1, <4>3, <2>5, <1>10
      <3> QED BY <3>1, <2>5
    <2>6. \A v \in E : Fits(t, v) => v = u
      BY <2>3, <2>5
    <2>7. \A v \in E : Fits(u, v) => v = t
      BY <2>3, <2>4, <2>5
    <2>8. Awaits(t, u) \/ Ordered(t, u) \in attempt["windows"].todo
      BY <1>7, <2>6, <2>7 DEF MatchInv, NobodyLeft, OnlyLeft, E
    <2>9. MutuallyUnique(t, u, E) /\ MutuallyUnique(u, t, E)
      <3>1. {v \in E : Fits(t, v)} = {u} /\ {v \in E : Fits(u, v)} = {t}
        BY <2>4, <2>6, <2>7
      <3> QED BY <3>1, CounterpartsFit DEF MutuallyUnique
    <2>10. CASE c = "windows"
      <3>1. attempt["windows"].todo = {}
        BY <1>1, <2>10 DEF MatchInv, PairsApart
      <3>2. PICK k \in DOMAIN windows : InRange(t, windows[k]) \/ InRange(u, windows[k])
        BY <2>8, <3>1 DEF Awaits
      <3>3. CASE k # 1
        BY <3>2, <3>3, <1>1 DEF Awaits, InRange
      <3>4. CASE k = 1
        <4>1. InRange(t, range) \/ InRange(u, range)
          BY <2>10, <3>2, <3>4, <1>2 DEF range, Queue, MatchTypes
        <4>2. t # u /\ t \in Int /\ u \in Int
          BY <1>5 DEF Fits
        <4>3. Ordered(t, u) \in todo
          <5>1. CASE t < u
            BY <4>1, <5>1, <2>9, <1>4 DEF Ordered, E
          <5>2. CASE u < t
            BY <4>1, <4>2, <5>2, <2>9, <1>4 DEF Ordered, E
          <5> QED BY <4>2, <5>1, <5>2
        <4> QED BY <4>3, <2>10, <1>6 DEF Ordered
      <3> QED BY <3>3, <3>4
    <2>11. CASE c # "windows"
      <3>1. attempt'["windows"] = attempt["windows"]
        BY <2>11, <1>6 DEF Consumers
      <3> QED BY <2>8, <3>1, <1>1 DEF Awaits, InRange, Ordered
    <2> QED BY <2>10, <2>11
  <1> QED BY <1>8, <1>9, <1>11, <1>12, <1>13, <1>14 DEF MatchInv

\* A pair is linked: it leaves those to save, and its legs are eligible no more.
LEMMA SavePairStep ==
    ASSUME MatchInv, NEW c \in Consumers, SavePair(c)
    PROVE  MatchInv'
  <1>1. /\ MatchTypes /\ PairsApart /\ GroupsOfTwo /\ PartnersThere
        /\ AttemptsAsRead /\ UserAsRead /\ RangeInHand
    BY DEF MatchInv
  <1>2. /\ ledger' = ledger /\ windows' = windows /\ submitted' = submitted
        /\ groups' = groups + 1 /\ Rows' = Rows
        /\ past' = [past EXCEPT !.raced = @ \/ attempt[c].stale]
    BY DEF SavePair, NewGroup, Rows
  <1>3. PICK pair \in attempt[c].todo :
              /\ pair \in Rows \X Rows /\ pair[1] # pair[2]
              /\ attempt[c].pc = "saving"
              /\ state' = Linked(pair[1], pair[2], "matcher")
              /\ attempt' \in [Consumers -> AttemptType]
              /\ attempt'[c].todo = attempt[c].todo \ {pair}
              /\ attempt'[c].stale = attempt[c].stale
              /\ \A d \in Consumers :
                    /\ attempt'[d].pc = attempt[d].pc
                    /\ d # c => attempt'[d].todo = attempt[d].todo
                    /\ d # c /\ attempt[d].todo = {} => attempt'[d].stale = attempt[d].stale
                    /\ d # c /\ ~attempt'[d].stale =>
                          /\ ~attempt[d].stale
                          /\ \A p \in attempt[d].todo :
                                {p[1], p[2]} \cap {pair[1], pair[2]} = {}
              /\ user' \in UserType \cup {None}
              /\ user' # None => user # None /\ user'.legs = user.legs
              /\ user' # None /\ ~user'.stale =>
                    /\ user' = user
                    /\ {user.legs[1], user.legs[2]} \cap {pair[1], pair[2]} = {}
    BY <1>1, SaveParts
  <1> DEFINE a == pair[1]
             b == pair[2]
  <1>4. a \in Rows /\ b \in Rows /\ a # b
    BY <1>3
  <1>5. /\ state' \in [Rows -> RowState]
        /\ \A v \in Rows :
              /\ state'[v].status = state[v].status
              /\ state'[v].hidden = state[v].hidden
              /\ state'[v].excluded = state[v].excluded
              /\ v \in {a, b} => state'[v].group = groups + 1 /\ state'[v].by = "matcher"
              /\ v \notin {a, b} => state'[v] = state[v]
    BY <1>1, <1>3, <1>4, LinkedParts
  <1>6. /\ past' \in PastType
        /\ past'.overlapped = past.overlapped /\ past'.disturbed = past.disturbed
        /\ ~past'.raced => ~past.raced /\ ~attempt[c].stale
    <2>1. past \in PastType /\ attempt[c].stale \in BOOLEAN
      BY <1>1 DEF MatchTypes, AttemptType
    <2> QED BY <2>1, <1>2 DEF PastType
  <1>7. MatchTypes'
    BY <1>1, <1>2, <1>3, <1>5, <1>6 DEF MatchTypes, AttemptType, UserType
  <1>8. ~past'.raced => /\ state[a].group = 0 /\ ~state[a].excluded
                        /\ state[b].group = 0 /\ ~state[b].excluded
    BY <1>1, <1>6 DEF AttemptsAsRead
  <1>9. GroupsOfTwo' /\ PartnersThere'
    <2>1. /\ GroupsOfTwo'
          /\ /\ ~past.raced
             /\ state[a].group = 0 /\ state[b].group = 0
             /\ ~state[a].excluded /\ ~state[b].excluded
             => \A v \in Rows : state'[v].group # 0 =>
                   /\ \E w \in Rows \ {v} : state'[w].group = state'[v].group
                   /\ state'[v].excluded => state'[v].by = "user"
      BY <1>2, <1>3, <1>4, LinkedGroups
    <2> QED BY <2>1, <1>2, <1>6, <1>8 DEF PartnersThere
  <1>10. PairsApart'
    <2>1. \A d \in Consumers : attempt'[d].todo \subseteq attempt[d].todo
      BY <1>3
    <2>2. \A d \in Consumers : attempt'[d].pc = attempt[d].pc
      BY <1>3
    <2>3. \A d \in Consumers :
             attempt'[d].pc = "idle" => attempt'[d].todo = {} /\ ~attempt'[d].stale
      BY <2>1, <2>2, <1>1, <1>3 DEF PairsApart
    <2>4. user' # None => user'.legs[1] # user'.legs[2]
      BY <1>1, <1>3 DEF PairsApart
    <2> QED BY <2>1, <2>3, <2>4, <1>1 DEF PairsApart
  <1>11. AttemptsAsRead'
    <2> SUFFICES ASSUME ~past'.raced, NEW d \in Consumers, ~attempt'[d].stale,
                        NEW p \in attempt'[d].todo
                 PROVE  /\ state'[p[1]].group = 0 /\ ~state'[p[1]].excluded
                        /\ state'[p[2]].group = 0 /\ ~state'[p[2]].excluded
      BY DEF AttemptsAsRead
    <2>1. /\ p \in attempt[d].todo /\ ~attempt[d].stale
          /\ p[1] \notin {a, b} /\ p[2] \notin {a, b}
      <3>1. CASE d = c
        <4>1. p \in attempt[c].todo /\ p # pair /\ ~attempt[c].stale
          BY <3>1, <1>3
        <4>2. {p[1], p[2]} \cap {a, b} = {}
          BY <4>1, <1>1, <1>3 DEF PairsApart
        <4> QED BY <3>1, <4>1, <4>2
      <3>2. CASE d # c
        BY <3>2, <1>3
      <3> QED BY <3>1, <3>2
    <2>2. p[1] \in Rows /\ p[2] \in Rows
      BY <2>1, <1>1 DEF MatchTypes, AttemptType
    <2> QED BY <2>1, <2>2, <1>1, <1>5, <1>6 DEF AttemptsAsRead
  <1>12. UserAsRead'
    <2> SUFFICES ASSUME ~past'.raced, user' # None, ~user'.stale
                 PROVE  /\ state'[user'.legs[1]].group = state'[user'.legs[2]].group
                        /\ user'.op = "link" <=> state'[user'.legs[1]].group = 0
      BY DEF UserAsRead
    <2>1. /\ user' = user /\ user # None /\ ~user.stale
          /\ user.legs[1] \notin {a, b} /\ user.legs[2] \notin {a, b}
      BY <1>3
    <2>2. user.legs[1] \in Rows /\ user.legs[2] \in Rows
      BY <2>1, <1>1 DEF MatchTypes, UserType
    <2> QED BY <2>1, <2>2, <1>1, <1>5, <1>6 DEF UserAsRead
  <1>13. RangeInHand'
    <2>1. attempt'["windows"].todo \subseteq attempt["windows"].todo
      BY <1>3 DEF Consumers
    <2>2. \A d \in Consumers : attempt'[d].pc = attempt[d].pc
      BY <1>3
    <2> QED BY <2>1, <2>2, <1>1, <1>2, <1>6 DEF RangeInHand, Queue, InRange
  <1>14. NobodyLeft'
    <2> SUFFICES ASSUME ~past.disturbed, ~past.overlapped,
                        NEW t \in EligibleRows', NEW u \in EligibleRows',
                        Fits(t, u)', OnlyLeft(t, u)', OnlyLeft(u, t)'
                 PROVE  (Awaits(t, u) \/ Ordered(t, u) \in attempt["windows"].todo)'
      BY <1>6 DEF NobodyLeft
    <2>1. \A v : v \in EligibleRows' <=> v \in EligibleRows /\ v \notin {a, b}
      <3>1. \A v \in Rows : Eligible(v)' <=> Eligible(v) /\ v \notin {a, b}
        <4>1. groups + 1 # 0
          BY <1>1 DEF MatchTypes
        <4> QED BY <4>1, <1>5 DEF Eligible
      <3> QED BY <3>1, <1>2 DEF EligibleRows
    <2>2. \A v \in Legs : v \in Legs' \/ v \in {a, b}
      <3> SUFFICES ASSUME NEW v \in Rows, NEW d \in Consumers, NEW p \in attempt[d].todo,
                          v = p[1] \/ v = p[2]
                   PROVE  v \in Legs' \/ v \in {a, b}
        BY DEF Legs
      <3>1. CASE p \in attempt'[d].todo
        BY <3>1, <1>2 DEF Legs
      <3>2. CASE p \notin attempt'[d].todo
        BY <3>2, <1>3
      <3> QED BY <3>1, <3>2
    <2>3. Legs' \subseteq Legs
      BY <1>2, <1>3 DEF Legs
    <2>4. a \in Legs /\ b \in Legs
      BY <1>3, <1>4 DEF Legs
    <2>5. /\ t \in EligibleRows /\ u \in EligibleRows /\ Fits(t, u)
          /\ t \notin {a, b} /\ u \notin {a, b}
      BY <2>1, <1>2, RulesKept
    <2>6. OnlyLeft(t, u) /\ OnlyLeft(u, t)
      BY <2>1, <2>3, <2>4, <1>2, RulesKept DEF OnlyLeft
    <2>7. Awaits(t, u) \/ Ordered(t, u) \in attempt["windows"].todo
      BY <2>5, <2>6 DEF MatchInv, NobodyLeft
    <2>8. CASE Awaits(t, u)
      <3>1. attempt'["windows"].pc = attempt["windows"].pc
        BY <1>3 DEF Consumers
      <3> QED BY <2>8, <3>1, <1>2 DEF Awaits, InRange
    <2>9. CASE Ordered(t, u) \in attempt["windows"].todo
      <3>1. Ordered(t, u) # pair
        BY <2>5 DEF Ordered
      <3>2. Ordered(t, u) \in attempt'["windows"].todo
        BY <2>9, <3>1, <1>3 DEF Consumers
      <3> QED BY <3>2 DEF Ordered
    <2> QED BY <2>7, <2>8, <2>9
  <1> QED BY <1>7, <1>9, <1>10, <1>11, <1>12, <1>13, <1>14 DEF MatchInv

\* An attempt ends, with its pairs all saved or with a failure: then the pairs it gave up
\* are still waited for by the window that is delivered again.
LEMMA EndSteps ==
    ASSUME MatchInv, NEW c \in Consumers, Finish(c) \/ FailAttempt(c)
    PROVE  MatchInv'
  <1>1. MatchTypes /\ PairsApart /\ RangeInHand
    BY DEF MatchInv
  <1>2. /\ ledger' = ledger /\ state' = state /\ user' = user /\ groups' = groups
        /\ past' = past /\ attempt' = [attempt EXCEPT ![c] = Idle]
        /\ attempt[c].pc = "saving"
        /\ Rows' = Rows /\ EligibleRows' = EligibleRows
    BY DEF Finish, FailAttempt, Rows, EligibleRows, Eligible
  <1>3. /\ attempt' \in [Consumers -> AttemptType]
        /\ attempt'[c].todo = {} /\ attempt'[c].pc = "idle" /\ ~attempt'[c].stale
        /\ \A d \in Consumers \ {c} : attempt'[d] = attempt[d]
    <2>1. Idle \in AttemptType
      BY DEF Idle, AttemptType
    <2> QED BY <2>1, <1>1, <1>2 DEF MatchTypes, Idle
  <1>4. /\ windows' \in Seq(Interval) /\ submitted' \in Seq(Interval)
        /\ FailAttempt(c) => windows' = windows /\ submitted' = submitted
        /\ \A d \in Consumers \ {c} : Queue(d)' = Queue(d)
    <2>1. CASE FailAttempt(c)
      BY <2>1, <1>1 DEF FailAttempt, MatchTypes, Queue
    <2>2. CASE Finish(c)
      <3>1. windows \in Seq(Interval) /\ submitted \in Seq(Interval) /\ Queue(c) # <<>>
        BY <1>1, <1>2 DEF MatchTypes, RangeInHand
      <3>2. c \in {"windows", "submitted"}
        BY DEF Consumers
      <3>3. CASE c = "windows"
        <4>1. windows' = Tail(windows) /\ submitted' = submitted /\ windows # <<>>
          BY <2>2, <3>1, <3>3 DEF Finish, Queue
        <4>2. windows' \in Seq(Interval)
          BY <3>1, <4>1
        <4>3. ~FailAttempt(c) \/ windows' = windows
          BY DEF FailAttempt
        <4> QED BY <3>1, <3>3, <4>1, <4>2, <4>3 DEF Consumers, Queue, FailAttempt
      <3>4. CASE c = "submitted"
        <4>1. submitted' = Tail(submitted) /\ windows' = windows /\ submitted # <<>>
          BY <2>2, <3>1, <3>4 DEF Finish, Queue
        <4>2. submitted' \in Seq(Interval)
          BY <3>1, <4>1
        <4> QED BY <3>1, <3>4, <4>1, <4>2 DEF Consumers, Queue, FailAttempt
      <3> QED BY <3>2, <3>3, <3>4
    <2> QED BY <2>1, <2>2
  <1>5. MatchTypes'
    BY <1>1, <1>2, <1>3, <1>4 DEF MatchTypes, AttemptType, UserType
  <1>6. GroupsOfTwo' /\ PartnersThere' /\ UserAsRead'
    BY <1>2 DEF MatchInv, GroupsOfTwo, PartnersThere, UserAsRead
  <1>7. PairsApart'
    BY <1>1, <1>2, <1>3 DEF PairsApart
  <1>8. AttemptsAsRead'
    <2>1. \A d \in Consumers : \A p \in attempt'[d].todo : d # c /\ p \in attempt[d].todo
      BY <1>3
    <2>2. \A d \in Consumers \ {c} : attempt'[d].stale = attempt[d].stale
      BY <1>3
    <2> QED BY <2>1, <2>2, <1>2 DEF MatchInv, AttemptsAsRead
  <1>9. RangeInHand'
    <2>1. \A d \in Consumers : attempt'[d].pc = "saving" => d # c /\ Queue(d)' # <<>>
      BY <1>1, <1>3, <1>4 DEF RangeInHand
    <2>2. ASSUME NEW p \in attempt'["windows"].todo
          PROVE  (InRange(p[1], Head(windows)) \/ InRange(p[2], Head(windows)))'
      <3>1. c # "windows"
        BY <1>3
      <3>2. windows' = windows /\ p \in attempt["windows"].todo
        BY <3>1, <1>3, <1>4 DEF Queue, Consumers
      <3> QED BY <3>2, <1>1, <1>2 DEF RangeInHand, InRange
    <2> QED BY <2>1, <2>2, <1>3 DEF RangeInHand
  <1>10. NobodyLeft'
    <2> SUFFICES ASSUME ~past.disturbed, ~past.overlapped,
                        NEW t \in EligibleRows, NEW u \in EligibleRows,
                        Fits(t, u), OnlyLeft(t, u)', OnlyLeft(u, t)'
                 PROVE  (Awaits(t, u) \/ Ordered(t, u) \in attempt["windows"].todo)'
      BY <1>2, RulesKept DEF NobodyLeft
    <2>1. Legs' \subseteq Legs
      BY <1>2, <1>3 DEF Legs
    <2>2. OnlyLeft(t, u) /\ OnlyLeft(u, t)
      BY <2>1, <1>2, RulesKept DEF OnlyLeft
    <2>3. Awaits(t, u) \/ Ordered(t, u) \in attempt["windows"].todo
      BY <2>2 DEF MatchInv, NobodyLeft
    <2>4. CASE c # "windows"
      <3>1. windows' = windows /\ attempt'["windows"] = attempt["windows"]
        BY <2>4, <1>3, <1>4 DEF Queue, Consumers
      <3> QED BY <2>3, <3>1, <1>2 DEF Awaits, InRange, Ordered
    <2>5. CASE c = "windows" /\ FailAttempt(c)
      <3>1. windows' = windows /\ attempt'["windows"].pc = "idle" /\ windows # <<>>
        BY <2>5, <1>1, <1>2, <1>3, <1>4 DEF RangeInHand, Queue
      <3>2. CASE Awaits(t, u)
        BY <3>1, <3>2, <1>2 DEF Awaits, InRange
      <3>3. CASE Ordered(t, u) \in attempt["windows"].todo
        <4>1. InRange(t, Head(windows)) \/ InRange(u, Head(windows))
          BY <3>3, <1>1 DEF RangeInHand, Ordered
        <4>2. 1 \in DOMAIN windows /\ Head(windows) = windows[1]
          BY <3>1, <1>1 DEF MatchTypes
        <4> QED BY <3>1, <4>1, <4>2, <1>2 DEF Awaits, InRange
      <3> QED BY <2>3, <3>2, <3>3
    <2>6. CASE c = "windows" /\ Finish(c)
      <3>1. /\ attempt["windows"].todo = {} /\ attempt["windows"].pc = "saving"
            /\ windows' = Tail(windows) /\ windows # <<>>
            /\ attempt'["windows"].pc = "idle"
        BY <2>6, <1>1, <1>2, <1>3 DEF Finish, RangeInHand, Queue
      <3>2. PICK k \in DOMAIN windows :
               k # 1 /\ (InRange(t, windows[k]) \/ InRange(u, windows[k]))
        BY <2>3, <3>1 DEF Awaits
      <3>3. k - 1 \in DOMAIN windows' /\ windows'[k - 1] = windows[k]
        BY <3>1, <3>2, <1>1 DEF MatchTypes
      <3> QED BY <3>1, <3>2, <3>3, <1>2 DEF Awaits, InRange
    <2> QED BY <2>4, <2>5, <2>6
  <1> QED BY <1>5, <1>6, <1>7, <1>8, <1>9, <1>10 DEF MatchInv

\* Every step of the matching preserves the invariant.
LEMMA MatchStep == MatchInv /\ [Next]_vars => MatchInv'
  <1> SUFFICES ASSUME MatchInv, [Next]_vars PROVE MatchInv'
    OBVIOUS
  <1>1. CASE UNCHANGED vars
    <2>1. /\ ledger' = ledger /\ state' = state /\ windows' = windows
          /\ submitted' = submitted /\ attempt' = attempt /\ user' = user
          /\ groups' = groups /\ past' = past /\ Rows' = Rows
      BY <1>1 DEF vars, Rows
    <2>2. MatchTypes'
      BY <2>1 DEF MatchInv, MatchTypes, AttemptType, UserType
    <2>3. GroupsOfTwo' /\ PairsApart' /\ PartnersThere' /\ AttemptsAsRead' /\ UserAsRead'
      BY <2>1, LegsKept
    <2>4. RangeInHand'
      BY <2>1 DEF MatchInv, RangeInHand, Queue, InRange
    <2>5. NobodyLeft'
      BY <2>1, WaitKept DEF Legs, EligibleRows, Eligible
    <2> QED BY <2>2, <2>3, <2>4, <2>5 DEF MatchInv
  <1>2. ASSUME NEW rows \in (SUBSET Rows) \ {{}}, NEW status \in {"pending", "booked"},
               Synchronize(rows, status)
        PROVE  MatchInv'
    <2>1. rows \in SUBSET Rows /\ rows # {}
      BY <1>2
    <2> QED BY <1>2, <2>1, SynchronizeStep
  <1>3. ASSUME NEW t \in Rows, Hide(t) PROVE MatchInv'
    BY <1>3, HideStep
  <1>4. ASSUME NEW t \in Rows, NEW u \in Rows, OpenLink(t, u) \/ OpenUnlink(t, u)
        PROVE  MatchInv'
    BY <1>4, OpenUserSteps
  <1>5. CASE CompleteUser
    BY <1>5, CompleteUserStep
  <1>6. ASSUME NEW range \in Ranges, Submit(range) PROVE MatchInv'
    BY <1>6, SubmitStep
  <1>7. ASSUME NEW c \in Consumers, Begin(c) PROVE MatchInv'
    BY <1>7, BeginStep
  <1>8. ASSUME NEW c \in Consumers, SavePair(c) PROVE MatchInv'
    BY <1>8, SavePairStep
  <1>9. ASSUME NEW c \in Consumers, Finish(c) \/ FailAttempt(c) PROVE MatchInv'
    BY <1>9, EndSteps
  <1> QED BY <1>1, <1>2, <1>3, <1>4, <1>5, <1>6, <1>7, <1>8, <1>9 DEF Next

\* The components take turns that the matching does not notice.
LEMMA MatchTurns ==
    [ComponentsNext]_<<part, vars, importVars, linkVars, routerVars, agentVars>>
        => [Next]_vars
  BY DEF ComponentsNext, Matching, Importing, Linking, Routing, Talking, Next

-----------------------------------------------------------------------------
(* The theorems about the matching.                                           *)

\* Rows, queues, attempts, users' operations and groups stay of their types, and every
\* pair that can only be matched one way is waited for (transfer_pair_store.go,
\* service_transfer_matching.go).
THEOREM MatchingInvariant == ComponentsSpec => []MatchInv
  <1>1. ComponentsInit => MatchInv
    BY MatchInit DEF ComponentsInit
  <1>2. /\ MatchInv
        /\ [ComponentsNext]_<<part, vars, importVars, linkVars, routerVars, agentVars>>
        => MatchInv'
    BY MatchTurns, MatchStep
  <1> QED BY <1>1, <1>2, PTL DEF ComponentsSpec

\* The invariant says more than the type invariant the run checks.
LEMMA MatchTyped == MatchInv => TypeOK
  <1> SUFFICES ASSUME MatchInv PROVE TypeOK
    OBVIOUS
  <1>1. MatchTypes /\ GroupsOfTwo /\ PairsApart
    BY DEF MatchInv
  <1>2. ASSUME NEW t \in Rows
        PROVE  /\ state[t].status \in {"absent", "pending", "booked"}
               /\ state[t].group \in 0 .. groups
               /\ state[t].by \in {"none", "matcher", "user"}
               /\ state[t].excluded \in BOOLEAN /\ state[t].hidden \in BOOLEAN
    BY <1>1 DEF MatchTypes, RowState, GroupsOfTwo
  <1>3. ASSUME NEW c \in Consumers
        PROVE  \/ attempt[c] = Idle
               \/ attempt[c].pc = "saving" /\ attempt[c].todo \subseteq Rows \X Rows
    <2>1. attempt[c] \in AttemptType
      BY <1>1 DEF MatchTypes
    <2>2. attempt[c].pc = "idle" => attempt[c].todo = {} /\ attempt[c].stale = FALSE
      BY <1>1, <2>1 DEF PairsApart, AttemptType
    <2> QED BY <2>1, <2>2 DEF AttemptType, Idle
  <1> QED BY <1>2, <1>3 DEF TypeOK

\* In any interleaving of attempts and users a row has at most one partner; while no pair
\* was written over a leg that had changed since it was read, no leg is left without its
\* partner and the matcher takes no leg a user took apart (LinkTransferPair,
\* UnlinkTransferPair).
THEOREM PairsStaySound == ComponentsSpec => []PairsSound
  <1>1. MatchInv => PairsSound
    <2> SUFFICES ASSUME MatchInv PROVE PairsSound
      OBVIOUS
    <2>1. GroupsOfTwo /\ PartnersThere
      BY DEF MatchInv
    <2>2. ASSUME NEW t \in Rows PROVE Cardinality(PartnersOf(t)) <= 1
      <3>1. \A u, v \in PartnersOf(t) : u = v
        BY <2>1 DEF PartnersOf, GroupsOfTwo
      <3>2. PartnersOf(t) = {} \/ \E u : PartnersOf(t) = {u}
        BY <3>1
      <3>3. CASE PartnersOf(t) = {}
        BY <3>3, FS_EmptySet
      <3>4. CASE \E u : PartnersOf(t) = {u}
        BY <3>4, FS_Singleton
      <3> QED BY <3>2, <3>3, <3>4
    <2>3. ASSUME ~past.raced, NEW t \in Rows
          PROVE  /\ state[t].group # 0 => PartnersOf(t) # {}
                 /\ ~(state[t].excluded /\ state[t].by = "matcher" /\ state[t].group # 0)
      BY <2>1, <2>3 DEF PartnersOf, PartnersThere
    <2> QED BY <2>2, <2>3 DEF PairsSound
  <1> QED BY <1>1, MatchingInvariant, PTL

\* Once the windows of all the rows are matched, failures and retries included, no two
\* eligible rows are left that only have each other (Match).
THEOREM NobodyLeftUnpaired == ComponentsSpec => []AllUniquePaired
  <1>1. MatchInv => AllUniquePaired
    <2> SUFFICES ASSUME MatchInv, windows = <<>>, ~past.disturbed, ~past.overlapped,
                        \A c \in Consumers : attempt[c].pc = "idle",
                        NEW t \in EligibleRows, NEW u \in EligibleRows,
                        MutuallyUnique(t, u, EligibleRows)
                 PROVE  FALSE
      BY DEF AllUniquePaired
    <2>1. \A c \in Consumers : attempt[c].todo = {}
      BY DEF MatchInv, PairsApart
    <2>2. Fits(t, u) /\ OnlyLeft(t, u) /\ OnlyLeft(u, t)
      <3>1. {v \in EligibleRows : Fits(t, v)} = {u} /\ {v \in EligibleRows : Fits(u, v)} = {t}
        BY CounterpartsFit DEF MutuallyUnique
      <3> QED BY <3>1 DEF OnlyLeft
    <2>3. Awaits(t, u) \/ Ordered(t, u) \in attempt["windows"].todo
      BY <2>2 DEF MatchInv, NobodyLeft
    <2> QED BY <2>1, <2>3 DEF Awaits, Consumers
  <1> QED BY <1>1, MatchingInvariant, PTL

\* An attempt decides on exactly the pairs, with a leg in its range, that are each
\* other's only counterpart among all eligible rows, although it loads, orders and caps
\* (decideTransferMatchingPairs).
THEOREM DecisionsAreExact == ComponentsSpec => DecisionsExact
  <1> DEFINE Exact == \A c \in Consumers :
                        attempt[c].pc = "idle" /\ attempt'[c].pc = "saving" =>
                           LET range == Head(Queue(c))
                           IN  attempt'[c].todo =
                                  {p \in EligibleRows \X EligibleRows :
                                      /\ p[1] < p[2]
                                      /\ InRange(p[1], range) \/ InRange(p[2], range)
                                      /\ MutuallyUnique(p[1], p[2], EligibleRows)}
  <1>1. MatchInv /\ [Next]_vars => [Exact]_vars
    <2> SUFFICES ASSUME MatchInv, Next, NEW c \in Consumers,
                        attempt[c].pc = "idle", attempt'[c].pc = "saving"
                 PROVE  LET range == Head(Queue(c))
                        IN  attempt'[c].todo =
                               {p \in EligibleRows \X EligibleRows :
                                   /\ p[1] < p[2]
                                   /\ InRange(p[1], range) \/ InRange(p[2], range)
                                   /\ MutuallyUnique(p[1], p[2], EligibleRows)}
      OBVIOUS
    <2>1. MatchTypes /\ Booked(ledger)
      BY LedgerBooked DEF MatchInv
    <2>2. Begin(c)
      <3>1. ASSUME attempt'[c].pc = attempt[c].pc PROVE FALSE
        BY <3>1
      <3>2. ASSUME NEW legs, attempt' = Writes(legs) PROVE FALSE
        BY <2>1, <3>1, <3>2, WritesParts
      <3>3. ASSUME NEW d \in Consumers, SavePair(d) PROVE FALSE
        BY <2>1, <3>1, <3>3, SaveParts DEF MatchInv
      <3>4. ASSUME NEW d \in Consumers, Finish(d) \/ FailAttempt(d) PROVE FALSE
        BY <2>1, <3>1, <3>4 DEF Finish, FailAttempt, MatchTypes, Idle
      <3>5. ASSUME NEW d \in Consumers, Begin(d) PROVE d = c
        BY <2>1, <3>1, <3>5 DEF Begin, MatchTypes
      <3> QED BY <3>1, <3>2, <3>3, <3>4, <3>5
              DEF Next, Synchronize, Hide, OpenLink, OpenUnlink, CompleteUser, Submit
    <2>3. Head(Queue(c)) \in Interval
      BY <2>1, <2>2 DEF Begin, MatchTypes, Queue
    <2>4. attempt'[c].todo = Decide(Head(Queue(c)), Loaded(Head(Queue(c))))
      BY <2>1, <2>2 DEF Begin, MatchTypes
    <2> QED BY <2>1, <2>3, <2>4, DecideExact DEF Interval
  <1>2. /\ MatchInv
        /\ [ComponentsNext]_<<part, vars, importVars, linkVars, routerVars, agentVars>>
        => [Exact]_vars
    BY <1>1, MatchTurns
  <1> QED BY <1>2, MatchingInvariant, PTL DEF ComponentsSpec, DecisionsExact
-----------------------------------------------------------------------------
(* CSV imports: the inductive invariant.                                      *)

Record(i) ==
    [status : {"none", "previewed", "confirmed", "running", "completed"}, job : BOOLEAN,
     imported : 0 .. Len(files[i].rows), rejected : SUBSET Csv!Rows(i)]

Confirmation(i) ==
    [import : {i}, copy : Record(i),
     steps : {<<"confirm", "publish", "reference">>, <<"publish", "reference">>,
              <<"reference">>}]

OpenedRow(i) ==
    [number : Csv!Rows(i), found : {"create", "post", "reject", "imported", "rejected"},
     account : BOOLEAN, category : BOOLEAN]

Run(i) ==
    [import : {i}, copy : Record(i), pc : {"opened", "rows"}, todo : SUBSET Csv!Rows(i),
     imported : Nat, rejected : SUBSET Csv!Rows(i), row : OpenedRow(i) \cup {None}]

\* What the preview foretold is left untyped.
Past(i) ==
    [foretold : {seen[i].foretold}, disturbed : BOOLEAN, erred : BOOLEAN,
     overtaken : BOOLEAN, overlapped : BOOLEAN, begun : 0 .. 2]

\* Deliveries at work on an import, and those with a row's transaction open.
RunsOf(i) == {w \in Runners : runs[w] # None /\ runs[w].import = i}
InRow == {w \in Runners : runs[w] # None /\ runs[w].row # None}

ImportTypes ==
    /\ DOMAIN records = Imports /\ DOMAIN messages = Imports /\ DOMAIN seen = Imports
    /\ DOMAIN outcomes = Imports /\ DOMAIN posted = Imports
    /\ DOMAIN confirming = Users /\ DOMAIN runs = Runners
    /\ \A i \in Imports :
          /\ files[i].rows \in Seq(Range(files[i].rows))
          /\ records[i] \in Record(i)
          /\ messages[i] \in {"none", "pending", "done"}
          /\ seen[i] \in Past(i)
          /\ DOMAIN outcomes[i] = Csv!Rows(i)
          /\ DOMAIN posted[i] = Csv!Rows(i)
          /\ \A r \in Csv!Rows(i) : /\ outcomes[i][r] \in {"none", "imported", "rejected"}
                                    /\ posted[i][r] \in Nat
    /\ \A u \in Users : confirming[u] # None =>
          \E i \in Imports : confirming[u] \in Confirmation(i)
    /\ \A w \in Runners : runs[w] # None => \E i \in Imports : runs[w] \in Run(i)

\* A record that was confirmed stays so, whoever saves a copy of it.
Beyond(i) == records[i].status \in {"confirmed", "running", "completed"}

StatusFollows ==
    /\ \A i \in Imports :
          /\ messages[i] # "none" => Beyond(i)
          /\ Csv!DoneMeansCompleted(i)
    /\ \A u \in Users : confirming[u] # None =>
          LET copy == confirming[u].copy IN
             /\ copy.status \in {"previewed", "confirmed", "running"}
             /\ copy.status # "previewed" => Beyond(confirming[u].import)
             /\ Head(confirming[u].steps) # "confirm" => copy.status # "previewed"
    /\ \A w \in Runners : runs[w] # None => runs[w].copy.status \in {"confirmed", "running"}

\* A run opens the transactions of rows it has still to do; an outcome found is final.
HeldBy(w) ==
    LET i == runs[w].import
        row == runs[w].row
    IN  /\ runs[w].pc = "opened" => runs[w].todo = {} /\ runs[w].imported = 0 /\ row = None
        /\ runs[w].imported + Cardinality(runs[w].todo) <= Len(files[i].rows)
        /\ files[i].type # "accounts" => runs[w].todo \subseteq Csv!ToImport(i)
        /\ row # None => /\ row.number \in runs[w].todo
                         /\ row.found = "create" <=> files[i].type = "accounts"
                         /\ row.found \in {"imported", "rejected"} =>
                               outcomes[i][row.number] = row.found

RowsHeld == \A w \in Runners : runs[w] # None => HeldBy(w)

\* Outcomes say what was posted; an account file is safe while its first run lasts.
PostedOf(i) ==
    /\ files[i].type # "accounts" =>
          \A r \in Csv!Rows(i) :
             /\ posted[i][r] = IF outcomes[i][r] = "imported" THEN 1 ELSE 0
             /\ outcomes[i][r] # "none" => r \in Csv!ToImport(i)
    /\ files[i].type = "accounts" /\ seen[i].begun = 0 =>
          RunsOf(i) = {} /\ \A r \in Csv!Rows(i) : posted[i][r] = 0
    /\ files[i].type = "accounts" /\ seen[i].begun = 1 =>
          /\ \A v, w \in RunsOf(i) : v = w
          /\ \A r \in Csv!Rows(i) :
                /\ posted[i][r] <= 1
                /\ \A w \in RunsOf(i) :
                      posted[i][r] # 0 => runs[w].pc = "rows" /\ r \notin runs[w].todo

PostedAsSaid == \A i \in Imports : PostedOf(i)

ImportedRows(i) == {r \in Csv!Rows(i) : outcomes[i][r] = "imported"}

\* Those that do not parse are rejected from the start.
RejectedRows(i, todo) ==
    {r \in Csv!Rows(i) : /\ Csv!Chosen(i, r)
                         /\ Csv!Row(i, r).parses => r \notin todo /\ outcomes[i][r] # "imported"}

\* The rows a run is done with have outcomes, which nobody changes, and it counts them.
CountsOf(i) ==
    files[i].type = "transactions" /\ ~seen[i].erred =>
        /\ Csv!AuditAgrees(i)
        /\ records[i].status = "completed" =>
              \A r \in Csv!ToImport(i) : outcomes[i][r] # "none"
        /\ \A w \in RunsOf(i) : runs[w].pc = "rows" =>
              /\ \A r \in Csv!ToImport(i) \ runs[w].todo : outcomes[i][r] # "none"
              /\ runs[w].imported = Cardinality(ImportedRows(i) \ runs[w].todo)
              /\ runs[w].rejected = RejectedRows(i, runs[w].todo)

CountsAgree == \A i \in Imports : CountsOf(i)

\* A row about to be posted is still new, unless another transaction is open beside it.
StillNew ==
    \A w \in InRow :
        LET i == runs[w].import IN
        /\ \A v \in InRow : v # w => seen[i].overlapped
        /\ runs[w].row.found = "post" /\ ~seen[i].overlapped =>
              ~Csv!InLedger(i, runs[w].row.number)

ImportInv ==
    /\ ImportTypes
    /\ StatusFollows
    /\ RowsHeld
    /\ PostedAsSaid
    /\ CountsAgree
    /\ StillNew
    /\ Csv!NoDoubleEntry

-----------------------------------------------------------------------------
(* CSV imports: what the steps have in common.                                *)

\* No step changes a file, and so what is read of files alone.
LEMMA FilesKept ==
    ASSUME files' = files
    PROVE  \A i : /\ Record(i)' = Record(i)
                  /\ Confirmation(i)' = Confirmation(i)
                  /\ Run(i)' = Run(i)
                  /\ Csv!Rows(i)' = Csv!Rows(i)
                  /\ Csv!ToImport(i)' = Csv!ToImport(i)
                  /\ \A r : /\ Csv!Chosen(i, r)' = Csv!Chosen(i, r)
                            /\ Csv!Row(i, r)' = Csv!Row(i, r)
  BY DEF Record, Confirmation, OpenedRow, Run, Csv!Rows, Csv!ToImport, Csv!Chosen, Csv!Row

\* The instance counts as this module does.
LEMMA CountsAlike == \A S : Csv!Cardinality(S) = Cardinality(S)
  BY DEF Csv!Cardinality, Cardinality

\* The rows of a file are numbered from one.
LEMMA RowsNumbered ==
    ASSUME ImportTypes, NEW i \in Imports
    PROVE  /\ Len(files[i].rows) \in Nat
           /\ Csv!Rows(i) = 1 .. Len(files[i].rows)
           /\ IsFiniteSet(Csv!Rows(i))
           /\ Cardinality(Csv!Rows(i)) = Len(files[i].rows)
  <1>1. files[i].rows \in Seq(Range(files[i].rows))
    BY DEF ImportTypes
  <1>2. Len(files[i].rows) \in Nat /\ Csv!Rows(i) = 1 .. Len(files[i].rows)
    BY <1>1, LenProperties DEF Csv!Rows
  <1>3. /\ IsFiniteSet(1 .. Len(files[i].rows))
        /\ Cardinality(1 .. Len(files[i].rows)) = Len(files[i].rows)
    BY <1>2, FS_Interval
  <1> QED BY <1>2, <1>3

\* The ledger is what was posted.
LEMMA LedgerKept ==
    ASSUME files' = files, posted' = posted
    PROVE  \A i, r : Csv!InLedger(i, r)' = Csv!InLedger(i, r)
  BY DEF Csv!InLedger, Csv!Rows, Csv!Row, Csv!SameEntry

\* The run that is done with a row, and those beside it.
RowCounted(w, i, r, b) ==
    /\ DOMAIN runs' = Runners
    /\ \A v \in Runners \ {w} : runs'[v] = runs[v]
    /\ runs'[w] \in Run(i)
    /\ runs'[w].import = i
    /\ runs'[w].copy = runs[w].copy
    /\ runs'[w].pc = runs[w].pc
    /\ runs'[w].row = None
    /\ runs'[w].todo = runs[w].todo \ {r}
    /\ runs'[w].imported = IF b THEN runs[w].imported + 1 ELSE runs[w].imported
    /\ runs'[w].rejected = IF b THEN runs[w].rejected ELSE runs[w].rejected \cup {r}

\* A run that is done with a row, counted or rejected, has the others still to do.
LEMMA CountParts ==
    ASSUME DOMAIN runs = Runners, NEW w \in Runners, NEW i,
           runs[w] \in Run(i), runs[w].row \in OpenedRow(i), NEW b \in BOOLEAN, Csv!Count(w, b)
    PROVE  RowCounted(w, i, runs[w].row.number, b)
  <1> DEFINE number == runs[w].row.number
             counted == [runs[w] EXCEPT
                           !.todo = @ \ {number}, !.row = None,
                           !.imported = IF b THEN @ + 1 ELSE @,
                           !.rejected = IF b THEN @ ELSE @ \cup {number}]
  <1>1. runs' = [runs EXCEPT ![w] = counted]
    BY DEF Csv!Count
  <1>2. number \in Csv!Rows(i)
    BY DEF OpenedRow
  <1> HIDE DEF number
  <1>3. /\ counted.import = i /\ counted \in Run(i)
        /\ counted.copy = runs[w].copy
        /\ counted.pc = runs[w].pc
        /\ counted.row = None
        /\ counted.todo = runs[w].todo \ {number}
        /\ counted.imported = IF b THEN runs[w].imported + 1 ELSE runs[w].imported
        /\ counted.rejected = IF b THEN runs[w].rejected ELSE runs[w].rejected \cup {number}
    <2> DEFINE imported == IF b THEN runs[w].imported + 1 ELSE runs[w].imported
               rejected == IF b THEN runs[w].rejected ELSE runs[w].rejected \cup {number}
               todo     == runs[w].todo \ {number}
    <2>1. /\ runs[w].import = i /\ runs[w].copy \in Record(i)
          /\ runs[w].pc \in {"opened", "rows"}
          /\ imported \in Nat /\ rejected \subseteq Csv!Rows(i) /\ todo \subseteq Csv!Rows(i)
      BY <1>2 DEF Run
    <2>2. counted = [runs[w] EXCEPT !.todo = todo, !.row = None, !.imported = imported,
                                    !.rejected = rejected]
      OBVIOUS
    <2> HIDE DEF counted, imported, rejected, todo
    <2>3. /\ counted \in Run(i) /\ counted.import = i /\ counted.copy = runs[w].copy
          /\ counted.pc = runs[w].pc /\ counted.row = None
          /\ counted.todo = todo /\ counted.imported = imported /\ counted.rejected = rejected
      BY <2>1, <2>2 DEF Run
    <2> QED BY <2>3 DEF imported, rejected, todo
  <1> HIDE DEF counted
  <1>4. DOMAIN runs' = Runners /\ runs'[w] = counted /\ \A v \in Runners \ {w} : runs'[v] = runs[v]
    BY <1>1
  <1> QED BY <1>3, <1>4 DEF number, RowCounted

\* A run at work is typed by its own import.
LEMMA RunTyped ==
    ASSUME ImportTypes, NEW w \in Runners, runs[w] # None
    PROVE  runs[w].import \in Imports /\ runs[w] \in Run(runs[w].import)
  <1>1. PICK i \in Imports : runs[w] \in Run(i)
    BY DEF ImportTypes
  <1>2. runs[w].import = i
    BY <1>1 DEF Run
  <1> QED BY <1>1, <1>2

\* So is a confirmation.
LEMMA ConfirmationTyped ==
    ASSUME ImportTypes, NEW u \in Users, confirming[u] # None
    PROVE  confirming[u].import \in Imports
           /\ confirming[u] \in Confirmation(confirming[u].import)
  <1>1. PICK i \in Imports : confirming[u] \in Confirmation(i)
    BY DEF ImportTypes
  <1>2. confirming[u].import = i
    BY <1>1 DEF Confirmation
  <1> QED BY <1>1, <1>2

\* Marks on the imports that others may disturb are read by no other property.
LEMMA MarksDisturbed ==
    ASSUME ImportTypes, NEW others, seen' = Csv!Disturbed(others)
    PROVE  /\ DOMAIN seen' = Imports
           /\ \A i \in Imports :
                 /\ seen'[i] \in Past(i)'
                 /\ seen'[i].erred = seen[i].erred
                 /\ seen'[i].overtaken = seen[i].overtaken
                 /\ seen'[i].overlapped = seen[i].overlapped
                 /\ seen'[i].begun = seen[i].begun
  <1>1. DOMAIN seen' = Imports
    BY DEF Csv!Disturbed
  <1>2. ASSUME NEW i \in Imports
        PROVE  /\ seen'[i] \in Past(i)'
               /\ seen'[i].erred = seen[i].erred
               /\ seen'[i].overtaken = seen[i].overtaken
               /\ seen'[i].overlapped = seen[i].overlapped
               /\ seen'[i].begun = seen[i].begun
    <2>1. seen[i] \in Past(i)
      BY DEF ImportTypes
    <2>2. seen'[i] = IF i \in others THEN [seen[i] EXCEPT !.disturbed = TRUE] ELSE seen[i]
      BY DEF Csv!Disturbed
    <2> QED BY <2>1, <2>2 DEF Past
  <1> QED BY <1>1, <1>2

\* Confirmations and records that stay, and runs that stay or end, follow as before.
LEMMA StatusKept ==
    ASSUME StatusFollows, records' = records, messages' = messages, confirming' = confirming,
           \A i \in Imports : seen'[i].overtaken = seen[i].overtaken,
           \A w \in Runners : runs'[w] # None => runs[w] # None /\ runs'[w].copy = runs[w].copy
    PROVE  StatusFollows'
  <1>1. \A i \in Imports : (messages'[i] # "none" => Beyond(i)') /\ Csv!DoneMeansCompleted(i)'
    BY DEF StatusFollows, Beyond, Csv!DoneMeansCompleted
  <1>2. \A u \in Users : confirming'[u] # None =>
          LET copy == confirming'[u].copy IN
             /\ copy.status \in {"previewed", "confirmed", "running"}
             /\ copy.status # "previewed" => Beyond(confirming[u].import)'
             /\ Head(confirming'[u].steps) # "confirm" => copy.status # "previewed"
    BY DEF StatusFollows, Beyond
  <1>3. \A w \in Runners :
           runs'[w] # None => runs'[w].copy.status \in {"confirmed", "running"}
    BY DEF StatusFollows
  <1> QED BY <1>1, <1>2, <1>3 DEF StatusFollows

\* While the ledger rests and no row is opened, what was new is new, and what was
\* posted once is posted once.
LEMMA LedgerRests ==
    ASSUME ImportInv, files' = files, posted' = posted,
           InRow' \subseteq InRow, \A w \in InRow' : runs'[w] = runs[w],
           \A i \in Imports : seen'[i].overlapped = seen[i].overlapped
    PROVE  StillNew' /\ Csv!NoDoubleEntry'
  <1>1. StillNew /\ Csv!NoDoubleEntry
    BY DEF ImportInv
  <1>2. StillNew'
    <2> SUFFICES ASSUME NEW w \in InRow'
                 PROVE  LET i == runs[w].import IN
                        /\ \A v \in InRow' : v # w => seen'[i].overlapped
                        /\ runs[w].row.found = "post" /\ ~seen'[i].overlapped =>
                              ~Csv!InLedger(i, runs[w].row.number)
      BY LedgerKept DEF StillNew
    <2>1. w \in Runners /\ runs[w] # None /\ w \in InRow
      BY DEF InRow
    <2>2. runs[w].import \in Imports
      BY <2>1, RunTyped DEF ImportInv
    <2> QED BY <1>1, <2>1, <2>2 DEF StillNew
  <1>3. Csv!NoDoubleEntry'
    BY <1>1, FilesKept DEF Csv!NoDoubleEntry, Csv!SameEntry
  <1> QED BY <1>2, <1>3

\* The audit of an import reads its record, its outcomes and whether a row failed.
LEMMA AuditRests ==
    ASSUME files' = files, NEW j, outcomes'[j] = outcomes[j], records'[j] = records[j],
           seen'[j].erred = seen[j].erred
    PROVE  Csv!AuditAgrees(j) => Csv!AuditAgrees(j)'
  <1>1. /\ {r \in Csv!Rows(j)' : outcomes'[j][r] = "imported"}
           = {r \in Csv!Rows(j) : outcomes[j][r] = "imported"}
        /\ {r \in Csv!Rows(j)' : Csv!Chosen(j, r)' /\ outcomes'[j][r] # "imported"}
           = {r \in Csv!Rows(j) : Csv!Chosen(j, r) /\ outcomes[j][r] # "imported"}
    BY FilesKept
  <1> QED BY <1>1, CountsAlike DEF Csv!AuditAgrees

\* What is said of one import holds on while its record, outcomes and postings rest and
\* its runs, if they go on, have the same rows to do and counted.
LEMMA ImportRests ==
    ASSUME ImportInv, NEW j \in Imports, files' = files, records'[j] = records[j],
           outcomes'[j] = outcomes[j], posted'[j] = posted[j],
           seen'[j].erred = seen[j].erred, seen'[j].begun = seen[j].begun,
           RunsOf(j)' \subseteq RunsOf(j),
           \A w \in RunsOf(j)' : /\ runs'[w].pc = runs[w].pc
                                 /\ runs'[w].todo = runs[w].todo
                                 /\ runs'[w].imported = runs[w].imported
                                 /\ runs'[w].rejected = runs[w].rejected
    PROVE  PostedOf(j)' /\ CountsOf(j)'
  <1>1. PostedOf(j) /\ CountsOf(j)
    BY DEF ImportInv, PostedAsSaid, CountsAgree
  <1>2. PostedOf(j)'
    BY <1>1, FilesKept DEF PostedOf
  <1>3. CountsOf(j)'
    <2> SUFFICES ASSUME files[j].type = "transactions", ~seen[j].erred
                 PROVE  CountsOf(j)'
      BY DEF CountsOf
    <2>1. /\ ImportedRows(j)' = ImportedRows(j)
          /\ \A todo : RejectedRows(j, todo)' = RejectedRows(j, todo)
          /\ Csv!ToImport(j)' = Csv!ToImport(j)
      BY FilesKept DEF ImportedRows, RejectedRows
    <2>2. /\ Csv!AuditAgrees(j)'
          /\ records'[j].status = "completed" =>
                \A r \in Csv!ToImport(j)' : outcomes'[j][r] # "none"
      BY <1>1, <2>1, AuditRests DEF CountsOf
    <2>3. ASSUME NEW w \in RunsOf(j)', runs'[w].pc = "rows"
          PROVE  /\ \A r \in Csv!ToImport(j) \ runs[w].todo : outcomes[j][r] # "none"
                 /\ runs[w].imported = Cardinality(ImportedRows(j) \ runs[w].todo)
                 /\ runs[w].rejected = RejectedRows(j, runs[w].todo)
      <3>1. w \in RunsOf(j) /\ runs[w].pc = "rows"
        BY <2>3
      <3> QED BY <3>1, <1>1 DEF CountsOf
    <2> QED BY <2>1, <2>2, <2>3 DEF CountsOf
  <1> QED BY <1>2, <1>3

\* While rows, outcomes and the ledger rest, runs may end; a record may change unless it
\* becomes a completed one.
LEMMA RowsRest ==
    ASSUME ImportInv, files' = files, outcomes' = outcomes, posted' = posted,
           \A w \in Runners : runs'[w] \in {runs[w], None},
           \A i \in Imports : /\ seen'[i].erred = seen[i].erred
                              /\ seen'[i].overlapped = seen[i].overlapped
                              /\ seen'[i].begun = seen[i].begun
    PROVE  /\ RowsHeld' /\ PostedAsSaid' /\ StillNew' /\ Csv!NoDoubleEntry'
           /\ \A i \in Imports :
                 (records'[i].status = "completed" => records'[i] = records[i])
                 => CountsOf(i)'
  <1>1. RowsHeld /\ PostedAsSaid /\ StillNew /\ Csv!NoDoubleEntry /\ CountsAgree
    BY DEF ImportInv
  <1>2. \A i : /\ RunsOf(i)' \subseteq RunsOf(i)
               /\ \A w \in RunsOf(i)' : runs'[w] = runs[w]
    BY DEF RunsOf
  <1>3. InRow' \subseteq InRow /\ \A w \in InRow' : runs'[w] = runs[w]
    BY DEF InRow
  <1>4. RowsHeld'
    <2> SUFFICES ASSUME NEW w \in Runners, runs'[w] # None, runs'[w] = runs[w]
                 PROVE  HeldBy(w)'
      BY DEF RowsHeld
    <2>1. HeldBy(w)
      BY <1>1 DEF RowsHeld
    <2> QED BY <2>1, FilesKept DEF HeldBy
  <1>5. PostedAsSaid'
    <2> SUFFICES ASSUME NEW i \in Imports
                 PROVE  PostedOf(i)'
      BY DEF PostedAsSaid
    <2>1. PostedOf(i)
      BY <1>1 DEF PostedAsSaid
    <2> QED BY <2>1, <1>2, FilesKept DEF PostedOf
  <1>6. StillNew' /\ Csv!NoDoubleEntry'
    BY <1>3, LedgerRests
  <1>7. ASSUME NEW i \in Imports, records'[i].status = "completed" => records'[i] = records[i]
        PROVE  CountsOf(i)'
    <2>1. CountsOf(i)
      BY <1>1 DEF CountsAgree
    <2>2. /\ ImportedRows(i)' = ImportedRows(i)
          /\ \A todo : RejectedRows(i, todo)' = RejectedRows(i, todo)
      BY FilesKept DEF ImportedRows, RejectedRows
    <2>3. Csv!AuditAgrees(i) => Csv!AuditAgrees(i)'
      BY <1>7, FilesKept, Zenon DEF Csv!AuditAgrees
    <2> SUFFICES ASSUME files[i].type = "transactions", ~seen[i].erred
                 PROVE  CountsOf(i)'
      BY DEF CountsOf
    <2>4. records'[i].status = "completed" =>
             \A r \in Csv!ToImport(i) : outcomes[i][r] # "none"
      BY <1>7, <2>1 DEF CountsOf
    <2>5. ASSUME NEW w \in RunsOf(i)', runs'[w].pc = "rows"
          PROVE  /\ \A r \in Csv!ToImport(i) \ runs[w].todo : outcomes[i][r] # "none"
                 /\ runs[w].imported = Cardinality(ImportedRows(i) \ runs[w].todo)
                 /\ runs[w].rejected = RejectedRows(i, runs[w].todo)
      BY <1>2, <2>1, <2>5 DEF CountsOf
    <2>6. Csv!AuditAgrees(i)'
      BY <2>1, <2>3 DEF CountsOf
    <2>7. \A w \in RunsOf(i)' : runs'[w] = runs[w]
      BY <1>2
    <2> QED BY <2>2, <2>4, <2>5, <2>6, <2>7, FilesKept DEF CountsOf
  <1> QED BY <1>4, <1>5, <1>6, <1>7

\* The types, told of the state after a step but of the files before it.
LEMMA TypesAgain ==
    ASSUME ImportTypes, files' = files,
           DOMAIN records' = Imports, DOMAIN messages' = Imports, DOMAIN seen' = Imports,
           DOMAIN confirming' = Users, DOMAIN runs' = Runners,
           \A j \in Imports : /\ records'[j] \in Record(j)
                              /\ messages'[j] \in {"none", "pending", "done"}
                              /\ seen'[j] \in Past(j)',
           \A u \in Users : confirming'[u] # None =>
              \E j \in Imports : confirming'[u] \in Confirmation(j),
           \A w \in Runners : runs'[w] # None => \E j \in Imports : runs'[w] \in Run(j),
           DOMAIN outcomes' = Imports, DOMAIN posted' = Imports,
           \A j \in Imports :
              /\ DOMAIN outcomes'[j] = Csv!Rows(j)
              /\ DOMAIN posted'[j] = Csv!Rows(j)
              /\ \A r \in Csv!Rows(j) : /\ outcomes'[j][r] \in {"none", "imported", "rejected"}
                                        /\ posted'[j][r] \in Nat
    PROVE  ImportTypes'
  <1>1. \A j : /\ Record(j)' = Record(j) /\ Confirmation(j)' = Confirmation(j)
               /\ Run(j)' = Run(j) /\ Csv!Rows(j)' = Csv!Rows(j)
    BY FilesKept
  <1>2. ASSUME NEW j \in Imports
        PROVE  /\ files'[j].rows \in Seq(Range(files'[j].rows))
               /\ records'[j] \in Record(j)'
               /\ messages'[j] \in {"none", "pending", "done"}
               /\ seen'[j] \in Past(j)'
               /\ DOMAIN outcomes'[j] = Csv!Rows(j)'
               /\ DOMAIN posted'[j] = Csv!Rows(j)'
               /\ \A r \in Csv!Rows(j)' : /\ outcomes'[j][r] \in {"none", "imported", "rejected"}
                                          /\ posted'[j][r] \in Nat
    BY <1>1 DEF ImportTypes
  <1>3. \A u \in Users : confirming'[u] # None =>
           \E j \in Imports : confirming'[u] \in Confirmation(j)'
    BY <1>1
  <1>4. \A w \in Runners : runs'[w] # None => \E j \in Imports : runs'[w] \in Run(j)'
    BY <1>1
  <1> QED BY <1>2, <1>3, <1>4 DEF ImportTypes

\* The mark of an import whose completed record was saved over.
LEMMA MarkOvertaken ==
    ASSUME ImportTypes, NEW i \in Imports, NEW told \in BOOLEAN,
           seen' = [seen EXCEPT ![i].overtaken = told]
    PROVE  /\ DOMAIN seen' = Imports
           /\ seen'[i].overtaken = told
           /\ \A j \in Imports : /\ seen'[j] \in Past(j)'
                                 /\ seen'[j].erred = seen[j].erred
                                 /\ seen'[j].overlapped = seen[j].overlapped
                                 /\ seen'[j].begun = seen[j].begun
                                 /\ j # i => seen'[j].overtaken = seen[j].overtaken
  <1>1. \A j \in Imports : seen[j] \in Past(j)
    BY DEF ImportTypes
  <1>2. /\ DOMAIN seen' = Imports /\ seen'[i] = [seen[i] EXCEPT !.overtaken = told]
        /\ \A j \in Imports \ {i} : seen'[j] = seen[j]
    BY DEF ImportTypes
  <1>3. /\ seen'[i] \in Past(i)' /\ seen'[i].overtaken = told
        /\ seen'[i].erred = seen[i].erred /\ seen'[i].overlapped = seen[i].overlapped
        /\ seen'[i].begun = seen[i].begun
    BY <1>1, <1>2 DEF Past
  <1>4. \A j \in Imports \ {i} : seen'[j] \in Past(j)'
    BY <1>1, <1>2 DEF Past
  <1> QED BY <1>2, <1>3, <1>4

\* The mark of an import whose row failed.
LEMMA MarkErred ==
    ASSUME ImportTypes, NEW i \in Imports, seen' = [seen EXCEPT ![i].erred = TRUE]
    PROVE  /\ DOMAIN seen' = Imports
           /\ seen'[i].erred
           /\ \A j \in Imports : /\ seen'[j] \in Past(j)'
                                 /\ seen'[j].overtaken = seen[j].overtaken
                                 /\ seen'[j].overlapped = seen[j].overlapped
                                 /\ seen'[j].begun = seen[j].begun
                                 /\ j # i => seen'[j].erred = seen[j].erred
  <1>1. \A j \in Imports : seen[j] \in Past(j)
    BY DEF ImportTypes
  <1>2. /\ DOMAIN seen' = Imports /\ seen'[i] = [seen[i] EXCEPT !.erred = TRUE]
        /\ \A j \in Imports \ {i} : seen'[j] = seen[j]
    BY DEF ImportTypes
  <1>3. /\ seen'[i] \in Past(i)' /\ seen'[i].erred
        /\ seen'[i].overtaken = seen[i].overtaken /\ seen'[i].overlapped = seen[i].overlapped
        /\ seen'[i].begun = seen[i].begun
    BY <1>1, <1>2 DEF Past
  <1>4. \A j \in Imports \ {i} : seen'[j] \in Past(j)'
    BY <1>1, <1>2 DEF Past
  <1> QED BY <1>2, <1>3, <1>4

-----------------------------------------------------------------------------
(* CSV imports: every step preserves the invariant.                           *)

\* The imports start with no record, outcome, message, confirmation or run.
LEMMA ImportInit == Csv!Init => ImportInv
  <1> SUFFICES ASSUME Csv!Init PROVE ImportInv
    OBVIOUS
  <1>1. /\ \A i \in Imports : files[i].rows \in Seq(Range(files[i].rows))
        /\ records = [i \in Imports |-> Csv!NoRecord]
        /\ outcomes = [i \in Imports |-> [r \in Csv!Rows(i) |-> "none"]]
        /\ posted = [i \in Imports |-> [r \in Csv!Rows(i) |-> 0]]
        /\ messages = [i \in Imports |-> "none"]
        /\ confirming = [u \in Users |-> None]
        /\ runs = [w \in Runners |-> None]
        /\ seen = [i \in Imports |-> [foretold |-> {}, disturbed |-> FALSE, erred |-> FALSE,
                                      overtaken |-> FALSE, overlapped |-> FALSE, begun |-> 0]]
    BY ComponentsAssumption DEF Csv!Init
  <1>2. \A i \in Imports : Len(files[i].rows) \in Nat
    BY <1>1, LenProperties
  <1>3. \A i \in Imports : records[i] \in Record(i) /\ records[i].status = "none"
    BY <1>1, <1>2 DEF Record, Csv!NoRecord
  <1>4. ImportTypes
    BY <1>1, <1>3 DEF ImportTypes, Past
  <1>5. StatusFollows
    BY <1>1 DEF StatusFollows, Csv!DoneMeansCompleted
  <1>6. RowsHeld /\ StillNew
    BY <1>1 DEF RowsHeld, StillNew, InRow
  <1>7. PostedAsSaid
    BY <1>1 DEF PostedAsSaid, PostedOf, RunsOf
  <1>8. CountsAgree
    BY <1>1, <1>3 DEF CountsAgree, CountsOf, RunsOf, Csv!AuditAgrees
  <1>9. Csv!NoDoubleEntry
    BY <1>1 DEF Csv!NoDoubleEntry
  <1> QED BY <1>4, <1>5, <1>6, <1>7, <1>8, <1>9 DEF ImportInv

\* A preview makes the record of an import that has none; nobody has read or confirmed it.
LEMMA PreviewStep ==
    ASSUME ImportInv, NEW i \in Imports, Csv!PreviewCSVImport(i)
    PROVE  ImportInv'
  <1>1. ImportTypes /\ StatusFollows
    BY DEF ImportInv
  <1> DEFINE made == [Csv!NoRecord EXCEPT !.status = "previewed",
                                          !.rejected = Csv!RejectedAtPreview(i)]
  <1>2. /\ records[i].status = "none" /\ records' = [records EXCEPT ![i] = made]
        /\ files' = files /\ posted' = posted /\ outcomes' = outcomes
        /\ messages' = messages /\ confirming' = confirming /\ runs' = runs
    BY DEF Csv!PreviewCSVImport, Csv!catalog
  <1>3. made \in Record(i) /\ made.status = "previewed"
    <2>1. Csv!RejectedAtPreview(i) \subseteq Csv!Rows(i)
      BY DEF Csv!RejectedAtPreview
    <2>2. 0 \in 0 .. Len(files[i].rows)
      BY <1>1, RowsNumbered
    <2> QED BY <2>1, <2>2 DEF Record, Csv!NoRecord
  <1> HIDE DEF made
  <1>4. /\ DOMAIN records' = Imports /\ records'[i] = made
        /\ \A j \in Imports \ {i} : records'[j] = records[j]
    BY <1>1, <1>2 DEF ImportTypes
  <1>5. /\ DOMAIN seen' = Imports
        /\ \A j \in Imports : /\ seen'[j] \in Past(j)'
                              /\ seen'[j].erred = seen[j].erred
                              /\ seen'[j].overtaken = seen[j].overtaken
                              /\ seen'[j].overlapped = seen[j].overlapped
                              /\ seen'[j].begun = seen[j].begun
    <2> DEFINE foretold  == Csv!Preview(i).importable
               disturbed == Csv!Misjudged(i)
    <2>1. /\ seen' = [seen EXCEPT ![i].foretold = foretold, ![i].disturbed = disturbed]
          /\ disturbed \in BOOLEAN
      BY DEF Csv!PreviewCSVImport, Csv!Misjudged
    <2> HIDE DEF foretold, disturbed
    <2>2. seen[i] \in Past(i)
      BY <1>1 DEF ImportTypes
    <2>3. /\ DOMAIN seen' = Imports
          /\ seen'[i] = [seen[i] EXCEPT !.foretold = foretold, !.disturbed = disturbed]
          /\ \A j \in Imports \ {i} : seen'[j] = seen[j]
      BY <1>1, <2>1 DEF ImportTypes
    <2>4. /\ seen'[i] \in Past(i)' /\ seen'[i].erred = seen[i].erred
          /\ seen'[i].overtaken = seen[i].overtaken
          /\ seen'[i].overlapped = seen[i].overlapped
          /\ seen'[i].begun = seen[i].begun
      BY <2>1, <2>2, <2>3 DEF Past
    <2>5. \A j \in Imports \ {i} : seen'[j] \in Past(j)'
      BY <1>1, <2>3 DEF ImportTypes, Past
    <2> QED BY <2>3, <2>4, <2>5
  <1>6. ImportTypes'
    BY <1>1, <1>2, <1>3, <1>4, <1>5, FilesKept DEF ImportTypes
  <1>7. StatusFollows'
    <2>1. messages[i] = "none" /\ ~Beyond(i)
      BY <1>1, <1>2 DEF StatusFollows, Beyond
    <2>2. \A j \in Imports : Beyond(j)' <=> Beyond(j)
      BY <1>3, <1>4, <2>1 DEF Beyond
    <2>3. \A j \in Imports : Csv!DoneMeansCompleted(j)'
      BY <1>1, <1>2, <1>4, <1>5, <2>1 DEF StatusFollows, Csv!DoneMeansCompleted
    <2>4. \A u \in Users : confirming[u] # None => confirming[u].import \in Imports
      BY <1>1, ConfirmationTyped
    <2> QED BY <1>1, <1>2, <2>2, <2>3, <2>4 DEF StatusFollows, Beyond
  <1>8. \A j \in Imports : records'[j].status = "completed" => records'[j] = records[j]
    BY <1>3, <1>4
  <1> QED BY <1>2, <1>5, <1>6, <1>7, <1>8, RowsRest DEF ImportInv, CountsAgree

\* A confirmation reads a record that needs its command published.
LEMMA OpenConfirmStep ==
    ASSUME ImportInv, NEW u \in Users, NEW i \in Imports, Csv!OpenConfirm(u, i)
    PROVE  ImportInv'
  <1>1. ImportTypes /\ StatusFollows
    BY DEF ImportInv
  <1> DEFINE opened == [import |-> i, copy |-> records[i], steps |-> Csv!ConfirmSteps]
  <1>2. /\ confirming' = [confirming EXCEPT ![u] = opened]
        /\ records[i].status \in {"previewed", "confirmed", "running"}
        /\ files' = files /\ posted' = posted /\ outcomes' = outcomes /\ records' = records
        /\ messages' = messages /\ runs' = runs /\ seen' = seen
    BY DEF Csv!OpenConfirm, Csv!NeedsPublication, Csv!catalog
  <1>3. opened \in Confirmation(i) /\ opened.import = i /\ opened.copy = records[i]
        /\ opened.steps = <<"confirm", "publish", "reference">>
    BY <1>1 DEF ImportTypes, Confirmation, Csv!ConfirmSteps
  <1> HIDE DEF opened
  <1>4. /\ DOMAIN confirming' = Users /\ confirming'[u] = opened
        /\ \A v \in Users \ {u} : confirming'[v] = confirming[v]
    BY <1>1, <1>2 DEF ImportTypes
  <1>5. ImportTypes'
    <2>1. \A v \in Users : confirming'[v] # None =>
             \E j \in Imports : confirming'[v] \in Confirmation(j)
      BY <1>1, <1>3, <1>4 DEF ImportTypes
    <2>2. \A j \in Imports : Past(j)' = Past(j)
      BY <1>2 DEF Past
    <2> QED BY <1>1, <1>2, <1>4, <2>1, <2>2, FilesKept DEF ImportTypes
  <1>6. StatusFollows'
    <2>1. \A j \in Imports : (messages[j] # "none" => Beyond(j)') /\ Csv!DoneMeansCompleted(j)'
      BY <1>1, <1>2 DEF StatusFollows, Csv!DoneMeansCompleted, Beyond
    <2>2. ASSUME NEW v \in Users, confirming'[v] # None
          PROVE  LET copy == confirming'[v].copy IN
                    /\ copy.status \in {"previewed", "confirmed", "running"}
                    /\ copy.status # "previewed" => Beyond(confirming'[v].import)
                    /\ Head(confirming'[v].steps) # "confirm" => copy.status # "previewed"
      <3>1. CASE v = u
        <4>1. Head(<<"confirm", "publish", "reference">>) = "confirm"
          OBVIOUS
        <4> QED BY <3>1, <4>1, <1>2, <1>3, <1>4 DEF Beyond
      <3>2. CASE v # u
        BY <1>1, <1>4, <2>2, <3>2 DEF StatusFollows
      <3> QED BY <3>1, <3>2
    <2>3. \A j : Beyond(j)' = Beyond(j)
      BY <1>2 DEF Beyond
    <2> QED BY <1>1, <1>2, <2>1, <2>2, <2>3 DEF StatusFollows
  <1> QED BY <1>2, <1>5, <1>6, RowsRest DEF ImportInv, CountsAgree

\* A confirmation saves its copy, publishes, and saves it again with the reference: then
\* the import is confirmed, and if it was completed the mark says so.
LEMMA StepConfirmStep ==
    ASSUME ImportInv, NEW u \in Users, Csv!StepConfirm(u)
    PROVE  ImportInv'
  <1>1. ImportTypes /\ StatusFollows
    BY DEF ImportInv
  <1>2. confirming[u] # None
    BY DEF Csv!StepConfirm
  <1>3. PICK i \in Imports : i = confirming[u].import /\ confirming[u] \in Confirmation(i)
    BY <1>1, <1>2, ConfirmationTyped
  <1> DEFINE copy == confirming[u].copy
             next == Head(confirming[u].steps)
             rest == Tail(confirming[u].steps)
             after == IF next = "confirm" THEN Csv!Confirmed(copy) ELSE copy
             stepped == [confirming[u] EXCEPT !.steps = rest, !.copy = after]
             referenced == [copy EXCEPT !.job = TRUE]
  <1>3a. /\ confirming' = [confirming EXCEPT ![u] = IF rest = <<>> THEN None ELSE stepped]
        /\ \/ /\ next = "confirm"
              /\ records' = IF copy.status = "previewed"
                            THEN [records EXCEPT ![i] = Csv!Confirmed(copy)] ELSE records
              /\ seen' = [seen EXCEPT ![i].overtaken =
                             @ \/ (copy.status = "previewed" /\ records[i].status = "completed")]
              /\ messages' = messages
           \/ /\ next = "publish"
              /\ messages' = [messages EXCEPT ![i] = IF @ = "none" THEN "pending" ELSE @]
              /\ records' = records /\ seen' = seen
           \/ /\ next = "reference"
              /\ records' = [records EXCEPT ![i] = referenced]
              /\ seen' = [seen EXCEPT ![i].overtaken = @ \/ records[i].status = "completed"]
              /\ messages' = messages
        /\ files' = files /\ posted' = posted /\ outcomes' = outcomes /\ runs' = runs
    BY <1>3 DEF Csv!StepConfirm, Csv!catalog
  <1>4. /\ copy \in Record(i)
        /\ \/ next = "confirm" /\ rest = <<"publish", "reference">>
           \/ next = "publish" /\ rest = <<"reference">>
           \/ next = "reference" /\ rest = <<>>
    <2>1. copy \in Record(i)
      BY <1>3 DEF Confirmation
    <2>2. confirming[u].steps \in {<<"confirm", "publish", "reference">>,
                                   <<"publish", "reference">>, <<"reference">>}
      BY <1>3 DEF Confirmation
    <2>3. CASE confirming[u].steps = <<"confirm", "publish", "reference">>
      <3>1. next = "confirm" /\ rest = <<"publish", "reference">>
        BY <2>3
      <3> QED BY <2>1, <3>1
    <2>4. CASE confirming[u].steps = <<"publish", "reference">>
      <3>1. next = "publish" /\ rest = <<"reference">>
        BY <2>4
      <3> QED BY <2>1, <3>1
    <2>5. CASE confirming[u].steps = <<"reference">>
      <3>1. next = "reference" /\ rest = <<>>
        BY <2>5
      <3> QED BY <2>1, <3>1
    <2> QED BY <2>2, <2>3, <2>4, <2>5
  <1>5. /\ copy.status \in {"previewed", "confirmed", "running"}
        /\ copy.status # "previewed" => Beyond(i)
        /\ next # "confirm" => copy.status # "previewed"
    BY <1>1, <1>2, <1>3 DEF StatusFollows
  <1>6. /\ after \in Record(i) /\ after.status \in {"confirmed", "running"}
        /\ referenced \in Record(i) /\ referenced.status = copy.status
    BY <1>4, <1>5 DEF Record, Csv!Confirmed
  <1>7. rest # <<>> => stepped \in Confirmation(i) /\ stepped.import = i
                       /\ stepped.steps = rest /\ stepped.copy = after
    BY <1>3, <1>4, <1>6 DEF Confirmation
  <1> HIDE DEF stepped, referenced
  <1>8. /\ DOMAIN records' = Imports /\ records'[i] \in Record(i)
        /\ \A j \in Imports \ {i} : records'[j] = records[j]
        /\ \/ records'[i] = records[i]
           \/ records'[i].status \in {"confirmed", "running"}
        /\ records'[i].status \in {"confirmed", "running", "completed"}
    <2>1. CASE next = "confirm"
      BY <1>1, <1>3a, <1>3, <1>4, <1>5, <1>6, <2>1 DEF ImportTypes, Beyond
    <2>2. CASE next = "publish"
      BY <1>1, <1>3a, <1>3, <1>4, <1>5, <2>2 DEF ImportTypes, Beyond
    <2>3. CASE next = "reference"
      BY <1>1, <1>3a, <1>3, <1>4, <1>5, <1>6, <2>3 DEF ImportTypes
    <2> QED BY <1>4, <2>1, <2>2, <2>3
  <1>9. /\ DOMAIN seen' = Imports
        /\ \A j \in Imports : /\ seen'[j] \in Past(j)'
                              /\ seen'[j].erred = seen[j].erred
                              /\ seen'[j].overlapped = seen[j].overlapped
                              /\ seen'[j].begun = seen[j].begun
                              /\ j # i => seen'[j].overtaken = seen[j].overtaken
        /\ ~seen'[i].overtaken =>
              /\ ~seen[i].overtaken
              /\ records'[i] = records[i] \/ records[i].status # "completed"
    <2>1. CASE next = "publish"
      <3>1. seen' = seen /\ records' = records
        BY <1>3a, <2>1
      <3>2. \A j \in Imports : Past(j)' = Past(j)
        BY <3>1 DEF Past
      <3> QED BY <3>1, <3>2, <1>1 DEF ImportTypes
    <2>2. CASE next # "publish"
      <3>1. seen[i].overtaken \in BOOLEAN
        BY <1>1, <1>3 DEF ImportTypes, Past
      <3>2. PICK mark \in BOOLEAN :
               /\ seen' = [seen EXCEPT ![i].overtaken = mark]
               /\ ~mark => /\ ~seen[i].overtaken
                           /\ records'[i] = records[i] \/ records[i].status # "completed"
        <4>1. CASE next = "confirm"
          <5>1. seen' = [seen EXCEPT ![i].overtaken =
                           @ \/ (copy.status = "previewed" /\ records[i].status = "completed")]
            BY <1>3a, <4>1
          <5>2. copy.status # "previewed" => records' = records
            BY <1>3a, <4>1
          <5> QED BY <3>1, <5>1, <5>2
        <4>2. CASE next = "reference"
          <5>1. seen' = [seen EXCEPT ![i].overtaken = @ \/ records[i].status = "completed"]
            BY <1>3a, <4>2
          <5> QED BY <3>1, <5>1
        <4> QED BY <1>4, <2>2, <4>1, <4>2
      <3> QED BY <1>1, <1>3, <3>2, MarkOvertaken
    <2> QED BY <2>1, <2>2
  <1>10. /\ DOMAIN messages' = Imports
         /\ \A j \in Imports : /\ messages'[j] \in {"none", "pending", "done"}
                               /\ messages'[j] = "done" => messages[j] = "done"
                               /\ j # i => messages'[j] = messages[j]
    BY <1>1, <1>3a, <1>3 DEF ImportTypes
  <1>11. /\ DOMAIN confirming' = Users
         /\ confirming'[u] = IF rest = <<>> THEN None ELSE stepped
         /\ \A v \in Users \ {u} : confirming'[v] = confirming[v]
    BY <1>1, <1>3a DEF ImportTypes
  <1>12. ImportTypes'
    <2>1. \A v \in Users : confirming'[v] # None =>
             \E j \in Imports : confirming'[v] \in Confirmation(j)
      BY <1>1, <1>3, <1>7, <1>11 DEF ImportTypes
    <2>2. \A w \in Runners : runs'[w] # None => \E j \in Imports : runs'[w] \in Run(j)
      BY <1>1, <1>3a DEF ImportTypes
    <2>3. ASSUME NEW j \in Imports
          PROVE  /\ DOMAIN outcomes'[j] = Csv!Rows(j)
                 /\ DOMAIN posted'[j] = Csv!Rows(j)
                 /\ \A r \in Csv!Rows(j) :
                       /\ outcomes'[j][r] \in {"none", "imported", "rejected"}
                       /\ posted'[j][r] \in Nat
      BY <1>1, <1>3a DEF ImportTypes
    <2>4. DOMAIN outcomes' = Imports /\ DOMAIN posted' = Imports /\ DOMAIN runs' = Runners
      BY <1>1, <1>3a DEF ImportTypes
    <2>5. \A j \in Imports : records'[j] \in Record(j)
      BY <1>1, <1>8 DEF ImportTypes
    <2>6. files' = files
      BY <1>3a
    <2> QED BY <1>1, <1>8, <1>9, <1>10, <1>11, <2>1, <2>2, <2>3, <2>4, <2>5, <2>6, TypesAgain
  <1>13. StatusFollows'
    <2>1. \A j \in Imports : Beyond(j) => Beyond(j)'
      BY <1>8 DEF Beyond
    <2>2. Beyond(i)'
      BY <1>8 DEF Beyond
    <2>3. \A j \in Imports : messages'[j] # "none" => Beyond(j)'
      BY <1>1, <1>10, <2>1, <2>2 DEF StatusFollows
    <2>4. ASSUME NEW j \in Imports PROVE Csv!DoneMeansCompleted(j)'
      <3>1. Csv!DoneMeansCompleted(j)
        BY <1>1 DEF StatusFollows
      <3> QED BY <3>1, <1>8, <1>9, <1>10 DEF Csv!DoneMeansCompleted
    <2>5. ASSUME NEW v \in Users, confirming'[v] # None
          PROVE  LET held == confirming'[v].copy IN
                    /\ held.status \in {"previewed", "confirmed", "running"}
                    /\ held.status # "previewed" =>
                          records'[confirming'[v].import].status
                             \in {"confirmed", "running", "completed"}
                    /\ Head(confirming'[v].steps) # "confirm" => held.status # "previewed"
      <3>1. CASE v = u
        <4>1. rest # <<>> /\ confirming'[v] = stepped
          BY <1>11, <2>5, <3>1
        <4>2. confirming'[v].copy.status \in {"confirmed", "running"} /\ confirming'[v].import = i
          BY <1>6, <1>7, <4>1
        <4> QED BY <2>2, <4>2 DEF Beyond
      <3>2. CASE v # u
        <4>1. confirming'[v] = confirming[v] /\ confirming[v].import \in Imports
          BY <1>1, <1>11, <2>5, <3>2, ConfirmationTyped
        <4>2. Beyond(confirming[v].import) =>
                 records'[confirming[v].import].status \in {"confirmed", "running", "completed"}
          BY <2>1, <4>1 DEF Beyond
        <4> QED BY <1>1, <2>5, <4>1, <4>2 DEF StatusFollows
      <3> QED BY <3>1, <3>2
    <2>6. \A w \in Runners :
             runs'[w] # None => runs'[w].copy.status \in {"confirmed", "running"}
      BY <1>1, <1>3a DEF StatusFollows
    <2> QED BY <2>3, <2>4, <2>5, <2>6 DEF StatusFollows, Beyond
  <1>14. \A j \in Imports : records'[j].status = "completed" => records'[j] = records[j]
    BY <1>8
  <1>15. /\ \A w \in Runners : runs'[w] \in {runs[w], None}
         /\ \A j \in Imports : /\ seen'[j].erred = seen[j].erred
                               /\ seen'[j].overlapped = seen[j].overlapped
                               /\ seen'[j].begun = seen[j].begun
    BY <1>3a, <1>9
  <1> QED BY <1>3a, <1>12, <1>13, <1>14, <1>15, RowsRest DEF ImportInv, CountsAgree

\* What is dropped is read nowhere: a confirmation, a run, an account.
LEMMA DropSteps ==
    ASSUME ImportInv,
           \/ \E u \in Users : Csv!DropConfirm(u)
           \/ \E w \in Runners : Csv!DropRun(w)
           \/ \E name \in DOMAIN accounts : Csv!HideAccount(name)
    PROVE  ImportInv'
  <1>1. ImportTypes /\ StatusFollows
    BY DEF ImportInv
  <1>2. /\ files' = files /\ posted' = posted /\ outcomes' = outcomes
        /\ records' = records /\ messages' = messages
    BY DEF Csv!DropConfirm, Csv!DropRun, Csv!HideAccount, Csv!catalog
  <1>3. /\ DOMAIN confirming' = Users
        /\ \A u \in Users : confirming'[u] \in {confirming[u], None}
        /\ DOMAIN runs' = Runners
        /\ \A w \in Runners : runs'[w] \in {runs[w], None}
    BY <1>1 DEF ImportTypes, Csv!DropConfirm, Csv!DropRun, Csv!HideAccount
  <1>4. /\ DOMAIN seen' = Imports
        /\ \A i \in Imports : /\ seen'[i] \in Past(i)'
                              /\ seen'[i].erred = seen[i].erred
                              /\ seen'[i].overtaken = seen[i].overtaken
                              /\ seen'[i].overlapped = seen[i].overlapped
                              /\ seen'[i].begun = seen[i].begun
    <2>1. CASE seen' = seen
      <3>1. \A i \in Imports : Past(i)' = Past(i)
        BY <2>1 DEF Past
      <3> QED BY <1>1, <2>1, <3>1 DEF ImportTypes
    <2>2. CASE seen' = Csv!Disturbed(Imports)
      BY <1>1, <2>2, MarksDisturbed
    <2> QED BY <2>1, <2>2 DEF Csv!DropConfirm, Csv!DropRun, Csv!HideAccount
  <1>5. ImportTypes'
    <2>1. \A u \in Users : confirming'[u] # None =>
             \E i \in Imports : confirming'[u] \in Confirmation(i)
      BY <1>1, <1>3 DEF ImportTypes
    <2>2. \A w \in Runners : runs'[w] # None => \E i \in Imports : runs'[w] \in Run(i)
      BY <1>1, <1>3 DEF ImportTypes
    <2>3. \A i \in Imports : records'[i] \in Record(i)
                             /\ messages'[i] \in {"none", "pending", "done"}
      BY <1>1, <1>2 DEF ImportTypes
    <2>4. /\ DOMAIN records' = Imports /\ DOMAIN messages' = Imports
          /\ DOMAIN outcomes' = Imports /\ DOMAIN posted' = Imports
          /\ \A i \in Imports :
                /\ DOMAIN outcomes'[i] = Csv!Rows(i)
                /\ DOMAIN posted'[i] = Csv!Rows(i)
                /\ \A r \in Csv!Rows(i) :
                      /\ outcomes'[i][r] \in {"none", "imported", "rejected"}
                      /\ posted'[i][r] \in Nat
      BY <1>1, <1>2 DEF ImportTypes
    <2> QED BY <1>1, <1>2, <1>3, <1>4, <2>1, <2>2, <2>3, <2>4, TypesAgain
  <1>6. StatusFollows'
    <2>1. \A i \in Imports : (messages'[i] # "none" => Beyond(i)') /\ Csv!DoneMeansCompleted(i)'
      BY <1>1, <1>2, <1>4 DEF StatusFollows, Beyond, Csv!DoneMeansCompleted
    <2>2. \A u \in Users : confirming'[u] # None =>
            /\ confirming'[u].copy.status \in {"previewed", "confirmed", "running"}
            /\ confirming'[u].copy.status # "previewed" =>
                  records'[confirming'[u].import].status \in {"confirmed", "running", "completed"}
            /\ Head(confirming'[u].steps) # "confirm" =>
                  confirming'[u].copy.status # "previewed"
      BY <1>1, <1>2, <1>3 DEF StatusFollows, Beyond
    <2>3. \A w \in Runners :
             runs'[w] # None => runs'[w].copy.status \in {"confirmed", "running"}
      BY <1>1, <1>3 DEF StatusFollows
    <2> QED BY <2>1, <2>2, <2>3 DEF StatusFollows, Beyond
  <1> QED BY <1>2, <1>3, <1>4, <1>5, <1>6, RowsRest DEF ImportInv, CountsAgree

\* A run that is done with its rows completes the record with what it counted.
LEMMA FinishRunStep ==
    ASSUME ImportInv, NEW w \in Runners, Csv!FinishRun(w)
    PROVE  ImportInv'
  <1>1. ImportTypes /\ StatusFollows /\ RowsHeld /\ PostedAsSaid /\ CountsAgree
    BY DEF ImportInv
  <1>2. runs[w] # None /\ runs[w].pc = "rows" /\ runs[w].todo = {}
    BY DEF Csv!FinishRun
  <1>3. PICK i \in Imports : i = runs[w].import /\ runs[w] \in Run(i)
    BY <1>1, <1>2, RunTyped
  <1> DEFINE completed == [status |-> "completed", job |-> TRUE,
                           imported |-> runs[w].imported, rejected |-> runs[w].rejected]
  <1>4. /\ records' = [records EXCEPT ![i] = completed]
        /\ messages' = [messages EXCEPT ![i] = "done"] \/ messages' = messages
        /\ seen' = [seen EXCEPT ![i].overtaken = FALSE]
        /\ runs' = [runs EXCEPT ![w] = None]
        /\ files' = files /\ posted' = posted /\ outcomes' = outcomes
        /\ confirming' = confirming
    BY <1>3 DEF Csv!FinishRun, Csv!Done, Csv!catalog
  <1>5. completed \in Record(i)
    <2>1. runs[w].imported + Cardinality({}) <= Len(files[i].rows)
      BY <1>1, <1>2, <1>3 DEF RowsHeld, HeldBy
    <2>2. runs[w].imported \in 0 .. Len(files[i].rows)
      BY <1>1, <1>3, <2>1, FS_EmptySet, RowsNumbered DEF Run
    <2> QED BY <1>3, <2>2 DEF Record, Run
  <1>6. /\ completed.status = "completed" /\ completed.imported = runs[w].imported
        /\ completed.rejected = runs[w].rejected
    OBVIOUS
  <1> HIDE DEF completed
  <1>7. /\ DOMAIN records' = Imports /\ records'[i] = completed
        /\ \A j \in Imports \ {i} : records'[j] = records[j]
        /\ DOMAIN messages' = Imports /\ messages'[i] \in {messages[i], "done"}
        /\ \A j \in Imports \ {i} : messages'[j] = messages[j]
        /\ DOMAIN runs' = Runners
        /\ \A v \in Runners : runs'[v] \in {runs[v], None}
    BY <1>1, <1>4 DEF ImportTypes
  <1>8. /\ DOMAIN seen' = Imports
        /\ \A j \in Imports : /\ seen'[j] \in Past(j)'
                              /\ seen'[j].erred = seen[j].erred
                              /\ seen'[j].overlapped = seen[j].overlapped
                              /\ seen'[j].begun = seen[j].begun
                              /\ j # i => seen'[j].overtaken = seen[j].overtaken
    BY <1>1, <1>4, MarkOvertaken
  <1>9. ImportTypes'
    <2>1. \A u \in Users : confirming'[u] # None =>
             \E j \in Imports : confirming'[u] \in Confirmation(j)
      BY <1>1, <1>4 DEF ImportTypes
    <2>2. \A v \in Runners : runs'[v] # None => \E j \in Imports : runs'[v] \in Run(j)
      BY <1>1, <1>7 DEF ImportTypes
    <2>3. \A j \in Imports : records'[j] \in Record(j)
                             /\ messages'[j] \in {"none", "pending", "done"}
      BY <1>1, <1>5, <1>7 DEF ImportTypes
    <2>4. /\ DOMAIN confirming' = Users
          /\ DOMAIN outcomes' = Imports /\ DOMAIN posted' = Imports
          /\ \A j \in Imports :
                /\ DOMAIN outcomes'[j] = Csv!Rows(j)
                /\ DOMAIN posted'[j] = Csv!Rows(j)
                /\ \A r \in Csv!Rows(j) :
                      /\ outcomes'[j][r] \in {"none", "imported", "rejected"}
                      /\ posted'[j][r] \in Nat
      BY <1>1, <1>4 DEF ImportTypes
    <2>5. files' = files
      BY <1>4
    <2> QED BY <1>1, <1>7, <1>8, <2>1, <2>2, <2>3, <2>4, <2>5, TypesAgain
  <1>10. StatusFollows'
    <2>1. Beyond(i)' /\ \A j \in Imports : Beyond(j) => Beyond(j)'
      BY <1>6, <1>7 DEF Beyond
    <2>2. \A j \in Imports : (messages'[j] # "none" => Beyond(j)') /\ Csv!DoneMeansCompleted(j)'
      BY <1>1, <1>6, <1>7, <1>8, <2>1 DEF StatusFollows, Csv!DoneMeansCompleted
    <2>3. ASSUME NEW u \in Users, confirming'[u] # None
          PROVE  /\ confirming'[u].copy.status \in {"previewed", "confirmed", "running"}
                 /\ confirming'[u].copy.status # "previewed" =>
                       records'[confirming'[u].import].status
                          \in {"confirmed", "running", "completed"}
                 /\ Head(confirming'[u].steps) # "confirm" =>
                       confirming'[u].copy.status # "previewed"
      <3>1. confirming'[u] = confirming[u] /\ confirming[u].import \in Imports
        BY <1>1, <1>4, <2>3, ConfirmationTyped
      <3>2. Beyond(confirming[u].import) => records'[confirming[u].import].status
                                               \in {"confirmed", "running", "completed"}
        BY <2>1, <3>1 DEF Beyond
      <3> QED BY <1>1, <2>3, <3>1, <3>2 DEF StatusFollows
    <2>4. \A v \in Runners :
             runs'[v] # None => runs'[v].copy.status \in {"confirmed", "running"}
      BY <1>1, <1>7 DEF StatusFollows
    <2> QED BY <2>2, <2>3, <2>4 DEF StatusFollows, Beyond
  <1>11. CountsOf(i)'
    <2> SUFFICES ASSUME files[i].type = "transactions", ~seen[i].erred
                 PROVE  CountsOf(i)'
      BY <1>4, <1>8 DEF CountsOf
    <2>1. /\ CountsOf(i) /\ w \in RunsOf(i)
          /\ \A r \in Csv!Rows(i) : outcomes[i][r] # "none" => r \in Csv!ToImport(i)
      BY <1>1, <1>2, <1>3 DEF CountsAgree, RunsOf, PostedAsSaid, PostedOf
    <2>2. /\ \A r \in Csv!ToImport(i) : outcomes[i][r] # "none"
          /\ runs[w].imported = Cardinality(ImportedRows(i))
          /\ runs[w].rejected = RejectedRows(i, {})
      <3>1. ImportedRows(i) \ {} = ImportedRows(i) /\ Csv!ToImport(i) \ {} = Csv!ToImport(i)
        OBVIOUS
      <3> QED BY <1>2, <2>1, <3>1 DEF CountsOf
    <2>3. /\ ImportedRows(i)' = ImportedRows(i)
          /\ \A todo : RejectedRows(i, todo)' = RejectedRows(i, todo)
          /\ Csv!ToImport(i)' = Csv!ToImport(i)
      BY <1>4, FilesKept DEF ImportedRows, RejectedRows
    <2>4. RejectedRows(i, {})
             = {r \in Csv!Rows(i) : Csv!Chosen(i, r) /\ outcomes[i][r] # "imported"}
      <3>1. \A r \in Csv!Rows(i) : ~Csv!Row(i, r).parses => outcomes[i][r] # "imported"
        BY <2>1 DEF Csv!ToImport
      <3> QED BY <3>1 DEF RejectedRows
    <2>5. Csv!AuditAgrees(i)'
      <3>1. /\ records'[i].imported = Cardinality({r \in Csv!Rows(i) : outcomes[i][r] = "imported"})
            /\ records'[i].rejected =
                  {r \in Csv!Rows(i) : Csv!Chosen(i, r) /\ outcomes[i][r] # "imported"}
        BY <1>6, <1>7, <2>2, <2>4 DEF ImportedRows
      <3>2. /\ {r \in Csv!Rows(i)' : outcomes'[i][r] = "imported"}
               = {r \in Csv!Rows(i) : outcomes[i][r] = "imported"}
            /\ {r \in Csv!Rows(i)' : Csv!Chosen(i, r)' /\ outcomes'[i][r] # "imported"}
               = {r \in Csv!Rows(i) : Csv!Chosen(i, r) /\ outcomes[i][r] # "imported"}
        BY <1>4, FilesKept
      <3> QED BY <3>1, <3>2, CountsAlike DEF Csv!AuditAgrees
    <2>6. \A r \in Csv!ToImport(i)' : outcomes'[i][r] # "none"
      BY <1>4, <2>2, <2>3
    <2>7. \A v \in RunsOf(i)' : v \in RunsOf(i) /\ runs'[v] = runs[v]
      BY <1>7 DEF RunsOf
    <2>8. ASSUME NEW v \in RunsOf(i)', runs'[v].pc = "rows"
          PROVE  /\ \A r \in Csv!ToImport(i) \ runs[v].todo : outcomes[i][r] # "none"
                 /\ runs[v].imported = Cardinality(ImportedRows(i) \ runs[v].todo)
                 /\ runs[v].rejected = RejectedRows(i, runs[v].todo)
      BY <2>1, <2>7, <2>8 DEF CountsOf
    <2> QED BY <1>4, <2>3, <2>5, <2>6, <2>7, <2>8 DEF CountsOf
  <1>12. \A j \in Imports \ {i} : records'[j].status = "completed" => records'[j] = records[j]
    BY <1>7
  <1>13. \A j \in Imports : CountsOf(j)'
    BY <1>4, <1>7, <1>8, <1>11, <1>12, RowsRest
  <1> QED BY <1>4, <1>7, <1>8, <1>9, <1>10, <1>13, RowsRest DEF ImportInv, CountsAgree

\* A delivery reads the record of its import and starts afresh, or finds it completed.
LEMMA OpenRunStep ==
    ASSUME ImportInv, NEW w \in Runners, NEW i \in Imports, Csv!OpenRun(w, i)
    PROVE  ImportInv'
  <1>1. ImportTypes /\ StatusFollows /\ RowsHeld /\ PostedAsSaid /\ CountsAgree
    BY DEF ImportInv
  <1> DEFINE opened == [import |-> i, copy |-> records[i], pc |-> "opened", todo |-> {},
                        imported |-> 0, rejected |-> {}, row |-> None]
  <1>2. /\ runs[w] = None /\ messages[i] = "pending"
        /\ files' = files /\ posted' = posted /\ outcomes' = outcomes
        /\ records' = records /\ confirming' = confirming
        /\ \/ /\ records[i].status \in {"confirmed", "running"}
              /\ runs' = [runs EXCEPT ![w] = opened]
              /\ seen' = [seen EXCEPT ![i].begun = IF @ = 0 THEN 1 ELSE 2]
              /\ messages' = messages
           \/ /\ records[i].status \notin {"confirmed", "running"}
              /\ messages' = [messages EXCEPT ![i] = "done"]
              /\ runs' = runs /\ seen' = seen
    BY DEF Csv!OpenRun, Csv!Done, Csv!catalog
  <1>3. /\ \A j \in Imports : records'[j] \in Record(j)
        /\ DOMAIN records' = Imports /\ DOMAIN confirming' = Users
        /\ DOMAIN outcomes' = Imports /\ DOMAIN posted' = Imports
        /\ \A j \in Imports :
              /\ DOMAIN outcomes'[j] = Csv!Rows(j)
              /\ DOMAIN posted'[j] = Csv!Rows(j)
              /\ \A r \in Csv!Rows(j) : /\ outcomes'[j][r] \in {"none", "imported", "rejected"}
                                        /\ posted'[j][r] \in Nat
        /\ \A u \in Users : confirming'[u] # None =>
              \E j \in Imports : confirming'[u] \in Confirmation(j)
    BY <1>1, <1>2 DEF ImportTypes
  <1>4. CASE messages' = [messages EXCEPT ![i] = "done"] /\ runs' = runs /\ seen' = seen
             /\ records[i].status \notin {"confirmed", "running"}
    <2>1. records[i].status = "completed"
      BY <1>1, <1>2, <1>4 DEF StatusFollows, Beyond
    <2>2. /\ DOMAIN messages' = Imports /\ messages'[i] = "done"
          /\ \A j \in Imports \ {i} : messages'[j] = messages[j]
      BY <1>1, <1>4 DEF ImportTypes
    <2>3. ImportTypes'
      <3>1. \A j \in Imports : messages'[j] \in {"none", "pending", "done"}
        BY <1>1, <2>2 DEF ImportTypes
      <3>2. DOMAIN seen' = Imports /\ \A j \in Imports : seen'[j] \in Past(j)'
        BY <1>1, <1>4 DEF ImportTypes, Past
      <3>3. /\ DOMAIN runs' = Runners
            /\ \A v \in Runners : runs'[v] # None => \E j \in Imports : runs'[v] \in Run(j)
        BY <1>1, <1>4 DEF ImportTypes
      <3> QED BY <1>1, <1>2, <1>3, <2>2, <3>1, <3>2, <3>3, TypesAgain
    <2>4. StatusFollows'
      <3>1. \A j \in Imports : (messages'[j] # "none" => Beyond(j)') /\ Csv!DoneMeansCompleted(j)'
        BY <1>1, <1>2, <1>4, <2>1, <2>2 DEF StatusFollows, Beyond, Csv!DoneMeansCompleted
      <3> QED BY <1>1, <1>2, <1>4, <3>1 DEF StatusFollows, Beyond
    <2>5. /\ \A v \in Runners : runs'[v] \in {runs[v], None}
          /\ \A j \in Imports : /\ seen'[j].erred = seen[j].erred
                                /\ seen'[j].overlapped = seen[j].overlapped
                                /\ seen'[j].begun = seen[j].begun
      BY <1>4
    <2> QED BY <1>2, <2>3, <2>4, <2>5, RowsRest DEF ImportInv, CountsAgree
  <1>5. CASE /\ records[i].status \in {"confirmed", "running"}
             /\ runs' = [runs EXCEPT ![w] = opened]
             /\ seen' = [seen EXCEPT ![i].begun = IF @ = 0 THEN 1 ELSE 2]
             /\ messages' = messages
    <2>1. /\ opened \in Run(i) /\ opened.import = i /\ opened.copy = records[i]
          /\ opened.pc = "opened" /\ opened.todo = {} /\ opened.imported = 0
          /\ opened.row = None
      BY <1>1 DEF ImportTypes, Run
    <2> HIDE DEF opened
    <2>2. /\ DOMAIN runs' = Runners /\ runs'[w] = opened
          /\ \A v \in Runners \ {w} : runs'[v] = runs[v]
      BY <1>1, <1>5 DEF ImportTypes
    <2>3. /\ DOMAIN seen' = Imports
          /\ seen'[i].begun = IF seen[i].begun = 0 THEN 1 ELSE 2
          /\ \A j \in Imports : /\ seen'[j] \in Past(j)'
                                /\ seen'[j].erred = seen[j].erred
                                /\ seen'[j].overtaken = seen[j].overtaken
                                /\ seen'[j].overlapped = seen[j].overlapped
                                /\ j # i => seen'[j].begun = seen[j].begun
      <3> DEFINE begun == IF seen[i].begun = 0 THEN 1 ELSE 2
      <3>1. begun \in 0 .. 2 /\ seen' = [seen EXCEPT ![i].begun = begun]
        BY <1>5
      <3> HIDE DEF begun
      <3>2. \A j \in Imports : seen[j] \in Past(j)
        BY <1>1 DEF ImportTypes
      <3>3. /\ DOMAIN seen' = Imports /\ seen'[i] = [seen[i] EXCEPT !.begun = begun]
            /\ \A j \in Imports \ {i} : seen'[j] = seen[j]
        BY <1>1, <3>1 DEF ImportTypes
      <3>4. /\ seen'[i] \in Past(i)' /\ seen'[i].begun = begun
            /\ seen'[i].erred = seen[i].erred /\ seen'[i].overlapped = seen[i].overlapped
            /\ seen'[i].overtaken = seen[i].overtaken
        BY <3>1, <3>2, <3>3 DEF Past
      <3>5. \A j \in Imports \ {i} : seen'[j] \in Past(j)'
        BY <3>2, <3>3 DEF Past
      <3> QED BY <3>3, <3>4, <3>5 DEF begun
    <2>4. ImportTypes'
      <3>1. \A v \in Runners : runs'[v] # None => \E j \in Imports : runs'[v] \in Run(j)
        BY <1>1, <2>1, <2>2 DEF ImportTypes
      <3>2. DOMAIN messages' = Imports
            /\ \A j \in Imports : messages'[j] \in {"none", "pending", "done"}
        BY <1>1, <1>5 DEF ImportTypes
      <3> QED BY <1>1, <1>2, <1>3, <2>2, <2>3, <3>1, <3>2, TypesAgain
    <2>5. StatusFollows'
      <3>1. \A j \in Imports : (messages'[j] # "none" => Beyond(j)') /\ Csv!DoneMeansCompleted(j)'
        BY <1>1, <1>2, <1>5, <2>3 DEF StatusFollows, Beyond, Csv!DoneMeansCompleted
      <3>2. \A v \in Runners :
               runs'[v] # None => runs'[v].copy.status \in {"confirmed", "running"}
        BY <1>1, <1>5, <2>1, <2>2 DEF StatusFollows
      <3> QED BY <1>1, <1>2, <3>1, <3>2 DEF StatusFollows, Beyond
    <2>6. RowsHeld'
      <3> SUFFICES ASSUME NEW v \in Runners, runs'[v] # None
                   PROVE  HeldBy(v)'
        BY DEF RowsHeld
      <3>1. CASE v = w
        <4>1. 0 + Cardinality({}) <= Len(files[i].rows)
          BY <1>1, RowsNumbered, FS_EmptySet
        <4> QED BY <1>2, <2>1, <2>2, <3>1, <4>1, FilesKept DEF HeldBy
      <3>2. CASE v # w
        BY <1>1, <1>2, <2>2, <3>2, FilesKept DEF RowsHeld, HeldBy
      <3> QED BY <3>1, <3>2
    <2>7. RunsOf(i)' \subseteq RunsOf(i) \cup {w}
      BY <1>2, <2>1, <2>2 DEF RunsOf
    <2>8. \A j \in Imports \ {i} : RunsOf(j)' = RunsOf(j) /\ w \notin RunsOf(j)
      BY <1>2, <2>1, <2>2 DEF RunsOf
    <2>9. ASSUME NEW j \in Imports PROVE PostedOf(j)' /\ CountsOf(j)'
      <3>1. PostedOf(j) /\ CountsOf(j)
        BY <1>1 DEF PostedAsSaid, CountsAgree
      <3>2. /\ ImportedRows(j)' = ImportedRows(j) /\ Csv!ToImport(j)' = Csv!ToImport(j)
            /\ Csv!Rows(j)' = Csv!Rows(j)
            /\ \A todo : RejectedRows(j, todo)' = RejectedRows(j, todo)
        BY <1>2, FilesKept DEF ImportedRows, RejectedRows
      <3>2a. Csv!AuditAgrees(j) => Csv!AuditAgrees(j)'
        <4>1. files' = files /\ outcomes'[j] = outcomes[j] /\ records'[j] = records[j]
          BY <1>2
        <4> QED BY <2>3, <4>1, AuditRests
      <3>3. \A v \in RunsOf(j)' : v # w => v \in RunsOf(j) /\ runs'[v] = runs[v]
        BY <2>2, <2>7, <2>8 DEF RunsOf
      <3>4. CountsOf(j)'
        <4> SUFFICES ASSUME files[j].type = "transactions", ~seen[j].erred
                     PROVE  CountsOf(j)'
          BY <1>2, <2>3 DEF CountsOf
        <4>1. ASSUME NEW v \in RunsOf(j)', runs'[v].pc = "rows"
              PROVE  v \in RunsOf(j) /\ runs'[v] = runs[v]
          BY <2>1, <2>2, <3>3, <4>1
        <4>2. ASSUME NEW v \in RunsOf(j)', runs'[v].pc = "rows"
              PROVE  /\ \A r \in Csv!ToImport(j) \ runs[v].todo : outcomes[j][r] # "none"
                     /\ runs[v].imported = Cardinality(ImportedRows(j) \ runs[v].todo)
                     /\ runs[v].rejected = RejectedRows(j, runs[v].todo)
          BY <3>1, <4>1, <4>2 DEF CountsOf
        <4>3. /\ Csv!AuditAgrees(j)'
              /\ records'[j].status = "completed" =>
                    \A r \in Csv!ToImport(j)' : outcomes'[j][r] # "none"
          BY <1>2, <3>1, <3>2, <3>2a DEF CountsOf
        <4> QED BY <1>2, <3>2, <4>1, <4>2, <4>3 DEF CountsOf
      <3>5. PostedOf(j)'
        <4>1. CASE j = i
          <5>1. seen[i].begun \in 0 .. 2 /\ seen'[i].begun # 0
                /\ (seen'[i].begun = 1 <=> seen[i].begun = 0)
            BY <1>1, <2>3 DEF ImportTypes, Past
          <5>2. files[i].type = "accounts" /\ seen[i].begun = 0 =>
                   /\ \A v \in RunsOf(i)' : v = w
                   /\ \A r \in Csv!Rows(i) : posted[i][r] = 0
            BY <2>7, <3>1, <4>1 DEF PostedOf
          <5> QED BY <1>2, <3>1, <3>2, <4>1, <5>1, <5>2 DEF PostedOf
        <4>2. CASE j # i
          <5>1. seen'[j].begun = seen[j].begun /\ RunsOf(j)' = RunsOf(j)
                /\ \A v \in RunsOf(j) : runs'[v] = runs[v]
            BY <2>2, <2>3, <2>8, <3>3, <4>2
          <5> QED BY <1>2, <3>1, <3>2, <5>1 DEF PostedOf
        <4> QED BY <4>1, <4>2
      <3> QED BY <3>4, <3>5
    <2>10. StillNew' /\ Csv!NoDoubleEntry'
      <3>1. InRow' \subseteq InRow /\ \A v \in InRow' : runs'[v] = runs[v]
        BY <2>1, <2>2 DEF InRow
      <3> QED BY <1>2, <2>3, <3>1, LedgerRests
    <2> QED BY <2>4, <2>5, <2>6, <2>9, <2>10 DEF ImportInv, PostedAsSaid, CountsAgree
  <1> QED BY <1>2, <1>4, <1>5

\* A run saves its copy as running and takes on the rows that are to be imported.
LEMMA SaveRunningStep ==
    ASSUME ImportInv, NEW w \in Runners, Csv!SaveRunning(w)
    PROVE  ImportInv'
  <1>1. ImportTypes /\ StatusFollows /\ RowsHeld /\ PostedAsSaid /\ CountsAgree
    BY DEF ImportInv
  <1>2. runs[w] # None /\ runs[w].pc = "opened"
    BY DEF Csv!SaveRunning
  <1>3. PICK i \in Imports : i = runs[w].import /\ runs[w] \in Run(i)
    BY <1>1, <1>2, RunTyped
  <1> DEFINE saved    == [runs[w].copy EXCEPT !.status = "running"]
             legacy   == files[i].type = "accounts"
             todo     == IF legacy THEN Csv!Rows(i) \ runs[w].copy.rejected ELSE Csv!ToImport(i)
             rejected == IF legacy THEN runs[w].copy.rejected
                         ELSE {r \in Csv!Rows(i) : Csv!Chosen(i, r) /\ ~Csv!Row(i, r).parses}
             started  == [runs[w] EXCEPT !.pc = "rows", !.copy = saved, !.todo = todo,
                                         !.rejected = rejected]
             told     == seen[i].overtaken \/ records[i].status = "completed"
  <1>4. /\ records' = [records EXCEPT ![i] = saved]
        /\ runs' = [runs EXCEPT ![w] = started]
        /\ seen' = [seen EXCEPT ![i].overtaken = told]
        /\ files' = files /\ posted' = posted /\ outcomes' = outcomes
        /\ messages' = messages /\ confirming' = confirming
    BY <1>3 DEF Csv!SaveRunning, Csv!Saved, Csv!catalog
  <1>5. saved \in Record(i) /\ saved.status = "running"
    BY <1>3 DEF Run, Record
  <1>6. /\ todo \subseteq Csv!Rows(i) /\ rejected \subseteq Csv!Rows(i)
        /\ ~legacy => todo = Csv!ToImport(i)
        /\ ~legacy => rejected = {r \in Csv!Rows(i) : Csv!Chosen(i, r) /\ ~Csv!Row(i, r).parses}
    BY <1>3 DEF Run, Record, Csv!ToImport
  <1>7. told \in BOOLEAN /\ (~told => ~seen[i].overtaken /\ records[i].status # "completed")
    OBVIOUS
  <1> HIDE DEF saved, todo, rejected, told
  <1>8. /\ started \in Run(i) /\ started.import = i /\ started.copy = saved
        /\ started.pc = "rows" /\ started.todo = todo /\ started.imported = 0
        /\ started.rejected = rejected /\ started.row = None
    <2>1. runs[w].imported = 0 /\ runs[w].row = None
      BY <1>1, <1>2 DEF RowsHeld, HeldBy
    <2> QED BY <1>3, <1>5, <1>6, <2>1 DEF Run
  <1> HIDE DEF started, legacy
  <1>9. /\ DOMAIN records' = Imports /\ records'[i] = saved
        /\ \A j \in Imports \ {i} : records'[j] = records[j]
        /\ DOMAIN runs' = Runners /\ runs'[w] = started
        /\ \A v \in Runners \ {w} : runs'[v] = runs[v]
    BY <1>1, <1>4 DEF ImportTypes
  <1>10. /\ DOMAIN seen' = Imports
         /\ seen'[i].overtaken = told
         /\ \A j \in Imports : /\ seen'[j] \in Past(j)'
                               /\ seen'[j].erred = seen[j].erred
                               /\ seen'[j].overlapped = seen[j].overlapped
                               /\ seen'[j].begun = seen[j].begun
                               /\ j # i => seen'[j].overtaken = seen[j].overtaken
    BY <1>1, <1>4, <1>7, MarkOvertaken
  <1>11. ImportTypes'
    <2>1. \A u \in Users : confirming'[u] # None =>
             \E j \in Imports : confirming'[u] \in Confirmation(j)
      BY <1>1, <1>4 DEF ImportTypes
    <2>2. \A v \in Runners : runs'[v] # None => \E j \in Imports : runs'[v] \in Run(j)
      BY <1>1, <1>8, <1>9 DEF ImportTypes
    <2>3. /\ DOMAIN messages' = Imports /\ DOMAIN confirming' = Users
          /\ \A j \in Imports : records'[j] \in Record(j)
                                /\ messages'[j] \in {"none", "pending", "done"}
      BY <1>1, <1>4, <1>5, <1>9 DEF ImportTypes
    <2>4. /\ DOMAIN outcomes' = Imports /\ DOMAIN posted' = Imports
          /\ \A j \in Imports :
                /\ DOMAIN outcomes'[j] = Csv!Rows(j)
                /\ DOMAIN posted'[j] = Csv!Rows(j)
                /\ \A r \in Csv!Rows(j) :
                      /\ outcomes'[j][r] \in {"none", "imported", "rejected"}
                      /\ posted'[j][r] \in Nat
      BY <1>1, <1>4 DEF ImportTypes
    <2>5. files' = files
      BY <1>4
    <2> QED BY <1>1, <1>9, <1>10, <2>1, <2>2, <2>3, <2>4, <2>5, TypesAgain
  <1>12. StatusFollows'
    <2>1. Beyond(i)' /\ \A j \in Imports : Beyond(j) => Beyond(j)'
      BY <1>5, <1>9 DEF Beyond
    <2>2. \A j \in Imports : messages'[j] # "none" => Beyond(j)'
      BY <1>1, <1>4, <2>1 DEF StatusFollows
    <2>3. \A j \in Imports \ {i} : Csv!DoneMeansCompleted(j)'
      BY <1>1, <1>4, <1>9, <1>10 DEF StatusFollows, Csv!DoneMeansCompleted
    <2>4. Csv!DoneMeansCompleted(i)'
      BY <1>1, <1>4, <1>7, <1>10 DEF StatusFollows, Csv!DoneMeansCompleted
    <2>5. ASSUME NEW u \in Users, confirming'[u] # None
          PROVE  /\ confirming'[u].copy.status \in {"previewed", "confirmed", "running"}
                 /\ confirming'[u].copy.status # "previewed" =>
                       records'[confirming'[u].import].status
                          \in {"confirmed", "running", "completed"}
                 /\ Head(confirming'[u].steps) # "confirm" =>
                       confirming'[u].copy.status # "previewed"
      <3>1. confirming'[u] = confirming[u] /\ confirming[u].import \in Imports
        BY <1>1, <1>4, <2>5, ConfirmationTyped
      <3>2. Beyond(confirming[u].import) => records'[confirming[u].import].status
                                               \in {"confirmed", "running", "completed"}
        BY <2>1, <3>1 DEF Beyond
      <3> QED BY <1>1, <2>5, <3>1, <3>2 DEF StatusFollows
    <2>6. \A v \in Runners :
             runs'[v] # None => runs'[v].copy.status \in {"confirmed", "running"}
      BY <1>1, <1>5, <1>8, <1>9 DEF StatusFollows
    <2> QED BY <2>2, <2>3, <2>4, <2>5, <2>6 DEF StatusFollows, Beyond
  <1>13. RowsHeld'
    <2> SUFFICES ASSUME NEW v \in Runners, runs'[v] # None
                 PROVE  HeldBy(v)'
      BY DEF RowsHeld
    <2>1. CASE v = w
      <3>1. IsFiniteSet(Csv!Rows(i)) /\ Cardinality(Csv!Rows(i)) = Len(files[i].rows)
        BY <1>1, RowsNumbered
      <3>2. Cardinality(todo) \in Nat /\ Cardinality(todo) <= Len(files[i].rows)
        BY <1>6, <3>1, FS_Subset, FS_CardinalityType
      <3> QED BY <1>4, <1>6, <1>8, <1>9, <2>1, <3>2, FilesKept DEF HeldBy, legacy
    <2>2. CASE v # w
      <3>1. runs'[v] = runs[v] /\ HeldBy(v)
        BY <1>1, <1>9, <2>2 DEF RowsHeld
      <3> QED BY <1>4, <3>1, FilesKept DEF HeldBy
    <2> QED BY <2>1, <2>2
  <1>14. /\ \A j \in Imports : RunsOf(j)' \subseteq RunsOf(j)
         /\ \A j \in Imports \ {i} : \A v \in RunsOf(j)' : runs'[v] = runs[v]
         /\ w \in RunsOf(i) /\ \A v \in RunsOf(i)' : v # w => runs'[v] = runs[v]
    BY <1>2, <1>3, <1>8, <1>9 DEF RunsOf
  <1>15. ASSUME NEW j \in Imports, j # i PROVE PostedOf(j)' /\ CountsOf(j)'
    <2>1. /\ files' = files /\ records'[j] = records[j] /\ outcomes'[j] = outcomes[j]
          /\ posted'[j] = posted[j]
          /\ seen'[j].erred = seen[j].erred /\ seen'[j].begun = seen[j].begun
      BY <1>4, <1>9, <1>10, <1>15
    <2> QED BY <1>14, <1>15, <2>1, ImportRests
  <1>16. PostedOf(i)'
    <2>1. PostedOf(i)
      BY <1>1 DEF PostedAsSaid
    <2>2. \A v \in RunsOf(i)' : v \in RunsOf(i) /\ v \in Runners
      BY <1>14 DEF RunsOf
    <2>3. ASSUME files[i].type = "accounts", seen[i].begun = 1
          PROVE  \A v \in RunsOf(i)' : \A r \in Csv!Rows(i) : posted[i][r] = 0
      <3>1. \A v \in RunsOf(i)' : v = w
        BY <1>14, <2>1, <2>2, <2>3 DEF PostedOf
      <3>2. \A r \in Csv!Rows(i) : posted[i][r] = 0
        BY <1>2, <1>14, <2>1, <2>3 DEF PostedOf
      <3> QED BY <3>2
    <2>4. seen'[i].begun = seen[i].begun
      BY <1>10
    <2> QED BY <1>4, <2>1, <2>2, <2>3, <2>4, FilesKept DEF PostedOf
  <1>17. CountsOf(i)'
    <2> SUFFICES ASSUME files[i].type = "transactions", ~seen[i].erred
                 PROVE  CountsOf(i)'
      BY <1>4, <1>10 DEF CountsOf
    <2>1. /\ CountsOf(i)
          /\ \A r \in Csv!Rows(i) : outcomes[i][r] # "none" => r \in Csv!ToImport(i)
      BY <1>1 DEF CountsAgree, PostedAsSaid, PostedOf
    <2>2. /\ ImportedRows(i)' = ImportedRows(i)
          /\ \A rows : RejectedRows(i, rows)' = RejectedRows(i, rows)
          /\ Csv!ToImport(i)' = Csv!ToImport(i)
      BY <1>4, FilesKept DEF ImportedRows, RejectedRows
    <2>3. records'[i].status # "completed"
      BY <1>5, <1>9
    <2>4. Csv!AuditAgrees(i)'
      BY <2>3 DEF Csv!AuditAgrees
    <2>5. /\ \A r \in Csv!ToImport(i) \ todo : outcomes[i][r] # "none"
          /\ 0 = Cardinality(ImportedRows(i) \ todo)
          /\ rejected = RejectedRows(i, todo)
      <3>1. todo = Csv!ToImport(i)
            /\ rejected = {r \in Csv!Rows(i) : Csv!Chosen(i, r) /\ ~Csv!Row(i, r).parses}
        BY <1>6 DEF legacy
      <3>2. ImportedRows(i) \ todo = {}
        BY <2>1, <3>1 DEF ImportedRows
      <3>3. \A r \in Csv!Rows(i) :
               Csv!Chosen(i, r) => (Csv!Row(i, r).parses <=> r \in todo)
        BY <3>1 DEF Csv!ToImport
      <3> QED BY <3>1, <3>2, <3>3, FS_EmptySet DEF RejectedRows
    <2>6. ASSUME NEW v \in RunsOf(i)', v # w, runs'[v].pc = "rows"
          PROVE  /\ \A r \in Csv!ToImport(i) \ runs[v].todo : outcomes[i][r] # "none"
                 /\ runs[v].imported = Cardinality(ImportedRows(i) \ runs[v].todo)
                 /\ runs[v].rejected = RejectedRows(i, runs[v].todo)
                 /\ runs'[v] = runs[v]
      BY <1>14, <2>1, <2>6 DEF CountsOf
    <2>7. ASSUME NEW v \in RunsOf(i)', runs'[v].pc = "rows"
          PROVE  /\ \A r \in Csv!ToImport(i) \ runs'[v].todo : outcomes[i][r] # "none"
                 /\ runs'[v].imported = Cardinality(ImportedRows(i) \ runs'[v].todo)
                 /\ runs'[v].rejected = RejectedRows(i, runs'[v].todo)
      <3>1. CASE v = w
        BY <1>8, <1>9, <2>5, <3>1
      <3>2. CASE v # w
        BY <2>6, <2>7, <3>2
      <3> QED BY <3>1, <3>2
    <2> QED BY <1>4, <2>2, <2>3, <2>4, <2>7 DEF CountsOf
  <1>18. StillNew' /\ Csv!NoDoubleEntry'
    <2>1. InRow' \subseteq InRow /\ \A v \in InRow' : runs'[v] = runs[v]
      BY <1>8, <1>9 DEF InRow
    <2>2. /\ files' = files /\ posted' = posted
          /\ \A j \in Imports : seen'[j].overlapped = seen[j].overlapped
      BY <1>4, <1>10
    <2> QED BY <2>1, <2>2, LedgerRests
  <1>19. \A j \in Imports : PostedOf(j)' /\ CountsOf(j)'
    BY <1>15, <1>16, <1>17
  <1> QED BY <1>11, <1>12, <1>13, <1>18, <1>19 DEF ImportInv, PostedAsSaid, CountsAgree

\* A run looks up its next row; with another row open, neither lookup can be relied on.
LEMMA OpenRowStep ==
    ASSUME ImportInv, NEW w \in Runners, Csv!OpenRow(w)
    PROVE  ImportInv'
  <1>1. ImportTypes /\ StatusFollows /\ RowsHeld /\ PostedAsSaid /\ CountsAgree
    BY DEF ImportInv
  <1>2. runs[w] # None /\ runs[w].pc = "rows" /\ runs[w].row = None
    BY Zenon DEF Csv!OpenRow
  <1>3. PICK i \in Imports : i = runs[w].import /\ runs[w] \in Run(i)
    BY <1>1, <1>2, RunTyped
  <1> DEFINE others == {v \in Runners \ {w} : runs[v] # None /\ runs[v].row # None}
             beside(j) == others # {} /\ (j = i \/ \E v \in others : runs[v].import = j)
  <1>4. PICK r \in runs[w].todo :
           /\ runs' = [runs EXCEPT ![w].row =
                 [number |-> r, found |-> Csv!Lookup(i, r),
                  account |-> /\ Csv!Lookup(i, r) = "post"
                              /\ accounts[Csv!Row(i, r).account] = <<>>,
                  category |-> /\ Csv!Lookup(i, r) = "post"
                               /\ Csv!Row(i, r).category # None
                               /\ categories[Csv!Row(i, r).category] = <<>>]]
           /\ seen' = [j \in Imports |->
                 IF beside(j) THEN [seen[j] EXCEPT !.overlapped = TRUE, !.disturbed = TRUE]
                 ELSE seen[j]]
    BY <1>3, Zenon DEF Csv!OpenRow
  <1>5. /\ files' = files /\ posted' = posted /\ outcomes' = outcomes /\ records' = records
        /\ messages' = messages /\ confirming' = confirming
    BY Zenon DEF Csv!OpenRow, Csv!catalog
  <1>6. r \in Csv!Rows(i)
    BY <1>3 DEF Run
  <1> DEFINE found == Csv!Lookup(i, r)
             account == found = "post" /\ accounts[Csv!Row(i, r).account] = <<>>
             category == /\ found = "post" /\ Csv!Row(i, r).category # None
                         /\ categories[Csv!Row(i, r).category] = <<>>
             row == [number |-> r, found |-> found, account |-> account, category |-> category]
             opened == [runs[w] EXCEPT !.row = row]
  <1>7. /\ found \in {"create", "post", "reject", "imported", "rejected"}
        /\ found = "create" <=> files[i].type = "accounts"
        /\ found \in {"imported", "rejected"} => outcomes[i][r] = found
        /\ found = "post" => ~Csv!InLedger(i, r)
    <2>1. outcomes[i][r] \in {"none", "imported", "rejected"}
      BY <1>1, <1>6 DEF ImportTypes
    <2> QED BY <2>1 DEF Csv!Lookup
  <1>8. runs' = [runs EXCEPT ![w] = opened]
    BY <1>4
  <1>9. account \in BOOLEAN /\ category \in BOOLEAN
    OBVIOUS
  <1> HIDE DEF found, account, category
  <1>10. row \in OpenedRow(i) /\ row.number = r /\ row.found = found
    BY <1>6, <1>7, <1>9 DEF OpenedRow
  <1> HIDE DEF row
  <1>11. /\ opened \in Run(i) /\ opened.import = i /\ opened.copy = runs[w].copy
         /\ opened.pc = "rows" /\ opened.todo = runs[w].todo
         /\ opened.imported = runs[w].imported /\ opened.rejected = runs[w].rejected
         /\ opened.row = row
    BY <1>2, <1>3, <1>10 DEF Run
  <1> HIDE DEF opened
  <1>12. /\ DOMAIN runs' = Runners /\ runs'[w] = opened
         /\ \A v \in Runners \ {w} : runs'[v] = runs[v]
    BY <1>1, <1>8 DEF ImportTypes
  <1> HIDE DEF beside
  <1>13. /\ DOMAIN seen' = Imports
         /\ \A j \in Imports : /\ seen'[j] \in Past(j)'
                               /\ seen'[j].erred = seen[j].erred
                               /\ seen'[j].overtaken = seen[j].overtaken
                               /\ seen[j].overlapped => seen'[j].overlapped
                               /\ beside(j) => seen'[j].overlapped
                               /\ seen'[j].begun = seen[j].begun
    <2>1. \A j \in Imports : seen[j] \in Past(j)
      BY <1>1 DEF ImportTypes
    <2>2. DOMAIN seen' = Imports
      BY <1>4
    <2>3. ASSUME NEW j \in Imports
          PROVE  /\ seen'[j] \in Past(j)'
                 /\ seen'[j].erred = seen[j].erred
                 /\ seen'[j].overtaken = seen[j].overtaken
                 /\ seen[j].overlapped => seen'[j].overlapped
                 /\ beside(j) => seen'[j].overlapped
                 /\ seen'[j].begun = seen[j].begun
      <3>1. CASE beside(j)
        <4>1. seen'[j] = [seen[j] EXCEPT !.overlapped = TRUE, !.disturbed = TRUE]
          BY <1>4, <3>1
        <4> QED BY <2>1, <4>1 DEF Past
      <3>2. CASE ~beside(j)
        <4>1. seen'[j] = seen[j]
          BY <1>4, <3>2
        <4> QED BY <2>1, <3>2, <4>1 DEF Past
      <3> QED BY <3>1, <3>2
    <2> QED BY <2>2, <2>3
  <1>14. ImportTypes'
    <2>1. \A u \in Users : confirming'[u] # None =>
             \E j \in Imports : confirming'[u] \in Confirmation(j)
      BY <1>1, <1>5 DEF ImportTypes
    <2>2. \A v \in Runners : runs'[v] # None => \E j \in Imports : runs'[v] \in Run(j)
      BY <1>1, <1>11, <1>12 DEF ImportTypes
    <2>3. /\ DOMAIN records' = Imports /\ DOMAIN messages' = Imports
          /\ DOMAIN confirming' = Users
          /\ \A j \in Imports : records'[j] \in Record(j)
                                /\ messages'[j] \in {"none", "pending", "done"}
      BY <1>1, <1>5 DEF ImportTypes
    <2>4. /\ DOMAIN outcomes' = Imports /\ DOMAIN posted' = Imports
          /\ \A j \in Imports :
                /\ DOMAIN outcomes'[j] = Csv!Rows(j)
                /\ DOMAIN posted'[j] = Csv!Rows(j)
                /\ \A q \in Csv!Rows(j) :
                      /\ outcomes'[j][q] \in {"none", "imported", "rejected"}
                      /\ posted'[j][q] \in Nat
      BY <1>1, <1>5 DEF ImportTypes
    <2> QED BY <1>1, <1>5, <1>12, <1>13, <2>1, <2>2, <2>3, <2>4, TypesAgain
  <1>15. StatusFollows'
    <2>1. \A v \in Runners :
             runs'[v] # None => runs[v] # None /\ runs'[v].copy = runs[v].copy
      BY <1>2, <1>11, <1>12
    <2> QED BY <1>1, <1>5, <1>13, <2>1, StatusKept
  <1>16. RowsHeld'
    <2> SUFFICES ASSUME NEW v \in Runners, runs'[v] # None
                 PROVE  HeldBy(v)'
      BY DEF RowsHeld
    <2>1. CASE v = w
      <3>1. HeldBy(w)
        BY <1>1, <1>2 DEF RowsHeld
      <3> QED BY <1>2, <1>3, <1>5, <1>7, <1>10, <1>11, <1>12, <2>1, <3>1, FilesKept DEF HeldBy
    <2>2. CASE v # w
      <3>1. runs'[v] = runs[v] /\ HeldBy(v)
        BY <1>1, <1>12, <2>2 DEF RowsHeld
      <3> QED BY <1>5, <3>1, FilesKept DEF HeldBy
    <2> QED BY <2>1, <2>2
  <1>17. ASSUME NEW j \in Imports PROVE PostedOf(j)' /\ CountsOf(j)'
    <2>1. /\ RunsOf(j)' \subseteq RunsOf(j)
          /\ \A v \in RunsOf(j)' : /\ runs'[v].pc = runs[v].pc
                                   /\ runs'[v].todo = runs[v].todo
                                   /\ runs'[v].imported = runs[v].imported
                                   /\ runs'[v].rejected = runs[v].rejected
      BY <1>2, <1>3, <1>11, <1>12 DEF RunsOf
    <2>2. /\ files' = files /\ records'[j] = records[j] /\ outcomes'[j] = outcomes[j]
          /\ posted'[j] = posted[j]
          /\ seen'[j].erred = seen[j].erred /\ seen'[j].begun = seen[j].begun
      BY <1>5, <1>13
    <2> QED BY <2>1, <2>2, ImportRests
  <1>18. StillNew'
    <2>1. ASSUME NEW x \in InRow', x # w
          PROVE  runs'[x] = runs[x] /\ runs[x].import \in Imports /\ beside(runs[x].import)
      <3>1. runs'[x] = runs[x] /\ x \in others
        BY <1>12, <2>1 DEF InRow
      <3>2. runs[x].import \in Imports
        BY <1>1, <3>1, RunTyped
      <3> QED BY <3>1, <3>2 DEF beside
    <2>2. w \in InRow' => \A v \in InRow' : v # w => beside(i)
      BY <1>12 DEF InRow, beside
    <2>3. \A v, q : Csv!InLedger(v, q)' = Csv!InLedger(v, q)
      BY <1>5, LedgerKept
    <2>4. runs'[w].import = i /\ runs'[w].row.found = found /\ runs'[w].row.number = r
      BY <1>10, <1>11, <1>12
    <2>5. \A x \in InRow' : x # w => seen'[runs'[x].import].overlapped
      BY <1>13, <2>1
    <2>6. \A v \in InRow' : v # w => (w \in InRow' => seen'[i].overlapped)
      BY <1>13, <2>2
    <2> QED BY <1>7, <2>3, <2>4, <2>5, <2>6 DEF StillNew
  <1>19. Csv!NoDoubleEntry'
    <2>1. Csv!NoDoubleEntry
      BY DEF ImportInv
    <2>2. /\ files' = files /\ posted' = posted
          /\ \A j \in Imports : seen[j].overlapped => seen'[j].overlapped
      BY <1>5, <1>13
    <2> QED BY <2>1, <2>2, FilesKept DEF Csv!NoDoubleEntry, Csv!SameEntry
  <1> QED BY <1>14, <1>15, <1>16, <1>17, <1>18, <1>19 DEF ImportInv, PostedAsSaid, CountsAgree

\* A step that is done with row r of import i leaves the other stored rows alone, ...
RowAlone(i, r) ==
    /\ DOMAIN outcomes' = Imports /\ DOMAIN posted' = Imports
    /\ \A j \in Imports \ {i} : outcomes'[j] = outcomes[j] /\ posted'[j] = posted[j]
    /\ DOMAIN outcomes'[i] = Csv!Rows(i) /\ DOMAIN posted'[i] = Csv!Rows(i)
    /\ \A q \in Csv!Rows(i) \ {r} :
          outcomes'[i][q] = outcomes[i][q] /\ posted'[i][q] = posted[i][q]

\* ... while the row itself was looked up as found ...
RowWritten(i, r, found) ==
    \/ outcomes'[i][r] = outcomes[i][r] /\ posted'[i][r] = posted[i][r]
    \/ /\ found = "create"
       /\ outcomes'[i][r] = outcomes[i][r] /\ posted'[i][r] = posted[i][r] + 1
    \/ /\ found = "post" /\ outcomes[i][r] = "none"
       /\ outcomes'[i][r] = "imported" /\ posted'[i][r] = posted[i][r] + 1
    \/ /\ found = "reject" /\ outcomes[i][r] = "none"
       /\ outcomes'[i][r] = "rejected" /\ posted'[i][r] = posted[i][r]

\* ... and to what is told of the imports.
RowMarked(i) ==
    /\ DOMAIN seen' = Imports
    /\ \A j \in Imports : /\ seen'[j] \in Past(j)'
                          /\ seen'[j].overtaken = seen[j].overtaken
                          /\ seen'[j].overlapped = seen[j].overlapped
                          /\ seen'[j].begun = seen[j].begun
                          /\ seen[j].erred => seen'[j].erred
                          /\ j # i => seen'[j].erred = seen[j].erred

\* A run with a row open is at work on it.
LEMMA RowAtWork ==
    ASSUME ImportInv, NEW w \in Runners, runs[w] # None, runs[w].row # None
    PROVE  LET i == runs[w].import
               r == runs[w].row.number
           IN  /\ i \in Imports /\ runs[w] \in Run(i) /\ runs[w].row \in OpenedRow(i)
               /\ w \in RunsOf(i) /\ w \in InRow /\ runs[w].pc = "rows"
               /\ r \in Csv!Rows(i) /\ r \in runs[w].todo
               /\ files[i].type # "accounts" => r \in Csv!ToImport(i)
               /\ HeldBy(w)
  <1>1. ImportTypes /\ RowsHeld
    BY DEF ImportInv
  <1>2. PICK i \in Imports : i = runs[w].import /\ runs[w] \in Run(i)
    BY <1>1, RunTyped
  <1>3. HeldBy(w)
    BY <1>1 DEF RowsHeld
  <1>4. runs[w].row \in OpenedRow(i) /\ runs[w].row.number \in Csv!Rows(i)
    BY <1>2 DEF Run, OpenedRow
  <1>5. runs[w].pc = "rows" /\ w \in RunsOf(i) /\ w \in InRow
    BY <1>2, <1>3 DEF Run, HeldBy, RunsOf, InRow
  <1>6. /\ runs[w].row.number \in runs[w].todo
        /\ files[i].type # "accounts" => runs[w].row.number \in Csv!ToImport(i)
    BY <1>2, <1>3 DEF HeldBy
  <1> QED BY <1>2, <1>3, <1>4, <1>5, <1>6

\* A row keeps the outcome it has and is posted once more at most.
LEMMA WrittenParts ==
    ASSUME NEW i, NEW r, NEW found, RowWritten(i, r, found)
    PROVE  /\ outcomes'[i][r] \in {outcomes[i][r], "imported", "rejected"}
           /\ outcomes'[i][r] = outcomes[i][r] \/ outcomes[i][r] = "none"
           /\ posted'[i][r] \in {posted[i][r], posted[i][r] + 1}
           /\ posted'[i][r] = posted[i][r] \/ found \in {"create", "post"}
  BY Zenon DEF RowWritten

\* The runs hold on to their rows.
LEMMA RowsHeldAfter ==
    ASSUME ImportInv, NEW w \in Runners, runs[w] # None, runs[w].row # None, NEW b \in BOOLEAN,
           NEW i, i = runs[w].import, NEW r, r = runs[w].row.number,
           RowCounted(w, i, r, b),
           RowAlone(i, r), RowWritten(i, r, runs[w].row.found), files' = files
    PROVE  RowsHeld'
  <1>1. ImportTypes /\ RowsHeld
    BY DEF ImportInv
  <1>2. /\ i \in Imports /\ r \in runs[w].todo /\ r \in Csv!Rows(i)
        /\ runs[w] \in Run(i)
        /\ HeldBy(w)
    BY RowAtWork
  <1> SUFFICES ASSUME NEW v \in Runners, runs'[v] # None
               PROVE  HeldBy(v)'
    BY DEF RowsHeld
  <1>4. CASE v = w
    <2>1. IsFiniteSet(runs[w].todo)
      BY <1>1, <1>2, RowsNumbered, FS_Subset DEF Run
    <2>2. /\ Cardinality(runs[w].todo \ {r}) = Cardinality(runs[w].todo) - 1
          /\ Cardinality(runs[w].todo) \in Nat
      BY <1>2, <2>1, FS_RemoveElement, FS_CardinalityType
    <2>3. runs[w].imported \in Nat /\ Len(files[i].rows) \in Nat
      BY <1>1, <1>2, RowsNumbered DEF Run
    <2>4. runs[w].imported + Cardinality(runs[w].todo) <= Len(files[i].rows)
      BY <1>2 DEF HeldBy
    <2>5. runs'[w].imported + Cardinality(runs'[w].todo) <= Len(files[i].rows)
      <3>1. runs'[w].imported \in Nat /\ runs'[w].imported <= runs[w].imported + 1
        BY <2>3 DEF RowCounted
      <3>2. runs'[w].todo = runs[w].todo \ {r}
        BY DEF RowCounted
      <3>3. Cardinality(runs'[w].todo) = Cardinality(runs[w].todo) - 1
        BY <2>2, <3>2, Zenon
      <3>4. \A a, c, n, m \in Nat : a + c <= n /\ m <= a + 1 => m + (c - 1) <= n
        OBVIOUS
      <3>5. runs'[w].imported + (Cardinality(runs[w].todo) - 1) <= Len(files[i].rows)
        BY <2>2, <2>3, <2>4, <3>1, <3>4
      <3> QED BY <3>3, <3>5, Zenon
    <2>6. runs'[w].pc = "rows"
      BY RowAtWork DEF RowCounted
    <2>7. files[i].type # "accounts" => runs'[w].todo \subseteq Csv!ToImport(i)
      BY <1>2 DEF RowCounted, HeldBy
    <2>8. runs'[w].import = i /\ runs'[w].row = None
      BY DEF RowCounted
    <2> QED BY <1>4, <2>5, <2>6, <2>7, <2>8, FilesKept DEF HeldBy
  <1>5. CASE v # w
    <2>1. runs'[v] = runs[v] /\ HeldBy(v) /\ runs[v] # None
      BY <1>1, <1>5 DEF RowCounted, RowsHeld
    <2>2. runs[v].import \in Imports
      BY <1>1, <2>1, RunTyped
    <2>3. \A j \in Imports : \A q \in Csv!Rows(j) :
             outcomes[j][q] # "none" => outcomes'[j][q] = outcomes[j][q]
      BY WrittenParts DEF RowAlone
    <2>4. runs[v].row # None => runs[v].row.number \in Csv!Rows(runs[v].import)
      BY <2>1, RowAtWork
    <2>5. runs[v].row # None /\ runs[v].row.found \in {"imported", "rejected"} =>
             outcomes'[runs[v].import][runs[v].row.number] = runs[v].row.found
      BY <2>1, <2>2, <2>3, <2>4 DEF HeldBy
    <2> QED BY <2>1, <2>5, FilesKept DEF HeldBy
  <1> QED BY <1>4, <1>5

\* A row is posted with its outcome, or, of an account file, once by the only run.
LEMMA PostedAfter ==
    ASSUME ImportInv, NEW w \in Runners, runs[w] # None, runs[w].row # None, NEW b \in BOOLEAN,
           NEW i, i = runs[w].import, NEW r, r = runs[w].row.number,
           RowCounted(w, i, r, b),
           RowAlone(i, r), RowWritten(i, r, runs[w].row.found),
           RowMarked(i), files' = files
    PROVE  PostedOf(i)'
  <1>1. ImportTypes /\ PostedAsSaid
    BY DEF ImportInv
  <1>2. /\ i \in Imports /\ r \in runs[w].todo /\ r \in Csv!Rows(i)
        /\ w \in RunsOf(i) /\ runs[w].pc = "rows"
        /\ files[i].type # "accounts" => r \in Csv!ToImport(i)
        /\ runs[w].row.found = "create" <=> files[i].type = "accounts"
    BY RowAtWork DEF HeldBy
  <1>4. PostedOf(i)
    BY <1>1, <1>2 DEF PostedAsSaid
  <1>5. RunsOf(i)' \subseteq RunsOf(i) /\ seen'[i].begun = seen[i].begun
    BY <1>2 DEF RunsOf, RowCounted, RowMarked
  <1>6. ASSUME files[i].type # "accounts", NEW q \in Csv!Rows(i)
        PROVE  /\ posted'[i][q] = IF outcomes'[i][q] = "imported" THEN 1 ELSE 0
               /\ outcomes'[i][q] # "none" => q \in Csv!ToImport(i)
    <2>1. /\ posted[i][q] = IF outcomes[i][q] = "imported" THEN 1 ELSE 0
          /\ outcomes[i][q] # "none" => q \in Csv!ToImport(i)
      BY <1>4, <1>6 DEF PostedOf
    <2>2. CASE q # r
      BY <2>1, <2>2 DEF RowAlone
    <2>3. CASE q = r
      <3>1. \/ outcomes'[i][r] = outcomes[i][r] /\ posted'[i][r] = posted[i][r]
            \/ /\ outcomes[i][r] = "none" /\ outcomes'[i][r] = "imported"
               /\ posted'[i][r] = posted[i][r] + 1
            \/ /\ outcomes[i][r] = "none" /\ outcomes'[i][r] = "rejected"
               /\ posted'[i][r] = posted[i][r]
        BY <1>2, <1>6, Zenon DEF RowWritten
      <3>2. r \in Csv!ToImport(i)
        BY <1>2, <1>6
      <3> QED BY <2>1, <2>3, <3>1, <3>2
    <2> QED BY <2>2, <2>3
  <1>7. ~(files[i].type = "accounts" /\ seen'[i].begun = 0)
    BY <1>2, <1>4, <1>5 DEF PostedOf
  <1>8. ASSUME files[i].type = "accounts", seen'[i].begun = 1
        PROVE  /\ \A u, v \in RunsOf(i)' : u = v
               /\ \A q \in Csv!Rows(i) :
                     /\ posted'[i][q] <= 1
                     /\ \A v \in RunsOf(i)' :
                           posted'[i][q] # 0 => runs'[v].pc = "rows" /\ q \notin runs'[v].todo
    <2>1. /\ \A v \in RunsOf(i) : v = w
          /\ \A q \in Csv!Rows(i) :
                /\ posted[i][q] \in Nat /\ posted[i][q] <= 1
                /\ posted[i][q] # 0 => q \notin runs[w].todo
      BY <1>1, <1>2, <1>4, <1>5, <1>8 DEF PostedOf, ImportTypes
    <2>2. \A v \in RunsOf(i)' : v = w
      BY <1>5, <2>1
    <2>3. runs'[w].pc = "rows" /\ runs'[w].todo = runs[w].todo \ {r}
      BY <1>2 DEF RowCounted
    <2>4. posted[i][r] = 0
      BY <1>2, <2>1
    <2>5. ASSUME NEW q \in Csv!Rows(i)
          PROVE  posted'[i][q] <= 1 /\ (posted'[i][q] # 0 => q \notin runs[w].todo \ {r})
      <3>1. CASE q # r
        BY <2>1, <3>1 DEF RowAlone
      <3>2. CASE q = r
        <4>1. posted'[i][r] \in {posted[i][r], posted[i][r] + 1}
          BY WrittenParts
        <4> QED BY <2>4, <3>2, <4>1
      <3> QED BY <3>1, <3>2
    <2> QED BY <2>2, <2>3, <2>5
  <1> QED
    <2>1. Csv!Rows(i)' = Csv!Rows(i) /\ Csv!ToImport(i)' = Csv!ToImport(i)
      BY FilesKept
    <2>2. files'[i].type # "accounts" =>
             \A q \in Csv!Rows(i)' :
                /\ posted'[i][q] = IF outcomes'[i][q] = "imported" THEN 1 ELSE 0
                /\ outcomes'[i][q] # "none" => q \in Csv!ToImport(i)'
      BY <1>6, <2>1
    <2>3. files'[i].type = "accounts" /\ seen'[i].begun = 1 =>
             /\ \A u, v \in RunsOf(i)' : u = v
             /\ \A q \in Csv!Rows(i)' :
                   /\ posted'[i][q] <= 1
                   /\ \A v \in RunsOf(i)' :
                         posted'[i][q] # 0 => runs'[v].pc = "rows" /\ q \notin runs'[v].todo
      BY <1>8, <2>1
    <2>4. ~(files'[i].type = "accounts" /\ seen'[i].begun = 0)
      BY <1>7
    <2> QED BY <2>2, <2>3, <2>4 DEF PostedOf

\* A row that is done with has an outcome and is counted with it, by its own run and, as
\* far as they are done with it, by those beside it.
LEMMA CountsAfter ==
    ASSUME ImportInv, NEW w \in Runners, runs[w] # None, runs[w].row # None, NEW b \in BOOLEAN,
           NEW i, i = runs[w].import, NEW r, r = runs[w].row.number,
           RowCounted(w, i, r, b), RowAlone(i, r), RowWritten(i, r, runs[w].row.found),
           RowMarked(i),
           files' = files, records' = records,
           files[i].type = "transactions" /\ ~seen'[i].erred =>
              outcomes'[i][r] # "none" /\ (b <=> outcomes'[i][r] = "imported")
    PROVE  CountsOf(i)'
  <1>1. ImportTypes /\ PostedAsSaid /\ CountsAgree
    BY DEF ImportInv
  <1>2. /\ i \in Imports /\ r \in runs[w].todo /\ r \in Csv!Rows(i)
        /\ w \in RunsOf(i) /\ runs[w].pc = "rows" /\ runs[w] \in Run(i)
        /\ files[i].type # "accounts" => r \in Csv!ToImport(i)
    BY RowAtWork
  <1> SUFFICES ASSUME files[i].type = "transactions", ~seen'[i].erred
               PROVE  CountsOf(i)'
    BY DEF CountsOf
  <1>3. CountsOf(i) /\ PostedOf(i) /\ ~seen[i].erred
    BY <1>1, <1>2 DEF CountsAgree, PostedAsSaid, RowMarked
  <1>4. r \in Csv!ToImport(i) /\ outcomes'[i][r] # "none" /\ (b <=> outcomes'[i][r] = "imported")
    BY <1>2
  <1>5. /\ \A q \in Csv!Rows(i) \ {r} : outcomes'[i][q] = outcomes[i][q]
        /\ outcomes'[i][r] = outcomes[i][r] \/ outcomes[i][r] = "none"
    BY WrittenParts DEF RowAlone
  <1>6. /\ Csv!Rows(i)' = Csv!Rows(i) /\ Csv!ToImport(i)' = Csv!ToImport(i)
        /\ \A q : Csv!Chosen(i, q)' = Csv!Chosen(i, q) /\ Csv!Row(i, q)' = Csv!Row(i, q)
    BY FilesKept
  <1>7. ImportedRows(i)' = {q \in Csv!Rows(i) : outcomes'[i][q] = "imported"}
    BY <1>6 DEF ImportedRows
  <1>8. \A todo : RejectedRows(i, todo)' =
           {q \in Csv!Rows(i) : /\ Csv!Chosen(i, q)
                                /\ Csv!Row(i, q).parses =>
                                      q \notin todo /\ outcomes'[i][q] # "imported"}
    BY <1>6 DEF RejectedRows
  <1>9. /\ \A q \in Csv!ToImport(i) \ runs[w].todo : outcomes[i][q] # "none"
        /\ runs[w].imported = Cardinality(ImportedRows(i) \ runs[w].todo)
        /\ runs[w].rejected = RejectedRows(i, runs[w].todo)
    BY <1>2, <1>3 DEF CountsOf
  <1>10. \A q \in Csv!ToImport(i) :
            /\ q \in Csv!Rows(i) /\ Csv!Chosen(i, q) /\ Csv!Row(i, q).parses
    BY DEF Csv!ToImport
  <1>10a. PICK todo : todo = runs[w].todo \ {r}
    OBVIOUS
  <1>11. \A q \in Csv!ToImport(i) \ todo : outcomes'[i][q] # "none"
    BY <1>4, <1>5, <1>9, <1>10, <1>10a
  <1>12. runs'[w].imported = Cardinality(ImportedRows(i)' \ todo)
    <2> DEFINE before == ImportedRows(i) \ runs[w].todo
               after  == ImportedRows(i)' \ todo
    <2>1. IsFiniteSet(before) /\ before \subseteq Csv!Rows(i)
      BY <1>1, <1>2, RowsNumbered, FS_Subset DEF ImportedRows
    <2>2. r \notin before
      BY <1>2
    <2>3. CASE b
      <3>1. after = before \cup {r}
        BY <1>2, <1>4, <1>5, <1>7, <1>10a, <2>3 DEF ImportedRows
      <3>2. Cardinality(before \cup {r}) = Cardinality(before) + 1
        BY <2>1, <2>2, FS_AddElement
      <3>3. runs'[w].imported = runs[w].imported + 1
        BY <2>3 DEF RowCounted
      <3> QED BY <1>9, <3>1, <3>2, <3>3, Zenon
    <2>4. CASE ~b
      <3>1. after = before
        BY <1>2, <1>4, <1>5, <1>7, <1>10a, <2>4 DEF ImportedRows
      <3>2. runs'[w].imported = runs[w].imported
        BY <2>4 DEF RowCounted
      <3> QED BY <1>9, <3>1, <3>2, Zenon
    <2> QED BY <2>3, <2>4
  <1>13. runs'[w].rejected = RejectedRows(i, todo)'
    <2>1. runs'[w].rejected = IF b THEN RejectedRows(i, runs[w].todo)
                              ELSE RejectedRows(i, runs[w].todo) \cup {r}
      BY <1>9 DEF RowCounted
    <2>2. \A q \in Csv!Rows(i) :
             q # r => (q \in RejectedRows(i, runs[w].todo) <=>
                          /\ Csv!Chosen(i, q)
                          /\ Csv!Row(i, q).parses =>
                                q \notin todo /\ outcomes'[i][q] # "imported")
      BY <1>5, <1>10a DEF RejectedRows
    <2>3. r \notin RejectedRows(i, runs[w].todo)
      BY <1>2, <1>4, <1>10 DEF RejectedRows
    <2>4. RejectedRows(i, runs[w].todo) \subseteq Csv!Rows(i)
      BY DEF RejectedRows
    <2>5. \A q \in Csv!Rows(i) : q # r => (q \in todo <=> q \in runs[w].todo)
      BY <1>10a
    <2>6. r \in RejectedRows(i, todo)' <=> ~b
      BY <1>2, <1>4, <1>8, <1>10, <1>10a
    <2>7. \A q \in Csv!Rows(i) :
             q # r => (q \in RejectedRows(i, todo)' <=> q \in RejectedRows(i, runs[w].todo))
      BY <1>8, <2>2
    <2>8. RejectedRows(i, todo)' \subseteq Csv!Rows(i)
      <3>1. RejectedRows(i, todo)' =
               {q \in Csv!Rows(i) : /\ Csv!Chosen(i, q)
                                    /\ Csv!Row(i, q).parses =>
                                          q \notin todo /\ outcomes'[i][q] # "imported"}
        BY <1>8
      <3> QED BY <3>1
    <2>9. CASE b
      <3>1. RejectedRows(i, todo)' = RejectedRows(i, runs[w].todo)
        BY <2>3, <2>4, <2>6, <2>7, <2>8, <2>9
      <3> QED BY <2>1, <2>9, <3>1
    <2>10. CASE ~b
      <3>1. RejectedRows(i, todo)' = RejectedRows(i, runs[w].todo) \cup {r}
        BY <1>2, <2>4, <2>6, <2>7, <2>8, <2>10
      <3> QED BY <2>1, <2>10, <3>1
    <2> QED BY <2>9, <2>10
  <1>14. ASSUME NEW v \in RunsOf(i)', v # w, runs'[v].pc = "rows"
         PROVE  /\ runs'[v] = runs[v]
                /\ \A q \in Csv!ToImport(i) \ runs[v].todo : outcomes'[i][q] # "none"
                /\ runs[v].imported = Cardinality(ImportedRows(i)' \ runs[v].todo)
                /\ runs'[v].rejected =
                     {q \in Csv!Rows(i) :
                         /\ Csv!Chosen(i, q)
                         /\ Csv!Row(i, q).parses =>
                               q \notin runs'[v].todo /\ outcomes'[i][q] # "imported"}
    <2>1. runs'[v] = runs[v] /\ v \in RunsOf(i)
      BY <1>14 DEF RunsOf, RowCounted
    <2>2. /\ \A q \in Csv!ToImport(i) \ runs[v].todo : outcomes[i][q] # "none"
          /\ runs[v].imported = Cardinality(ImportedRows(i) \ runs[v].todo)
          /\ runs[v].rejected = RejectedRows(i, runs[v].todo)
      BY <1>3, <1>14, <2>1 DEF CountsOf
    <2>3. r \in runs[v].todo \/ outcomes'[i][r] = outcomes[i][r]
      BY <1>4, <1>5, <2>2
    <2>4. ImportedRows(i)' \ runs[v].todo = ImportedRows(i) \ runs[v].todo
      BY <1>5, <1>7, <2>3 DEF ImportedRows
    <2>5. \A q \in Csv!Rows(i) : q \notin runs[v].todo => outcomes'[i][q] = outcomes[i][q]
      BY <1>5, <2>3
    <2>6. RejectedRows(i, runs[v].todo) =
             {q \in Csv!Rows(i) : /\ Csv!Chosen(i, q)
                                  /\ Csv!Row(i, q).parses =>
                                        q \notin runs'[v].todo /\ outcomes'[i][q] # "imported"}
      BY <2>1, <2>5 DEF RejectedRows
    <2>7. \A q \in Csv!ToImport(i) \ runs[v].todo : outcomes'[i][q] # "none"
      BY <1>10, <2>2, <2>5
    <2> QED BY <2>1, <2>2, <2>4, <2>6, <2>7
  <1>15. /\ Csv!AuditAgrees(i)'
         /\ records[i].status = "completed" =>
               \A q \in Csv!ToImport(i) : outcomes'[i][q] # "none"
    <2> SUFFICES ASSUME records[i].status = "completed"
                 PROVE  /\ Csv!AuditAgrees(i)'
                        /\ \A q \in Csv!ToImport(i) : outcomes'[i][q] # "none"
      BY DEF Csv!AuditAgrees
    <2>1. Csv!AuditAgrees(i) /\ \A q \in Csv!ToImport(i) : outcomes[i][q] # "none"
      BY <1>3 DEF CountsOf
    <2>2. \A q \in Csv!Rows(i) : outcomes'[i][q] = outcomes[i][q]
      BY <1>4, <1>5, <2>1
    <2>3. \A q \in Csv!ToImport(i) : outcomes'[i][q] # "none"
      BY <1>10, <2>1, <2>2
    <2>4. /\ {q \in Csv!Rows(i)' : outcomes'[i][q] = "imported"}
             = {q \in Csv!Rows(i) : outcomes[i][q] = "imported"}
          /\ {q \in Csv!Rows(i)' : Csv!Chosen(i, q)' /\ outcomes'[i][q] # "imported"}
             = {q \in Csv!Rows(i) : Csv!Chosen(i, q) /\ outcomes[i][q] # "imported"}
      BY <1>6, <2>2
    <2>5. /\ records[i].imported = Cardinality({q \in Csv!Rows(i) : outcomes[i][q] = "imported"})
          /\ records[i].rejected =
                {q \in Csv!Rows(i) : Csv!Chosen(i, q) /\ outcomes[i][q] # "imported"}
      BY <1>3, <2>1, CountsAlike DEF Csv!AuditAgrees
    <2>6. Csv!AuditAgrees(i)'
      BY <2>4, <2>5, CountsAlike DEF Csv!AuditAgrees
    <2> QED BY <2>3, <2>6
  <1>16. runs'[w].todo = todo
    BY <1>10a DEF RowCounted
  <1>17. ASSUME NEW v \in RunsOf(i)', runs'[v].pc = "rows"
         PROVE  /\ \A q \in Csv!ToImport(i)' \ runs'[v].todo : outcomes'[i][q] # "none"
                /\ runs'[v].imported = Cardinality(ImportedRows(i)' \ runs'[v].todo)
                /\ runs'[v].rejected = RejectedRows(i, runs[v].todo)'
    <2>1. CASE v = w
      BY <1>6, <1>11, <1>12, <1>13, <1>16, <2>1
    <2>2. CASE v # w
      <3>1. runs'[v] = runs[v] /\ runs'[v].rejected = RejectedRows(i, runs[v].todo)'
        <4>1. RejectedRows(i, runs[v].todo)' =
                 {q \in Csv!Rows(i) : /\ Csv!Chosen(i, q)
                                      /\ Csv!Row(i, q).parses =>
                                            q \notin runs'[v].todo /\ outcomes'[i][q] # "imported"}
          BY <1>6 DEF RejectedRows
        <4> QED BY <1>14, <1>17, <2>2, <4>1
      <3> QED BY <1>6, <1>14, <1>17, <2>2, <3>1
    <2> QED BY <2>1, <2>2
  <1> QED BY <1>6, <1>15, <1>17 DEF CountsOf

\* A row is posted while it is new, or while its import is known to overlap another.
LEMMA LedgerAfter ==
    ASSUME ImportInv, NEW w \in Runners, runs[w] # None, runs[w].row # None, NEW b \in BOOLEAN,
           NEW i, i = runs[w].import, NEW r, r = runs[w].row.number,
           RowCounted(w, i, r, b), RowAlone(i, r), RowWritten(i, r, runs[w].row.found),
           RowMarked(i),
           files' = files
    PROVE  StillNew' /\ Csv!NoDoubleEntry'
  <1>1. ImportTypes /\ StillNew /\ Csv!NoDoubleEntry
    BY DEF ImportInv
  <1>2. /\ i \in Imports /\ r \in Csv!Rows(i) /\ w \in InRow
        /\ runs[w].row.found = "create" <=> files[i].type = "accounts"
    BY RowAtWork DEF HeldBy
  <1>3. ASSUME NEW v \in InRow'
        PROVE  /\ v \in InRow /\ v # w /\ runs'[v] = runs[v]
               /\ runs[v].import \in Imports
               /\ seen'[runs[v].import].overlapped
    <2>1. v \in InRow /\ v # w /\ runs'[v] = runs[v]
      BY <1>3 DEF InRow, RowCounted
    <2>2. runs[v].import \in Imports
      BY <1>1, <2>1, RunTyped DEF InRow
    <2>3. seen[runs[v].import].overlapped
      BY <1>1, <1>2, <2>1 DEF StillNew
    <2> QED BY <2>1, <2>2, <2>3 DEF RowMarked
  <1>4. StillNew'
    BY <1>3 DEF StillNew
  <1> DEFINE sound == {j \in Imports : files[j].type = "transactions" /\ ~seen[j].overlapped}
             same(j, q, k, p) == Csv!SameEntry(Csv!Row(j, q), Csv!Row(k, p))
  <1>5. \A j, q, k, p : same(j, q, k, p) <=> same(k, p, j, q)
    BY DEF Csv!SameEntry
  <1>6. \A j \in Imports : \A q \in Csv!Rows(j) : posted'[j][q] > 0 =>
           posted[j][q] > 0 \/ (j = i /\ q = r)
    BY <1>2 DEF RowAlone
  <1>7. i \in sound /\ posted'[i][r] # posted[i][r] =>
           \A j \in Imports : \A q \in Csv!Rows(j) : posted[j][q] > 0 => ~same(j, q, i, r)
    <2> SUFFICES ASSUME i \in sound, posted'[i][r] # posted[i][r]
                 PROVE  \A j \in Imports : \A q \in Csv!Rows(j) :
                           posted[j][q] > 0 => ~same(j, q, i, r)
      OBVIOUS
    <2>1. runs[w].row.found = "post"
      BY <1>2, WrittenParts
    <2>2. ~Csv!InLedger(i, r)
      BY <1>1, <1>2, <2>1 DEF StillNew
    <2> QED BY <2>2 DEF Csv!InLedger
  <1>8. \A j \in sound : \A q \in Csv!Rows(j) : posted[j][q] > 0 =>
           \A k \in sound : \A p \in Csv!Rows(k) :
              posted[k][p] > 0 /\ <<j, q>> # <<k, p>> => ~same(j, q, k, p)
    BY <1>1 DEF Csv!NoDoubleEntry
  <1> HIDE DEF sound, same
  <1>9. ASSUME NEW j \in sound, NEW q \in Csv!Rows(j), posted'[j][q] > 0,
               NEW k \in sound, NEW p \in Csv!Rows(k), posted'[k][p] > 0, <<j, q>> # <<k, p>>
        PROVE  ~same(j, q, k, p)
    <2>1. j \in Imports /\ k \in Imports
      BY DEF sound
    <2>2. CASE posted[j][q] > 0 /\ posted[k][p] > 0
      BY <1>8, <1>9, <2>2
    <2>3. CASE ~(posted[j][q] > 0)
      <3>1. j = i /\ q = r /\ posted'[i][r] # posted[i][r]
        BY <1>6, <1>9, <2>1, <2>3
      <3>2. posted[k][p] > 0
        BY <1>6, <1>9, <2>1, <3>1
      <3> QED BY <1>5, <1>7, <2>1, <3>1, <3>2
    <2>4. CASE ~(posted[k][p] > 0)
      <3>1. k = i /\ p = r /\ posted'[i][r] # posted[i][r]
        BY <1>6, <1>9, <2>1, <2>4
      <3>2. posted[j][q] > 0
        BY <1>6, <1>9, <2>1, <3>1
      <3> QED BY <1>7, <2>1, <3>1, <3>2
    <2> QED BY <2>2, <2>3, <2>4
  <1>10. Csv!NoDoubleEntry'
    <2>1. {j \in Imports : files'[j].type = "transactions" /\ ~seen'[j].overlapped} = sound
      BY DEF sound, RowMarked
    <2>2. /\ \A j : Csv!Rows(j)' = Csv!Rows(j)
          /\ \A j, q : Csv!Row(j, q)' = Csv!Row(j, q)
      BY FilesKept
    <2>3. \A j, q, k, p : same(j, q, k, p) <=>
             Csv!SameEntry(Csv!Row(j, q)', Csv!Row(k, p)')
      BY <2>2 DEF same
    <2>4. \A j \in sound : \A q \in Csv!Rows(j)' : posted'[j][q] > 0 =>
             \A k \in sound : \A p \in Csv!Rows(k)' :
                posted'[k][p] > 0 /\ <<j, q>> # <<k, p>> =>
                   ~Csv!SameEntry(Csv!Row(j, q)', Csv!Row(k, p)')
      BY <1>9, <2>2, <2>3
    <2> QED BY <2>1, <2>4 DEF Csv!NoDoubleEntry, Csv!SameEntry
  <1> QED BY <1>4, <1>10

\* Whatever a row's transaction came to, the invariant holds when the row is done with.
LEMMA RowDone ==
    ASSUME ImportInv, NEW w \in Runners, runs[w] # None, runs[w].row # None, NEW b \in BOOLEAN,
           NEW i, i = runs[w].import, NEW r, r = runs[w].row.number,
           RowCounted(w, i, r, b), RowAlone(i, r), RowWritten(i, r, runs[w].row.found),
           RowMarked(i),
           files' = files, records' = records, messages' = messages, confirming' = confirming,
           files[i].type = "transactions" /\ ~seen'[i].erred =>
              outcomes'[i][r] # "none" /\ (b <=> outcomes'[i][r] = "imported")
    PROVE  ImportInv'
  <1>1. ImportTypes /\ StatusFollows
    BY DEF ImportInv
  <1>2. i \in Imports /\ r \in Csv!Rows(i)
    BY RowAtWork
  <1>3. ImportTypes'
    <2>1. \A u \in Users : confirming'[u] # None =>
             \E j \in Imports : confirming'[u] \in Confirmation(j)
      BY <1>1 DEF ImportTypes
    <2>2. \A v \in Runners : runs'[v] # None => \E j \in Imports : runs'[v] \in Run(j)
      BY <1>1, <1>2 DEF ImportTypes, RowCounted
    <2>3. /\ DOMAIN records' = Imports /\ DOMAIN messages' = Imports
          /\ DOMAIN confirming' = Users
          /\ \A j \in Imports : records'[j] \in Record(j)
                                /\ messages'[j] \in {"none", "pending", "done"}
      BY <1>1 DEF ImportTypes
    <2>4. DOMAIN outcomes' = Imports /\ DOMAIN posted' = Imports /\ DOMAIN runs' = Runners
      BY DEF RowAlone, RowCounted
    <2>5. ASSUME NEW j \in Imports
          PROVE  /\ DOMAIN outcomes'[j] = Csv!Rows(j)
                 /\ DOMAIN posted'[j] = Csv!Rows(j)
                 /\ \A q \in Csv!Rows(j) :
                       /\ outcomes'[j][q] \in {"none", "imported", "rejected"}
                       /\ posted'[j][q] \in Nat
      <3>1. /\ DOMAIN outcomes[j] = Csv!Rows(j) /\ DOMAIN posted[j] = Csv!Rows(j)
            /\ \A q \in Csv!Rows(j) : /\ outcomes[j][q] \in {"none", "imported", "rejected"}
                                      /\ posted[j][q] \in Nat
        BY <1>1 DEF ImportTypes
      <3>2. CASE j # i
        BY <3>1, <3>2 DEF RowAlone
      <3>3. CASE j = i
        <4>1. /\ outcomes'[i][r] \in {outcomes[i][r], "imported", "rejected"}
              /\ posted'[i][r] \in {posted[i][r], posted[i][r] + 1}
          BY WrittenParts
        <4>2. DOMAIN outcomes'[i] = Csv!Rows(i) /\ DOMAIN posted'[i] = Csv!Rows(i)
          BY DEF RowAlone
        <4>3. \A q \in Csv!Rows(i) \ {r} :
                 outcomes'[i][q] = outcomes[i][q] /\ posted'[i][q] = posted[i][q]
          BY DEF RowAlone
        <4> QED BY <1>2, <3>1, <3>3, <4>1, <4>2, <4>3
      <3> QED BY <3>2, <3>3
    <2>6. DOMAIN seen' = Imports /\ \A j \in Imports : seen'[j] \in Past(j)'
      BY DEF RowMarked
    <2> QED BY <1>1, <2>1, <2>2, <2>3, <2>4, <2>5, <2>6, TypesAgain
  <1>4. StatusFollows'
    <2>1. \A v \in Runners :
             runs'[v] # None => runs[v] # None /\ runs'[v].copy = runs[v].copy
      BY DEF RowCounted
    <2>2. \A j \in Imports : seen'[j].overtaken = seen[j].overtaken
      BY DEF RowMarked
    <2> QED BY <1>1, <2>1, <2>2, StatusKept
  <1>5. RowsHeld'
    BY RowsHeldAfter
  <1>6. ASSUME NEW j \in Imports PROVE PostedOf(j)' /\ CountsOf(j)'
    <2>1. CASE j = i
      BY <2>1, PostedAfter, CountsAfter
    <2>2. CASE j # i
      <3>1. /\ RunsOf(j)' \subseteq RunsOf(j)
            /\ \A v \in RunsOf(j)' : runs'[v] = runs[v]
        BY <2>2 DEF RunsOf, RowCounted
      <3>2. records'[j] = records[j]
            /\ outcomes'[j] = outcomes[j] /\ posted'[j] = posted[j]
            /\ seen'[j].erred = seen[j].erred /\ seen'[j].begun = seen[j].begun
        BY <2>2 DEF RowAlone, RowMarked
      <3> QED BY <3>1, <3>2, ImportRests
    <2> QED BY <2>1, <2>2
  <1>7. StillNew' /\ Csv!NoDoubleEntry'
    BY LedgerAfter
  <1> QED BY <1>3, <1>4, <1>5, <1>6, <1>7 DEF ImportInv, PostedAsSaid, CountsAgree

\* A row that fails is among the rejected, and the import is told so.
LEMMA RowFailed ==
    ASSUME ImportInv, NEW w \in Runners, runs[w] # None, runs[w].row # None,
           Csv!Count(w, FALSE), seen' = [seen EXCEPT ![runs[w].import].erred = TRUE],
           files' = files, records' = records, messages' = messages, confirming' = confirming,
           posted' = posted, outcomes' = outcomes
    PROVE  ImportInv'
  <1>1. ImportTypes
    BY DEF ImportInv
  <1>2. PICK i \in Imports, r \in runs[w].todo :
           /\ i = runs[w].import /\ r = runs[w].row.number
           /\ r \in Csv!Rows(i) /\ runs[w] \in Run(i) /\ runs[w].row \in OpenedRow(i)
    BY RowAtWork
  <1>3. RowCounted(w, i, r, FALSE)
    <2>1. DOMAIN runs = Runners
      BY <1>1 DEF ImportTypes
    <2> QED BY <1>2, <2>1, CountParts
  <1>4. RowAlone(i, r) /\ RowWritten(i, r, runs[w].row.found)
    BY <1>1, <1>2 DEF RowAlone, RowWritten, ImportTypes
  <1>5. RowMarked(i) /\ seen'[i].erred
    <2>1. seen' = [seen EXCEPT ![i].erred = TRUE]
      BY <1>2
    <2>2. /\ DOMAIN seen' = Imports
          /\ seen'[i].erred
          /\ \A j \in Imports : /\ seen'[j] \in Past(j)'
                                /\ seen'[j].overtaken = seen[j].overtaken
                                /\ seen'[j].overlapped = seen[j].overlapped
                                /\ seen'[j].begun = seen[j].begun
                                /\ j # i => seen'[j].erred = seen[j].erred
      BY <1>1, <1>2, <2>1, MarkErred
    <2> QED BY <1>2, <2>2 DEF RowMarked
  <1> QED BY <1>2, <1>3, <1>4, <1>5, RowDone

\* A row's transaction commits, or finds its outcome written meanwhile.
LEMMA CommitRowStep ==
    ASSUME ImportInv, NEW w \in Runners, Csv!CommitRow(w)
    PROVE  ImportInv'
  <1>1. ImportTypes
    BY DEF ImportInv
  <1>2. runs[w] # None /\ runs[w].row # None
    BY Zenon DEF Csv!CommitRow
  <1>3. PICK i \in Imports, r \in runs[w].todo,
             found \in {"create", "post", "reject", "imported", "rejected"} :
           /\ i = runs[w].import /\ r = runs[w].row.number /\ found = runs[w].row.found
           /\ r \in Csv!Rows(i) /\ runs[w] \in Run(i) /\ runs[w].row \in OpenedRow(i)
           /\ found = "create" <=> files[i].type = "accounts"
           /\ found \in {"imported", "rejected"} => outcomes[i][r] = found
    BY <1>2, RowAtWork DEF HeldBy, OpenedRow
  <1>4. /\ files' = files /\ records' = records
        /\ messages' = messages /\ confirming' = confirming
    BY Zenon DEF Csv!CommitRow
  <1>5. ASSUME NEW b \in BOOLEAN, Csv!Count(w, b) PROVE RowCounted(w, i, r, b)
    <2>1. DOMAIN runs = Runners
      BY <1>1 DEF ImportTypes
    <2> QED BY <1>3, <1>5, <2>1, CountParts
  <1>6. /\ DOMAIN outcomes = Imports /\ DOMAIN posted = Imports
        /\ \A j \in Imports : DOMAIN outcomes[j] = Csv!Rows(j) /\ DOMAIN posted[j] = Csv!Rows(j)
    BY <1>1 DEF ImportTypes
  <1>7. ASSUME posted' = [posted EXCEPT ![i][r] = @ + 1]
        PROVE  /\ DOMAIN posted' = Imports /\ DOMAIN posted'[i] = Csv!Rows(i)
               /\ \A j \in Imports \ {i} : posted'[j] = posted[j]
               /\ \A q \in Csv!Rows(i) \ {r} : posted'[i][q] = posted[i][q]
               /\ posted'[i][r] = posted[i][r] + 1
    BY <1>3, <1>6, <1>7
  <1>8. ASSUME NEW outcome, outcomes' = [outcomes EXCEPT ![i][r] = outcome]
        PROVE  /\ DOMAIN outcomes' = Imports /\ DOMAIN outcomes'[i] = Csv!Rows(i)
               /\ \A j \in Imports \ {i} : outcomes'[j] = outcomes[j]
               /\ \A q \in Csv!Rows(i) \ {r} : outcomes'[i][q] = outcomes[i][q]
               /\ outcomes'[i][r] = outcome
    BY <1>3, <1>6, <1>8
  <1>9. seen' = seen => RowMarked(i)
    BY <1>1 DEF RowMarked, ImportTypes, Past
  <1>10. seen' = Csv!Disturbed(Imports \ {i}) => RowMarked(i)
    BY <1>1, MarksDisturbed DEF RowMarked
  <1>10a. Csv!FoundImported(found) \in BOOLEAN
    BY DEF Csv!FoundImported
  <1>11. CASE /\ found \in {"imported", "rejected"}
              /\ Csv!Count(w, Csv!FoundImported(found))
              /\ outcomes' = outcomes /\ posted' = posted /\ seen' = seen
    <2>1. RowAlone(i, r) /\ RowWritten(i, r, found)
      BY <1>6, <1>11 DEF RowAlone, RowWritten
    <2>2. RowCounted(w, i, r, Csv!FoundImported(found))
      BY <1>5, <1>10a, <1>11
    <2>3. /\ outcomes'[i][r] # "none"
          /\ Csv!FoundImported(found) <=> outcomes'[i][r] = "imported"
      BY <1>3, <1>11 DEF Csv!FoundImported
    <2> QED BY <1>2, <1>3, <1>4, <1>9, <1>10a, <1>11, <2>1, <2>2, <2>3, RowDone
  <1>12. CASE /\ found = "create" /\ Csv!Count(w, Csv!FoundImported(found))
              /\ posted' = [posted EXCEPT ![i][r] = @ + 1] /\ outcomes' = outcomes
              /\ seen' = Csv!Disturbed(Imports \ {i})
    <2>1. RowAlone(i, r) /\ RowWritten(i, r, found)
      BY <1>6, <1>7, <1>12 DEF RowAlone, RowWritten
    <2>2. RowCounted(w, i, r, Csv!FoundImported(found))
      BY <1>5, <1>10a, <1>12
    <2>3. files[i].type # "transactions"
      BY <1>3, <1>12
    <2> QED BY <1>2, <1>3, <1>4, <1>10, <1>10a, <1>12, <2>1, <2>2, <2>3, RowDone
  <1>13. CASE /\ found = "post" /\ outcomes[i][r] = "none" /\ Csv!Count(w, Csv!FoundImported(found))
              /\ posted' = [posted EXCEPT ![i][r] = @ + 1]
              /\ outcomes' = [outcomes EXCEPT ![i][r] = "imported"]
              /\ seen' = Csv!Disturbed(Imports \ {i})
    <2>1. RowAlone(i, r) /\ RowWritten(i, r, found) /\ outcomes'[i][r] = "imported"
      BY <1>7, <1>8, <1>13 DEF RowAlone, RowWritten
    <2>2. RowCounted(w, i, r, Csv!FoundImported(found))
      BY <1>5, <1>10a, <1>13
    <2>3. Csv!FoundImported(found)
      BY <1>13 DEF Csv!FoundImported
    <2> QED BY <1>2, <1>3, <1>4, <1>10, <1>10a, <1>13, <2>1, <2>2, <2>3, RowDone
  <1>14. CASE /\ found = "reject" /\ outcomes[i][r] = "none" /\ Csv!Count(w, FALSE)
              /\ posted' = posted /\ outcomes' = [outcomes EXCEPT ![i][r] = "rejected"]
              /\ seen' = seen
    <2>1. RowAlone(i, r) /\ RowWritten(i, r, found) /\ outcomes'[i][r] = "rejected"
      BY <1>6, <1>8, <1>14 DEF RowAlone, RowWritten
    <2>2. RowCounted(w, i, r, FALSE)
      BY <1>5, <1>14
    <2> QED BY <1>2, <1>3, <1>4, <1>9, <1>14, <2>1, <2>2, RowDone
  <1>15. CASE /\ Csv!Count(w, FALSE) /\ seen' = [seen EXCEPT ![i].erred = TRUE]
              /\ posted' = posted /\ outcomes' = outcomes
    BY <1>2, <1>3, <1>4, <1>15, RowFailed
  <1>16. \/ /\ found \in {"imported", "rejected"}
            /\ Csv!Count(w, Csv!FoundImported(found))
            /\ outcomes' = outcomes /\ posted' = posted /\ seen' = seen
         \/ /\ found = "create" /\ Csv!Count(w, Csv!FoundImported(found))
            /\ posted' = [posted EXCEPT ![i][r] = @ + 1] /\ outcomes' = outcomes
            /\ seen' = Csv!Disturbed(Imports \ {i})
         \/ /\ found = "post" /\ ~Csv!Conflicts(i, r)
            /\ Csv!Count(w, Csv!FoundImported(found))
            /\ posted' = [posted EXCEPT ![i][r] = @ + 1]
            /\ outcomes' = [outcomes EXCEPT ![i][r] = "imported"]
            /\ seen' = Csv!Disturbed(Imports \ {i})
         \/ /\ found = "reject" /\ ~Csv!Conflicts(i, r) /\ Csv!Count(w, FALSE)
            /\ posted' = posted /\ outcomes' = [outcomes EXCEPT ![i][r] = "rejected"]
            /\ seen' = seen
         \/ /\ Csv!Count(w, FALSE) /\ seen' = [seen EXCEPT ![i].erred = TRUE]
            /\ posted' = posted /\ outcomes' = outcomes
    BY <1>3, Zenon DEF Csv!CommitRow, Csv!catalog
  <1>17. Csv!Conflicts(i, r) <=> outcomes[i][r] # "none"
    BY DEF Csv!Conflicts
  <1> QED BY <1>11, <1>12, <1>13, <1>14, <1>15, <1>16, <1>17

\* A row fails with the database.
LEMMA FailRowStep ==
    ASSUME ImportInv, NEW w \in Runners, Csv!FailRow(w)
    PROVE  ImportInv'
  BY RowFailed DEF Csv!FailRow, Csv!catalog

\* Nothing is lost while the imports rest.
LEMMA ImportsRest ==
    ASSUME ImportInv, UNCHANGED importVars
    PROVE  ImportInv'
  <1>1. /\ files' = files /\ records' = records /\ outcomes' = outcomes /\ posted' = posted
        /\ messages' = messages /\ confirming' = confirming /\ runs' = runs /\ seen' = seen
    BY DEF importVars, Csv!vars
  <1>2. ImportTypes /\ StatusFollows
    BY DEF ImportInv
  <1>3. \A i : Past(i)' = Past(i)
    BY <1>1 DEF Past
  <1>4. ImportTypes'
    BY <1>1, <1>2, <1>3, FilesKept DEF ImportTypes
  <1>5. StatusFollows'
    BY <1>1, <1>2, StatusKept
  <1> QED BY <1>1, <1>4, <1>5, RowsRest DEF ImportInv, CountsAgree

\* Every step of an import keeps the invariant, and so do the steps of the others.
LEMMA ImportStep == ImportInv /\ [Csv!Next]_importVars => ImportInv'
  <1> SUFFICES ASSUME ImportInv, [Csv!Next]_importVars
               PROVE  ImportInv'
    OBVIOUS
  <1>1. ASSUME NEW i \in Imports, Csv!PreviewCSVImport(i) PROVE ImportInv'
    BY <1>1, PreviewStep
  <1>2. ASSUME NEW i \in Imports, NEW u \in Users, Csv!OpenConfirm(u, i) PROVE ImportInv'
    BY <1>2, OpenConfirmStep
  <1>3. ASSUME NEW u \in Users, Csv!StepConfirm(u) PROVE ImportInv'
    BY <1>3, StepConfirmStep
  <1>4. ASSUME NEW u \in Users, Csv!DropConfirm(u) PROVE ImportInv'
    BY <1>4, DropSteps
  <1>5. ASSUME NEW w \in Runners, NEW i \in Imports, Csv!OpenRun(w, i) PROVE ImportInv'
    BY <1>5, OpenRunStep
  <1>6. ASSUME NEW w \in Runners, Csv!SaveRunning(w) PROVE ImportInv'
    BY <1>6, SaveRunningStep
  <1>7. ASSUME NEW w \in Runners, Csv!OpenRow(w) PROVE ImportInv'
    BY <1>7, OpenRowStep
  <1>8. ASSUME NEW w \in Runners, Csv!CommitRow(w) PROVE ImportInv'
    BY <1>8, CommitRowStep
  <1>9. ASSUME NEW w \in Runners, Csv!FailRow(w) PROVE ImportInv'
    BY <1>9, FailRowStep
  <1>10. ASSUME NEW w \in Runners, Csv!FinishRun(w) PROVE ImportInv'
    BY <1>10, FinishRunStep
  <1>11. ASSUME NEW w \in Runners, Csv!DropRun(w) PROVE ImportInv'
    BY <1>11, DropSteps
  <1>12. ASSUME NEW name \in DOMAIN accounts, Csv!HideAccount(name) PROVE ImportInv'
    BY <1>12, DropSteps
  <1>13. CASE UNCHANGED importVars
    BY <1>13, ImportsRest
  <1> QED BY <1>1, <1>2, <1>3, <1>4, <1>5, <1>6, <1>7, <1>8, <1>9, <1>10, <1>11, <1>12, <1>13
          DEF Csv!Next

\* The components take turns that the imports do not notice.
LEMMA ImportTurns ==
    [ComponentsNext]_<<part, vars, importVars, linkVars, routerVars, agentVars>>
        => [Csv!Next]_importVars
  BY DEF ComponentsNext, Matching, Importing, Linking, Routing, Talking, Csv!Next

-----------------------------------------------------------------------------
(* The theorems about CSV imports.                                            *)

\* Records, outcomes, confirmations and runs stay of their types, a run's counts are those
\* of the outcomes of the rows it is done with, and a row about to be posted is still new
\* (csv_import_store.go, service_csv_import.go).
THEOREM ImportingInvariant == ComponentsSpec => []ImportInv
  <1>1. ComponentsInit => ImportInv
    BY ImportInit DEF ComponentsInit
  <1>2. /\ ImportInv
        /\ [ComponentsNext]_<<part, vars, importVars, linkVars, routerVars, agentVars>>
        => ImportInv'
    BY ImportTurns, ImportStep
  <1> QED BY <1>1, <1>2, PTL DEF ComponentsSpec

\* The invariant says more than the type invariant the run checks.
LEMMA ImportTyped == ImportInv => Csv!TypeOK
  <1> SUFFICES ASSUME ImportInv PROVE Csv!TypeOK
    OBVIOUS
  <1> QED BY DEF ImportInv, ImportTypes, Record, Csv!TypeOK

\* However often its job is delivered, crashes or runs beside itself, a row is posted once
\* at most and its outcome says whether it was; what a completed import reports is the sum
\* of the outcomes of all its runs; and a message that is done with means a completed
\* import, unless a later run has taken it back (ImportTransactionRow, RunCSVImportJob,
\* ConfirmCSVImport).
THEOREM ImportsStayConsistent == ComponentsSpec => []ImportsConsistent
  <1>1. ImportInv => \A i \in Imports :
           Csv!PostedOnce(i) /\ Csv!AuditAgrees(i) /\ Csv!DoneMeansCompleted(i)
    <2> SUFFICES ASSUME ImportInv, NEW i \in Imports
                 PROVE  Csv!PostedOnce(i) /\ Csv!AuditAgrees(i) /\ Csv!DoneMeansCompleted(i)
      OBVIOUS
    <2>1. PostedOf(i) /\ CountsOf(i) /\ Csv!DoneMeansCompleted(i) /\ seen[i] \in Past(i)
      BY DEF ImportInv, PostedAsSaid, CountsAgree, StatusFollows, ImportTypes
    <2>2. Csv!PostedOnce(i)
      BY <2>1 DEF PostedOf, Csv!PostedOnce, Past
    <2>3. Csv!AuditAgrees(i)
      BY <2>1 DEF CountsOf, Csv!AuditAgrees
    <2> QED BY <2>1, <2>2, <2>3
  <1> QED BY <1>1, ImportingInvariant, PTL DEF ImportsConsistent, Csv!ImportsConsistent

\* Of imports whose rows were never open beside others', no entry is posted twice, of one
\* file or of several (rejectDuplicateImportTransaction).
THEOREM NoEntryTwice == ComponentsSpec => []NoDoubleEntry
  <1>1. ImportInv => NoDoubleEntry
    BY DEF ImportInv, NoDoubleEntry
  <1> QED BY <1>1, ImportingInvariant, PTL

-----------------------------------------------------------------------------
(* CSV imports: what a preview promises.                                      *)

\* Rows name accounts and categories of the catalog, which is made of sequences.
RowType(row) ==
    [parses : BOOLEAN, account : DOMAIN accounts, currency : {row.currency},
     expense : BOOLEAN, category : DOMAIN categories \cup {None}, key : {row.key}]

RowsTyped ==
    \A i \in Imports : \A r \in Csv!Rows(i) :
        Csv!Row(i, r) \in RowType(Csv!Row(i, r)) /\ Csv!Row(i, r).currency # None

AccountsTyped == \A n \in DOMAIN accounts : \E S : accounts[n] \in Seq(S)

\* The rows that are still to be imported, and what one of them would create.
Rest(i) == {r \in Csv!ToImport(i) : outcomes[i][r] = "none"}

NewAccount(i, r) == accounts[Csv!Row(i, r).account] = <<>>

NewCategory(i, r) ==
    Csv!Row(i, r).category # None /\ categories[Csv!Row(i, r).category] = <<>>

\* The catalog and the ledger have room for a row ...
Welcome(i, r) == Csv!Acceptable(Csv!Row(i, r)) /\ ~Csv!InLedger(i, r)

\* ... and still have it when row q has made its account and category ...
GoesWith(i, q, r) ==
    /\ NewAccount(i, r) /\ Csv!Row(i, q).account = Csv!Row(i, r).account =>
          Csv!Row(i, q).currency = Csv!Row(i, r).currency
    /\ NewCategory(i, r) /\ Csv!Row(i, q).category = Csv!Row(i, r).category =>
          Csv!Kind(Csv!Row(i, q)) = Csv!Kind(Csv!Row(i, r))

\* ... as the foretold rows before it will.
Promising(i, r) ==
    /\ Welcome(i, r)
    /\ \A q \in Rest(i) \cap seen[i].foretold : q < r => GoesWith(i, q, r)

NoRepeats(i) ==
    \A q, r \in Csv!Rows(i) : q # r => ~Csv!SameEntry(Csv!Row(i, q), Csv!Row(i, r))

\* The foretold rows are those imported and, of the rest, those that fit.
Foretold(i) ==
    /\ seen[i].foretold \subseteq Csv!ToImport(i)
    /\ \A r \in Csv!ToImport(i) :
          r \in seen[i].foretold <=> IF outcomes[i][r] = "none" THEN Promising(i, r)
                                     ELSE outcomes[i][r] = "imported"

OnTrack(i) ==
    /\ records[i].status # "none" /\ files[i].type = "transactions"
    /\ ~seen[i].disturbed /\ ~seen[i].erred
    => NoRepeats(i) /\ Foretold(i)

Tracked == \A i \in Imports : OnTrack(i)

\* What the transaction of a row has looked up still holds, and the row is the next one.
LookupStands(w) ==
    LET i == runs[w].import
        row == runs[w].row
    IN  files[i].type = "transactions" /\ ~seen[i].disturbed =>
          /\ \A q \in runs[w].todo : row.number <= q
          /\ row.found = "post" => /\ Welcome(i, row.number)
                                   /\ row.account = NewAccount(i, row.number)
                                   /\ row.category = NewCategory(i, row.number)
          /\ row.found = "reject" => ~Welcome(i, row.number)

LookupsStand == \A w \in InRow : LookupStands(w)

\* Nothing is run, and no outcome written, before the command is published.
BegunOf(i) ==
    /\ seen[i].overlapped => seen[i].disturbed /\ messages[i] # "none"
    /\ \A r \in Csv!Rows(i) : outcomes[i][r] # "none" => messages[i] # "none"
    /\ \A w \in RunsOf(i) : messages[i] # "none"

AllBegun == \A i \in Imports : BegunOf(i)

\* The account of an entry in the ledger is in the catalog, and so is that of a row which
\* was looked up as having one.
EntriesHaveAccounts ==
    \A i \in Imports : \A r \in Csv!Rows(i) : posted[i][r] # 0 => ~NewAccount(i, r)

AccountsFound ==
    \A w \in InRow :
        runs[w].row.found = "post" /\ ~runs[w].row.account =>
            ~NewAccount(runs[w].import, runs[w].row.number)

PreviewInv ==
    /\ RowsTyped
    /\ AccountsTyped
    /\ AllBegun
    /\ EntriesHaveAccounts
    /\ AccountsFound
    /\ LookupsStand
    /\ Tracked

\* No step changes the names of the catalog.
LEMMA RowsKept ==
    ASSUME RowsTyped, files' = files, DOMAIN accounts' = DOMAIN accounts,
           DOMAIN categories' = DOMAIN categories
    PROVE  RowsTyped'
  BY FilesKept DEF RowsTyped, RowType

\* The catalog and the ledger rest, and so does what is read of them.
LEMMA CatalogKept ==
    ASSUME files' = files, accounts' = accounts, categories' = categories, posted' = posted
    PROVE  \A i : /\ NoRepeats(i)' = NoRepeats(i)
                  /\ \A r : /\ NewAccount(i, r)' = NewAccount(i, r)
                            /\ NewCategory(i, r)' = NewCategory(i, r)
                            /\ Welcome(i, r)' = Welcome(i, r)
                            /\ \A q : GoesWith(i, q, r)' = GoesWith(i, q, r)
  <1>1. \A i : \A r : /\ NewAccount(i, r)' = NewAccount(i, r)
                      /\ NewCategory(i, r)' = NewCategory(i, r)
                      /\ Csv!Acceptable(Csv!Row(i, r))' = Csv!Acceptable(Csv!Row(i, r))
                      /\ Csv!InLedger(i, r)' = Csv!InLedger(i, r)
    <2> SUFFICES ASSUME NEW i, NEW r
                 PROVE  /\ NewAccount(i, r)' = NewAccount(i, r)
                        /\ NewCategory(i, r)' = NewCategory(i, r)
                        /\ Csv!Acceptable(Csv!Row(i, r))' = Csv!Acceptable(Csv!Row(i, r))
                        /\ Csv!InLedger(i, r)' = Csv!InLedger(i, r)
      OBVIOUS
    <2>1. Csv!Row(i, r)' = Csv!Row(i, r) /\ Csv!InLedger(i, r)' = Csv!InLedger(i, r)
      BY FilesKept, LedgerKept
    <2>2. NewAccount(i, r)' = NewAccount(i, r) /\ NewCategory(i, r)' = NewCategory(i, r)
      BY <2>1, Zenon DEF NewAccount, NewCategory
    <2>3. Csv!Acceptable(Csv!Row(i, r))' = Csv!Acceptable(Csv!Row(i, r))
      BY <2>1, Zenon DEF Csv!Acceptable, Csv!Kind
    <2> QED BY <2>1, <2>2, <2>3
  <1>2. \A i : NoRepeats(i)' = NoRepeats(i)
    BY FilesKept DEF NoRepeats, Csv!SameEntry
  <1>3. \A i : \A r : Welcome(i, r)' = Welcome(i, r)
    BY <1>1 DEF Welcome
  <1>4. \A i : \A r, q : GoesWith(i, q, r)' = GoesWith(i, q, r)
    BY <1>1, FilesKept DEF GoesWith, Csv!Kind
  <1> QED BY <1>1, <1>2, <1>3, <1>4

\* Outcomes say which rows are left.
LEMMA RestKept ==
    ASSUME files' = files, NEW i, outcomes'[i] = outcomes[i]
    PROVE  Rest(i)' = Rest(i)
  BY FilesKept DEF Rest

\* While the catalog and the ledger rest, no row is opened and no import is previewed,
\* what was foretold stays foretold.
LEMMA ForetoldRests ==
    ASSUME PreviewInv, files' = files, accounts' = accounts, categories' = categories,
           posted' = posted, outcomes' = outcomes,
           \A i \in Imports : /\ records'[i].status # "none" => records[i].status # "none"
                              /\ messages[i] # "none" => messages'[i] # "none"
                              /\ seen'[i].foretold = seen[i].foretold
                              /\ seen'[i].disturbed = seen[i].disturbed
                              /\ seen'[i].overlapped = seen[i].overlapped
                              /\ seen[i].erred => seen'[i].erred,
           \A w \in Runners : runs'[w] # None =>
              /\ runs'[w].import \in Imports /\ messages'[runs'[w].import] # "none"
              /\ runs'[w].row # None => /\ runs[w] # None /\ runs[w].row # None
                                        /\ runs'[w] = runs[w]
    PROVE  PreviewInv'
  <1>1. /\ RowsTyped /\ AccountsTyped /\ AllBegun /\ EntriesHaveAccounts /\ AccountsFound
        /\ LookupsStand /\ Tracked
    BY DEF PreviewInv
  <1>2. RowsTyped' /\ AccountsTyped'
    BY <1>1, RowsKept DEF AccountsTyped
  <1>3. AllBegun'
    BY <1>1, FilesKept DEF AllBegun, BegunOf, RunsOf
  <1>4. EntriesHaveAccounts'
    BY <1>1, FilesKept DEF EntriesHaveAccounts, NewAccount
  <1>5. InRow' \subseteq InRow
        /\ \A w \in InRow' : runs'[w] = runs[w] /\ runs[w].import \in Imports
    BY DEF InRow
  <1>6. AccountsFound'
    BY <1>1, <1>5, CatalogKept DEF AccountsFound, NewAccount, Csv!Row
  <1>7. LookupsStand'
    <2> SUFFICES ASSUME NEW w \in InRow' PROVE LookupStands(w)'
      BY DEF LookupsStand
    <2>1. LookupStands(w) /\ runs'[w] = runs[w] /\ runs[w].import \in Imports
      BY <1>1, <1>5 DEF LookupsStand
    <2>2. \A i, r : Welcome(i, r)' = Welcome(i, r) /\ NewAccount(i, r)' = NewAccount(i, r)
                   /\ NewCategory(i, r)' = NewCategory(i, r)
      BY CatalogKept
    <2>3. seen'[runs[w].import].disturbed = seen[runs[w].import].disturbed
      BY <2>1
    <2> QED BY <2>1, <2>2, <2>3 DEF LookupStands
  <1>8. ASSUME NEW i \in Imports PROVE OnTrack(i)'
    <2>1. OnTrack(i)
      BY <1>1 DEF Tracked
    <2>2. Rest(i)' = Rest(i)
      BY RestKept
    <2>3. Foretold(i) => Foretold(i)'
      <3>1. /\ Csv!ToImport(i)' = Csv!ToImport(i)
            /\ \A r : /\ Welcome(i, r)' = Welcome(i, r)
                     /\ \A q : GoesWith(i, q, r)' = GoesWith(i, q, r)
        BY CatalogKept, FilesKept, Zenon
      <3>2. seen'[i].foretold = seen[i].foretold
        OBVIOUS
      <3>3. \A r : Promising(i, r)' = Promising(i, r)
        BY <2>2, <3>1, <3>2 DEF Promising
      <3> QED BY <3>1, <3>2, <3>3 DEF Foretold
    <2> QED BY <2>1, <2>3, CatalogKept DEF OnTrack
  <1> QED BY <1>2, <1>3, <1>4, <1>6, <1>7, <1>8 DEF PreviewInv, Tracked

-----------------------------------------------------------------------------
(* CSV imports: what the preview finds, row after row.                        *)

\* From zero upwards, each number by the one before it.
LEMMA Upwards ==
    ASSUME NEW N \in Nat, NEW S, 0 \in S, \A n \in 1 .. N : n - 1 \in S => n \in S
    PROVE  \A n \in 0 .. N : n \in S
  <1> SUFFICES ASSUME NEW k \in 0 .. N, k \notin S
               PROVE  FALSE
    OBVIOUS
  <1> DEFINE Missing == {n \in 0 .. N : n \notin S}
  <1>1. /\ IsFiniteSet(Missing) /\ Missing # {} /\ Missing \subseteq Int
    <2>1. IsFiniteSet(0 .. N)
      BY FS_Interval
    <2>2. Missing \subseteq 0 .. N
      OBVIOUS
    <2>3. IsFiniteSet(Missing)
      BY <2>1, <2>2, FS_Subset, Zenon
    <2> QED BY <2>2, <2>3
  <1>2. PICK least \in Missing : \A n \in Missing : least <= n
    <2> HIDE DEF Missing
    <2> QED BY <1>1, Bounds
  <1>3. least \in 1 .. N /\ least - 1 \in 0 .. N /\ least - 1 \notin Missing
    BY <1>2
  <1> QED BY <1>2, <1>3

\* What the rows up to the last one propose is defined.
LEMMA AfterRows ==
    ASSUME ImportTypes, NEW i \in Imports
    PROVE  LET after == Csv!After(i)
           IN  /\ after[0] = Csv!NoProposal
               /\ \A n \in 1 .. Len(files[i].rows) :
                     after[n] = IF n \in Csv!ToImport(i) THEN Csv!Proposed(after[n - 1], i, n)
                                ELSE after[n - 1]
  <1> DEFINE N == Len(files[i].rows)
             Step(before, n) == IF n \in Csv!ToImport(i) THEN Csv!Proposed(before, i, n)
                                ELSE before
             Upto(f, m) == /\ f[0] = Csv!NoProposal
                           /\ \A n \in 1 .. m : f[n] = Step(f[n - 1], n)
             S == {m \in 0 .. N : \E f : Upto(f, m)}
  <1>1. N \in Nat
    BY RowsNumbered
  <1>2. 0 \in S
    <2>1. Upto([n \in 0 .. N |-> Csv!NoProposal], 0)
      BY <1>1
    <2> QED BY <1>1, <2>1
  <1>3. ASSUME NEW m \in 1 .. N, m - 1 \in S PROVE m \in S
    <2>1. PICK f : Upto(f, m - 1)
      BY <1>3
    <2> DEFINE g == [n \in 0 .. N |-> IF n = m THEN Step(f[m - 1], m) ELSE f[n]]
    <2> HIDE DEF Step
    <2>2. g[0] = Csv!NoProposal
      BY <1>1, <2>1
    <2>3. ASSUME NEW n \in 1 .. m PROVE g[n] = Step(g[n - 1], n)
      <3>1. g[n - 1] = f[n - 1]
        BY <1>1
      <3>2. CASE n = m
        BY <1>1, <3>1, <3>2
      <3>3. CASE n # m
        <4>1. g[n] = f[n] /\ n \in 1 .. m - 1
          BY <1>1, <3>3
        <4> QED BY <2>1, <3>1, <4>1
      <3> QED BY <3>2, <3>3
    <2> HIDE DEF g
    <2> QED BY <2>2, <2>3
  <1>4. N \in S
    <2> HIDE DEF S, N
    <2>1. \A m \in 1 .. N : m - 1 \in S => m \in S
      BY <1>3
    <2>2. \A n \in 0 .. N : n \in S
      BY <1>1, <1>2, <2>1, Upwards, Zenon
    <2> QED BY <1>1, <2>2
  <1>5. PICK f : Upto(f, N)
    BY <1>4
  <1> DEFINE h == [n \in 0 .. N |-> f[n]]
  <1>6. h = [n \in 0 .. N |-> IF n = 0 THEN Csv!NoProposal
                              ELSE IF n \in Csv!ToImport(i) THEN Csv!Proposed(h[n - 1], i, n)
                              ELSE h[n - 1]]
    <2>1. ASSUME NEW n \in 0 .. N
          PROVE  f[n] = IF n = 0 THEN Csv!NoProposal
                        ELSE IF n \in Csv!ToImport(i) THEN Csv!Proposed(h[n - 1], i, n)
                        ELSE h[n - 1]
      <3>1. CASE n = 0
        BY <1>5, <3>1
      <3>2. CASE n # 0
        <4>1. n \in 1 .. N /\ h[n - 1] = f[n - 1]
          BY <1>1, <3>2
        <4> QED BY <1>5, <3>2, <4>1
      <3> QED BY <3>1, <3>2
    <2> QED BY <2>1
  <1>7. Csv!After(i) = [n \in 0 .. N |-> IF n = 0 THEN Csv!NoProposal
                              ELSE IF n \in Csv!ToImport(i)
                                   THEN Csv!Proposed(Csv!After(i)[n - 1], i, n)
                              ELSE Csv!After(i)[n - 1]]
    <2> HIDE DEF h
    <2> QED BY <1>6 DEF Csv!After
  <1> HIDE DEF h
  <1> DEFINE after == Csv!After(i)
  <1> HIDE DEF after
  <1>8. \A n \in 0 .. N : after[n] = IF n = 0 THEN Csv!NoProposal
                              ELSE IF n \in Csv!ToImport(i)
                                   THEN Csv!Proposed(after[n - 1], i, n)
                              ELSE after[n - 1]
    BY <1>7, Zenon DEF after
  <1>9. after[0] = Csv!NoProposal
    BY <1>1, <1>8
  <1>10. ASSUME NEW n \in 1 .. N
         PROVE  after[n] = IF n \in Csv!ToImport(i) THEN Csv!Proposed(after[n - 1], i, n)
                           ELSE after[n - 1]
    BY <1>1, <1>8
  <1> QED BY <1>9, <1>10 DEF after

\* What the first rows propose: currencies and kinds for names of the catalog.
ProposalOf(i) ==
    [currency : [DOMAIN accounts -> {None} \cup {Csv!Row(i, r).currency : r \in Csv!Rows(i)}],
     kind : [DOMAIN categories -> {None, "income", "expense"}],
     importable : SUBSET Csv!ToImport(i), duplicate : SUBSET Csv!ToImport(i)]

\* The parts of a row.
LEMMA RowParts ==
    ASSUME RowsTyped, NEW i \in Imports, NEW r \in Csv!Rows(i)
    PROVE  LET row == Csv!Row(i, r)
           IN  /\ row.account \in DOMAIN accounts /\ row.currency # None
               /\ row.category \in DOMAIN categories \cup {None}
               /\ Csv!Kind(row) \in {"income", "expense"} /\ Csv!Kind(row) # None
  <1> DEFINE row == Csv!Row(i, r)
  <1>1. row \in RowType(row) /\ row.currency # None
    BY DEF RowsTyped
  <1> HIDE DEF row
  <1>2. row.account \in DOMAIN accounts /\ row.category \in DOMAIN categories \cup {None}
    BY <1>1 DEF RowType
  <1>3. Csv!Kind(row) \in {"income", "expense"} /\ None \notin {"income", "expense"}
    BY ComponentsAssumption DEF Csv!Kind
  <1> QED BY <1>1, <1>2, <1>3 DEF row

\* Equal entries are of one account.
LEMMA EntryAccount ==
    ASSUME RowsTyped, NEW i \in Imports, NEW j \in Imports, NEW r \in Csv!Rows(i),
           NEW q \in Csv!Rows(j), Csv!SameEntry(Csv!Row(j, q), Csv!Row(i, r))
    PROVE  Csv!Row(j, q).account = Csv!Row(i, r).account
  <1> DEFINE row == Csv!Row(i, r)
             other == Csv!Row(j, q)
  <1>1. row \in RowType(row) /\ other \in RowType(other)
    BY DEF RowsTyped
  <1>2. [other EXCEPT !.category = None] = [row EXCEPT !.category = None]
    BY DEF Csv!SameEntry
  <1> HIDE DEF row, other
  <1>3. /\ [other EXCEPT !.category = None].account = other.account
        /\ [row EXCEPT !.category = None].account = row.account
    BY <1>1 DEF RowType
  <1>4. other.account = row.account
    BY <1>2, <1>3
  <1> QED BY <1>4 DEF row, other

\* A row that agrees brings its currency and kind, where the catalog has none, and is
\* importable or a duplicate; any other changes nothing.
Proposes(i, r, before, after) ==
    /\ after \in ProposalOf(i)
    /\ ~Csv!Agrees(before, Csv!Row(i, r)) => after = before
    /\ Csv!Agrees(before, Csv!Row(i, r)) =>
          /\ after.importable = IF Csv!InLedger(i, r) THEN before.importable
                                ELSE before.importable \cup {r}
          /\ after.duplicate = IF Csv!InLedger(i, r) THEN before.duplicate \cup {r}
                               ELSE before.duplicate
          /\ \A n \in DOMAIN accounts :
                after.currency[n] = IF n = Csv!Row(i, r).account /\ NewAccount(i, r)
                                    THEN Csv!Row(i, r).currency ELSE before.currency[n]
          /\ \A n \in DOMAIN categories :
                after.kind[n] = IF n = Csv!Row(i, r).category /\ NewCategory(i, r)
                                THEN Csv!Kind(Csv!Row(i, r)) ELSE before.kind[n]

\* The parts of what a row proposes.
LEMMA ProposedParts ==
    ASSUME RowsTyped, NEW i \in Imports, NEW r \in Csv!ToImport(i),
           NEW before \in ProposalOf(i)
    PROVE  Proposes(i, r, before, Csv!Proposed(before, i, r))
  <1> DEFINE row == Csv!Row(i, r)
             after == Csv!Proposed(before, i, r)
             kind == IF row.category = None THEN before.kind
                     ELSE [before.kind EXCEPT ![row.category] =
                              IF categories[row.category] = <<>> THEN Csv!Kind(row) ELSE @]
             currency == [before.currency EXCEPT ![row.account] =
                             IF accounts[row.account] = <<>> THEN row.currency ELSE @]
             importable == IF Csv!InLedger(i, r) THEN before.importable
                           ELSE before.importable \cup {r}
             duplicate == IF Csv!InLedger(i, r) THEN before.duplicate \cup {r}
                          ELSE before.duplicate
             Currencies == {None} \cup {Csv!Row(i, q).currency : q \in Csv!Rows(i)}
  <1>1. r \in Csv!Rows(i)
    BY DEF Csv!ToImport
  <1>2. /\ row.account \in DOMAIN accounts
        /\ row.category \in DOMAIN categories \cup {None}
        /\ Csv!Kind(row) \in {"income", "expense"}
        /\ row.currency \in Currencies
    BY <1>1, RowParts
  <1>3. /\ before.currency \in [DOMAIN accounts -> Currencies]
        /\ before.kind \in [DOMAIN categories -> {None, "income", "expense"}]
        /\ importable \subseteq Csv!ToImport(i) /\ duplicate \subseteq Csv!ToImport(i)
    BY DEF ProposalOf
  <1>4. Csv!Agrees(before, row) =>
           after = [before EXCEPT !.kind = kind, !.currency = currency,
                                  !.importable = importable, !.duplicate = duplicate]
    <2> SUFFICES ASSUME Csv!Agrees(before, row)
                 PROVE  after = [before EXCEPT !.kind = kind, !.currency = currency,
                                  !.importable = importable, !.duplicate = duplicate]
      OBVIOUS
    <2> QED BY DEF Csv!Proposed
  <1>5. ~Csv!Agrees(before, row) => after = before
    BY Zenon DEF Csv!Proposed
  <1> HIDE DEF after, Currencies, importable, duplicate
  <1>6. /\ currency \in [DOMAIN accounts -> Currencies]
        /\ \A n \in DOMAIN accounts : currency[n] = IF n = row.account /\ NewAccount(i, r)
                                                    THEN row.currency ELSE before.currency[n]
    <2> HIDE DEF row
    <2>1. NewAccount(i, r) <=> accounts[row.account] = <<>>
      BY DEF NewAccount, row
    <2> QED BY <1>2, <1>3, <2>1
  <1>7. /\ kind \in [DOMAIN categories -> {None, "income", "expense"}]
        /\ \A n \in DOMAIN categories : kind[n] = IF n = row.category /\ NewCategory(i, r)
                                                  THEN Csv!Kind(row) ELSE before.kind[n]
    <2>1. NewCategory(i, r) <=> row.category # None /\ categories[row.category] = <<>>
      BY DEF NewCategory
    <2> HIDE DEF row
    <2>2. CASE row.category = None
      BY <1>3, <2>1, <2>2
    <2>3. CASE row.category # None
      BY <1>2, <1>3, <2>1, <2>3
    <2> QED BY <2>2, <2>3
  <1> HIDE DEF currency, kind
  <1>8. Csv!Agrees(before, row) =>
           /\ after \in ProposalOf(i) /\ after.currency = currency /\ after.kind = kind
           /\ after.importable = importable /\ after.duplicate = duplicate
    BY <1>3, <1>4, <1>6, <1>7 DEF ProposalOf, Currencies
  <1>9. after \in ProposalOf(i)
    BY <1>5, <1>8
  <1>10. Csv!Agrees(before, row) =>
            after.importable = importable /\ after.duplicate = duplicate
    BY <1>8
  <1> QED BY <1>5, <1>6, <1>7, <1>8, <1>9, <1>10, Zenon
          DEF Proposes, after, importable, duplicate

\* The rows up to n that agree with the catalog and with what those before them propose.
Agreeing(i, n) ==
    {r \in Csv!ToImport(i) : r <= n /\ Csv!Agrees(Csv!After(i)[r - 1], Csv!Row(i, r))}

\* A currency or a kind is proposed because a row that agrees needs it, and by each.
ProposalSound(i, n) ==
    LET proposal == Csv!After(i)[n]
    IN  /\ proposal \in ProposalOf(i)
        /\ proposal.importable = {r \in Agreeing(i, n) : ~Csv!InLedger(i, r)}
        /\ proposal.duplicate = {r \in Agreeing(i, n) : Csv!InLedger(i, r)}
        /\ \A q \in Agreeing(i, n) :
              NewAccount(i, q) =>
                 proposal.currency[Csv!Row(i, q).account] = Csv!Row(i, q).currency
        /\ \A name \in DOMAIN accounts :
              proposal.currency[name] # None =>
                 \E q \in Agreeing(i, n) : Csv!Row(i, q).account = name /\ NewAccount(i, q)
        /\ \A q \in Agreeing(i, n) :
              NewCategory(i, q) =>
                 proposal.kind[Csv!Row(i, q).category] = Csv!Kind(Csv!Row(i, q))
        /\ \A name \in DOMAIN categories :
              proposal.kind[name] # None =>
                 \E q \in Agreeing(i, n) : Csv!Row(i, q).category = name /\ NewCategory(i, q)

\* A row keeps what is proposed sound.
LEMMA ProposalGrows ==
    ASSUME ImportTypes, RowsTyped, NEW i \in Imports, NEW n \in 1 .. Len(files[i].rows),
           ProposalSound(i, n - 1)
    PROVE  ProposalSound(i, n)
  <1> DEFINE before == Csv!After(i)[n - 1]
             after == Csv!After(i)[n]
             row == Csv!Row(i, n)
             Old == Agreeing(i, n - 1)
             New == Agreeing(i, n)
  <1>1. Csv!ToImport(i) \subseteq Csv!Rows(i) /\ Csv!Rows(i) = 1 .. Len(files[i].rows)
        /\ Len(files[i].rows) \in Nat
    BY RowsNumbered DEF Csv!ToImport
  <1>2. after = IF n \in Csv!ToImport(i) THEN Csv!Proposed(before, i, n) ELSE before
    BY AfterRows
  <1>3. /\ before \in ProposalOf(i)
        /\ before.importable = {r \in Old : ~Csv!InLedger(i, r)}
        /\ before.duplicate = {r \in Old : Csv!InLedger(i, r)}
        /\ \A q \in Old : NewAccount(i, q) =>
              before.currency[Csv!Row(i, q).account] = Csv!Row(i, q).currency
        /\ \A name \in DOMAIN accounts : before.currency[name] # None =>
              \E q \in Old : Csv!Row(i, q).account = name /\ NewAccount(i, q)
        /\ \A q \in Old : NewCategory(i, q) =>
              before.kind[Csv!Row(i, q).category] = Csv!Kind(Csv!Row(i, q))
        /\ \A name \in DOMAIN categories : before.kind[name] # None =>
              \E q \in Old : Csv!Row(i, q).category = name /\ NewCategory(i, q)
    BY Zenon DEF ProposalSound
  <1>4. CASE n \in Csv!ToImport(i) /\ Csv!Agrees(before, row)
    <2>1. New = Old \cup {n}
      BY <1>1, <1>4 DEF Agreeing
    <2>2. /\ after \in ProposalOf(i)
          /\ after.importable = IF Csv!InLedger(i, n) THEN before.importable
                                ELSE before.importable \cup {n}
          /\ after.duplicate = IF Csv!InLedger(i, n) THEN before.duplicate \cup {n}
                               ELSE before.duplicate
          /\ \A name \in DOMAIN accounts :
                after.currency[name] = IF name = row.account /\ NewAccount(i, n)
                                       THEN row.currency ELSE before.currency[name]
          /\ \A name \in DOMAIN categories :
                after.kind[name] = IF name = row.category /\ NewCategory(i, n)
                                   THEN Csv!Kind(row) ELSE before.kind[name]
      <3>1. Proposes(i, n, before, after)
        BY <1>2, <1>3, <1>4, ProposedParts
      <3> QED BY <1>4, <3>1, Zenon DEF Proposes
    <2>3. /\ before.currency[row.account] \in {None, row.currency}
          /\ row.category = None \/ before.kind[row.category] \in {None, Csv!Kind(row)}
      BY <1>4 DEF Csv!Agrees
    <2>4. \A q \in New : q \in Csv!Rows(i)
      BY <1>1 DEF Agreeing
    <2>5. \A q \in Csv!Rows(i) :
             /\ Csv!Row(i, q).account \in DOMAIN accounts /\ Csv!Row(i, q).currency # None
             /\ Csv!Row(i, q).category \in DOMAIN categories \cup {None}
             /\ Csv!Kind(Csv!Row(i, q)) # None
      BY RowParts
    <2>6. /\ \A q \in Csv!Rows(i) :
                NewAccount(i, q) <=> accounts[Csv!Row(i, q).account] = <<>>
          /\ \A q \in Csv!Rows(i) :
                NewCategory(i, q) <=> /\ Csv!Row(i, q).category # None
                                      /\ categories[Csv!Row(i, q).category] = <<>>
      BY DEF NewAccount, NewCategory
    <2>7. n \in Csv!Rows(i) /\ n \in New
      BY <1>1, <1>4, <2>1
    <2> HIDE DEF before, after, Old, New
    <2>8. /\ after.importable = {r \in New : ~Csv!InLedger(i, r)}
          /\ after.duplicate = {r \in New : Csv!InLedger(i, r)}
      BY <1>3, <2>1, <2>2
    <2>9. ASSUME NEW q \in New, NewAccount(i, q)
          PROVE  after.currency[Csv!Row(i, q).account] = Csv!Row(i, q).currency
      <3>1. CASE Csv!Row(i, q).account = row.account
        <4>1. NewAccount(i, n)
          BY <2>4, <2>6, <2>7, <2>9, <3>1
        <4>2. q = n \/ Csv!Row(i, q).currency = row.currency
          BY <1>3, <2>1, <2>3, <2>4, <2>5, <2>9, <3>1
        <4> QED BY <2>2, <2>5, <2>7, <3>1, <4>1, <4>2
      <3>2. CASE Csv!Row(i, q).account # row.account
        <4>1. q \in Old
          BY <2>1, <3>2
        <4> QED BY <1>3, <2>2, <2>4, <2>5, <2>9, <3>2, <4>1
      <3> QED BY <3>1, <3>2
    <2>10. ASSUME NEW name \in DOMAIN accounts, after.currency[name] # None
           PROVE  \E q \in New : Csv!Row(i, q).account = name /\ NewAccount(i, q)
      <3>1. CASE name = row.account /\ NewAccount(i, n)
        BY <2>7, <3>1
      <3>2. CASE ~(name = row.account /\ NewAccount(i, n))
        <4>1. before.currency[name] # None
          BY <2>2, <2>10, <3>2
        <4> QED BY <1>3, <2>1, <4>1
      <3> QED BY <3>1, <3>2
    <2>11. ASSUME NEW q \in New, NewCategory(i, q)
           PROVE  after.kind[Csv!Row(i, q).category] = Csv!Kind(Csv!Row(i, q))
      <3>1. Csv!Row(i, q).category \in DOMAIN categories
        BY <2>4, <2>5, <2>6, <2>11
      <3>2. CASE Csv!Row(i, q).category = row.category
        <4>1. NewCategory(i, n)
          BY <2>4, <2>6, <2>7, <2>11, <3>2
        <4>2. q = n \/ Csv!Kind(Csv!Row(i, q)) = Csv!Kind(row)
          <5> SUFFICES ASSUME q # n
                       PROVE  Csv!Kind(Csv!Row(i, q)) = Csv!Kind(row)
            OBVIOUS
          <5>1. q \in Old /\ row.category # None /\ Csv!Kind(Csv!Row(i, q)) # None
            BY <2>1, <2>4, <2>5, <2>6, <2>7, <4>1
          <5>2. before.kind[row.category] = Csv!Kind(Csv!Row(i, q))
            BY <1>3, <2>11, <3>2, <5>1
          <5> QED BY <2>3, <5>1, <5>2
        <4> QED BY <2>2, <3>1, <3>2, <4>1, <4>2
      <3>3. CASE Csv!Row(i, q).category # row.category
        <4>1. q \in Old
          BY <2>1, <3>3
        <4> QED BY <1>3, <2>2, <2>11, <3>1, <3>3, <4>1
      <3> QED BY <3>2, <3>3
    <2>12. ASSUME NEW name \in DOMAIN categories, after.kind[name] # None
           PROVE  \E q \in New : Csv!Row(i, q).category = name /\ NewCategory(i, q)
      <3>1. CASE name = row.category /\ NewCategory(i, n)
        BY <2>7, <3>1
      <3>2. CASE ~(name = row.category /\ NewCategory(i, n))
        <4>1. before.kind[name] # None
          BY <2>2, <2>12, <3>2
        <4> QED BY <1>3, <2>1, <4>1
      <3> QED BY <3>1, <3>2
    <2> QED BY <2>2, <2>8, <2>9, <2>10, <2>11, <2>12, Zenon DEF ProposalSound, after, New
  <1>5. CASE ~(n \in Csv!ToImport(i) /\ Csv!Agrees(before, row))
    <2>1. New = Old
      BY <1>1, <1>5 DEF Agreeing
    <2>2. after = before
      BY <1>2, <1>3, <1>5, ProposedParts DEF Proposes
    <2> QED BY <1>3, <2>1, <2>2, Zenon DEF ProposalSound
  <1> QED BY <1>4, <1>5

\* What the rows propose is sound to the last.
LEMMA ProposalsSound ==
    ASSUME ImportTypes, RowsTyped, NEW i \in Imports
    PROVE  \A n \in 0 .. Len(files[i].rows) : ProposalSound(i, n)
  <1> DEFINE N == Len(files[i].rows)
             S == {n \in 0 .. N : ProposalSound(i, n)}
  <1>1. N \in Nat /\ Csv!Rows(i) = 1 .. N /\ Csv!ToImport(i) \subseteq Csv!Rows(i)
    BY RowsNumbered DEF Csv!ToImport
  <1>2. ProposalSound(i, 0)
    <2>1. Csv!After(i)[0] = Csv!NoProposal
      BY AfterRows
    <2>2. Agreeing(i, 0) = {}
      BY <1>1 DEF Agreeing
    <2>3. /\ Csv!NoProposal \in ProposalOf(i)
          /\ Csv!NoProposal.importable = {} /\ Csv!NoProposal.duplicate = {}
          /\ \A name \in DOMAIN accounts : Csv!NoProposal.currency[name] = None
          /\ \A name \in DOMAIN categories : Csv!NoProposal.kind[name] = None
      BY DEF Csv!NoProposal, ProposalOf
    <2> QED BY <2>1, <2>2, <2>3 DEF ProposalSound
  <1>3. \A n \in 1 .. N : n - 1 \in S => n \in S
    BY <1>1, ProposalGrows
  <1>4. 0 \in S
    BY <1>1, <1>2
  <1>5. \A n \in 0 .. N : n \in S
    <2> HIDE DEF S, N
    <2> QED BY <1>1, <1>3, <1>4, Upwards, Zenon
  <1> QED BY <1>5

\* An entry of the ledger is not the first of its account.
LEMMA EntryHasAccount ==
    ASSUME ImportTypes, RowsTyped, EntriesHaveAccounts, NEW i \in Imports,
           NEW r \in Csv!Rows(i), Csv!InLedger(i, r)
    PROVE  ~NewAccount(i, r)
  <1>1. PICK j \in Imports : \E q \in Csv!Rows(j) :
           posted[j][q] > 0 /\ Csv!SameEntry(Csv!Row(j, q), Csv!Row(i, r))
    BY DEF Csv!InLedger
  <1>2. PICK q \in Csv!Rows(j) :
           posted[j][q] > 0 /\ Csv!SameEntry(Csv!Row(j, q), Csv!Row(i, r))
    BY <1>1
  <1>3. Csv!Row(j, q).account = Csv!Row(i, r).account
    BY <1>2, EntryAccount
  <1>4. posted[j][q] # 0
    BY <1>2 DEF ImportTypes
  <1>5. ~NewAccount(j, q)
    BY <1>4 DEF EntriesHaveAccounts
  <1> QED BY <1>3, <1>5 DEF NewAccount

\* A preview that is not misjudged foretells the rows that fit.
LEMMA Foreseen ==
    ASSUME ImportTypes, RowsTyped, EntriesHaveAccounts, NEW i \in Imports,
           ~Csv!Misjudged(i)
    PROVE  LET told == Csv!Preview(i).importable
           IN  /\ NoRepeats(i)
               /\ told \subseteq Csv!ToImport(i)
               /\ \A r \in Csv!ToImport(i) :
                     r \in told <=> /\ Welcome(i, r)
                                    /\ \A q \in told : q < r => GoesWith(i, q, r)
  <1> DEFINE N == Len(files[i].rows)
             told == Csv!Preview(i).importable
             Before(r) == Csv!After(i)[r - 1]
  <1>1. N \in Nat /\ Csv!Rows(i) = 1 .. N /\ Csv!ToImport(i) \subseteq Csv!Rows(i)
    BY RowsNumbered DEF Csv!ToImport
  <1>2. /\ NoRepeats(i)
        /\ \A r \in Csv!Preview(i).duplicate : ~NewCategory(i, r)
    BY DEF Csv!Misjudged, NoRepeats, NewCategory
  <1>3. /\ told = {r \in Agreeing(i, N) : ~Csv!InLedger(i, r)}
        /\ Csv!Preview(i).duplicate = {r \in Agreeing(i, N) : Csv!InLedger(i, r)}
    <2>1. ProposalSound(i, N)
      BY <1>1, ProposalsSound
    <2> QED BY <2>1, Zenon DEF ProposalSound, Csv!Preview
  <1>4. told \subseteq Csv!ToImport(i)
    BY <1>3 DEF Agreeing
  <1> HIDE DEF told
  <1>5. ASSUME NEW r \in Csv!ToImport(i)
        PROVE  r \in told <=> Csv!Agrees(Before(r), Csv!Row(i, r)) /\ ~Csv!InLedger(i, r)
    BY <1>1, <1>3 DEF Agreeing
  <1>6. ASSUME NEW r \in Csv!ToImport(i)
        PROVE  Csv!Agrees(Before(r), Csv!Row(i, r)) <=>
                  /\ Csv!Acceptable(Csv!Row(i, r))
                  /\ \A q \in told : q < r => GoesWith(i, q, r)
    <2> DEFINE row == Csv!Row(i, r)
               Old == Agreeing(i, r - 1)
    <2>1. r \in Csv!Rows(i) /\ r - 1 \in 0 .. N
      BY <1>1
    <2>2. ProposalSound(i, r - 1)
      BY <2>1, ProposalsSound
    <2>3. /\ Before(r) \in ProposalOf(i)
          /\ \A q \in Old : NewAccount(i, q) =>
                Before(r).currency[Csv!Row(i, q).account] = Csv!Row(i, q).currency
          /\ \A name \in DOMAIN accounts : Before(r).currency[name] # None =>
                \E q \in Old : Csv!Row(i, q).account = name /\ NewAccount(i, q)
          /\ \A q \in Old : NewCategory(i, q) =>
                Before(r).kind[Csv!Row(i, q).category] = Csv!Kind(Csv!Row(i, q))
          /\ \A name \in DOMAIN categories : Before(r).kind[name] # None =>
                \E q \in Old : Csv!Row(i, q).category = name /\ NewCategory(i, q)
      BY <2>2, Zenon DEF ProposalSound
    <2>4. /\ Old \subseteq Csv!Rows(i) /\ Old \subseteq Agreeing(i, N)
          /\ \A q \in Old : q < r
          /\ \A q \in told : q < r => q \in Old
      BY <1>1, <1>3, <2>1 DEF Agreeing
    <2>5. \A q \in Old : q \in told \/ (Csv!InLedger(i, q) /\ q \in Csv!Preview(i).duplicate)
      BY <1>3, <2>4
    <2>6. \A q \in Csv!Rows(i) :
             /\ Csv!Row(i, q).account \in DOMAIN accounts /\ Csv!Row(i, q).currency # None
             /\ Csv!Row(i, q).category \in DOMAIN categories \cup {None}
             /\ Csv!Kind(Csv!Row(i, q)) # None
      BY RowParts
    <2>7. Csv!Agrees(Before(r), row) <=>
             /\ Csv!Acceptable(row)
             /\ Before(r).currency[row.account] \in {None, row.currency}
             /\ row.category = None \/ Before(r).kind[row.category] \in {None, Csv!Kind(row)}
      BY DEF Csv!Agrees
    <2> HIDE DEF Before, Old
    <2>8. Before(r).currency[row.account] \in {None, row.currency} <=>
             \A q \in told : q < r =>
                (NewAccount(i, r) /\ Csv!Row(i, q).account = row.account
                   => Csv!Row(i, q).currency = row.currency)
      <3>1. ASSUME Before(r).currency[row.account] \in {None, row.currency},
                   NEW q \in told, q < r,
                   NewAccount(i, r), Csv!Row(i, q).account = row.account
            PROVE  Csv!Row(i, q).currency = row.currency
        <4>1. q \in Old /\ NewAccount(i, q)
          BY <2>4, <3>1 DEF NewAccount
        <4> QED BY <2>3, <2>4, <2>6, <3>1, <4>1
      <3>2. ASSUME Before(r).currency[row.account] # None,
                   \A q \in told : q < r =>
                      (NewAccount(i, r) /\ Csv!Row(i, q).account = row.account
                         => Csv!Row(i, q).currency = row.currency)
            PROVE  Before(r).currency[row.account] = row.currency
        <4>1. PICK q \in Old : Csv!Row(i, q).account = row.account /\ NewAccount(i, q)
          BY <2>1, <2>3, <2>6, <3>2
        <4>2. q \in told
          BY <2>4, <2>5, <4>1, EntryHasAccount
        <4>3. NewAccount(i, r)
          BY <4>1 DEF NewAccount
        <4> QED BY <2>3, <2>4, <3>2, <4>1, <4>2, <4>3
      <3> QED BY <3>1, <3>2
    <2>9. row.category = None \/ Before(r).kind[row.category] \in {None, Csv!Kind(row)} <=>
             \A q \in told : q < r =>
                (NewCategory(i, r) /\ Csv!Row(i, q).category = row.category
                   => Csv!Kind(Csv!Row(i, q)) = Csv!Kind(row))
      <3>1. ASSUME row.category = None \/ Before(r).kind[row.category] \in {None, Csv!Kind(row)},
                   NEW q \in told, q < r,
                   NewCategory(i, r), Csv!Row(i, q).category = row.category
            PROVE  Csv!Kind(Csv!Row(i, q)) = Csv!Kind(row)
        <4>1. q \in Old /\ NewCategory(i, q) /\ row.category # None
          BY <2>4, <3>1 DEF NewCategory
        <4>2. Before(r).kind[row.category] = Csv!Kind(Csv!Row(i, q))
          BY <2>3, <3>1, <4>1
        <4> QED BY <2>4, <2>6, <3>1, <4>1, <4>2
      <3>2. ASSUME row.category # None, Before(r).kind[row.category] # None,
                   \A q \in told : q < r =>
                      (NewCategory(i, r) /\ Csv!Row(i, q).category = row.category
                         => Csv!Kind(Csv!Row(i, q)) = Csv!Kind(row))
            PROVE  Before(r).kind[row.category] = Csv!Kind(row)
        <4>1. PICK q \in Old : Csv!Row(i, q).category = row.category /\ NewCategory(i, q)
          BY <2>1, <2>3, <2>6, <3>2
        <4>2. q \in told
          BY <1>2, <2>5, <4>1
        <4>3. NewCategory(i, r)
          BY <4>1 DEF NewCategory
        <4> QED BY <2>3, <2>4, <3>2, <4>1, <4>2, <4>3
      <3> QED BY <3>1, <3>2
    <2>10. (\A q \in told : q < r => GoesWith(i, q, r)) <=>
              /\ \A q \in told : q < r =>
                    (NewAccount(i, r) /\ Csv!Row(i, q).account = row.account
                       => Csv!Row(i, q).currency = row.currency)
              /\ \A q \in told : q < r =>
                    (NewCategory(i, r) /\ Csv!Row(i, q).category = row.category
                       => Csv!Kind(Csv!Row(i, q)) = Csv!Kind(row))
      BY DEF GoesWith
    <2> QED BY <2>7, <2>8, <2>9, <2>10
  <1> QED BY <1>2, <1>4, <1>5, <1>6 DEF Welcome, told

-----------------------------------------------------------------------------
(* CSV imports: every step keeps the promise.                                 *)

\* At the start nothing has been promised.
LEMMA PromiseInit == Csv!Init => PreviewInv
  <1> SUFFICES ASSUME Csv!Init PROVE PreviewInv
    OBVIOUS
  <1>1. PICK s \in Situations :
           files = s.files /\ accounts = s.accounts /\ categories = s.categories
    BY DEF Csv!Init
  <1>2. /\ records = [i \in Imports |-> Csv!NoRecord]
        /\ outcomes = [i \in Imports |-> [r \in Csv!Rows(i) |-> "none"]]
        /\ posted = [i \in Imports |-> [r \in Csv!Rows(i) |-> 0]]
        /\ runs = [w \in Runners |-> None]
        /\ seen = [i \in Imports |-> [foretold |-> {}, disturbed |-> FALSE, erred |-> FALSE,
                                      overtaken |-> FALSE, overlapped |-> FALSE, begun |-> 0]]
    BY DEF Csv!Init
  <1>3. RowsTyped
    <2> SUFFICES ASSUME NEW i \in Imports, NEW r \in Csv!Rows(i)
                 PROVE  /\ Csv!Row(i, r) \in RowType(Csv!Row(i, r))
                        /\ Csv!Row(i, r).currency # None
      BY DEF RowsTyped
    <2>1. Csv!Row(i, r) \in Range(files[i].rows)
      BY DEF Csv!Row, Csv!Rows, Range
    <2> QED BY <1>1, <2>1, ComponentsAssumption DEF RowType
  <1>4. AccountsTyped
    BY <1>1, ComponentsAssumption DEF AccountsTyped
  <1>5. AllBegun /\ EntriesHaveAccounts
    BY <1>2 DEF AllBegun, BegunOf, RunsOf, EntriesHaveAccounts
  <1>6. AccountsFound /\ LookupsStand
    BY <1>2 DEF InRow, AccountsFound, LookupsStand
  <1>7. Tracked
    BY <1>2 DEF Tracked, OnTrack, Csv!NoRecord
  <1> QED BY <1>3, <1>4, <1>5, <1>6, <1>7 DEF PreviewInv

\* A preview promises what it foresees, of an import that nobody has run.
LEMMA PromiseMade ==
    ASSUME ImportInv, PreviewInv, NEW i \in Imports, Csv!PreviewCSVImport(i)
    PROVE  PreviewInv'
  <1>1. /\ ImportTypes /\ StatusFollows
        /\ RowsTyped /\ AccountsTyped /\ AllBegun /\ EntriesHaveAccounts /\ AccountsFound
        /\ LookupsStand /\ Tracked
    BY DEF ImportInv, PreviewInv
  <1> DEFINE told == Csv!Preview(i).importable
             misjudged == Csv!Misjudged(i)
  <1>2. /\ records[i].status = "none"
        /\ \A j \in Imports \ {i} : records'[j] = records[j]
        /\ files' = files /\ accounts' = accounts /\ categories' = categories
        /\ posted' = posted /\ outcomes' = outcomes
        /\ messages' = messages /\ runs' = runs
    BY DEF Csv!PreviewCSVImport, Csv!catalog
  <1>3. seen' = [seen EXCEPT ![i].foretold = told, ![i].disturbed = misjudged]
    BY DEF Csv!PreviewCSVImport
  <1> HIDE DEF told, misjudged
  <1>4. /\ seen'[i].foretold = told /\ seen'[i].disturbed = misjudged
        /\ seen'[i].overlapped = seen[i].overlapped
        /\ \A j \in Imports \ {i} : seen'[j] = seen[j]
    <2>1. seen[i] \in Past(i) /\ DOMAIN seen = Imports
      BY <1>1 DEF ImportTypes
    <2>2. /\ seen'[i] = [seen[i] EXCEPT !.foretold = told, !.disturbed = misjudged]
          /\ \A j \in Imports \ {i} : seen'[j] = seen[j]
      BY <1>3, <2>1
    <2> QED BY <2>1, <2>2 DEF Past
  <1>5. messages[i] = "none"
    BY <1>1, <1>2 DEF StatusFollows, Beyond
  <1>6. /\ ~seen[i].overlapped /\ RunsOf(i) = {}
        /\ \A r \in Csv!Rows(i) : outcomes[i][r] = "none"
    BY <1>1, <1>5 DEF AllBegun, BegunOf
  <1>7. RowsTyped' /\ AccountsTyped'
    BY <1>1, <1>2, RowsKept DEF AccountsTyped
  <1>8. AllBegun'
    <2> SUFFICES ASSUME NEW j \in Imports PROVE BegunOf(j)'
      BY DEF AllBegun
    <2>1. BegunOf(j) /\ RunsOf(j)' = RunsOf(j)
      BY <1>1, <1>2 DEF AllBegun, RunsOf
    <2> QED BY <1>2, <1>4, <1>6, <2>1, FilesKept DEF BegunOf
  <1>9. EntriesHaveAccounts' /\ InRow' = InRow
    BY <1>1, <1>2, FilesKept DEF EntriesHaveAccounts, NewAccount, InRow
  <1>10. AccountsFound'
    BY <1>1, <1>2, <1>9, CatalogKept DEF AccountsFound, NewAccount, Csv!Row
  <1>11. ASSUME NEW w \in InRow' PROVE LookupStands(w)'
    <2>1. runs[w].import \in Imports \ {i}
      BY <1>1, <1>6, <1>9, RunTyped DEF InRow, RunsOf
    <2>2. LookupStands(w)
      BY <1>1, <1>9 DEF LookupsStand
    <2>3. \A j, r : Welcome(j, r)' = Welcome(j, r) /\ NewAccount(j, r)' = NewAccount(j, r)
                   /\ NewCategory(j, r)' = NewCategory(j, r)
      BY <1>2, CatalogKept
    <2> QED BY <1>2, <1>4, <2>1, <2>2, <2>3 DEF LookupStands
  <1>12. ASSUME NEW j \in Imports PROVE OnTrack(j)'
    <2>1. OnTrack(j)
      BY <1>1 DEF Tracked
    <2>2. Rest(j)' = Rest(j)
      BY <1>2, RestKept
    <2>3. CASE j # i
      <3>1. Foretold(j) => Foretold(j)'
        BY <1>2, <1>4, <2>2, <2>3, CatalogKept, FilesKept DEF Foretold, Promising
      <3> QED BY <1>2, <1>4, <2>1, <2>3, <3>1, CatalogKept DEF OnTrack
    <2>4. CASE j = i
      <3> SUFFICES ASSUME ~misjudged PROVE NoRepeats(i)' /\ Foretold(i)'
        BY <1>4, <2>4 DEF OnTrack
      <3>1. /\ NoRepeats(i)
            /\ told \subseteq Csv!ToImport(i)
            /\ \A r \in Csv!ToImport(i) :
                  r \in told <=> /\ Welcome(i, r)
                                 /\ \A q \in told : q < r => GoesWith(i, q, r)
        BY <1>1, Foreseen, Zenon DEF told, misjudged
      <3>2. Rest(i) = Csv!ToImport(i) /\ \A r \in Csv!ToImport(i) : outcomes[i][r] = "none"
        BY <1>6 DEF Rest, Csv!ToImport
      <3>3. \A r \in Csv!ToImport(i) :
               Promising(i, r)' <=> /\ Welcome(i, r)
                                    /\ \A q \in told : q < r => GoesWith(i, q, r)
        BY <1>2, <1>4, <2>2, <2>4, <3>1, <3>2, CatalogKept DEF Promising
      <3> QED BY <1>2, <1>4, <3>1, <3>2, <3>3, CatalogKept, FilesKept DEF Foretold
    <2> QED BY <2>3, <2>4
  <1> QED BY <1>7, <1>8, <1>9, <1>10, <1>11, <1>12 DEF PreviewInv, LookupsStand, Tracked

\* A transaction looks up what stands, unless another is open beside it.
LEMMA PromiseLookedUp ==
    ASSUME ImportInv, PreviewInv, NEW w \in Runners, Csv!OpenRow(w)
    PROVE  PreviewInv'
  <1>1. /\ ImportTypes
        /\ RowsTyped /\ AccountsTyped /\ AllBegun /\ EntriesHaveAccounts /\ AccountsFound
        /\ LookupsStand /\ Tracked
    BY DEF ImportInv, PreviewInv
  <1>2. runs[w] # None /\ runs[w].pc = "rows" /\ runs[w].row = None
    BY Zenon DEF Csv!OpenRow
  <1>3. PICK i \in Imports : i = runs[w].import /\ runs[w] \in Run(i)
    BY <1>1, <1>2, RunTyped
  <1> DEFINE others == {v \in Runners \ {w} : runs[v] # None /\ runs[v].row # None}
             beside(j) == others # {} /\ (j = i \/ \E v \in others : runs[v].import = j)
  <1>4. PICK r \in runs[w].todo :
           /\ \A q \in runs[w].todo : r <= q
           /\ runs' = [runs EXCEPT ![w].row =
                 [number |-> r, found |-> Csv!Lookup(i, r),
                  account |-> /\ Csv!Lookup(i, r) = "post"
                              /\ accounts[Csv!Row(i, r).account] = <<>>,
                  category |-> /\ Csv!Lookup(i, r) = "post"
                               /\ Csv!Row(i, r).category # None
                               /\ categories[Csv!Row(i, r).category] = <<>>]]
           /\ seen' = [j \in Imports |->
                 IF beside(j) THEN [seen[j] EXCEPT !.overlapped = TRUE, !.disturbed = TRUE]
                 ELSE seen[j]]
    BY <1>3, Zenon DEF Csv!OpenRow
  <1>5. /\ files' = files /\ posted' = posted /\ outcomes' = outcomes /\ records' = records
        /\ messages' = messages /\ accounts' = accounts /\ categories' = categories
    BY Zenon DEF Csv!OpenRow, Csv!catalog
  <1>6. r \in Csv!Rows(i)
    BY <1>3 DEF Run
  <1> DEFINE row == [number |-> r, found |-> Csv!Lookup(i, r),
                     account |-> Csv!Lookup(i, r) = "post" /\ NewAccount(i, r),
                     category |-> Csv!Lookup(i, r) = "post" /\ NewCategory(i, r)]
             opened == [runs[w] EXCEPT !.row = row]
  <1>7. runs' = [runs EXCEPT ![w] = opened]
    BY <1>4, Zenon DEF NewAccount, NewCategory
  <1>8. /\ row.found = "post" => /\ Welcome(i, r)
                                 /\ row.account = NewAccount(i, r)
                                 /\ row.category = NewCategory(i, r)
        /\ row.found = "reject" => ~Welcome(i, r)
        /\ row.number = r
    <2>1. outcomes[i][r] \in {"none", "imported", "rejected"}
      BY <1>1, <1>6 DEF ImportTypes
    <2>2. /\ Csv!Lookup(i, r) = "post" => Welcome(i, r)
          /\ Csv!Lookup(i, r) = "reject" => ~Welcome(i, r)
      BY <2>1 DEF Csv!Lookup, Welcome
    <2>3. /\ NewAccount(i, r) \in BOOLEAN /\ NewCategory(i, r) \in BOOLEAN
      BY DEF NewAccount, NewCategory
    <2> QED BY <2>2, <2>3
  <1> HIDE DEF row
  <1>9. opened.import = i /\ opened.todo = runs[w].todo /\ opened.row = row
    BY <1>3 DEF Run
  <1> HIDE DEF opened
  <1>10. runs'[w] = opened /\ \A v \in Runners \ {w} : runs'[v] = runs[v]
    BY <1>1, <1>7 DEF ImportTypes
  <1> HIDE DEF beside
  <1>11. ASSUME NEW j \in Imports
         PROVE  /\ seen'[j].foretold = seen[j].foretold
                /\ seen'[j].erred = seen[j].erred
                /\ seen[j].disturbed => seen'[j].disturbed
                /\ beside(j) => seen'[j].disturbed
                /\ seen'[j].overlapped => beside(j) \/ seen[j].overlapped
    <2>1. seen[j] \in Past(j)
      BY <1>1 DEF ImportTypes
    <2>2. CASE beside(j)
      <3>1. seen'[j] = [seen[j] EXCEPT !.overlapped = TRUE, !.disturbed = TRUE]
        BY <1>4, <2>2, Zenon
      <3> QED BY <2>1, <2>2, <3>1 DEF Past
    <2>3. CASE ~beside(j)
      <3>1. seen'[j] = seen[j]
        BY <1>4, <2>3, Zenon
      <3> QED BY <2>1, <2>3, <3>1
    <2> QED BY <2>2, <2>3
  <1>12. \A v \in others : runs[v].import \in Imports /\ v \in RunsOf(runs[v].import)
    BY <1>1, RunTyped DEF RunsOf
  <1>13. \A j \in Imports : beside(j) => messages[j] # "none"
    <2> SUFFICES ASSUME NEW j \in Imports, beside(j) PROVE messages[j] # "none"
      OBVIOUS
    <2>1. \E v \in Runners : v \in RunsOf(j)
      BY <1>2, <1>3, <1>12 DEF beside, RunsOf
    <2> QED BY <1>1, <2>1 DEF AllBegun, BegunOf
  <1>14. RowsTyped' /\ AccountsTyped'
    BY <1>1, <1>5, RowsKept DEF AccountsTyped
  <1>15. AllBegun'
    <2> SUFFICES ASSUME NEW j \in Imports PROVE BegunOf(j)'
      BY DEF AllBegun
    <2>1. BegunOf(j) /\ RunsOf(j)' \subseteq RunsOf(j)
      BY <1>1, <1>2, <1>3, <1>9, <1>10 DEF AllBegun, RunsOf
    <2>2. seen'[j].overlapped => seen'[j].disturbed /\ messages[j] # "none"
      BY <1>11, <1>13, <2>1 DEF BegunOf
    <2> QED BY <1>5, <2>1, <2>2, FilesKept DEF BegunOf
  <1>16. EntriesHaveAccounts'
    BY <1>1, <1>5, FilesKept DEF EntriesHaveAccounts, NewAccount
  <1>17. InRow' \subseteq InRow \cup {w}
    BY <1>10 DEF InRow
  <1>18. AccountsFound'
    <2> SUFFICES ASSUME NEW v \in InRow', runs'[v].row.found = "post", ~runs'[v].row.account
                 PROVE  ~NewAccount(runs[v].import, runs[v].row.number)'
      BY DEF AccountsFound
    <2>1. CASE v = w
      <3>1. runs'[v].import = i /\ runs'[v].row.number = r /\ ~NewAccount(i, r)
        BY <1>8, <1>9, <1>10, <2>1
      <3> QED BY <1>5, <3>1 DEF NewAccount, Csv!Row
    <2>2. CASE v # w
      <3>1. v \in InRow /\ runs'[v] = runs[v]
        BY <1>10, <1>17, <2>2 DEF InRow
      <3> QED BY <1>1, <1>5, <3>1 DEF AccountsFound, NewAccount, Csv!Row
    <2> QED BY <2>1, <2>2
  <1>19. \A j, q : /\ Welcome(j, q)' = Welcome(j, q) /\ NewAccount(j, q)' = NewAccount(j, q)
                   /\ NewCategory(j, q)' = NewCategory(j, q)
                   /\ \A p : GoesWith(j, p, q)' = GoesWith(j, p, q)
    BY <1>5, CatalogKept
  <1>20. ASSUME NEW v \in InRow' PROVE LookupStands(v)'
    <2>1. CASE v = w
      BY <1>4, <1>5, <1>8, <1>9, <1>10, <1>19, <2>1, Zenon DEF LookupStands
    <2>2. CASE v # w
      <3>1. v \in others /\ runs'[v] = runs[v]
        BY <1>10, <1>17, <2>2 DEF InRow
      <3>2. beside(runs[v].import) /\ runs[v].import \in Imports
        BY <1>12, <3>1 DEF beside
      <3> QED BY <1>11, <3>1, <3>2 DEF LookupStands
    <2> QED BY <2>1, <2>2
  <1>21. ASSUME NEW j \in Imports PROVE OnTrack(j)'
    <2>1. OnTrack(j) /\ Rest(j)' = Rest(j)
      BY <1>1, <1>5, RestKept DEF Tracked
    <2>2. \A q : Promising(j, q)' = Promising(j, q)
      BY <1>11, <1>19, <2>1 DEF Promising
    <2>3. Foretold(j) => Foretold(j)'
      BY <1>5, <1>11, <2>2, FilesKept DEF Foretold
    <2>4. NoRepeats(j)' = NoRepeats(j)
      BY <1>5, CatalogKept
    <2> QED BY <1>5, <1>11, <2>1, <2>3, <2>4 DEF OnTrack
  <1> QED BY <1>14, <1>15, <1>16, <1>18, <1>20, <1>21 DEF PreviewInv, LookupsStand, Tracked

\* What is said of entries, accounts and beginnings, when the catalog only grows, entries
\* have accounts and outcomes are written by runs.
LEMMA CatalogMoves ==
    ASSUME PreviewInv, files' = files, messages' = messages,
           DOMAIN accounts' = DOMAIN accounts, DOMAIN categories' = DOMAIN categories,
           \A n \in DOMAIN accounts : accounts[n] # <<>> => accounts'[n] # <<>>,
           \A j \in Imports : \A q \in Csv!Rows(j) :
              /\ posted'[j][q] # 0 => posted[j][q] # 0 \/ ~NewAccount(j, q)'
              /\ outcomes'[j][q] # "none" => outcomes[j][q] # "none" \/ RunsOf(j) # {},
           \A j \in Imports : /\ seen'[j].overlapped = seen[j].overlapped
                              /\ seen[j].disturbed => seen'[j].disturbed,
           \A w \in Runners : runs'[w] # None =>
              runs[w] # None /\ runs'[w].import = runs[w].import,
           \A w \in InRow' : /\ w \in InRow /\ runs'[w] = runs[w]
                             /\ runs[w].import \in Imports
                             /\ runs[w].row.number \in Csv!Rows(runs[w].import)
    PROVE  RowsTyped' /\ AllBegun' /\ EntriesHaveAccounts' /\ AccountsFound'
  <1>1. RowsTyped /\ AllBegun /\ EntriesHaveAccounts /\ AccountsFound
    BY DEF PreviewInv
  <1>2. RowsTyped'
    BY <1>1, RowsKept
  <1>3. \A j \in Imports : \A q \in Csv!Rows(j) : Csv!Row(j, q).account \in DOMAIN accounts
    BY <1>1, RowParts
  <1>4. AllBegun'
    <2> SUFFICES ASSUME NEW j \in Imports PROVE BegunOf(j)'
      BY DEF AllBegun
    <2>1. BegunOf(j) /\ RunsOf(j)' \subseteq RunsOf(j)
      BY <1>1 DEF AllBegun, RunsOf
    <2>2. seen'[j].overlapped => seen'[j].disturbed /\ messages[j] # "none"
      BY <2>1 DEF BegunOf
    <2>3. \A q \in Csv!Rows(j) : outcomes'[j][q] # "none" => messages[j] # "none"
      BY <2>1 DEF BegunOf
    <2>4. \A w \in RunsOf(j)' : messages[j] # "none"
      BY <2>1 DEF BegunOf
    <2>5. Csv!Rows(j)' = Csv!Rows(j)
      BY FilesKept
    <2> QED BY <2>2, <2>3, <2>4, <2>5 DEF BegunOf
  <1>5. \A j \in Imports : \A q \in Csv!Rows(j) : ~NewAccount(j, q) => ~NewAccount(j, q)'
    BY <1>3, FilesKept DEF NewAccount
  <1>6. EntriesHaveAccounts'
    <2>1. \A j \in Imports : \A q \in Csv!Rows(j) : posted'[j][q] # 0 => ~NewAccount(j, q)'
      BY <1>1, <1>5 DEF EntriesHaveAccounts
    <2> QED BY <2>1, FilesKept DEF EntriesHaveAccounts
  <1>7. AccountsFound'
    <2> SUFFICES ASSUME NEW w \in InRow', runs'[w].row.found = "post", ~runs'[w].row.account
                 PROVE  ~NewAccount(runs[w].import, runs[w].row.number)'
      BY DEF AccountsFound
    <2>1. PICK j \in Imports, q \in Csv!Rows(runs[w].import) :
             j = runs[w].import /\ q = runs[w].row.number
      OBVIOUS
    <2>2. w \in InRow /\ runs'[w] = runs[w]
      OBVIOUS
    <2>3. ~NewAccount(j, q)
      BY <1>1, <2>1, <2>2 DEF AccountsFound
    <2>4. ~NewAccount(j, q)'
      BY <1>5, <2>1, <2>3
    <2> QED BY <2>1, <2>2, <2>4 DEF NewAccount, Csv!Row
  <1> QED BY <1>2, <1>4, <1>6, <1>7

\* A hidden account disturbs every import.
LEMMA PromiseHidden ==
    ASSUME ImportInv, PreviewInv, NEW name \in DOMAIN accounts, Csv!HideAccount(name)
    PROVE  PreviewInv'
  <1>1. ImportTypes /\ AccountsTyped
    BY DEF ImportInv, PreviewInv
  <1> DEFINE hidden == [accounts[name] EXCEPT ![1].hidden = TRUE]
  <1>2. /\ Len(accounts[name]) = 1
        /\ accounts' = [accounts EXCEPT ![name] = hidden]
        /\ seen' = Csv!Disturbed(Imports)
        /\ files' = files /\ records' = records /\ outcomes' = outcomes /\ posted' = posted
        /\ categories' = categories /\ messages' = messages /\ runs' = runs
    BY DEF Csv!HideAccount
  <1>3. (\E S : hidden \in Seq(S)) /\ hidden # <<>>
    <2>1. PICK S : accounts[name] \in Seq(S)
      BY <1>1 DEF AccountsTyped
    <2>2. DOMAIN accounts[name] = 1 .. 1
      BY <1>2, <2>1
    <2> DEFINE made == [accounts[name][1] EXCEPT !.hidden = TRUE]
    <2>3. hidden = [accounts[name] EXCEPT ![1] = made]
      OBVIOUS
    <2> HIDE DEF hidden, made
    <2>4. hidden \in [1 .. 1 -> {made}]
      <3>1. accounts[name] = [k \in 1 .. 1 |-> accounts[name][k]]
        BY <2>1, <2>2
      <3> QED BY <2>2, <2>3, <3>1
    <2>5. hidden \in Seq({made}) /\ hidden # <<>>
      <3>1. Len(<<>>) = 0 /\ DOMAIN hidden = 1 .. 1
        BY <2>4
      <3>2. hidden \in Seq({made})
        BY <2>4, SeqDef
      <3>3. Len(hidden) # 0
        BY <3>1, <3>2, LenProperties
      <3> QED BY <3>1, <3>2, <3>3, Zenon
    <2> QED BY <2>5
  <1> HIDE DEF hidden
  <1>4. /\ DOMAIN accounts' = DOMAIN accounts /\ accounts'[name] = hidden
        /\ \A n \in DOMAIN accounts \ {name} : accounts'[n] = accounts[n]
    BY <1>2
  <1>5. AccountsTyped'
    BY <1>1, <1>3, <1>4 DEF AccountsTyped
  <1>6. \A j \in Imports : /\ seen'[j].disturbed
                           /\ seen'[j].overlapped = seen[j].overlapped
    <2> SUFFICES ASSUME NEW j \in Imports
                 PROVE  seen'[j].disturbed /\ seen'[j].overlapped = seen[j].overlapped
      OBVIOUS
    <2>1. seen[j] \in Past(j) /\ seen'[j] = [seen[j] EXCEPT !.disturbed = TRUE]
      BY <1>1, <1>2 DEF ImportTypes, Csv!Disturbed
    <2> QED BY <2>1 DEF Past
  <1>7. InRow' = InRow /\ \A w \in InRow' : /\ runs[w].import \in Imports
                                            /\ runs[w].row.number \in Csv!Rows(runs[w].import)
    BY <1>2, RowAtWork DEF InRow
  <1>8. RowsTyped' /\ AllBegun' /\ EntriesHaveAccounts' /\ AccountsFound'
    BY <1>2, <1>3, <1>4, <1>6, <1>7, CatalogMoves
  <1>9. LookupsStand' /\ Tracked'
    BY <1>2, <1>6, <1>7 DEF LookupsStand, LookupStands, Tracked, OnTrack
  <1> QED BY <1>5, <1>8, <1>9 DEF PreviewInv

\* A sequence with one more item is a sequence, and not empty.
LEMMA Lengthened ==
    ASSUME NEW S, NEW s \in Seq(S), NEW x
    PROVE  Append(s, x) # <<>> /\ \E T : Append(s, x) \in Seq(T)
  <1>1. s \in Seq(S \cup {x})
    BY SeqMonotonic
  <1>2. Append(s, x) \in Seq(S \cup {x}) /\ Len(Append(s, x)) = Len(s) + 1
    BY <1>1, AppendProperties
  <1>3. Len(Append(s, x)) # 0
    BY <1>1, <1>2, LenProperties
  <1>4. Len(<<>>) = 0
    BY EmptySeq
  <1>5. Append(s, x) # <<>>
    BY <1>3, <1>4, Zenon
  <1> QED BY <1>2, <1>5

\* The runs beside one that is done with a row.
LEMMA RunsBeside ==
    ASSUME ImportInv, NEW w \in Runners, runs[w] # None, runs[w].row # None, NEW b \in BOOLEAN,
           NEW i, i = runs[w].import, NEW r, r = runs[w].row.number, RowCounted(w, i, r, b)
    PROVE  /\ \A v \in Runners : runs'[v] # None =>
                 runs[v] # None /\ runs'[v].import = runs[v].import
           /\ \A v \in InRow' : /\ v \in InRow /\ v # w /\ runs'[v] = runs[v]
                                /\ runs[v].import \in Imports
                                /\ runs[v].row.number \in Csv!Rows(runs[v].import)
                                /\ seen[i].overlapped /\ seen[runs[v].import].overlapped
  <1>1. \A v \in Runners : v # w => runs'[v] = runs[v]
    BY DEF RowCounted
  <1>2. \A v \in InRow' : v \in InRow /\ v # w /\ runs'[v] = runs[v]
    BY <1>1 DEF InRow, RowCounted
  <1>3. \A v \in InRow : /\ runs[v].import \in Imports
                         /\ runs[v].row.number \in Csv!Rows(runs[v].import)
    BY RowAtWork DEF InRow
  <1>4. w \in InRow /\ StillNew
    BY DEF InRow, ImportInv
  <1>5. \A v \in InRow : v # w => seen[i].overlapped /\ seen[runs[v].import].overlapped
    BY <1>4 DEF StillNew
  <1>6. \A v \in Runners : runs'[v] # None =>
                 runs[v] # None /\ runs'[v].import = runs[v].import
    BY <1>1 DEF RowCounted
  <1> QED BY <1>2, <1>3, <1>5, <1>6

\* The rows of account files have no promise to keep, and disturb those of the others.
LEMMA PromiseCreated ==
    ASSUME ImportInv, PreviewInv, NEW w \in Runners, runs[w] # None, runs[w].row # None,
           NEW b \in BOOLEAN,
           NEW i, i = runs[w].import, NEW r, r = runs[w].row.number, RowCounted(w, i, r, b),
           files[i].type = "accounts", NEW item,
           accounts' = [accounts EXCEPT ![Csv!Row(i, r).account] = Append(@, item)],
           posted' = [posted EXCEPT ![i][r] = @ + 1], outcomes' = outcomes,
           categories' = categories, seen' = Csv!Disturbed(Imports \ {i}),
           files' = files, records' = records, messages' = messages
    PROVE  PreviewInv'
  <1>1. ImportTypes /\ AccountsTyped /\ RowsTyped
    BY DEF ImportInv, PreviewInv
  <1>2. i \in Imports /\ r \in Csv!Rows(i)
    BY RowAtWork
  <1> DEFINE account == Csv!Row(i, r).account
  <1>3. account \in DOMAIN accounts
    BY <1>1, <1>2, RowParts
  <1>4. PICK S : accounts[account] \in Seq(S)
    BY <1>1, <1>3 DEF AccountsTyped
  <1> HIDE DEF account
  <1> DEFINE grown == Append(accounts[account], item)
  <1>5. grown # <<>> /\ \E T : grown \in Seq(T)
    BY <1>4, Lengthened
  <1>6. accounts' = [accounts EXCEPT ![account] = grown]
    BY DEF account
  <1> HIDE DEF grown
  <1>7. /\ DOMAIN accounts' = DOMAIN accounts /\ accounts'[account] = grown
        /\ \A n \in DOMAIN accounts \ {account} : accounts'[n] = accounts[n]
    BY <1>3, <1>6
  <1>8. AccountsTyped'
    BY <1>1, <1>5, <1>7 DEF AccountsTyped
  <1>9. \A j \in Imports : /\ j # i => seen'[j].disturbed
                           /\ seen[j].disturbed => seen'[j].disturbed
                           /\ seen'[j].overlapped = seen[j].overlapped
    <2> SUFFICES ASSUME NEW j \in Imports
                 PROVE  /\ j # i => seen'[j].disturbed
                        /\ seen[j].disturbed => seen'[j].disturbed
                        /\ seen'[j].overlapped = seen[j].overlapped
      OBVIOUS
    <2>1. seen[j] \in Past(j)
          /\ seen'[j] = IF j # i THEN [seen[j] EXCEPT !.disturbed = TRUE] ELSE seen[j]
      BY <1>1 DEF ImportTypes, Csv!Disturbed
    <2> QED BY <2>1 DEF Past
  <1>10. ~NewAccount(i, r)'
    <2>1. NewAccount(i, r)' <=> accounts'[account] = <<>>
      BY Zenon DEF NewAccount, Csv!Row, account
    <2> QED BY <1>5, <1>7, <2>1
  <1>11. \A j \in Imports : \A q \in Csv!Rows(j) :
            posted'[j][q] # 0 => posted[j][q] # 0 \/ ~NewAccount(j, q)'
    BY <1>1, <1>2, <1>10 DEF ImportTypes
  <1>12. /\ \A v \in Runners : runs'[v] # None =>
                 runs[v] # None /\ runs'[v].import = runs[v].import
         /\ \A v \in InRow' : /\ v \in InRow /\ runs'[v] = runs[v]
                              /\ runs[v].import \in Imports
                              /\ runs[v].row.number \in Csv!Rows(runs[v].import)
    BY RunsBeside
  <1>13. RowsTyped' /\ AllBegun' /\ EntriesHaveAccounts' /\ AccountsFound'
    BY <1>5, <1>7, <1>9, <1>11, <1>12, CatalogMoves
  <1>14. LookupsStand'
    <2> SUFFICES ASSUME NEW v \in InRow' PROVE LookupStands(v)'
      BY DEF LookupsStand
    <2>1. runs'[v] = runs[v] /\ runs[v].import \in Imports
      BY <1>12
    <2>2. files'[runs'[v].import].type # "transactions" \/ seen'[runs'[v].import].disturbed
      BY <1>9, <2>1
    <2> QED BY <2>2 DEF LookupStands
  <1>15. Tracked'
    BY <1>9 DEF Tracked, OnTrack
  <1> QED BY <1>8, <1>13, <1>14, <1>15 DEF PreviewInv

\* Of an import on its track, the next row is the first of the rest, and is looked up as
\* it stands.
LEMMA NextRow ==
    ASSUME ImportInv, PreviewInv, NEW w \in Runners, runs[w] # None, runs[w].row # None,
           NEW i, i = runs[w].import, NEW r, r = runs[w].row.number,
           outcomes[i][r] = "none",
           files[i].type = "transactions", ~seen[i].disturbed, ~seen[i].erred
    PROVE  /\ i \in Imports /\ r \in Rest(i) /\ \A q \in Rest(i) : r <= q
           /\ runs[w].row.found = "post" => /\ Welcome(i, r)
                                            /\ runs[w].row.account = NewAccount(i, r)
                                            /\ runs[w].row.category = NewCategory(i, r)
           /\ runs[w].row.found = "reject" => ~Welcome(i, r)
           /\ NoRepeats(i) /\ Foretold(i)
  <1>1. /\ i \in Imports /\ r \in Csv!ToImport(i) /\ w \in RunsOf(i) /\ w \in InRow
        /\ runs[w].pc = "rows"
    BY RowAtWork
  <1>2. LookupStands(w) /\ OnTrack(i) /\ CountsOf(i) /\ BegunOf(i) /\ StatusFollows
    BY <1>1 DEF PreviewInv, ImportInv, LookupsStand, Tracked, CountsAgree, AllBegun
  <1>3. Rest(i) \subseteq runs[w].todo
    BY <1>1, <1>2 DEF CountsOf, Rest
  <1>4. r \in Rest(i)
    BY <1>1 DEF Rest
  <1>5. /\ \A q \in runs[w].todo : r <= q
        /\ runs[w].row.found = "post" => /\ Welcome(i, r)
                                         /\ runs[w].row.account = NewAccount(i, r)
                                         /\ runs[w].row.category = NewCategory(i, r)
        /\ runs[w].row.found = "reject" => ~Welcome(i, r)
    BY <1>2 DEF LookupStands
  <1>6. records[i].status # "none"
    BY <1>1, <1>2 DEF BegunOf, StatusFollows, Beyond
  <1> QED BY <1>1, <1>2, <1>3, <1>4, <1>5, <1>6 DEF OnTrack

\* A rejected row was not promised.
LEMMA PromiseRejected ==
    ASSUME ImportInv, PreviewInv, NEW w \in Runners, runs[w] # None, runs[w].row # None,
           NEW b \in BOOLEAN,
           NEW i, i = runs[w].import, NEW r, r = runs[w].row.number, RowCounted(w, i, r, b),
           runs[w].row.found = "reject", outcomes[i][r] = "none",
           outcomes' = [outcomes EXCEPT ![i][r] = "rejected"],
           accounts' = accounts, categories' = categories, posted' = posted, seen' = seen,
           files' = files, records' = records, messages' = messages
    PROVE  PreviewInv'
  <1>1. ImportTypes /\ AccountsTyped /\ Tracked /\ LookupsStand /\ AllBegun
    BY DEF ImportInv, PreviewInv
  <1>2. i \in Imports /\ r \in Csv!Rows(i) /\ w \in RunsOf(i)
    BY RowAtWork
  <1>3. /\ DOMAIN outcomes'[i] = DOMAIN outcomes[i] /\ outcomes'[i][r] = "rejected"
        /\ \A q \in Csv!Rows(i) : q # r => outcomes'[i][q] = outcomes[i][q]
        /\ \A j \in Imports : j # i => outcomes'[j] = outcomes[j]
    BY <1>1, <1>2 DEF ImportTypes
  <1>4. /\ \A v \in Runners : runs'[v] # None =>
                runs[v] # None /\ runs'[v].import = runs[v].import
        /\ \A v \in InRow' : /\ v \in InRow /\ runs'[v] = runs[v]
                             /\ runs[v].import \in Imports
                             /\ runs[v].row.number \in Csv!Rows(runs[v].import)
                             /\ seen[runs[v].import].overlapped
    BY RunsBeside
  <1>5. AccountsTyped'
    BY <1>1 DEF AccountsTyped
  <1>6. \A j \in Imports : \A q \in Csv!Rows(j) :
           outcomes'[j][q] # "none" => outcomes[j][q] # "none" \/ RunsOf(j) # {}
    BY <1>2, <1>3
  <1>7. RowsTyped' /\ AllBegun' /\ EntriesHaveAccounts' /\ AccountsFound'
    BY <1>4, <1>6, CatalogMoves
  <1>8. LookupsStand'
    <2> SUFFICES ASSUME NEW v \in InRow' PROVE LookupStands(v)'
      BY DEF LookupsStand
    <2>1. seen'[runs'[v].import].disturbed
      BY <1>1, <1>4 DEF AllBegun, BegunOf
    <2> QED BY <2>1 DEF LookupStands
  <1>9. \A j, q : /\ Welcome(j, q)' = Welcome(j, q)
                  /\ \A p : GoesWith(j, p, q)' = GoesWith(j, p, q)
    BY CatalogKept
  <1>10. ASSUME NEW j \in Imports PROVE OnTrack(j)'
    <2> SUFFICES ASSUME records[j].status # "none", files[j].type = "transactions",
                        ~seen[j].disturbed, ~seen[j].erred
                 PROVE  NoRepeats(j)' /\ Foretold(j)'
      BY DEF OnTrack
    <2>1. NoRepeats(j) /\ Foretold(j)
      BY <1>1 DEF Tracked, OnTrack
    <2>2. CASE j # i
      <3>1. Rest(j)' = Rest(j)
        BY <1>3, <2>2, RestKept
      <3>2. \A q : Promising(j, q)' = Promising(j, q)
        BY <1>9, <3>1 DEF Promising
      <3>3. Foretold(j)'
        BY <1>3, <2>1, <2>2, <3>2, FilesKept DEF Foretold
      <3> QED BY <2>1, <3>3, CatalogKept
    <2>3. CASE j = i
      <3>1. ~Welcome(i, r) /\ r \in Csv!ToImport(i)
        BY <2>3, NextRow DEF Rest
      <3>2. r \notin seen[i].foretold
        BY <2>1, <2>3, <3>1 DEF Foretold, Promising
      <3>3. Rest(i)' = Rest(i) \ {r}
        BY <1>3, FilesKept DEF Rest, Csv!ToImport
      <3>4. \A q : Promising(i, q)' = Promising(i, q)
        BY <1>9, <3>2, <3>3 DEF Promising
      <3>5. Foretold(i)'
        <4>1. \A q \in Csv!ToImport(i) : q \in Csv!Rows(i)
          BY DEF Csv!ToImport
        <4> QED BY <1>3, <2>1, <2>3, <3>1, <3>2, <3>4, <4>1, FilesKept DEF Foretold
      <3> QED BY <2>1, <2>3, <3>5, CatalogKept
    <2> QED BY <2>2, <2>3
  <1> QED BY <1>5, <1>7, <1>8, <1>10 DEF PreviewInv, Tracked

\* The account of a row is new or its own, and so is its category.
AccountFree(i, r) ==
    LET row == Csv!Row(i, r)
    IN  \/ accounts[row.account] = <<>>
        \/ /\ Len(accounts[row.account]) = 1
           /\ accounts[row.account][1] = [currency |-> row.currency, hidden |-> FALSE]

CategoryFree(i, r) ==
    LET row == Csv!Row(i, r)
    IN  \/ row.category = None
        \/ categories[row.category] = <<>>
        \/ categories[row.category] = <<Csv!Kind(row)>>

\* The row that is posted next was promised, and the promise of the others is what it was:
\* what it has made is what they were foreseen to find.
LEMMA PromiseKept ==
    ASSUME RowsTyped, NEW i \in Imports, NEW r \in Rest(i), \A q \in Rest(i) : r <= q,
           ImportTypes, Welcome(i, r), NoRepeats(i), Foretold(i), files' = files,
           \A n \in DOMAIN accounts :
              accounts'[n] = IF n = Csv!Row(i, r).account /\ NewAccount(i, r)
                             THEN <<[currency |-> Csv!Row(i, r).currency, hidden |-> FALSE]>>
                             ELSE accounts[n],
           \A n \in DOMAIN categories :
              categories'[n] = IF n = Csv!Row(i, r).category /\ NewCategory(i, r)
                               THEN <<Csv!Kind(Csv!Row(i, r))>> ELSE categories[n],
           \A j \in Imports : \A q \in Csv!Rows(j) :
              posted'[j][q] = IF j = i /\ q = r THEN posted[i][r] + 1 ELSE posted[j][q],
           outcomes'[i][r] = "imported",
           \A q \in Csv!Rows(i) : q # r => outcomes'[i][q] = outcomes[i][q],
           seen'[i].foretold = seen[i].foretold
    PROVE  NoRepeats(i)' /\ Foretold(i)'
  <1> DEFINE F == seen[i].foretold
             Left == Rest(i) \ {r}
  <1>1. /\ Csv!ToImport(i) \subseteq Csv!Rows(i) /\ Csv!Rows(i) \subseteq Int
        /\ Rest(i) \subseteq Csv!ToImport(i) /\ r \in Csv!Rows(i)
    BY RowsNumbered DEF Csv!ToImport, Rest
  <1>2. Rest(i)' = Left
    BY <1>1, FilesKept DEF Rest
  <1>3. NoRepeats(i)'
    BY FilesKept DEF NoRepeats, Csv!SameEntry
  <1>4. r \in F /\ F \subseteq Csv!ToImport(i)
    BY <1>1 DEF Foretold, Promising, Rest
  <1>5. \A q \in Csv!Rows(i) :
           /\ Csv!Row(i, q).account \in DOMAIN accounts /\ Csv!Row(i, q).currency # None
           /\ Csv!Row(i, q).category \in DOMAIN categories \cup {None}
    BY RowParts
  <1>6. \A q \in Left : q \in Csv!Rows(i) /\ r < q /\ q # r
    BY <1>1
  <1>7. ASSUME NEW n \in Left PROVE Csv!InLedger(i, n)' <=> Csv!InLedger(i, n)
    <2>1. Csv!InLedger(i, n)' <=>
             \E j \in Imports : \E q \in Csv!Rows(j) :
                posted'[j][q] > 0 /\ Csv!SameEntry(Csv!Row(j, q), Csv!Row(i, n))
      BY DEF Csv!InLedger, Csv!SameEntry, Csv!Rows, Csv!Row
    <2>2. Csv!InLedger(i, n) => Csv!InLedger(i, n)'
      <3> SUFFICES ASSUME Csv!InLedger(i, n) PROVE Csv!InLedger(i, n)'
        OBVIOUS
      <3>1. PICK j \in Imports : \E q \in Csv!Rows(j) :
               posted[j][q] > 0 /\ Csv!SameEntry(Csv!Row(j, q), Csv!Row(i, n))
        BY DEF Csv!InLedger
      <3>2. PICK q \in Csv!Rows(j) :
               posted[j][q] > 0 /\ Csv!SameEntry(Csv!Row(j, q), Csv!Row(i, n))
        BY <3>1
      <3>3. posted'[j][q] > 0
        BY <3>2 DEF ImportTypes
      <3> QED BY <2>1, <3>2, <3>3
    <2>3. Csv!InLedger(i, n)' => Csv!InLedger(i, n)
      <3> SUFFICES ASSUME Csv!InLedger(i, n)' PROVE Csv!InLedger(i, n)
        OBVIOUS
      <3>1. PICK j \in Imports : \E q \in Csv!Rows(j) :
               posted'[j][q] > 0 /\ Csv!SameEntry(Csv!Row(j, q), Csv!Row(i, n))
        BY <2>1
      <3>2. PICK q \in Csv!Rows(j) :
               posted'[j][q] > 0 /\ Csv!SameEntry(Csv!Row(j, q), Csv!Row(i, n))
        BY <3>1
      <3>3. ~(j = i /\ q = r)
        BY <1>1, <1>6, <3>2 DEF NoRepeats
      <3>4. posted[j][q] > 0
        BY <3>2, <3>3
      <3> QED BY <3>2, <3>4 DEF Csv!InLedger
    <2> QED BY <2>2, <2>3
  <1>8. ASSUME NEW n \in Left
        PROVE  /\ AccountFree(i, n)'
               /\ \A q \in Left \cap F : q < n =>
                     (NewAccount(i, n)' /\ Csv!Row(i, q).account = Csv!Row(i, n).account
                        => Csv!Row(i, q).currency = Csv!Row(i, n).currency)
               <=>
               /\ AccountFree(i, n)
               /\ \A q \in Rest(i) \cap F : q < n =>
                     (NewAccount(i, n) /\ Csv!Row(i, q).account = Csv!Row(i, n).account
                        => Csv!Row(i, q).currency = Csv!Row(i, n).currency)
    <2> DEFINE row == Csv!Row(i, n)
    <2>1. /\ row.account \in DOMAIN accounts /\ r < n
          /\ NewAccount(i, n) <=> accounts[row.account] = <<>>
          /\ NewAccount(i, n)' <=> accounts'[row.account] = <<>>
          /\ NewAccount(i, r) <=> accounts[Csv!Row(i, r).account] = <<>>
      BY <1>5, <1>6, FilesKept DEF NewAccount
    <2>2. AccountFree(i, n)' <=>
             \/ accounts'[row.account] = <<>>
             \/ /\ Len(accounts'[row.account]) = 1
                /\ accounts'[row.account][1] = [currency |-> row.currency, hidden |-> FALSE]
      BY DEF AccountFree, Csv!Row
    <2>3. CASE row.account = Csv!Row(i, r).account /\ NewAccount(i, r)
      <3> DEFINE item == [currency |-> Csv!Row(i, r).currency, hidden |-> FALSE]
      <3>1. accounts'[row.account] = <<item>> /\ accounts[row.account] = <<>>
        BY <2>1, <2>3
      <3>2. item = [currency |-> row.currency, hidden |-> FALSE]
               <=> Csv!Row(i, r).currency = row.currency
        OBVIOUS
      <3> HIDE DEF item
      <3>3. <<item>> # <<>> /\ Len(<<item>>) = 1 /\ <<item>>[1] = item
        <4>1. Len(<<item>>) = 1 /\ <<item>>[1] = item /\ Len(<<>>) = 0
          OBVIOUS
        <4> QED BY <4>1
      <3>4. AccountFree(i, n)' <=> Csv!Row(i, r).currency = row.currency
        BY <2>2, <3>1, <3>2, <3>3
      <3>5. AccountFree(i, n) /\ NewAccount(i, n) /\ ~NewAccount(i, n)'
        BY <2>1, <3>1, <3>3 DEF AccountFree
      <3>6. \A q \in Left \cap F :
               Csv!Row(i, q).account = row.account
                  => Csv!Row(i, q).currency = Csv!Row(i, r).currency
        <4> SUFFICES ASSUME NEW q \in Left \cap F, Csv!Row(i, q).account = row.account
                     PROVE  Csv!Row(i, q).currency = Csv!Row(i, r).currency
          OBVIOUS
        <4>1. Promising(i, q)
          BY <1>1 DEF Foretold, Rest
        <4>2. r < q /\ NewAccount(i, q)
          BY <1>6, <2>3 DEF NewAccount
        <4>3. GoesWith(i, r, q)
          BY <1>4, <4>1, <4>2 DEF Promising
        <4> QED BY <2>3, <4>2, <4>3 DEF GoesWith
      <3> QED BY <1>4, <2>1, <2>3, <3>4, <3>5, <3>6
    <2>4. CASE ~(row.account = Csv!Row(i, r).account /\ NewAccount(i, r))
      <3>1. accounts'[row.account] = accounts[row.account]
        BY <2>1, <2>4
      <3>2. /\ AccountFree(i, n)' <=> AccountFree(i, n)
            /\ NewAccount(i, n)' <=> NewAccount(i, n)
        BY <2>1, <2>2, <3>1 DEF AccountFree
      <3>3. ~(NewAccount(i, n) /\ Csv!Row(i, r).account = row.account)
        BY <2>1, <2>4
      <3> QED BY <3>2, <3>3
    <2> QED BY <2>3, <2>4
  <1>9. ASSUME NEW n \in Left
        PROVE  /\ CategoryFree(i, n)'
               /\ \A q \in Left \cap F : q < n =>
                     (NewCategory(i, n)' /\ Csv!Row(i, q).category = Csv!Row(i, n).category
                        => Csv!Kind(Csv!Row(i, q)) = Csv!Kind(Csv!Row(i, n)))
               <=>
               /\ CategoryFree(i, n)
               /\ \A q \in Rest(i) \cap F : q < n =>
                     (NewCategory(i, n) /\ Csv!Row(i, q).category = Csv!Row(i, n).category
                        => Csv!Kind(Csv!Row(i, q)) = Csv!Kind(Csv!Row(i, n)))
    <2> DEFINE row == Csv!Row(i, n)
    <2>1. /\ row.category \in DOMAIN categories \cup {None} /\ r < n
          /\ NewCategory(i, n) <=> row.category # None /\ categories[row.category] = <<>>
          /\ NewCategory(i, n)' <=> row.category # None /\ categories'[row.category] = <<>>
          /\ NewCategory(i, r) <=> /\ Csv!Row(i, r).category # None
                                   /\ categories[Csv!Row(i, r).category] = <<>>
      BY <1>5, <1>6, FilesKept DEF NewCategory
    <2>2. CategoryFree(i, n)' <=>
             \/ row.category = None
             \/ categories'[row.category] = <<>>
             \/ categories'[row.category] = <<Csv!Kind(row)>>
      BY DEF CategoryFree, Csv!Kind, Csv!Row
    <2>3. CASE row.category = Csv!Row(i, r).category /\ NewCategory(i, r)
      <3> DEFINE kind == Csv!Kind(Csv!Row(i, r))
      <3>1. /\ categories'[row.category] = <<kind>> /\ categories[row.category] = <<>>
            /\ row.category # None
        BY <2>1, <2>3
      <3> HIDE DEF kind
      <3>2. <<kind>> # <<>> /\ (<<kind>> = <<Csv!Kind(row)>> <=> kind = Csv!Kind(row))
        <4>1. Len(<<kind>>) = 1 /\ <<kind>>[1] = kind /\ Len(<<>>) = 0
              /\ <<Csv!Kind(row)>>[1] = Csv!Kind(row)
          OBVIOUS
        <4> QED BY <4>1
      <3>3. CategoryFree(i, n)' <=> kind = Csv!Kind(row)
        BY <2>2, <3>1, <3>2
      <3>4. CategoryFree(i, n) /\ NewCategory(i, n) /\ ~NewCategory(i, n)'
        BY <2>1, <3>1, <3>2 DEF CategoryFree
      <3>5. \A q \in Left \cap F :
               Csv!Row(i, q).category = row.category => Csv!Kind(Csv!Row(i, q)) = kind
        <4> SUFFICES ASSUME NEW q \in Left \cap F, Csv!Row(i, q).category = row.category
                     PROVE  Csv!Kind(Csv!Row(i, q)) = kind
          OBVIOUS
        <4>1. Promising(i, q)
          BY <1>1 DEF Foretold, Rest
        <4>2. r < q /\ NewCategory(i, q)
          BY <1>6, <2>3 DEF NewCategory
        <4>3. GoesWith(i, r, q)
          BY <1>4, <4>1, <4>2 DEF Promising
        <4> QED BY <2>3, <4>2, <4>3 DEF GoesWith, kind
      <3> QED BY <1>4, <2>1, <2>3, <3>3, <3>4, <3>5 DEF kind
    <2>4. CASE ~(row.category = Csv!Row(i, r).category /\ NewCategory(i, r))
      <3>1. row.category # None => categories'[row.category] = categories[row.category]
        BY <2>1, <2>4
      <3>2. /\ CategoryFree(i, n)' <=> CategoryFree(i, n)
            /\ NewCategory(i, n)' <=> NewCategory(i, n)
        BY <2>1, <2>2, <3>1 DEF CategoryFree
      <3>3. ~(NewCategory(i, n) /\ Csv!Row(i, r).category = row.category)
        BY <2>1, <2>4
      <3> QED BY <3>2, <3>3
    <2> QED BY <2>3, <2>4
  <1>10. \A n : Welcome(i, n) <=> AccountFree(i, n) /\ CategoryFree(i, n) /\ ~Csv!InLedger(i, n)
    BY DEF Welcome, AccountFree, CategoryFree, Csv!Acceptable
  <1>11. \A n : Welcome(i, n)' <=> /\ AccountFree(i, n)' /\ CategoryFree(i, n)'
                                   /\ ~Csv!InLedger(i, n)'
    BY DEF Welcome, AccountFree, CategoryFree, Csv!Acceptable
  <1>12. ASSUME NEW n \in Left PROVE Promising(i, n)' <=> Promising(i, n)
    <2>1. \A q : GoesWith(i, q, n) <=>
             /\ NewAccount(i, n) /\ Csv!Row(i, q).account = Csv!Row(i, n).account
                   => Csv!Row(i, q).currency = Csv!Row(i, n).currency
             /\ NewCategory(i, n) /\ Csv!Row(i, q).category = Csv!Row(i, n).category
                   => Csv!Kind(Csv!Row(i, q)) = Csv!Kind(Csv!Row(i, n))
      BY DEF GoesWith
    <2>2. \A q : GoesWith(i, q, n)' <=>
             /\ NewAccount(i, n)' /\ Csv!Row(i, q).account = Csv!Row(i, n).account
                   => Csv!Row(i, q).currency = Csv!Row(i, n).currency
             /\ NewCategory(i, n)' /\ Csv!Row(i, q).category = Csv!Row(i, n).category
                   => Csv!Kind(Csv!Row(i, q)) = Csv!Kind(Csv!Row(i, n))
      BY FilesKept DEF GoesWith, Csv!Kind
    <2>3. Promising(i, n) <=> Welcome(i, n) /\ \A q \in Rest(i) \cap F : q < n => GoesWith(i, q, n)
      BY DEF Promising
    <2>4. Promising(i, n)' <=> Welcome(i, n)' /\ \A q \in Left \cap F : q < n => GoesWith(i, q, n)'
      BY <1>2 DEF Promising
    <2> HIDE DEF F, Left
    <2> QED BY <1>7, <1>8, <1>9, <1>10, <1>11, <2>1, <2>2, <2>3, <2>4
  <1>13. ASSUME NEW n \in Csv!ToImport(i)
         PROVE  n \in F <=> IF outcomes'[i][n] = "none" THEN Promising(i, n)'
                            ELSE outcomes'[i][n] = "imported"
    <2>1. n \in F <=> IF outcomes[i][n] = "none" THEN Promising(i, n)
                      ELSE outcomes[i][n] = "imported"
      BY DEF Foretold
    <2>2. CASE n = r
      BY <1>4, <2>2
    <2>3. CASE n # r /\ outcomes[i][n] = "none"
      <3>1. n \in Left /\ outcomes'[i][n] = "none"
        BY <1>1, <2>3 DEF Rest
      <3> QED BY <1>12, <2>1, <2>3, <3>1
    <2>4. CASE n # r /\ outcomes[i][n] # "none"
      <3>1. outcomes'[i][n] = outcomes[i][n]
        BY <1>1, <2>4
      <3> QED BY <2>1, <2>4, <3>1
    <2> QED BY <2>2, <2>3, <2>4
  <1>14. Foretold(i)'
    BY <1>4, <1>13, FilesKept DEF Foretold
  <1> QED BY <1>3, <1>14

\* The others are disturbed by a row that is posted, and the import is on its track.
LEMMA PromisePosted ==
    ASSUME ImportInv, PreviewInv, NEW w \in Runners, runs[w] # None, runs[w].row # None,
           NEW b \in BOOLEAN,
           NEW i, i = runs[w].import, NEW r, r = runs[w].row.number, RowCounted(w, i, r, b),
           runs[w].row.found = "post", outcomes[i][r] = "none",
           accounts' = [accounts EXCEPT ![Csv!Row(i, r).account] =
              Csv!Made(runs[w].row.account, @,
                       [currency |-> Csv!Row(i, r).currency, hidden |-> FALSE])],
           categories' = [n \in DOMAIN categories |->
              Csv!Made(n = Csv!Row(i, r).category /\ runs[w].row.category, categories[n],
                       Csv!Kind(Csv!Row(i, r)))],
           posted' = [posted EXCEPT ![i][r] = @ + 1],
           outcomes' = [outcomes EXCEPT ![i][r] = "imported"],
           seen' = Csv!Disturbed(Imports \ {i}),
           files' = files, records' = records, messages' = messages
    PROVE  PreviewInv'
  <1>1. /\ ImportTypes /\ AccountsTyped /\ RowsTyped /\ AllBegun /\ AccountsFound
    BY DEF ImportInv, PreviewInv
  <1>2. /\ i \in Imports /\ r \in Csv!Rows(i) /\ w \in RunsOf(i) /\ w \in InRow
        /\ runs[w].row.account \in BOOLEAN /\ runs[w].row.category \in BOOLEAN
    BY RowAtWork DEF OpenedRow
  <1> DEFINE account == Csv!Row(i, r).account
             item == [currency |-> Csv!Row(i, r).currency, hidden |-> FALSE]
             grown == Csv!Made(runs[w].row.account, accounts[account], item)
  <1>3. account \in DOMAIN accounts
    BY <1>1, <1>2, RowParts
  <1>4. PICK S : accounts[account] \in Seq(S)
    BY <1>1, <1>3 DEF AccountsTyped
  <1>5. accounts' = [accounts EXCEPT ![account] = grown]
    OBVIOUS
  <1> HIDE DEF account, item
  <1>6. /\ grown # <<>> /\ \E T : grown \in Seq(T)
        /\ runs[w].row.account => grown = Append(accounts[account], item)
        /\ ~runs[w].row.account => grown = accounts[account]
    <2>1. CASE runs[w].row.account
      BY <1>4, <2>1, Lengthened DEF Csv!Made
    <2>2. CASE ~runs[w].row.account
      <3>1. ~NewAccount(i, r)
        BY <1>1, <1>2, <2>2 DEF AccountsFound
      <3>2. accounts[account] # <<>>
        BY <3>1 DEF NewAccount, account
      <3> QED BY <1>4, <2>2, <3>2 DEF Csv!Made
    <2> QED BY <1>2, <2>1, <2>2
  <1> HIDE DEF grown
  <1>7. /\ DOMAIN accounts' = DOMAIN accounts /\ accounts'[account] = grown
        /\ \A n \in DOMAIN accounts \ {account} : accounts'[n] = accounts[n]
        /\ DOMAIN categories' = DOMAIN categories
    BY <1>3, <1>5
  <1>8. AccountsTyped'
    BY <1>1, <1>6, <1>7 DEF AccountsTyped
  <1>9. \A j \in Imports : /\ j # i => seen'[j].disturbed
                           /\ j = i => seen'[j] = seen[j]
                           /\ seen[j].disturbed => seen'[j].disturbed
                           /\ seen'[j].overlapped = seen[j].overlapped
    <2> SUFFICES ASSUME NEW j \in Imports
                 PROVE  /\ j # i => seen'[j].disturbed
                        /\ j = i => seen'[j] = seen[j]
                        /\ seen[j].disturbed => seen'[j].disturbed
                        /\ seen'[j].overlapped = seen[j].overlapped
      OBVIOUS
    <2>1. seen[j] \in Past(j)
          /\ seen'[j] = IF j # i THEN [seen[j] EXCEPT !.disturbed = TRUE] ELSE seen[j]
      BY <1>1 DEF ImportTypes, Csv!Disturbed
    <2> QED BY <2>1 DEF Past
  <1>10. ~NewAccount(i, r)'
    <2>1. NewAccount(i, r)' <=> accounts'[account] = <<>>
      BY Zenon DEF NewAccount, Csv!Row, account
    <2> QED BY <1>6, <1>7, <2>1
  <1>11. \A j \in Imports : \A q \in Csv!Rows(j) :
            /\ posted'[j][q] = IF j = i /\ q = r THEN posted[i][r] + 1 ELSE posted[j][q]
            /\ outcomes'[j][q] = IF j = i /\ q = r THEN "imported" ELSE outcomes[j][q]
    BY <1>1, <1>2 DEF ImportTypes
  <1>12. \A j \in Imports : \A q \in Csv!Rows(j) :
            /\ posted'[j][q] # 0 => posted[j][q] # 0 \/ ~NewAccount(j, q)'
            /\ outcomes'[j][q] # "none" => outcomes[j][q] # "none" \/ RunsOf(j) # {}
    BY <1>2, <1>10, <1>11
  <1>13. /\ \A v \in Runners : runs'[v] # None =>
                 runs[v] # None /\ runs'[v].import = runs[v].import
         /\ \A v \in InRow' : /\ v \in InRow /\ runs'[v] = runs[v]
                              /\ runs[v].import \in Imports
                              /\ runs[v].row.number \in Csv!Rows(runs[v].import)
                              /\ seen[runs[v].import].overlapped
    BY RunsBeside
  <1>14. RowsTyped' /\ AllBegun' /\ EntriesHaveAccounts' /\ AccountsFound'
    BY <1>6, <1>7, <1>9, <1>12, <1>13, CatalogMoves
  <1>15. LookupsStand'
    <2> SUFFICES ASSUME NEW v \in InRow' PROVE LookupStands(v)'
      BY DEF LookupsStand
    <2>1. seen'[runs'[v].import].disturbed
      <3>1. v \in Runners /\ runs'[v].import = runs[v].import /\ runs[v].import \in Imports
            /\ seen[runs[v].import].overlapped
        BY <1>13 DEF InRow
      <3>2. seen[runs[v].import].disturbed
        BY <1>1, <3>1 DEF AllBegun, BegunOf
      <3> QED BY <1>9, <3>1, <3>2
    <2> QED BY <2>1 DEF LookupStands
  <1>16. ASSUME NEW j \in Imports PROVE OnTrack(j)'
    <2> SUFFICES ASSUME j = i, files[i].type = "transactions",
                        ~seen[i].disturbed, ~seen[i].erred
                 PROVE  NoRepeats(i)' /\ Foretold(i)'
      BY <1>9 DEF OnTrack
    <2>1. /\ r \in Rest(i) /\ \A q \in Rest(i) : r <= q
          /\ Welcome(i, r) /\ NoRepeats(i) /\ Foretold(i)
          /\ runs[w].row.account = NewAccount(i, r)
          /\ runs[w].row.category = NewCategory(i, r)
      BY NextRow
    <2>2. /\ NewAccount(i, r) <=> accounts[account] = <<>>
          /\ NewCategory(i, r) => categories[Csv!Row(i, r).category] = <<>>
      BY DEF NewAccount, NewCategory, account
    <2>3. \A x : Append(<<>>, x) = <<x>>
      OBVIOUS
    <2>4. ASSUME NEW n \in DOMAIN accounts
          PROVE  accounts'[n] = IF n = account /\ NewAccount(i, r) THEN <<item>>
                                ELSE accounts[n]
      <3>1. CASE n = account
        <4>1. accounts'[n] = grown
          BY <1>7, <3>1
        <4>2. CASE NewAccount(i, r)
          <5>1. grown = Append(accounts[account], item) /\ accounts[account] = <<>>
            BY <1>6, <2>1, <2>2, <4>2
          <5> QED BY <2>3, <3>1, <4>1, <4>2, <5>1
        <4>3. CASE ~NewAccount(i, r)
          <5>1. grown = accounts[account]
            BY <1>6, <2>1, <4>3
          <5> QED BY <3>1, <4>1, <4>3, <5>1
        <4> QED BY <4>2, <4>3
      <3>2. CASE n # account
        BY <1>7, <3>2
      <3> QED BY <3>1, <3>2
    <2>5. ASSUME NEW n \in DOMAIN categories
          PROVE  categories'[n] = IF n = Csv!Row(i, r).category /\ NewCategory(i, r)
                                  THEN <<Csv!Kind(Csv!Row(i, r))>> ELSE categories[n]
      BY <2>1, <2>2, <2>3 DEF Csv!Made
    <2>6. seen'[i].foretold = seen[i].foretold
      BY <1>9
    <2>7. \A n \in DOMAIN accounts :
             accounts'[n] = IF n = Csv!Row(i, r).account /\ NewAccount(i, r)
                            THEN <<[currency |-> Csv!Row(i, r).currency, hidden |-> FALSE]>>
                            ELSE accounts[n]
      BY <2>4 DEF account, item
    <2>8. /\ outcomes'[i][r] = "imported"
          /\ \A q \in Csv!Rows(i) : q # r => outcomes'[i][q] = outcomes[i][q]
          /\ \A k \in Imports : \A q \in Csv!Rows(k) :
                posted'[k][q] = IF k = i /\ q = r THEN posted[i][r] + 1 ELSE posted[k][q]
      BY <1>2, <1>11
    <2> QED BY <1>1, <1>2, <2>1, <2>5, <2>6, <2>7, <2>8, PromiseKept, Zenon
  <1> QED BY <1>8, <1>14, <1>15, <1>16 DEF PreviewInv, Tracked

\* A row that is done with, and not posted or rejected now, changes no promise.
LEMMA PromiseLeft ==
    ASSUME ImportInv, PreviewInv, NEW w \in Runners, runs[w] # None, runs[w].row # None,
           NEW b \in BOOLEAN, Csv!Count(w, b),
           seen' = seen \/ seen' = [seen EXCEPT ![runs[w].import].erred = TRUE],
           accounts' = accounts, categories' = categories, posted' = posted,
           outcomes' = outcomes, files' = files, records' = records, messages' = messages
    PROVE  PreviewInv'
  <1>1. ImportTypes /\ AllBegun
    BY DEF ImportInv, PreviewInv
  <1>2. PICK i \in Imports, r \in runs[w].todo :
           /\ i = runs[w].import /\ r = runs[w].row.number
           /\ runs[w] \in Run(i) /\ runs[w].row \in OpenedRow(i)
    BY RowAtWork
  <1>3. RowCounted(w, i, r, b)
    BY <1>1, <1>2, CountParts DEF ImportTypes
  <1>4. /\ \A v \in Runners : runs'[v] # None =>
                runs[v] # None /\ runs'[v].import = runs[v].import
        /\ \A v \in InRow' : v \in InRow /\ runs'[v] = runs[v]
    BY <1>2, <1>3, RunsBeside
  <1>5. ASSUME NEW j \in Imports
        PROVE  /\ seen'[j].foretold = seen[j].foretold
               /\ seen'[j].disturbed = seen[j].disturbed
               /\ seen'[j].overlapped = seen[j].overlapped
               /\ seen[j].erred => seen'[j].erred
    <2>1. seen[j] \in Past(j) /\ DOMAIN seen = Imports
      BY <1>1 DEF ImportTypes
    <2>2. seen'[j] = seen[j] \/ seen'[j] = [seen[j] EXCEPT !.erred = TRUE]
      BY <2>1
    <2> QED BY <2>1, <2>2 DEF Past
  <1>6. ASSUME NEW v \in Runners, runs'[v] # None
        PROVE  /\ runs'[v].import \in Imports /\ messages'[runs'[v].import] # "none"
               /\ runs'[v].row # None => /\ runs[v] # None /\ runs[v].row # None
                                         /\ runs'[v] = runs[v]
    <2>1. runs[v] # None /\ runs'[v].import = runs[v].import
      BY <1>4, <1>6
    <2>2. runs[v].import \in Imports /\ v \in RunsOf(runs[v].import)
      BY <1>1, <2>1, RunTyped DEF RunsOf
    <2>3. messages[runs[v].import] # "none"
      BY <1>1, <2>2 DEF AllBegun, BegunOf
    <2> QED BY <1>4, <1>6, <2>1, <2>2, <2>3 DEF InRow
  <1> QED BY <1>5, <1>6, ForetoldRests

\* A row's transaction commits, whichever way it was looked up.
LEMMA PromiseCommitted ==
    ASSUME ImportInv, PreviewInv, NEW w \in Runners, Csv!CommitRow(w)
    PROVE  PreviewInv'
  <1>1. runs[w] # None /\ runs[w].row # None
    BY Zenon DEF Csv!CommitRow
  <1>2. PICK i \in Imports, r \in runs[w].todo :
           /\ i = runs[w].import /\ r = runs[w].row.number
           /\ runs[w] \in Run(i)
           /\ runs[w].row.found = "create" => files[i].type = "accounts"
    BY <1>1, RowAtWork DEF HeldBy
  <1>3. DOMAIN runs = Runners /\ runs[w].row \in OpenedRow(i)
    BY <1>1, <1>2, RowAtWork DEF ImportInv, ImportTypes
  <1>4. /\ files' = files /\ records' = records /\ messages' = messages
    BY Zenon DEF Csv!CommitRow
  <1>5. ASSUME NEW b \in BOOLEAN, Csv!Count(w, b) PROVE RowCounted(w, i, r, b)
    BY <1>2, <1>3, <1>5, CountParts
  <1> DEFINE row == Csv!Row(i, r)
             found == runs[w].row.found
  <1>6. Csv!FoundImported(found) \in BOOLEAN
    BY DEF Csv!FoundImported
  <1>7. CASE \E b \in BOOLEAN :
                /\ Csv!Count(w, b)
                /\ seen' = seen \/ seen' = [seen EXCEPT ![i].erred = TRUE]
                /\ accounts' = accounts /\ categories' = categories /\ posted' = posted
                /\ outcomes' = outcomes
    BY <1>1, <1>2, <1>4, <1>7, PromiseLeft
  <1>8. CASE /\ found = "create" /\ Csv!Count(w, Csv!FoundImported(found))
             /\ accounts' = [accounts EXCEPT ![row.account] =
                    Append(@, [currency |-> row.currency, hidden |-> FALSE])]
             /\ posted' = [posted EXCEPT ![i][r] = @ + 1]
             /\ outcomes' = outcomes /\ categories' = categories
             /\ seen' = Csv!Disturbed(Imports \ {i})
    <2>1. RowCounted(w, i, r, Csv!FoundImported(found))
      BY <1>5, <1>6, <1>8
    <2> QED BY <1>1, <1>2, <1>4, <1>6, <1>8, <2>1, PromiseCreated
  <1>9. CASE /\ found = "post" /\ outcomes[i][r] = "none"
             /\ Csv!Count(w, Csv!FoundImported(found))
             /\ accounts' = [accounts EXCEPT ![row.account] =
                    Csv!Made(runs[w].row.account, @,
                             [currency |-> row.currency, hidden |-> FALSE])]
             /\ categories' = [n \in DOMAIN categories |->
                    Csv!Made(n = row.category /\ runs[w].row.category, categories[n],
                             Csv!Kind(row))]
             /\ posted' = [posted EXCEPT ![i][r] = @ + 1]
             /\ outcomes' = [outcomes EXCEPT ![i][r] = "imported"]
             /\ seen' = Csv!Disturbed(Imports \ {i})
    <2>1. RowCounted(w, i, r, Csv!FoundImported(found))
      BY <1>5, <1>6, <1>9
    <2> QED BY <1>1, <1>2, <1>4, <1>6, <1>9, <2>1, PromisePosted
  <1>10. CASE /\ found = "reject" /\ outcomes[i][r] = "none" /\ Csv!Count(w, FALSE)
              /\ outcomes' = [outcomes EXCEPT ![i][r] = "rejected"]
              /\ accounts' = accounts /\ categories' = categories /\ posted' = posted
              /\ seen' = seen
    <2>1. RowCounted(w, i, r, FALSE)
      BY <1>5, <1>10
    <2> QED BY <1>1, <1>2, <1>4, <1>10, <2>1, PromiseRejected
  <1>11. \/ /\ Csv!Count(w, Csv!FoundImported(found))
            /\ accounts' = accounts /\ categories' = categories /\ posted' = posted
            /\ outcomes' = outcomes /\ seen' = seen
         \/ /\ found = "create" /\ Csv!Count(w, Csv!FoundImported(found))
            /\ accounts' = [accounts EXCEPT ![row.account] =
                   Append(@, [currency |-> row.currency, hidden |-> FALSE])]
            /\ posted' = [posted EXCEPT ![i][r] = @ + 1]
            /\ outcomes' = outcomes /\ categories' = categories
            /\ seen' = Csv!Disturbed(Imports \ {i})
         \/ /\ found = "post" /\ ~Csv!Conflicts(i, r)
            /\ Csv!Count(w, Csv!FoundImported(found))
            /\ accounts' = [accounts EXCEPT ![row.account] =
                   Csv!Made(runs[w].row.account, @,
                            [currency |-> row.currency, hidden |-> FALSE])]
            /\ categories' = [n \in DOMAIN categories |->
                   Csv!Made(n = row.category /\ runs[w].row.category, categories[n],
                            Csv!Kind(row))]
            /\ posted' = [posted EXCEPT ![i][r] = @ + 1]
            /\ outcomes' = [outcomes EXCEPT ![i][r] = "imported"]
            /\ seen' = Csv!Disturbed(Imports \ {i})
         \/ /\ found = "reject" /\ ~Csv!Conflicts(i, r) /\ Csv!Count(w, FALSE)
            /\ outcomes' = [outcomes EXCEPT ![i][r] = "rejected"]
            /\ accounts' = accounts /\ categories' = categories /\ posted' = posted
            /\ seen' = seen
         \/ /\ Csv!Count(w, FALSE) /\ seen' = [seen EXCEPT ![i].erred = TRUE]
            /\ accounts' = accounts /\ categories' = categories /\ posted' = posted
            /\ outcomes' = outcomes
    BY <1>2, Zenon DEF Csv!CommitRow, Csv!catalog
  <1>12. Csv!Conflicts(i, r) <=> outcomes[i][r] # "none"
    BY DEF Csv!Conflicts
  <1> HIDE DEF found, row
  <1> QED BY <1>6, <1>7, <1>8, <1>9, <1>10, <1>11, <1>12

-----------------------------------------------------------------------------
(* CSV imports: the steps that leave the promise of a preview alone.          *)

\* A confirmation has read a record that was saved.
RecordsRead ==
    \A u \in Users : confirming[u] # None => records[confirming[u].import].status # "none"

\* Marks of what a preview does not promise.
LEMMA MarksNoPromise ==
    ASSUME ImportTypes, NEW i \in Imports, NEW mark,
           \/ seen' = seen
           \/ seen' = [seen EXCEPT ![i].overtaken = mark]
           \/ seen' = [seen EXCEPT ![i].begun = mark]
    PROVE  \A j \in Imports : /\ seen'[j].foretold = seen[j].foretold
                              /\ seen'[j].disturbed = seen[j].disturbed
                              /\ seen'[j].overlapped = seen[j].overlapped
                              /\ seen'[j].erred = seen[j].erred
  <1>1. DOMAIN seen = Imports /\ \A j \in Imports : seen[j] \in Past(j)
    BY DEF ImportTypes
  <1>2. CASE seen' = seen
    BY <1>2
  <1>3. CASE seen' = [seen EXCEPT ![i].overtaken = mark]
    <2>1. /\ seen'[i] = [seen[i] EXCEPT !.overtaken = mark]
          /\ \A j \in Imports \ {i} : seen'[j] = seen[j]
      BY <1>1, <1>3
    <2>2. seen[i] \in Past(i)
      BY <1>1
    <2>3. /\ seen'[i].foretold = seen[i].foretold /\ seen'[i].disturbed = seen[i].disturbed
          /\ seen'[i].overlapped = seen[i].overlapped /\ seen'[i].erred = seen[i].erred
      BY <2>1, <2>2 DEF Past
    <2> QED BY <2>1, <2>3
  <1>4. CASE seen' = [seen EXCEPT ![i].begun = mark]
    <2>1. /\ seen'[i] = [seen[i] EXCEPT !.begun = mark]
          /\ \A j \in Imports \ {i} : seen'[j] = seen[j]
      BY <1>1, <1>4
    <2>2. seen[i] \in Past(i)
      BY <1>1
    <2>3. /\ seen'[i].foretold = seen[i].foretold /\ seen'[i].disturbed = seen[i].disturbed
          /\ seen'[i].overlapped = seen[i].overlapped /\ seen'[i].erred = seen[i].erred
      BY <2>1, <2>2 DEF Past
    <2> QED BY <2>1, <2>3
  <1> QED BY <1>2, <1>3, <1>4

\* A confirmation saves the record it has read, publishes its command, marks the import.
LEMMA ConfirmationParts ==
    ASSUME ImportInv, NEW u \in Users, Csv!StepConfirm(u)
    PROVE  \E i \in Imports :
              /\ confirming[u] # None /\ i = confirming[u].import
              /\ \A j \in Imports \ {i} : records'[j] = records[j]
              /\ records'[i] = records[i] \/ records'[i].status # "none"
              /\ \A v \in Users : confirming'[v] # None =>
                    confirming[v] # None /\ confirming'[v].import = confirming[v].import
              /\ \A j \in Imports : messages[j] # "none" => messages'[j] # "none"
              /\ \E mark : seen' = seen \/ seen' = [seen EXCEPT ![i].overtaken = mark]
              /\ files' = files /\ accounts' = accounts /\ categories' = categories
              /\ posted' = posted /\ outcomes' = outcomes /\ runs' = runs
  <1>1. ImportTypes /\ StatusFollows
    BY DEF ImportInv
  <1>2. confirming[u] # None
    BY DEF Csv!StepConfirm
  <1>3. PICK i \in Imports : i = confirming[u].import /\ confirming[u] \in Confirmation(i)
    BY <1>1, <1>2, ConfirmationTyped
  <1> DEFINE copy == confirming[u].copy
             next == Head(confirming[u].steps)
             rest == Tail(confirming[u].steps)
             after == IF next = "confirm" THEN Csv!Confirmed(copy) ELSE copy
             stepped == [confirming[u] EXCEPT !.steps = rest, !.copy = after]
             referenced == [copy EXCEPT !.job = TRUE]
             published == IF messages[i] = "none" THEN "pending" ELSE messages[i]
             took == seen[i].overtaken
                        \/ (copy.status = "previewed" /\ records[i].status = "completed")
             took2 == seen[i].overtaken \/ records[i].status = "completed"
  <1>4. /\ confirming' = [confirming EXCEPT ![u] = IF rest = <<>> THEN None ELSE stepped]
        /\ \/ /\ records' = IF copy.status = "previewed"
                            THEN [records EXCEPT ![i] = Csv!Confirmed(copy)] ELSE records
              /\ seen' = [seen EXCEPT ![i].overtaken = took]
              /\ messages' = messages
           \/ /\ messages' = [messages EXCEPT ![i] = published]
              /\ records' = records /\ seen' = seen
           \/ /\ records' = [records EXCEPT ![i] = referenced]
              /\ seen' = [seen EXCEPT ![i].overtaken = took2]
              /\ messages' = messages
        /\ files' = files /\ posted' = posted /\ outcomes' = outcomes /\ runs' = runs
        /\ accounts' = accounts /\ categories' = categories
    BY <1>3 DEF Csv!StepConfirm, Csv!catalog
  <1>5. copy \in Record(i) /\ copy.status \in {"previewed", "confirmed", "running"}
    BY <1>1, <1>2, <1>3 DEF StatusFollows, Confirmation
  <1>6. /\ Csv!Confirmed(copy).status # "none" /\ referenced.status # "none"
        /\ published # "none"
    BY <1>5 DEF Record, Csv!Confirmed
  <1>7. stepped.import = i
    BY <1>3 DEF Confirmation
  <1> HIDE DEF stepped, referenced, published, took, took2, rest, copy
  <1>8. /\ \A j \in Imports \ {i} : records'[j] = records[j]
        /\ records'[i] = records[i] \/ records'[i].status # "none"
    BY <1>1, <1>4, <1>6 DEF ImportTypes
  <1>9. \A j \in Imports : messages[j] # "none" => messages'[j] # "none"
    BY <1>1, <1>4, <1>6 DEF ImportTypes
  <1>10. \A v \in Users : confirming'[v] # None =>
            confirming[v] # None /\ confirming'[v].import = confirming[v].import
    BY <1>1, <1>2, <1>3, <1>4, <1>7 DEF ImportTypes
  <1>11. \E mark : seen' = seen \/ seen' = [seen EXCEPT ![i].overtaken = mark]
    BY <1>4
  <1> QED BY <1>2, <1>3, <1>4, <1>8, <1>9, <1>10, <1>11

\* A record once saved stays so, and so does what a confirmation has read.
LEMMA RecordsStayRead ==
    ASSUME ImportInv, RecordsRead, [Csv!Next]_importVars
    PROVE  RecordsRead'
  <1>1. ImportTypes
    BY DEF ImportInv
  <1>2. \A u \in Users : confirming[u] # None => confirming[u].import \in Imports
    BY <1>1, ConfirmationTyped
  <1>3. ASSUME \A i \in Imports : records[i].status # "none" => records'[i].status # "none",
               \A u \in Users : confirming'[u] # None =>
                  \/ confirming[u] # None /\ confirming'[u].import = confirming[u].import
                  \/ /\ confirming'[u].import \in Imports
                     /\ records[confirming'[u].import].status # "none"
        PROVE  RecordsRead'
    BY <1>2, <1>3 DEF RecordsRead
  <1>4. ASSUME confirming' = confirming, NEW i \in Imports, NEW record,
               records' = [records EXCEPT ![i] = record], record.status # "none"
        PROVE  RecordsRead'
    <2>1. \A j \in Imports : records[j].status # "none" => records'[j].status # "none"
      BY <1>1, <1>4 DEF ImportTypes
    <2> QED BY <1>3, <1>4, <2>1
  <1>5. ASSUME confirming' = confirming, records' = records PROVE RecordsRead'
    BY <1>3, <1>5
  <1>6. ASSUME NEW i \in Imports, Csv!PreviewCSVImport(i) PROVE RecordsRead'
    <2> DEFINE made == [Csv!NoRecord EXCEPT !.status = "previewed",
                                            !.rejected = Csv!RejectedAtPreview(i)]
    <2>1. records' = [records EXCEPT ![i] = made] /\ confirming' = confirming
      BY <1>6 DEF Csv!PreviewCSVImport
    <2>2. made.status # "none"
      BY DEF Csv!NoRecord
    <2> HIDE DEF made
    <2> QED BY <1>4, <2>1, <2>2
  <1>7. ASSUME NEW i \in Imports, NEW u \in Users, Csv!OpenConfirm(u, i) PROVE RecordsRead'
    <2> DEFINE opened == [import |-> i, copy |-> records[i], steps |-> Csv!ConfirmSteps]
    <2>1. /\ records' = records /\ records[i].status # "none"
          /\ confirming' = [confirming EXCEPT ![u] = opened]
      BY <1>7 DEF Csv!OpenConfirm, Csv!NeedsPublication
    <2>2. opened.import = i
      OBVIOUS
    <2> HIDE DEF opened
    <2>3. \A v \in Users : confirming'[v] = IF v = u THEN opened ELSE confirming[v]
      BY <1>1, <2>1 DEF ImportTypes
    <2> QED BY <1>3, <2>1, <2>2, <2>3
  <1>8. ASSUME NEW u \in Users, Csv!StepConfirm(u) PROVE RecordsRead'
    <2>1. PICK i \in Imports :
             /\ \A j \in Imports \ {i} : records'[j] = records[j]
             /\ records'[i] = records[i] \/ records'[i].status # "none"
             /\ \A v \in Users : confirming'[v] # None =>
                   confirming[v] # None /\ confirming'[v].import = confirming[v].import
      BY <1>8, ConfirmationParts
    <2> QED BY <1>3, <2>1
  <1>9. ASSUME NEW u \in Users, Csv!DropConfirm(u) PROVE RecordsRead'
    <2>1. records' = records /\ confirming' = [confirming EXCEPT ![u] = None]
      BY <1>9 DEF Csv!DropConfirm
    <2>2. \A v \in Users : confirming'[v] # None => confirming'[v] = confirming[v]
      BY <1>1, <2>1 DEF ImportTypes
    <2> QED BY <1>3, <2>1, <2>2
  <1>10. ASSUME NEW w \in Runners, Csv!SaveRunning(w) PROVE RecordsRead'
    <2> DEFINE saved == [runs[w].copy EXCEPT !.status = "running"]
    <2>1. /\ runs[w] # None /\ confirming' = confirming
          /\ records' = [records EXCEPT ![runs[w].import] = saved]
      BY <1>10 DEF Csv!SaveRunning, Csv!Saved
    <2>2. runs[w].import \in Imports /\ runs[w] \in Run(runs[w].import)
      BY <1>1, <2>1, RunTyped
    <2>3. saved.status # "none"
      BY <2>2 DEF Run, Record
    <2> HIDE DEF saved
    <2> QED BY <1>4, <2>1, <2>2, <2>3
  <1>11. ASSUME NEW w \in Runners, Csv!FinishRun(w) PROVE RecordsRead'
    <2> DEFINE completed == [status |-> "completed", job |-> TRUE,
                             imported |-> runs[w].imported, rejected |-> runs[w].rejected]
    <2>1. /\ runs[w] # None /\ confirming' = confirming
          /\ records' = [records EXCEPT ![runs[w].import] = completed]
      BY <1>11 DEF Csv!FinishRun
    <2>2. runs[w].import \in Imports
      BY <1>1, <2>1, RunTyped
    <2>3. completed.status # "none"
      OBVIOUS
    <2> HIDE DEF completed
    <2> QED BY <1>4, <2>1, <2>2, <2>3
  <1>12. ASSUME NEW w \in Runners, \/ \E i \in Imports : Csv!OpenRun(w, i)
                                  \/ Csv!OpenRow(w) \/ Csv!CommitRow(w) \/ Csv!FailRow(w)
                                  \/ Csv!DropRun(w)
         PROVE  RecordsRead'
    <2>1. confirming' = confirming /\ records' = records
      BY <1>12, Zenon
         DEF Csv!OpenRun, Csv!OpenRow, Csv!CommitRow, Csv!FailRow, Csv!DropRun
    <2> QED BY <1>5, <2>1
  <1>13. ASSUME NEW name \in DOMAIN accounts, Csv!HideAccount(name) PROVE RecordsRead'
    BY <1>5, <1>13 DEF Csv!HideAccount
  <1>14. CASE UNCHANGED importVars
    BY <1>5, <1>14 DEF importVars, Csv!vars
  <1> QED BY <1>6, <1>7, <1>8, <1>9, <1>10, <1>11, <1>12, <1>13, <1>14 DEF Csv!Next

\* A run's import has its command published, and so a record.
LEMMA RunsBegun ==
    ASSUME ImportInv, PreviewInv, NEW w \in Runners, runs[w] # None
    PROVE  /\ runs[w].import \in Imports
           /\ messages[runs[w].import] # "none"
           /\ records[runs[w].import].status # "none"
  <1>1. ImportTypes /\ StatusFollows /\ AllBegun
    BY DEF ImportInv, PreviewInv
  <1>2. runs[w].import \in Imports /\ w \in RunsOf(runs[w].import)
    BY <1>1, RunTyped DEF RunsOf
  <1>3. messages[runs[w].import] # "none"
    BY <1>1, <1>2 DEF AllBegun, BegunOf
  <1>4. Beyond(runs[w].import)
    BY <1>1, <1>2, <1>3 DEF StatusFollows
  <1> QED BY <1>2, <1>3, <1>4 DEF Beyond

\* Confirmations change no promise.
LEMMA PromiseConfirmed ==
    ASSUME ImportInv, RecordsRead, PreviewInv, NEW u \in Users,
           \/ \E i \in Imports : Csv!OpenConfirm(u, i)
           \/ Csv!StepConfirm(u)
           \/ Csv!DropConfirm(u)
    PROVE  PreviewInv'
  <1>1. ImportTypes
    BY DEF ImportInv
  <1>2. \A w \in Runners : runs[w] # None =>
           runs[w].import \in Imports /\ messages[runs[w].import] # "none"
    BY RunsBegun
  <1>3. CASE \/ \E i \in Imports : Csv!OpenConfirm(u, i)
             \/ Csv!DropConfirm(u)
    <2>1. /\ files' = files /\ accounts' = accounts /\ categories' = categories
          /\ posted' = posted /\ outcomes' = outcomes /\ records' = records
          /\ messages' = messages /\ runs' = runs /\ seen' = seen
      BY <1>3 DEF Csv!OpenConfirm, Csv!DropConfirm, Csv!catalog
    <2> QED BY <1>2, <2>1, ForetoldRests
  <1>4. CASE Csv!StepConfirm(u)
    <2>1. PICK i \in Imports :
             /\ confirming[u] # None /\ i = confirming[u].import
             /\ \A j \in Imports \ {i} : records'[j] = records[j]
             /\ \A j \in Imports : messages[j] # "none" => messages'[j] # "none"
             /\ \E mark : seen' = seen \/ seen' = [seen EXCEPT ![i].overtaken = mark]
             /\ files' = files /\ accounts' = accounts /\ categories' = categories
             /\ posted' = posted /\ outcomes' = outcomes /\ runs' = runs
      BY <1>4, ConfirmationParts
    <2>2. \A j \in Imports : records'[j].status # "none" => records[j].status # "none"
      BY <2>1 DEF RecordsRead
    <2>3. \A j \in Imports : /\ seen'[j].foretold = seen[j].foretold
                             /\ seen'[j].disturbed = seen[j].disturbed
                             /\ seen'[j].overlapped = seen[j].overlapped
                             /\ seen'[j].erred = seen[j].erred
      BY <1>1, <2>1, MarksNoPromise
    <2> QED BY <1>2, <2>1, <2>2, <2>3, ForetoldRests
  <1> QED BY <1>3, <1>4

\* Neither does a run that begins ...
LEMMA PromiseBegun ==
    ASSUME ImportInv, PreviewInv, NEW w \in Runners, NEW i \in Imports, Csv!OpenRun(w, i)
    PROVE  PreviewInv'
  <1>1. ImportTypes
    BY DEF ImportInv
  <1> DEFINE opened == [import |-> i, copy |-> records[i], pc |-> "opened", todo |-> {},
                        imported |-> 0, rejected |-> {}, row |-> None]
             begun == IF seen[i].begun = 0 THEN 1 ELSE 2
  <1>2. /\ messages[i] = "pending"
        /\ runs' = runs \/ runs' = [runs EXCEPT ![w] = opened]
        /\ seen' = seen \/ seen' = [seen EXCEPT ![i].begun = begun]
        /\ messages' = messages \/ messages' = [messages EXCEPT ![i] = "done"]
        /\ files' = files /\ accounts' = accounts /\ categories' = categories
        /\ posted' = posted /\ outcomes' = outcomes /\ records' = records
    BY DEF Csv!OpenRun, Csv!Done, Csv!catalog
  <1>3. opened.import = i /\ opened.row = None
    OBVIOUS
  <1> HIDE DEF opened, begun
  <1>4. \A j \in Imports : messages[j] # "none" => messages'[j] # "none"
    BY <1>1, <1>2 DEF ImportTypes
  <1>5. \A j \in Imports : /\ seen'[j].foretold = seen[j].foretold
                           /\ seen'[j].disturbed = seen[j].disturbed
                           /\ seen'[j].overlapped = seen[j].overlapped
                           /\ seen'[j].erred = seen[j].erred
    BY <1>1, <1>2, MarksNoPromise
  <1>6. ASSUME NEW v \in Runners, runs'[v] # None
        PROVE  /\ runs'[v].import \in Imports /\ messages'[runs'[v].import] # "none"
               /\ runs'[v].row # None => /\ runs[v] # None /\ runs[v].row # None
                                         /\ runs'[v] = runs[v]
    <2>1. CASE runs'[v] = runs[v]
      BY <1>4, <1>6, <2>1, RunsBegun
    <2>2. CASE runs'[v] # runs[v]
      <3>1. runs'[v] = opened
        BY <1>1, <1>2, <2>2 DEF ImportTypes
      <3> QED BY <1>2, <1>3, <1>4, <3>1
    <2> QED BY <2>1, <2>2
  <1> QED BY <1>2, <1>4, <1>5, <1>6, ForetoldRests

\* ... or takes on its rows, ends or is dropped.
LEMMA PromiseRun ==
    ASSUME ImportInv, PreviewInv, NEW w \in Runners,
           Csv!SaveRunning(w) \/ Csv!FinishRun(w) \/ Csv!DropRun(w)
    PROVE  PreviewInv'
  <1>1. ImportTypes /\ RowsHeld
    BY DEF ImportInv
  <1>2. runs[w] # None
    BY DEF Csv!SaveRunning, Csv!FinishRun, Csv!DropRun
  <1>3. PICK i \in Imports : /\ i = runs[w].import /\ runs[w] \in Run(i)
                             /\ messages[i] # "none" /\ records[i].status # "none"
    BY <1>1, <1>2, RunTyped, RunsBegun
  <1> DEFINE legacy == files[i].type = "accounts"
             todo == IF legacy THEN Csv!Rows(i) \ runs[w].copy.rejected ELSE Csv!ToImport(i)
             rejected == IF legacy THEN runs[w].copy.rejected
                         ELSE {r \in Csv!Rows(i) : Csv!Chosen(i, r) /\ ~Csv!Row(i, r).parses}
             saved == [runs[w].copy EXCEPT !.status = "running"]
             started == [runs[w] EXCEPT !.pc = "rows", !.copy = saved, !.todo = todo,
                                        !.rejected = rejected]
             completed == [status |-> "completed", job |-> TRUE,
                           imported |-> runs[w].imported, rejected |-> runs[w].rejected]
             told == seen[i].overtaken \/ records[i].status = "completed"
  <1>4. /\ \E record : records' = records \/ records' = [records EXCEPT ![i] = record]
        /\ \/ runs[w].pc = "opened" /\ runs' = [runs EXCEPT ![w] = started]
           \/ runs' = [runs EXCEPT ![w] = None]
        /\ \E mark : seen' = seen \/ seen' = [seen EXCEPT ![i].overtaken = mark]
        /\ messages' = messages \/ messages' = [messages EXCEPT ![i] = "done"]
        /\ files' = files /\ accounts' = accounts /\ categories' = categories
        /\ posted' = posted /\ outcomes' = outcomes
    <2>1. CASE Csv!SaveRunning(w)
      <3>1. /\ records' = [records EXCEPT ![i] = saved]
            /\ runs[w].pc = "opened" /\ runs' = [runs EXCEPT ![w] = started]
            /\ seen' = [seen EXCEPT ![i].overtaken = told] /\ messages' = messages
            /\ files' = files /\ accounts' = accounts /\ categories' = categories
            /\ posted' = posted /\ outcomes' = outcomes
        BY <1>3, <2>1 DEF Csv!SaveRunning, Csv!Saved, Csv!catalog
      <3> HIDE DEF saved, started, told
      <3> QED BY <3>1
    <2>2. CASE Csv!FinishRun(w)
      <3>1. /\ records' = [records EXCEPT ![i] = completed]
            /\ runs' = [runs EXCEPT ![w] = None]
            /\ seen' = [seen EXCEPT ![i].overtaken = FALSE]
            /\ messages' = messages \/ messages' = [messages EXCEPT ![i] = "done"]
            /\ files' = files /\ accounts' = accounts /\ categories' = categories
            /\ posted' = posted /\ outcomes' = outcomes
        BY <1>3, <2>2 DEF Csv!FinishRun, Csv!Done, Csv!catalog
      <3> HIDE DEF completed, started
      <3> QED BY <3>1
    <2>3. CASE Csv!DropRun(w)
      <3> HIDE DEF started
      <3> QED BY <2>3 DEF Csv!DropRun, Csv!catalog
    <2> QED BY <2>1, <2>2, <2>3
  <1>5. runs[w].pc = "opened" => started.import = i /\ started.row = None
    <2>1. runs[w].pc = "opened" => runs[w].row = None
      BY <1>1, <1>2 DEF RowsHeld, HeldBy
    <2> HIDE DEF todo, rejected, saved
    <2> QED BY <1>3, <2>1 DEF Run
  <1> HIDE DEF started
  <1>6. \A j \in Imports : /\ records'[j].status # "none" => records[j].status # "none"
                           /\ messages[j] # "none" => messages'[j] # "none"
    <2>1. DOMAIN records = Imports /\ DOMAIN messages = Imports
      BY <1>1 DEF ImportTypes
    <2>2. \A j \in Imports : records'[j].status # "none" => records[j].status # "none"
      <3>1. \A j \in Imports : j # i => records'[j] = records[j]
        BY <1>4, <2>1
      <3> QED BY <1>3, <3>1
    <2>3. \A j \in Imports : messages[j] # "none" => messages'[j] # "none"
      BY <1>4, <2>1
    <2> QED BY <2>2, <2>3
  <1>7. \A j \in Imports : /\ seen'[j].foretold = seen[j].foretold
                           /\ seen'[j].disturbed = seen[j].disturbed
                           /\ seen'[j].overlapped = seen[j].overlapped
                           /\ seen'[j].erred = seen[j].erred
    BY <1>1, <1>4, MarksNoPromise
  <1>8. ASSUME NEW v \in Runners, runs'[v] # None
        PROVE  /\ runs'[v].import \in Imports /\ messages'[runs'[v].import] # "none"
               /\ runs'[v].row # None => /\ runs[v] # None /\ runs[v].row # None
                                         /\ runs'[v] = runs[v]
    <2>1. CASE runs'[v] = runs[v]
      BY <1>6, <1>8, <2>1, RunsBegun
    <2>2. CASE runs'[v] # runs[v]
      <3>1. runs'[v] = started /\ runs[w].pc = "opened"
        BY <1>1, <1>4, <1>8, <2>2 DEF ImportTypes
      <3> QED BY <1>3, <1>5, <1>6, <3>1
    <2> QED BY <2>1, <2>2
  <1> QED BY <1>4, <1>6, <1>7, <1>8, ForetoldRests

\* Every step keeps the promises.
LEMMA PromiseStep == ImportInv /\ RecordsRead /\ PreviewInv /\ [Csv!Next]_importVars => PreviewInv'
  <1> SUFFICES ASSUME ImportInv, RecordsRead, PreviewInv, [Csv!Next]_importVars
               PROVE  PreviewInv'
    OBVIOUS
  <1>1. ASSUME NEW i \in Imports, Csv!PreviewCSVImport(i) PROVE PreviewInv'
    BY <1>1, PromiseMade
  <1>2. ASSUME NEW u \in Users, \/ \E i \in Imports : Csv!OpenConfirm(u, i)
                                \/ Csv!StepConfirm(u) \/ Csv!DropConfirm(u)
        PROVE  PreviewInv'
    BY <1>2, PromiseConfirmed
  <1>3. ASSUME NEW w \in Runners, NEW i \in Imports, Csv!OpenRun(w, i) PROVE PreviewInv'
    BY <1>3, PromiseBegun
  <1>4. ASSUME NEW w \in Runners, Csv!SaveRunning(w) \/ Csv!FinishRun(w) \/ Csv!DropRun(w)
        PROVE  PreviewInv'
    BY <1>4, PromiseRun
  <1>5. ASSUME NEW w \in Runners, Csv!OpenRow(w) PROVE PreviewInv'
    BY <1>5, PromiseLookedUp
  <1>6. ASSUME NEW w \in Runners, Csv!CommitRow(w) PROVE PreviewInv'
    BY <1>6, PromiseCommitted
  <1>7. ASSUME NEW w \in Runners, Csv!FailRow(w) PROVE PreviewInv'
    BY <1>7, PromiseLeft DEF Csv!FailRow, Csv!catalog
  <1>8. ASSUME NEW name \in DOMAIN accounts, Csv!HideAccount(name) PROVE PreviewInv'
    BY <1>8, PromiseHidden
  <1>9. CASE UNCHANGED importVars
    <2>1. /\ files' = files /\ accounts' = accounts /\ categories' = categories
          /\ posted' = posted /\ outcomes' = outcomes /\ records' = records
          /\ messages' = messages /\ runs' = runs /\ seen' = seen
      BY <1>9 DEF importVars, Csv!vars
    <2>2. \A w \in Runners : runs[w] # None =>
             runs[w].import \in Imports /\ messages[runs[w].import] # "none"
      BY RunsBegun
    <2> QED BY <2>1, <2>2, ForetoldRests
  <1> QED BY <1>1, <1>2, <1>3, <1>4, <1>5, <1>6, <1>7, <1>8, <1>9 DEF Csv!Next

-----------------------------------------------------------------------------
(* The theorems about the promise of a preview.                               *)

\* Of an import that nothing disturbs and none of whose rows fails, the rows foretold are,
\* all along, those imported and those of the rest that the catalog, with what the foretold
\* rows before them will make, has room for (PreviewCSVImport, ImportTransactionRow).
THEOREM PreviewInvariant == ComponentsSpec => [](RecordsRead /\ PreviewInv)
  <1>1. ComponentsInit => ImportInv /\ RecordsRead /\ PreviewInv
    <2>1. Csv!Init => RecordsRead
      BY DEF Csv!Init, RecordsRead
    <2> QED BY <2>1, ImportInit, PromiseInit DEF ComponentsInit
  <1>2. /\ ImportInv /\ RecordsRead /\ PreviewInv
        /\ [ComponentsNext]_<<part, vars, importVars, linkVars, routerVars, agentVars>>
        => RecordsRead' /\ PreviewInv'
    BY ImportTurns, RecordsStayRead, PromiseStep
  <1> QED BY <1>1, <1>2, ImportingInvariant, PTL DEF ComponentsSpec

\* What the preview said would be imported is what a completed import has imported, unless
\* the catalog or the ledger moved in between or a row failed (PreviewCSVImport,
\* RunCSVImportJob).
THEOREM PreviewStaysKept == ComponentsSpec => []PreviewKept
  <1>1. ImportInv /\ PreviewInv => PreviewKept
    <2> SUFFICES ASSUME ImportInv, PreviewInv, NEW i \in Imports,
                        records[i].status = "completed", files[i].type = "transactions",
                        ~seen[i].disturbed, ~seen[i].erred
                 PROVE  {r \in Csv!Rows(i) : outcomes[i][r] = "imported"} = seen[i].foretold
      BY DEF PreviewKept, Csv!PreviewKept
    <2>1. CountsOf(i) /\ PostedOf(i) /\ OnTrack(i)
      BY DEF ImportInv, PreviewInv, CountsAgree, PostedAsSaid, Tracked
    <2>2. \A r \in Csv!ToImport(i) : outcomes[i][r] # "none"
      BY <2>1 DEF CountsOf
    <2>3. /\ seen[i].foretold \subseteq Csv!ToImport(i)
          /\ \A r \in Csv!ToImport(i) :
                r \in seen[i].foretold <=> outcomes[i][r] = "imported"
      BY <2>1, <2>2 DEF OnTrack, Foretold
    <2>4. \A r \in Csv!Rows(i) : outcomes[i][r] = "imported" => r \in Csv!ToImport(i)
      BY <2>1 DEF PostedOf
    <2> QED BY <2>3, <2>4 DEF Csv!ToImport
  <1> QED BY <1>1, ImportingInvariant, PreviewInvariant, PTL
=============================================================================
