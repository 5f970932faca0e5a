---------------------------- MODULE MCComponents ----------------------------
(* Components on small instances: ledgers, files and messages to start from.    *)
EXTENDS Components

Row(account, currency, amount, at) ==
    [account |-> account, currency |-> currency, amount |-> amount, original |-> amount,
     at |-> at, connection |-> "k", fx |-> None, operation |-> None, route |-> None]

EuroPln == [base |-> "eur", quote |-> "pln", rate |-> 9, per |-> 2]

\* The competitor of a leg lies two windows away from the other leg.
Competitor == <<Row(1, "eur", -7, 0), Row(2, "eur", 7, 1), Row(3, "eur", -7, 2)>>

\* More candidates than the cap, and rows of one account.
Crowd == <<Row(1, "eur", 7, 0), Row(1, "eur", -7, 0), Row(2, "eur", 7, 0), Row(3, "eur", 7, 1)>>

\* An exchange at 4.5, rounded up, with a competitor by another rule.
Exchange ==
    <<[Row(1, "eur", -3, 0) EXCEPT !.fx = EuroPln], [Row(2, "pln", 14, 0) EXCEPT !.fx = EuroPln],
      Row(3, "eur", 3, 1), [Row(2, "pln", 13, 1) EXCEPT !.fx = EuroPln]>>

\* Provider evidence, of an edited row too.
Provider ==
    <<[Row(1, "uah", -6, 0) EXCEPT !.operation = [currency |-> "eur", amount |-> -1]],
      [Row(2, "eur", 1, 1) EXCEPT !.operation = [currency |-> "uah", amount |-> 6]],
      [Row(1, "pln", -5, 1) EXCEPT !.route = <<"a", "b">>],
      [Row(2, "eur", 2, 1) EXCEPT !.route = <<"a", "b">>]>>

Edited ==
    <<[Row(1, "pln", -5, 0) EXCEPT !.route = <<"a", "b">>],
      [Row(2, "eur", 2, 0) EXCEPT !.route = <<"a", "b">>, !.original = 1],
      Row(2, "eur", -16, 0), Row(1, "eur", -16, 1)>>

MCMinInt == -16

MCRanges == {[start |-> 0, end |-> 1], [start |-> 1, end |-> 4]}

\* Those with pending rows.
MCPendingLedgers == {Competitor}

MCLedgers == {Competitor, Crowd, Exchange, Provider, Edited}

-----------------------------------------------------------------------------

Line(account, currency, category, key) ==
    [parses |-> TRUE, account |-> account, currency |-> currency, category |-> category,
     key |-> key, expense |-> TRUE]
Income(line) == [line EXCEPT !.expense = FALSE]
Broken(line) == [line EXCEPT !.parses = FALSE]

File(type, selected, rows) == [type |-> type, selected |-> selected, rows |-> rows]

A == Line("a", "eur", None, "x")
B == Line("b", "eur", "c", "x")

Situation(first, second) ==
    [files |-> ("i1" :> first @@ "i2" :> second),
     accounts |-> ("a" :> <<[currency |-> "eur", hidden |-> FALSE]>> @@ "b" :> <<>>),
     categories |-> ("c" :> <<>>)]

MCSituations ==
    {\* Two files with an entry on a new account in common.
     Situation(File("transactions", {"a", "b"}, <<B>>),
               File("transactions", {"a", "b"}, <<[B EXCEPT !.category = None]>>)),
     \* A new account in two currencies; an account that is not selected.
     Situation(File("transactions", {"a", "b"}, <<B, Line("b", "usd", None, "y")>>),
               File("transactions", {"a"}, <<B>>)),
     \* A repeated row; accounts.
     Situation(File("transactions", {"a", "b"}, <<A, A>>),
               File("accounts", {}, <<B, Broken(A)>>)),
     \* A new category of both kinds; a row that does not parse.
     Situation(File("transactions", {"a"}, <<Line("a", "eur", "c", "x"),
                                            Income(Line("a", "eur", "c", "y"))>>),
               File("transactions", {"a"}, <<Broken(A), B>>))}

-----------------------------------------------------------------------------

MCTopic == "m" :> "t1"

MCYields == "q1" :> 0 @@ "q2" :> 2
=============================================================================
