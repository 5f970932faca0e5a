--------------------------- MODULE MCBankSchedule ---------------------------
(* BankSchedule on a small instance.                                         *)
EXTENDS BankSchedule, TLC

CONSTANTS c1, s1, s2

OneConnection  == {c1}
OneScheduler   == {s1}
TwoSchedulers  == {s1, s2}

SchedulerSymmetry == Permutations(TwoSchedulers)
=============================================================================
