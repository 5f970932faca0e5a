----------------------------- MODULE MCJobWorker -----------------------------
(* Instances of JobWorker for TLC. *)
EXTENDS JobWorker, TLC

CONSTANTS p1, p2
TwoProcs == {p1, p2}
ProcSymmetry == Permutations(TwoProcs)

NoneMalformed == {}
SecondMalformed == {2}
AllFaults == FaultNames
Abandonments == {"abandon"}
NoRenewFault == FaultNames \ {"renew"}
=============================================================================
