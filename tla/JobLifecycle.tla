----------------------------- MODULE JobLifecycle -----------------------------
(***************************************************************************)
(* What the jobs API promises of a job, without workers, messages or time:  *)
(* it appears queued, each run of it is one counted attempt, a run ends in  *)
(* an outcome or gives the job back, and an outcome is final.  A job that    *)
(* is not running can only fail after it has been attempted.                *)
(***************************************************************************)
EXTENDS Naturals

CONSTANTS Jobs, MaxAttempts
VARIABLES status, attempts

Init ==
    /\ status = [j \in Jobs |-> "absent"]
    /\ attempts = [j \in Jobs |-> 0]

Move(j, from, to) ==
    /\ status[j] = from
    /\ status' = [status EXCEPT ![j] = to]

Appear(j) == Move(j, "absent", "queued") /\ UNCHANGED attempts

\* The count stops at the only value it is compared with.
Start(j) ==
    /\ Move(j, "queued", "running")
    /\ attempts' = [attempts EXCEPT ![j] = IF @ < MaxAttempts THEN @ + 1 ELSE @]

GiveBack(j) == Move(j, "running", "queued") /\ UNCHANGED attempts

Finish(j) ==
    /\ \E outcome \in {"succeeded", "failed"} : Move(j, "running", outcome)
    /\ UNCHANGED attempts

\* The delivery of a queued job was given up.
Exhaust(j) ==
    /\ attempts[j] > 0
    /\ Move(j, "queued", "failed")
    /\ UNCHANGED attempts

Next == \E j \in Jobs : Appear(j) \/ Start(j) \/ GiveBack(j) \/ Finish(j) \/ Exhaust(j)

Spec == Init /\ [][Next]_<<status, attempts>>
=============================================================================
