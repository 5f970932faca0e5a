--------------------------- MODULE LinkCoordinator ---------------------------
(***************************************************************************)
(* Linking of bank connections (finance/internal/providers/                 *)
(* link_coordinator.go, persistence/provider_link_persistence.go).  A       *)
(* redirect link starts with a pending start, known by its state; the       *)
(* request that finishes it consumes the start, asks the bank, saves the    *)
(* connection with its secret, snapshot and schedule in one transaction,    *)
(* and restores the start if anything fails.  Nothing but the start keeps   *)
(* two requests apart.                                                      *)
(*                                                                          *)
(* A transaction whose request gives up may still commit.  A bank that      *)
(* answers with a session gives another one each time it is asked; a        *)
(* synthetic bank answers with the state.                                   *)
(***************************************************************************)
EXTENDS Naturals, Sequences, FiniteSets

CONSTANTS Starts,    \* states of redirect links
          Synthetic, \* the synthetic ones among them
          Finishers, \* requests
          MaxMade,   \* bound on connections
          MaxUserOps,\* bound on users' operations on connections
          MaxFaults, \* bound on failures
          None       \* nil

VARIABLES
    starts,      \* state -> none, pending or consumed
    expired,     \* the starts whose time is over
    connections, \* connections made, by number
    requests,    \* finisher -> its request
    adrift,      \* transactions whose request gave up
    past,        \* what has happened, for the properties only
    userOps, faults

vars == <<starts, expired, connections, requests, adrift, past, userOps, faults>>

Connections == DOMAIN connections
Live == {c \in Connections : connections[c].live}

AFault == faults > 0 /\ faults' = faults - 1
AnOp == userOps > 0 /\ userOps' = userOps - 1

NoRequest == [pc |-> "idle", start |-> None, save |-> None]

Init ==
    /\ starts = [s \in Starts |-> "none"]
    /\ expired = {}
    /\ connections = <<>>
    /\ requests = [f \in Finishers |-> NoRequest]
    /\ adrift = {}
    /\ past = [unsure |-> {}, lost |-> {}]
    /\ userOps = MaxUserOps
    /\ faults = MaxFaults

-----------------------------------------------------------------------------
(* Pending starts *)

\* StartRedirectLink; the lookup index of starts admits a state once.
StartRedirectLink(s) ==
    /\ starts[s] = "none"
    /\ starts' = [starts EXCEPT ![s] = "pending"]
    /\ UNCHANGED <<expired, connections, requests, adrift, past, userOps, faults>>

\* ExpiresAt passes.
Expire(s) ==
    /\ starts[s] # "none"
    /\ expired' = expired \cup {s}
    /\ UNCHANGED <<starts, connections, requests, adrift, past, userOps, faults>>

\* Mutant: a start is only checked for its time.
Consumable_Again(s) == starts[s] # "none" /\ s \notin expired

\* ConsumePendingStart: consumed_at IS NULL AND expires_at > ?.
Consumable(s) == starts[s] = "pending" /\ s \notin expired

Consume(f, s) ==
    /\ requests[f].pc = "idle"
    /\ Consumable(s)
    /\ starts' = [starts EXCEPT ![s] = "consumed"]
    /\ requests' = [requests EXCEPT ![f] = [pc |-> "finishing", start |-> s, save |-> None]]
    /\ UNCHANGED <<expired, connections, adrift, past, userOps, faults>>

-----------------------------------------------------------------------------
(* The transaction of a link *)

SameReference(ref) == {c \in Live : ref # None /\ connections[c].ref = ref}

\* A session is named after the connection it would make.
NewReference(s) ==
    IF s \in Synthetic THEN [start |-> s, session |-> 0]
    ELSE [start |-> s, session |-> Len(connections) + Cardinality(adrift) + 1]

\* The connector's answer, and the first statement: the row of that reference, if
\* there is one, is locked until the end.
FinishLink(f) ==
    /\ requests[f].pc = "finishing"
    /\ LET ref == NewReference(requests[f].start) IN
         requests' = [requests EXCEPT ![f] =
                          [@ EXCEPT !.pc = "saving",
                                    !.save = [ref   |-> ref,
                                              start |-> requests[f].start,
                                              found |-> SameReference(ref)]]]
    /\ UNCHANGED <<starts, expired, connections, adrift, past, userOps, faults>>

\* Mutants: the lookup of the transaction is all there is; the row is not locked.
Collides_Never(save) == FALSE
Locked_Never(c) == FALSE

\* A row that the unique index refuses.
Collides(save) == save.found = {} /\ SameReference(save.ref) # {}

\* The locks of the transactions under way.
Locked(c) == \/ \E f \in Finishers : requests[f].pc = "saving" /\ c \in requests[f].save.found
             \/ \E save \in adrift : c \in save.found

\* Mutant: a link gives its connection a schedule, whatever it had.
ScheduleOf_Upsert(schedule) == "on"

\* saveMissingBankConnectionSchedule.
ScheduleOf(schedule) == IF schedule = None THEN "on" ELSE schedule

NewConnection(save) ==
    [live |-> TRUE, ref |-> save.ref, start |-> save.start, owned |-> TRUE, schedule |-> "on"]

\* SaveLinkedConnectionWithSnapshotAndSchedule, without a collision.
Linked(save) ==
    IF save.found = {} THEN Append(connections, NewConnection(save))
    ELSE [c \in Connections |-> IF c \in save.found
             THEN [connections[c] EXCEPT !.owned = TRUE, !.schedule = ScheduleOf(@)]
             ELSE connections[c]]

\* The transaction commits, or the row another one has committed meanwhile is
\* returned as it is.
CommitLink(f) ==
    /\ requests[f].pc = "saving"
    /\ IF Collides(requests[f].save) THEN UNCHANGED connections
       ELSE /\ Len(connections) < MaxMade
            /\ connections' = Linked(requests[f].save)
    /\ requests' = [requests EXCEPT ![f] = NoRequest]
    /\ UNCHANGED <<starts, expired, adrift, past, userOps, faults>>

\* The bank or the transaction fails.
FailLink(f) ==
    /\ requests[f].pc \in {"finishing", "saving"}
    /\ AFault
    /\ requests' = [requests EXCEPT ![f] = [@ EXCEPT !.pc = "restoring", !.save = None]]
    /\ UNCHANGED <<starts, expired, connections, adrift, past, userOps>>

\* The request gives up on a transaction that may still commit.
GiveUp(f) ==
    /\ requests[f].pc = "saving"
    /\ AFault
    /\ adrift' = adrift \cup {requests[f].save}
    /\ requests' = [requests EXCEPT ![f] = [@ EXCEPT !.pc = "restoring", !.save = None]]
    /\ past' = [past EXCEPT !.unsure = @ \cup {requests[f].start}]
    /\ UNCHANGED <<starts, expired, connections, userOps>>

Settle(save, commits) ==
    /\ save \in adrift
    /\ adrift' = adrift \ {save}
    /\ \/ /\ commits /\ ~Collides(save)
          /\ Len(connections) < MaxMade
          /\ connections' = Linked(save)
       \/ ~commits /\ UNCHANGED connections
    /\ UNCHANGED <<starts, expired, requests, past, userOps, faults>>

\* Mutant: only a failure of the bank restores the start.
Restored_Never(s) == starts

\* RestorePendingStart.
Restored(s) == [starts EXCEPT ![s] = "pending"]

Restore(f) ==
    /\ requests[f].pc = "restoring"
    /\ starts' = Restored(requests[f].start)
    /\ requests' = [requests EXCEPT ![f] = NoRequest]
    /\ UNCHANGED <<expired, connections, adrift, past, userOps, faults>>

\* A crash, or a request whose context is cancelled, which the restoration shares.
LoseRequest(f) ==
    /\ requests[f].pc # "idle"
    /\ AFault
    /\ past' = [past EXCEPT !.lost = @ \cup {requests[f].start}]
    /\ requests' = [requests EXCEPT ![f] = NoRequest]
    /\ UNCHANGED <<starts, expired, connections, adrift, userOps>>

\* LinkToken: a token's connection has no reference, so each link makes another.
LinkToken ==
    /\ AnOp
    /\ Len(connections) < MaxMade
    /\ connections' = Append(connections,
                             NewConnection([ref |-> None, start |-> None, found |-> {}]))
    /\ UNCHANGED <<starts, expired, requests, adrift, past, faults>>

-----------------------------------------------------------------------------
(* Users *)

Pause(c) ==
    /\ c \in Live /\ connections[c].schedule = "on"
    /\ AnOp
    /\ connections' = [connections EXCEPT ![c].schedule = "off"]
    /\ UNCHANGED <<starts, expired, requests, adrift, past, faults>>

\* DeleteBankConnection takes the row first, then all the connection owns.
Delete(c) ==
    /\ c \in Live
    /\ ~Locked(c)
    /\ AnOp
    /\ connections' = [connections EXCEPT ![c].live = FALSE, ![c].owned = FALSE,
                                          ![c].schedule = None]
    /\ UNCHANGED <<starts, expired, requests, adrift, past, faults>>

Next ==
    \/ \E s \in Starts : StartRedirectLink(s) \/ Expire(s)
    \/ \E f \in Finishers : \/ \E s \in Starts : Consume(f, s)
                            \/ FinishLink(f) \/ CommitLink(f) \/ FailLink(f)
                            \/ GiveUp(f) \/ Restore(f) \/ LoseRequest(f)
    \/ \E save \in adrift, commits \in BOOLEAN : Settle(save, commits)
    \/ LinkToken
    \/ \E c \in Connections : Pause(c) \/ Delete(c)

Spec == Init /\ [][Next]_vars

-----------------------------------------------------------------------------
(* Properties *)

TypeOK ==
    /\ \A s \in Starts : starts[s] \in {"none", "pending", "consumed"}
    /\ \A f \in Finishers :
          /\ requests[f].pc \in {"idle", "finishing", "saving", "restoring"}
          /\ requests[f].pc # "idle" => requests[f].start \in Starts
          /\ requests[f].pc = "saving" => requests[f].save.found \subseteq Connections
    /\ Len(connections) <= MaxMade

\* One start makes one connection, however many requests finish it, fail and try
\* again: never two, and once consumed, and held by no request, it has made it,
\* unless a request was lost with it.  If a request gave up on a transaction that
\* did commit, a synthetic start still makes one, by its reference; a session is
\* then a second connection (FinishRedirectLink, RestorePendingStart).
OneConnectionPerStart ==
    /\ \A c, d \in Live :
          /\ c # d
          /\ connections[c].start = connections[d].start
          => \/ connections[c].start = None
             \/ connections[c].start \in past.unsure \ Synthetic
    /\ \A s \in Starts \ past.lost :
          /\ starts[s] = "consumed"
          /\ \A f \in Finishers : requests[f].start # s
          => \E c \in Connections : connections[c].start = s

\* What users did to a connection stays done, although links write what they looked
\* up before: a deleted connection gets no secret, snapshot or schedule
\* (SaveLinkedConnectionWithSnapshotAndSchedule), and linking it again does not
\* resume a paused schedule (saveMissingBankConnectionSchedule).
UsersWordKept ==
    \A c \in Connections :
        /\ connections[c].schedule = "off" => connections'[c].schedule # "on"
        /\ ~connections'[c].live =>
              ~connections'[c].owned /\ connections'[c].schedule = None
=============================================================================
