------------------------------- MODULE Dispatch -------------------------------
(***************************************************************************)
(* The SQL transport of apps/sumweave/internal/appdispatch: publishers that *)
(* insert messages in database transactions of their own or of their        *)
(* caller, with an optional idempotency key, and subscriptions (a topic     *)
(* read by a consumer group) that poll the one messages table.              *)
(*                                                                          *)
(* Messages carry the id of the transaction that inserted them and a serial *)
(* number.  Both are handed out before the transaction commits, so messages *)
(* become visible out of order; the SELECT of a poll therefore stops at the *)
(* oldest transaction still in progress (pg_snapshot_xmin).                 *)
(*                                                                          *)
(* The database (transaction ids, snapshots, the wait of a conflicting      *)
(* INSERT, rollback) is external and modelled from what the queries rely    *)
(* on.  A transaction publishes one message, as every caller does; the id   *)
(* of that transaction stands for the message's UUID.                       *)
(***************************************************************************)
EXTENDS Integers, FiniteSets

CONSTANTS Publishers,       \* clients that publish, one transaction at a time
          Topics, Groups,
          Keys, NoKey,      \* idempotency keys
          Contents,         \* payloads, up to canonicalPayloadHash
          NoRequest,
          Requests,         \* the PublicationRequests that are made
          BatchSize,        \* LIMIT of the poll
          MaxPublications,  \* bound on transactions begun by publishers
          MaxFaults         \* bound on rollbacks, lost replies and lost batches

Subscriptions == Topics \X Groups

ASSUME DispatchAssumption ==
    /\ NoKey \notin Keys
    /\ NoRequest \notin Requests
    /\ Requests \subseteq [topic : Topics, content : Contents, key : Keys \cup {NoKey}]
    /\ BatchSize \in Nat \ {0}
    /\ MaxPublications \in Nat
    /\ MaxFaults \in Nat

VARIABLES
    nextXid,      \* next transaction id
    nextSerial,   \* next value of the "offset" BIGSERIAL; gaps are never filled
    pub,          \* open transaction of each publisher
    committed,    \* ids of committed transactions of publishers
    messages,     \* messages table, uncommitted rows included
    publications, \* publications table, uncommitted rows included
    position,     \* offsets table: subscription -> last acknowledged message
    poll,         \* open transaction of each subscription
    handled,      \* subscription -> messages whose handler has acknowledged
    replies,      \* references that publishers were given after their commit
    begun, faults \* bounded counters

database == <<nextXid, committed, messages, publications>>
vars == <<database, nextSerial, pub, position, poll, handled, replies, begun, faults>>

NoXid == 0
Start == [xid |-> 0, offset |-> 0]   \* BeforeSubscribingQueries

IdlePublisher == [pc |-> "idle", xid |-> NoXid, request |-> NoRequest, reference |-> NoXid]
NoPoll == [xid |-> NoXid, batch |-> {}, acked |-> Start]

Place(m) == [xid |-> m.xid, offset |-> m.offset]

After_SameTransaction(a, b) == a.xid = b.xid /\ a.offset > b.offset
After_ByOffset(a, b) == a.offset > b.offset

\* ORDER BY transaction_id, "offset", and the WHERE clause on last_processed.
After(a, b) == a.xid > b.xid \/ (a.xid = b.xid /\ a.offset > b.offset)

Open(c)  == pub[c].pc # "idle"
Writing(c) == pub[c].xid # NoXid
Active == {pub[c].xid : c \in {c \in Publishers : Writing(c)}}
            \cup {poll[s].xid : s \in {s \in Subscriptions : poll[s].xid # NoXid}}

BelowXmin_Committed(x) == x \in committed

\* x < pg_snapshot_xmin(pg_current_snapshot())
BelowXmin(x) == x < nextXid /\ \A a \in Active : x < a

Visible(x, c) == x \in committed \/ x = pub[c].xid

-----------------------------------------------------------------------------
Init ==
    /\ nextXid = 1 /\ nextSerial = 1
    /\ pub = [c \in Publishers |-> IdlePublisher]
    /\ committed = {} /\ messages = {} /\ publications = {}
    /\ position = [s \in Subscriptions |-> Start]
    /\ poll = [s \in Subscriptions |-> NoPoll]
    /\ handled = [s \in Subscriptions |-> {}]
    /\ replies = {}
    /\ begun = 0 /\ faults = 0

-----------------------------------------------------------------------------
(* Publishers: PublishRequest and PublishRequestInTx.                        *)

XidOf_IfAssigned(c) == pub[c].xid

\* The transaction's id, pg_current_xact_id(), is assigned by its first write.
XidOf(c) == IF Writing(c) THEN pub[c].xid ELSE nextXid
TakeXid(c) == nextXid' = IF Writing(c) THEN nextXid ELSE nextXid + 1

\* BeginTx, in PublishRequest or in the caller of PublishRequestInTx.
Begin(c, request) ==
    /\ ~Open(c)
    /\ begun < MaxPublications
    /\ begun' = begun + 1
    /\ pub' = [pub EXCEPT ![c] = [IdlePublisher EXCEPT !.pc = "begun", !.request = request]]
    /\ UNCHANGED <<database, nextSerial, position, poll, handled, replies, faults>>

\* A caller of PublishRequestInTx writes its own rows first.
CallerWrites(c) ==
    /\ pub[c].pc = "begun" /\ ~Writing(c)
    /\ pub' = [pub EXCEPT ![c].xid = nextXid]
    /\ nextXid' = nextXid + 1
    /\ UNCHANGED <<committed, messages, publications, nextSerial, position, poll, handled,
                   replies, begun, faults>>

Holders_Committed(key) == {p \in publications : p.key = key /\ p.xid \in committed}

\* The rows that an INSERT of the key conflicts with.
Holders(key) == {p \in publications : p.key = key}

\* claimPublication: INSERT ... ON CONFLICT DO NOTHING.  It waits while another
\* transaction in progress holds the key.
ClaimPublication(c) ==
    LET request == pub[c].request
        holders == Holders(request.key) IN
    /\ pub[c].pc = "begun" /\ request.key # NoKey
    /\ \A p \in holders : Visible(p.xid, c)
    /\ \/ /\ holders = {}
          /\ TakeXid(c)
          /\ publications' = publications \cup
                {[key |-> request.key, xid |-> XidOf(c), id |-> XidOf(c),
                  topic |-> request.topic, content |-> request.content]}
          /\ pub' = [pub EXCEPT ![c].pc = "insert", ![c].xid = XidOf(c)]
       \/ /\ holders # {}
          /\ pub' = [pub EXCEPT ![c].pc = "existing"]
          /\ UNCHANGED <<nextXid, publications>>
    /\ UNCHANGED <<committed, messages, nextSerial, position, poll, handled, replies,
                   begun, faults>>

SameRequest_AnyContent(p, request) == p.topic = request.topic

\* The comparison of existingPublication.
SameRequest(p, request) == p.topic = request.topic /\ p.content = request.content

\* What a rollback of transaction x leaves of a table.
Without(x, rows) == {r \in rows : r.xid # x}

\* Rollback: the rows of the transaction disappear, its serial numbers do not.
Rollback(c) ==
    /\ messages' = Without(pub[c].xid, messages)
    /\ publications' = Without(pub[c].xid, publications)
    /\ pub' = [pub EXCEPT ![c] = IdlePublisher]
    /\ UNCHANGED <<nextXid, committed>>

\* existingPublication returns the original reference, or ErrPublicationConflict,
\* upon which the transaction is rolled back.
ExistingPublication(c) ==
    /\ pub[c].pc = "existing"
    /\ \E p \in publications :
         /\ p.key = pub[c].request.key /\ Visible(p.xid, c)
         /\ \/ /\ SameRequest(p, pub[c].request)
               /\ pub' = [pub EXCEPT ![c].pc = "commit", ![c].reference = p.id]
               /\ UNCHANGED database
            \/ ~SameRequest(p, pub[c].request) /\ Rollback(c)
    /\ UNCHANGED <<nextSerial, position, poll, handled, replies, begun, faults>>

\* PublishInTx, or Publish for a request without a key: InsertQuery.
InsertMessage(c) ==
    /\ \/ pub[c].pc = "insert"
       \/ pub[c].pc = "begun" /\ pub[c].request.key = NoKey
    /\ TakeXid(c)
    /\ nextSerial' = nextSerial + 1
    /\ messages' = messages \cup
          {[xid |-> XidOf(c), offset |-> nextSerial, topic |-> pub[c].request.topic,
            content |-> pub[c].request.content, key |-> pub[c].request.key]}
    /\ pub' = [pub EXCEPT ![c].pc = "commit", ![c].xid = XidOf(c), ![c].reference = XidOf(c)]
    /\ UNCHANGED <<committed, publications, position, poll, handled, replies, begun, faults>>

Fault == faults < MaxFaults /\ faults' = faults + 1

\* Commit.  The reference is the caller's once the commit succeeded; the answer
\* to a commit can be lost.
Commit(c) ==
    /\ pub[c].pc = "commit"
    /\ committed' = committed \cup ({pub[c].xid} \ {NoXid})
    /\ pub' = [pub EXCEPT ![c] = IdlePublisher]
    /\ \/ /\ replies' = replies \cup {[request |-> pub[c].request, id |-> pub[c].reference]}
          /\ UNCHANGED faults
       \/ Fault /\ UNCHANGED replies
    /\ UNCHANGED <<nextXid, messages, publications, nextSerial, position, poll, handled, begun>>

\* A statement fails, the context is cancelled, the caller gives up or its
\* process dies: the transaction is rolled back.
Abort(c) ==
    /\ Open(c)
    /\ Fault
    /\ Rollback(c)
    /\ UNCHANGED <<nextSerial, position, poll, handled, replies, begun>>

-----------------------------------------------------------------------------
(* Subscriptions.  The subscriber's loop is Watermill's (external); the      *)
(* queries are the transport's own.                                          *)

\* What the SELECT of subscription s ranges over.
Eligible(s) == {m \in messages : /\ m.topic = s[1]
                                 /\ m.xid \in committed
                                 /\ BelowXmin(m.xid)
                                 /\ After(Place(m), position[s])}

\* The first BatchSize of them.  FOR UPDATE on the offsets row gives the polling
\* transaction an id, which it keeps until the batch has been handled.
Poll(s) ==
    /\ poll[s].xid = NoXid
    /\ \E batch \in SUBSET Eligible(s) :
         /\ batch # {}
         /\ Cardinality(batch) <= BatchSize
         /\ Cardinality(batch) = BatchSize \/ batch = Eligible(s)
         /\ \A m \in batch, n \in Eligible(s) \ batch : After(Place(n), Place(m))
         /\ poll' = [poll EXCEPT ![s] = [xid |-> nextXid, batch |-> batch,
                                         acked |-> position[s]]]
    /\ nextXid' = nextXid + 1
    /\ UNCHANGED <<committed, messages, publications, nextSerial, pub, position, handled,
                   replies, begun, faults>>

\* The handler of the first message of the batch acknowledges it.
Handle(s) ==
    \E m \in poll[s].batch :
        /\ \A n \in poll[s].batch \ {m} : After(Place(n), Place(m))
        /\ handled' = [handled EXCEPT ![s] = @ \cup {m}]
        /\ poll' = [poll EXCEPT ![s].batch = @ \ {m}, ![s].acked = Place(m)]
        /\ UNCHANGED <<database, nextSerial, pub, position, replies, begun, faults>>

\* AckMessageQuery for the last acknowledged message, and the commit: at the end
\* of the batch, or earlier when the subscriber stops.
CommitPoll(s) ==
    /\ poll[s].xid # NoXid
    /\ poll[s].batch = {} \/ Fault
    /\ poll[s].batch = {} => UNCHANGED faults
    /\ position' = [position EXCEPT ![s] = poll[s].acked]
    /\ poll' = [poll EXCEPT ![s] = NoPoll]
    /\ UNCHANGED <<database, nextSerial, pub, handled, replies, begun>>

\* The polling transaction is lost: what it acknowledged will be delivered again.
LosePoll(s) ==
    /\ poll[s].xid # NoXid
    /\ Fault
    /\ poll' = [poll EXCEPT ![s] = NoPoll]
    /\ UNCHANGED <<database, nextSerial, pub, position, handled, replies, begun>>

-----------------------------------------------------------------------------
Publish(c) == CallerWrites(c) \/ ClaimPublication(c) \/ ExistingPublication(c)
                \/ InsertMessage(c) \/ Commit(c)

Next ==
    \/ \E c \in Publishers : Publish(c) \/ Abort(c) \/ \E r \in Requests : Begin(c, r)
    \/ \E s \in Subscriptions : Poll(s) \/ Handle(s) \/ CommitPoll(s) \/ LosePoll(s)

Spec == Init /\ [][Next]_vars

\* Open transactions go on, subscribers keep polling and handlers return.
Fairness ==
    /\ \A c \in Publishers : WF_vars(Publish(c))
    /\ \A s \in Subscriptions : WF_vars(Poll(s)) /\ WF_vars(Handle(s)) /\ WF_vars(CommitPoll(s))

FairSpec == Spec /\ Fairness

-----------------------------------------------------------------------------
(* Properties.                                                               *)

Xids    == Nat \ {NoXid}
Places  == [xid : Nat, offset : Nat]
Message == [xid : Xids, offset : Nat, topic : Topics, content : Contents,
            key : Keys \cup {NoKey}]
Publication == [key : Keys, xid : Xids, id : Xids, topic : Topics, content : Contents]
Transaction == [pc : {"idle", "begun", "insert", "existing", "commit"}, xid : Nat,
                request : Requests \cup {NoRequest}, reference : Nat]

\* The values of the variables: rows of the three tables and open transactions.
TypeOK ==
    /\ nextXid \in Xids /\ nextSerial \in Nat
    /\ pub \in [Publishers -> Transaction]
    /\ committed \subseteq Xids
    /\ messages \subseteq Message
    /\ publications \subseteq Publication
    /\ position \in [Subscriptions -> Places]
    /\ poll \in [Subscriptions -> [xid : Nat, batch : SUBSET Message, acked : Places]]
    /\ handled \in [Subscriptions -> SUBSET Message]
    /\ replies \subseteq [request : Requests, id : Nat]
    /\ begun \in Nat /\ faults \in Nat

Durable == {m \in messages : m.xid \in committed}

\* No committed message is ever skipped: whatever lies at or before the committed
\* position of a subscription was acknowledged by its handler, although messages
\* commit in another order than their ids and serial numbers were handed out.
NoMessageSkipped ==
    \A s \in Subscriptions : \A m \in Durable :
        m.topic = s[1] /\ ~After(Place(m), position[s]) => m \in handled[s]

\* What the SELECT can see only grows at its end: a message that becomes visible
\* comes after all that were visible before, so a position never has to go back.
Stable == {m \in Durable : BelowXmin(m.xid)}

StableGrowsAtEnd ==
    [][/\ Stable \subseteq Stable'
       /\ \A m \in Stable' \ Stable, n \in Stable : After(Place(m), Place(n))]_vars

\* An idempotency key names one message: of the transactions that carry a key one
\* at most commits a message, and its row in the publications table names it.
KeyNamesOneMessage ==
    /\ \A m, n \in Durable : m.key = n.key /\ m.key # NoKey => m = n
    /\ \A p \in publications : p.xid \in committed =>
         \E m \in Durable : m.xid = p.id /\ m.key = p.key
                            /\ m.topic = p.topic /\ m.content = p.content

\* A reference handed to a caller is that of a committed message with the topic
\* and payload the caller asked for, also on a repeated key.
RepliesDurable ==
    \A r \in replies : \E m \in Durable :
        m.xid = r.id /\ m.topic = r.request.topic /\ m.content = r.request.content

\* Every committed message reaches the handlers of all groups of its topic.
AllDelivered ==
    <>[](\A s \in Subscriptions : \A m \in Durable : m.topic = s[1] => m \in handled[s])
=============================================================================
