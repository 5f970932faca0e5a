---------------------------- MODULE DispatchProofs ----------------------------
(* Theorems about Dispatch, for any publishers, topics, groups, keys, batch   *)
(* size and number of publications and faults: its types, then that nothing   *)
(* is skipped, what a poll sees grows at its end, keys are idempotent and     *)
(* replies are durable.                                                       *)
EXTENDS Dispatch, TLAPS

-----------------------------------------------------------------------------
(* Type correctness.                                                         *)

\* An open transaction serves a request; an insert after a claim has a key.
OpenHasRequest == \A c \in Publishers : Open(c) => pub[c].request \in Requests
ClaimHasKey == \A c \in Publishers :
                 pub[c].pc \in {"insert", "existing"} => pub[c].request.key # NoKey

TypeInv == TypeOK /\ OpenHasRequest /\ ClaimHasKey

\* The records that are written are of their types.
LEMMA RecordTypes ==
    /\ IdlePublisher \in Transaction
    /\ NoPoll \in [xid : Nat, batch : SUBSET Message, acked : Places]
    /\ \A m \in Message : Place(m) \in Places
    /\ \A r \in Requests : r.topic \in Topics /\ r.content \in Contents
                             /\ r.key \in Keys \cup {NoKey}
  BY DispatchAssumption
     DEF IdlePublisher, Transaction, NoPoll, NoXid, Start, Places, Place, Message, Xids

\* The tables start empty and every transaction closed.
LEMMA InitType == Init => TypeInv
  <1> SUFFICES ASSUME Init PROVE TypeInv
    OBVIOUS
  <1>1. Start \in Places
    BY DEF Start, Places
  <1>2. TypeOK
    BY <1>1, RecordTypes DEF Init, TypeOK, Xids, NoXid
  <1>3. OpenHasRequest /\ ClaimHasKey
    BY DEF Init, OpenHasRequest, ClaimHasKey, Open, IdlePublisher
  <1> QED BY <1>2, <1>3 DEF TypeInv

\* The id that a transaction writes with, and the next one.
LEMMA XidStep ==
    ASSUME TypeInv, NEW c \in Publishers
    PROVE  /\ XidOf(c) \in Xids
           /\ (XidOf(c) = pub[c].xid /\ Writing(c)) \/ (XidOf(c) = nextXid /\ ~Writing(c))
           /\ TakeXid(c) => nextXid' \in Xids /\ nextXid' >= nextXid
  <1>1. pub[c].xid \in Nat /\ nextXid \in Nat /\ nextXid # 0
    BY DEF TypeInv, TypeOK, Transaction, Xids, NoXid
  <1>2. XidOf(c) \in Xids
    BY <1>1 DEF XidOf, Writing, Xids, NoXid
  <1>3. (XidOf(c) = pub[c].xid /\ Writing(c)) \/ (XidOf(c) = nextXid /\ ~Writing(c))
    BY DEF XidOf, Writing
  <1>4. ASSUME TakeXid(c) PROVE nextXid' \in Xids /\ nextXid' >= nextXid
    BY <1>1, <1>4 DEF TakeXid, Xids, NoXid
  <1> QED BY <1>2, <1>3, <1>4

\* A publisher's step replaces its transaction by another one.
LEMMA PublisherType ==
    ASSUME TypeInv, NEW c \in Publishers
    PROVE  /\ \A r \in Requests : Begin(c, r) => TypeInv'
           /\ CallerWrites(c) => TypeInv'
           /\ ClaimPublication(c) => TypeInv'
           /\ ExistingPublication(c) => TypeInv'
           /\ InsertMessage(c) => TypeInv'
           /\ Commit(c) => TypeInv'
           /\ Abort(c) => TypeInv'
  <1> USE DEF TypeInv
  <1>0. /\ pub \in [Publishers -> Transaction]
        /\ pub[c] \in Transaction
        /\ pub[c].pc # "idle" => pub[c].request \in Requests
    BY DEF TypeOK, OpenHasRequest, Open
  \* What is left to show once the transaction t that replaces it is known.
  <1>a. ASSUME NEW t \in Transaction, pub' = [pub EXCEPT ![c] = t],
               t.pc # "idle" => t.request \in Requests,
               t.pc \in {"insert", "existing"} => t.request.key # NoKey
        PROVE  /\ pub' \in [Publishers -> Transaction]
               /\ OpenHasRequest' /\ ClaimHasKey'
    BY <1>a, <1>0 DEF OpenHasRequest, ClaimHasKey, Open
  <1>1. ASSUME NEW r \in Requests, Begin(c, r) PROVE TypeInv'
    <2> DEFINE t == [IdlePublisher EXCEPT !.pc = "begun", !.request = r]
    <2>1. t \in Transaction /\ t.pc = "begun" /\ t.request = r
      BY RecordTypes DEF Transaction, IdlePublisher
    <2>2. pub' = [pub EXCEPT ![c] = t]
      BY <1>1 DEF Begin
    <2> HIDE DEF t
    <2>3. pub' \in [Publishers -> Transaction] /\ OpenHasRequest' /\ ClaimHasKey'
      BY <2>1, <2>2, <1>a
    <2> QED BY <1>1, <2>3 DEF Begin, TypeOK, database
  <1>2. ASSUME CallerWrites(c) PROVE TypeInv'
    <2> DEFINE t == [pub[c] EXCEPT !.xid = nextXid]
    <2>1. t \in Transaction /\ t.pc = "begun" /\ t.request \in Requests
      BY <1>0, <1>2 DEF CallerWrites, Transaction, TypeOK, Xids
    <2>2. pub' = [pub EXCEPT ![c] = t]
      BY <1>0, <1>2 DEF CallerWrites
    <2> HIDE DEF t
    <2>3. pub' \in [Publishers -> Transaction] /\ OpenHasRequest' /\ ClaimHasKey'
      BY <2>1, <2>2, <1>a
    <2>4. nextXid' \in Xids
      BY <1>2 DEF CallerWrites, TypeOK, Xids, NoXid
    <2> QED BY <1>2, <2>3, <2>4 DEF CallerWrites, TypeOK
  <1>3. ASSUME ClaimPublication(c) PROVE TypeInv'
    <2>1. pub[c].request \in Requests /\ pub[c].request.key \in Keys
      BY <1>0, <1>3, RecordTypes DEF ClaimPublication
    <2>2. CASE Holders(pub[c].request.key) = {}
      <3> DEFINE t == [pub[c] EXCEPT !.pc = "insert", !.xid = XidOf(c)]
      <3>1. t \in Transaction /\ t.pc = "insert" /\ t.request = pub[c].request
        BY <1>0, XidStep DEF Transaction, Xids
      <3>2. pub' = [pub EXCEPT ![c] = t] /\ TakeXid(c)
        BY <1>0, <1>3, <2>2 DEF ClaimPublication
      <3> HIDE DEF t
      <3>3. pub' \in [Publishers -> Transaction] /\ OpenHasRequest' /\ ClaimHasKey'
        BY <1>3, <2>1, <3>1, <3>2, <1>a DEF ClaimPublication
      <3>4. nextXid' \in Xids
        BY <3>2, XidStep
      <3> DEFINE p == [key |-> pub[c].request.key, xid |-> XidOf(c), id |-> XidOf(c),
                       topic |-> pub[c].request.topic, content |-> pub[c].request.content]
      <3>5. p \in Publication
        BY <2>1, XidStep, RecordTypes DEF Publication
      <3>6. publications' \subseteq Publication
        BY <1>3, <2>2, <3>5 DEF ClaimPublication, TypeOK
      <3> QED BY <1>3, <3>3, <3>4, <3>6 DEF ClaimPublication, TypeOK
    <2>3. CASE Holders(pub[c].request.key) # {}
      <3> DEFINE t == [pub[c] EXCEPT !.pc = "existing"]
      <3>1. t \in Transaction /\ t.pc = "existing" /\ t.request = pub[c].request
        BY <1>0 DEF Transaction
      <3>2. pub' = [pub EXCEPT ![c] = t] /\ UNCHANGED <<nextXid, publications>>
        BY <1>0, <1>3, <2>3 DEF ClaimPublication
      <3> HIDE DEF t
      <3>3. pub' \in [Publishers -> Transaction] /\ OpenHasRequest' /\ ClaimHasKey'
        BY <1>3, <2>1, <3>1, <3>2, <1>a DEF ClaimPublication
      <3> QED BY <1>3, <3>2, <3>3 DEF ClaimPublication, TypeOK
    <2> QED BY <2>2, <2>3
  <1>r. ASSUME Rollback(c)
        PROVE  /\ pub' \in [Publishers -> Transaction]
               /\ OpenHasRequest' /\ ClaimHasKey'
               /\ messages' \subseteq messages /\ publications' \subseteq publications
    <2>1. pub' = [pub EXCEPT ![c] = IdlePublisher]
      BY <1>r DEF Rollback
    <2>2. IdlePublisher.pc = "idle"
      BY DEF IdlePublisher
    <2> QED BY <1>r, <1>a, <2>1, <2>2, RecordTypes DEF Rollback, Without
  <1>4. ASSUME ExistingPublication(c) PROVE TypeInv'
    <2>1. PICK p \in publications :
             \/ pub' = [pub EXCEPT ![c].pc = "commit", ![c].reference = p.id] /\ UNCHANGED database
             \/ Rollback(c)
      BY <1>4 DEF ExistingPublication
    <2>2. CASE Rollback(c)
      BY <1>4, <1>r, <2>2 DEF ExistingPublication, Rollback, TypeOK
    <2>3. CASE pub' = [pub EXCEPT ![c].pc = "commit", ![c].reference = p.id] /\ UNCHANGED database
      <3> DEFINE t == [pub[c] EXCEPT !.pc = "commit", !.reference = p.id]
      <3>1. p.id \in Nat
        BY DEF TypeOK, Publication, Xids
      <3>2. t \in Transaction /\ t.pc = "commit" /\ t.request \in Requests
        BY <1>0, <1>4, <3>1 DEF ExistingPublication, Transaction
      <3>3. pub' = [pub EXCEPT ![c] = t]
        BY <1>0, <2>3
      <3> HIDE DEF t
      <3>4. pub' \in [Publishers -> Transaction] /\ OpenHasRequest' /\ ClaimHasKey'
        BY <3>2, <3>3, <1>a
      <3> QED BY <1>4, <2>3, <3>4 DEF ExistingPublication, TypeOK, database
    <2> QED BY <2>1, <2>2, <2>3
  <1>5. ASSUME InsertMessage(c) PROVE TypeInv'
    <2> DEFINE t == [pub[c] EXCEPT !.pc = "commit", !.xid = XidOf(c), !.reference = XidOf(c)]
               m == [xid |-> XidOf(c), offset |-> nextSerial, topic |-> pub[c].request.topic,
                     content |-> pub[c].request.content, key |-> pub[c].request.key]
    <2>1. t \in Transaction /\ t.pc = "commit" /\ t.request \in Requests
      BY <1>0, <1>5, XidStep DEF InsertMessage, Transaction, Xids
    <2>2. pub' = [pub EXCEPT ![c] = t] /\ TakeXid(c)
      BY <1>0, <1>5 DEF InsertMessage
    <2>3. m \in Message
      BY <1>0, <1>5, XidStep, RecordTypes DEF InsertMessage, Message, TypeOK
    <2>4. messages' \subseteq Message
      BY <1>5, <2>3 DEF InsertMessage, TypeOK
    <2> HIDE DEF t, m
    <2>5. pub' \in [Publishers -> Transaction] /\ OpenHasRequest' /\ ClaimHasKey'
      BY <2>1, <2>2, <1>a
    <2> QED BY <1>5, <2>2, <2>4, <2>5, XidStep DEF InsertMessage, TypeOK
  <1>6. ASSUME Commit(c) PROVE TypeInv'
    <2>1. pub' \in [Publishers -> Transaction] /\ OpenHasRequest' /\ ClaimHasKey'
      BY <1>6, <1>a, RecordTypes DEF Commit, IdlePublisher
    <2>2. committed' \subseteq Xids
      BY <1>0, <1>6 DEF Commit, TypeOK, Transaction, Xids
    <2>3. replies' \subseteq [request : Requests, id : Nat] /\ faults' \in Nat
      BY <1>0, <1>6 DEF Commit, Fault, TypeOK, Transaction
    <2> QED BY <1>6, <2>1, <2>2, <2>3 DEF Commit, TypeOK
  <1>7. Abort(c) => TypeInv'
    BY <1>r DEF Abort, Fault, Rollback, TypeOK
  <1> QED BY <1>1, <1>2, <1>3, <1>4, <1>5, <1>6, <1>7

\* A subscription's step replaces its poll, and at its end its position.
LEMMA SubscriptionType ==
    ASSUME TypeInv, NEW s \in Subscriptions
    PROVE  /\ Poll(s) => TypeInv'
           /\ Handle(s) => TypeInv'
           /\ CommitPoll(s) => TypeInv'
           /\ LosePoll(s) => TypeInv'
  <1> USE DEF TypeInv
  <1> DEFINE Polls == [xid : Nat, batch : SUBSET Message, acked : Places]
  <1>0. poll \in [Subscriptions -> Polls] /\ poll[s] \in Polls /\ position[s] \in Places
    BY DEF TypeOK
  <1>1. ASSUME Poll(s) PROVE TypeInv'
    <2>1. PICK batch \in SUBSET Eligible(s) :
             poll' = [poll EXCEPT ![s] = [xid |-> nextXid, batch |-> batch, acked |-> position[s]]]
      BY <1>1 DEF Poll
    <2>2. [xid |-> nextXid, batch |-> batch, acked |-> position[s]] \in Polls
      BY <1>0 DEF TypeOK, Eligible, Xids
    <2>3. poll' \in [Subscriptions -> Polls]
      BY <1>0, <2>1, <2>2
    <2>4. nextXid' \in Xids
      BY <1>1 DEF Poll, TypeOK, Xids, NoXid
    <2> QED BY <1>1, <2>3, <2>4 DEF Poll, TypeOK, OpenHasRequest, ClaimHasKey, Open
  <1>2. ASSUME Handle(s) PROVE TypeInv'
    <2>1. PICK m \in poll[s].batch :
            /\ handled' = [handled EXCEPT ![s] = @ \cup {m}]
            /\ poll' = [poll EXCEPT ![s].batch = @ \ {m}, ![s].acked = Place(m)]
            /\ UNCHANGED <<database, nextSerial, pub, position, replies, begun, faults>>
      BY <1>2 DEF Handle
    <2>2. m \in Message
      BY <1>0
    <2>3. handled' \in [Subscriptions -> SUBSET Message]
      BY <2>1, <2>2 DEF TypeOK
    <2>4. poll' \in [Subscriptions -> Polls]
      BY <1>0, <2>1, <2>2, RecordTypes
    <2> QED BY <2>1, <2>3, <2>4 DEF TypeOK, OpenHasRequest, ClaimHasKey, Open, database
  <1>3. ASSUME CommitPoll(s) PROVE TypeInv'
    <2>1. faults' \in Nat
      BY <1>3 DEF CommitPoll, Fault, TypeOK
    <2>2. poll' \in [Subscriptions -> Polls]
      BY <1>0, <1>3, RecordTypes DEF CommitPoll
    <2>3. position' \in [Subscriptions -> Places]
      BY <1>0, <1>3 DEF CommitPoll, TypeOK
    <2> QED BY <1>3, <2>1, <2>2, <2>3
            DEF CommitPoll, TypeOK, OpenHasRequest, ClaimHasKey, Open, database
  <1>4. ASSUME LosePoll(s) PROVE TypeInv'
    <2>1. poll' \in [Subscriptions -> Polls]
      BY <1>0, <1>4, RecordTypes DEF LosePoll
    <2> QED BY <1>4, <2>1
            DEF LosePoll, Fault, TypeOK, OpenHasRequest, ClaimHasKey, Open, database
  <1> QED BY <1>1, <1>2, <1>3, <1>4

\* Every step keeps the types.
LEMMA TypeStep == TypeInv /\ [Next]_vars => TypeInv'
  <1> SUFFICES ASSUME TypeInv, [Next]_vars PROVE TypeInv'
    OBVIOUS
  <1>1. CASE UNCHANGED vars
    BY <1>1 DEF vars, database, TypeInv, TypeOK, OpenHasRequest, ClaimHasKey, Open
  <1>2. ASSUME NEW c \in Publishers, Publish(c) PROVE TypeInv'
    BY <1>2, PublisherType DEF Publish
  <1>3. ASSUME NEW c \in Publishers, Abort(c) \/ \E r \in Requests : Begin(c, r) PROVE TypeInv'
    BY <1>3, PublisherType
  <1>4. ASSUME NEW s \in Subscriptions, Poll(s) \/ Handle(s) \/ CommitPoll(s) \/ LosePoll(s)
        PROVE TypeInv'
    BY <1>4, SubscriptionType
  <1> QED BY <1>1, <1>2, <1>3, <1>4 DEF Next

\* The tables, the positions and the open transactions of publishers and polls keep
\* their types (TypeOK), whatever happens.
THEOREM TypeCorrect == Spec => []TypeOK
  <1>1. TypeInv => TypeOK
    BY DEF TypeInv
  <1> QED BY InitType, TypeStep, <1>1, PTL DEF Spec

-----------------------------------------------------------------------------
(* The inductive invariant.                                                  *)

\* Transaction ids: those handed out lie below the next one, an open one is its
\* publisher's alone and not committed, and every row is of a transaction that
\* committed or is open.
XidsOK ==
    /\ \A c \in Publishers : /\ pub[c].pc = "idle" => pub[c].xid = NoXid
                             /\ pub[c].xid < nextXid
                             /\ pub[c].xid \notin committed
    /\ \A c, e \in Publishers : c # e /\ Writing(c) => pub[c].xid # pub[e].xid
    /\ \A x \in committed : x < nextXid
    /\ \A m \in messages : m.xid \in committed \/ \E c \in Publishers : pub[c].xid = m.xid
    /\ \A p \in publications : p.xid \in committed \/ \E c \in Publishers : pub[c].xid = p.xid

\* Rows: the serial number and the transaction identify a message, the key a
\* publication.
RowsUnique ==
    /\ \A m \in messages : m.offset < nextSerial
    /\ \A m, n \in messages : m.offset = n.offset \/ m.xid = n.xid => m = n
    /\ \A p, q \in publications : p.key = q.key => p = q

\* Subscriptions: no open publication can commit at or before the position, the
\* last acknowledged message or a message of the batch; and what lies at or before
\* the first two, or before a message of the batch, has been handled or is in it.
Ahead(place) == place.xid < nextXid /\ \A c \in Publishers : Writing(c) => place.xid < pub[c].xid

PassedHandled(s, place) ==
    \A m \in Durable : m.topic = s[1] /\ ~After(Place(m), place) => m \in handled[s]

PollOK(s) ==
    /\ Ahead(position[s]) /\ PassedHandled(s, position[s])
    /\ Ahead(poll[s].acked) /\ PassedHandled(s, poll[s].acked)
    /\ \A m \in poll[s].batch :
         /\ m \in Durable /\ Ahead(Place(m))
         /\ \A n \in Durable : n.topic = s[1] /\ After(Place(m), Place(n))
                                => n \in poll[s].batch \cup handled[s]

PollsOK == \A s \in Subscriptions : PollOK(s)

\* Publications: a transaction has no row before it claimed or inserted one, its
\* rows are those of its request, and its reference is that of its own message or
\* of the message a committed publication names.
Answers(r, request) == r.topic = request.topic /\ r.content = request.content

PublisherOK(c) ==
    LET t == pub[c] IN
    /\ t.pc \in {"begun", "existing", "insert"} => \A m \in messages : m.xid # t.xid
    /\ t.pc \in {"begun", "existing"} => \A p \in publications : p.xid # t.xid
    /\ t.pc \in {"insert", "commit"} =>
         \A p \in publications : p.xid = t.xid => p.key = t.request.key /\ Answers(p, t.request)
    /\ t.pc = "insert" => Writing(c) /\ \E p \in publications : p.xid = t.xid
    /\ t.pc = "commit" =>
         \/ /\ t.reference = t.xid
            /\ \E m \in messages : m.xid = t.xid /\ m.key = t.request.key /\ Answers(m, t.request)
         \/ /\ \A p \in publications : p.xid # t.xid
            /\ \E p \in publications : p.id = t.reference /\ p.xid \in committed
                                         /\ Answers(p, t.request)

PublishersOK == \A c \in Publishers : PublisherOK(c)

KeysOK ==
    /\ \A p \in publications : p.id = p.xid
    /\ \A m \in messages : m.key # NoKey =>
         \E p \in publications : p.xid = m.xid /\ p.key = m.key
    /\ \A p \in publications : p.xid \in committed =>
         \E m \in messages : m.xid = p.xid /\ m.key = p.key /\ Answers(m, p)

Publications == XidsOK /\ RowsUnique /\ PublishersOK /\ KeysOK

Inv == TypeInv /\ Publications /\ PollsOK /\ RepliesDurable

\* What the subscriptions see of a step of the publishers: committed messages
\* stay, an open transaction keeps its id, ends or gets the next one, and a
\* message is committed by the open transaction that inserted it.
Growth ==
    /\ Durable \subseteq Durable'
    /\ nextXid' >= nextXid
    /\ \A c \in Publishers : pub'[c].xid \in {pub[c].xid, NoXid, nextXid}
    /\ \A m \in Durable' \ Durable : \E c \in Publishers : Writing(c) /\ m.xid = pub[c].xid

\* The types of rows and ids, in the form the steps below use them.
LEMMA Ids ==
    ASSUME TypeInv
    PROVE  /\ nextXid \in Nat /\ nextXid # 0 /\ nextSerial \in Nat
           /\ \A c \in Publishers : pub[c].xid \in Nat /\ pub[c].reference \in Nat
           /\ \A x \in committed : x \in Nat /\ x # 0
           /\ \A m \in messages : m.xid \in Nat /\ m.xid # 0 /\ m.offset \in Nat
           /\ \A p \in publications : p.xid \in Nat /\ p.xid # 0 /\ p.id \in Nat
           /\ \A c \in Publishers : pub[c].xid \notin committed => Writing(c) \/ pub[c].xid = 0
  BY DEF TypeInv, TypeOK, Transaction, Message, Publication, Xids, NoXid, Writing

\* A transaction that begins has no id and no rows.
LEMMA BeginStep ==
    ASSUME TypeInv, Publications, NEW c \in Publishers, NEW r \in Requests, Begin(c, r)
    PROVE  Publications' /\ Growth
  <1>1. /\ pub'[c].pc = "begun" /\ pub'[c].xid = NoXid /\ pub[c].xid = NoXid
        /\ \A e \in Publishers \ {c} : pub'[e] = pub[e]
    BY DEF Begin, TypeInv, TypeOK, IdlePublisher, Open, Publications, XidsOK
  <1>2. UNCHANGED <<nextXid, committed, messages, publications, nextSerial>>
    BY DEF Begin, database
  <1>3. \A e \in Publishers : pub'[e].xid = pub[e].xid
    BY <1>1
  <1>4. XidsOK'
    BY <1>1, <1>2, <1>3 DEF Publications, XidsOK, Writing
  <1>5. RowsUnique' /\ KeysOK'
    BY <1>2 DEF Publications, RowsUnique, KeysOK, Answers
  <1>6. PublishersOK'
    BY <1>1, <1>2, Ids DEF Publications, PublishersOK, PublisherOK, Answers, NoXid, Writing
  <1>7. Growth
    BY <1>2, <1>3, Ids DEF Growth, Durable
  <1> QED BY <1>4, <1>5, <1>6, <1>7 DEF Publications

\* The id a caller's own write takes is new: no row has it.
LEMMA CallerWritesStep ==
    ASSUME TypeInv, Publications, NEW c \in Publishers, CallerWrites(c)
    PROVE  Publications' /\ Growth
  <1>1. /\ pub[c].pc = "begun" /\ ~Writing(c)
        /\ pub'[c].pc = "begun" /\ pub'[c].xid = nextXid
        /\ \A e \in Publishers \ {c} : pub'[e] = pub[e]
    BY DEF CallerWrites, TypeInv, TypeOK, Transaction
  <1>2. /\ nextXid' = nextXid + 1
        /\ UNCHANGED <<committed, messages, publications, nextSerial>>
    BY DEF CallerWrites
  <1>3. XidsOK'
    BY <1>1, <1>2, Ids DEF Publications, XidsOK, Writing, NoXid
  <1>4. RowsUnique' /\ KeysOK'
    BY <1>2 DEF Publications, RowsUnique, KeysOK, Answers
  <1>5. /\ \A m \in messages : m.xid # nextXid
        /\ \A p \in publications : p.xid # nextXid
    BY Ids DEF Publications, XidsOK
  <1>6. PublishersOK'
    BY <1>1, <1>2, <1>5 DEF Publications, PublishersOK, PublisherOK, Answers, Writing
  <1>7. Growth
    BY <1>1, <1>2, Ids DEF Growth, Durable
  <1> QED BY <1>3, <1>4, <1>6, <1>7 DEF Publications

\* A claim inserts a row for a key nobody holds, or finds the holder.
LEMMA ClaimStep ==
    ASSUME TypeInv, Publications, NEW c \in Publishers, ClaimPublication(c)
    PROVE  Publications' /\ Growth
  <1> DEFINE request == pub[c].request
  <1>1. /\ pub[c].pc = "begun" /\ request.key # NoKey
        /\ UNCHANGED <<committed, messages, nextSerial>>
    BY DEF ClaimPublication
  <1>2. /\ \A m \in messages : m.xid # nextXid
        /\ \A p \in publications : p.xid # nextXid
        /\ \A e \in Publishers : pub[e].xid # nextXid
    BY Ids DEF Publications, XidsOK
  <1>3. CASE Holders(request.key) = {}
    <2> DEFINE x == XidOf(c)
    <2> DEFINE p == [key |-> request.key, xid |-> x, id |-> x,
                     topic |-> request.topic, content |-> request.content]
    <2>1. /\ pub'[c].pc = "insert" /\ pub'[c].xid = x /\ pub'[c].request = request
          /\ \A e \in Publishers \ {c} : pub'[e] = pub[e]
          /\ TakeXid(c) /\ publications' = publications \cup {p}
      BY <1>3 DEF ClaimPublication, TypeInv, TypeOK, Transaction
    <2>2. /\ x \in Nat /\ x # 0
          /\ x = pub[c].xid \/ x = nextXid
      BY XidStep DEF Xids, NoXid
    <2>3. /\ nextXid' \in Nat /\ nextXid' >= nextXid /\ x < nextXid'
      BY <2>1, <2>2, Ids DEF TakeXid, XidOf, Publications, XidsOK
    <2>4. /\ \A m \in messages : m.xid # x
          /\ \A q \in publications : q.xid # x
          /\ \A e \in Publishers \ {c} : pub[e].xid # x
          /\ x \notin committed
      BY <1>1, <1>2, <2>2, Ids DEF Publications, XidsOK, PublishersOK, PublisherOK, Writing, NoXid
    <2>5. \A q \in publications : q.key # request.key
      BY <1>3 DEF Holders
    <2>6. p.xid = x /\ p.id = x /\ p.key = request.key /\ Answers(p, request)
      BY DEF Answers
    <2> HIDE DEF x, p, request
    <2>7. XidsOK'
      <3>1. \A e \in Publishers : /\ pub'[e].pc = "idle" => pub'[e].xid = NoXid
                                  /\ pub'[e].xid < nextXid'
                                  /\ pub'[e].xid \notin committed'
        BY <1>1, <2>1, <2>3, <2>4, Ids DEF Publications, XidsOK
      <3>2. \A e, f \in Publishers : e # f /\ Writing(e)' => pub'[e].xid # pub'[f].xid
        BY <2>1, <2>2, <2>4 DEF Publications, XidsOK, Writing, NoXid
      <3>3. \A y \in committed' : y < nextXid'
        BY <1>1, <2>3, Ids DEF Publications, XidsOK
      <3>4. \A m \in messages' : m.xid \in committed' \/ \E e \in Publishers : pub'[e].xid = m.xid
        BY <1>1, <2>1, <2>2, <2>4, Ids DEF Publications, XidsOK, PublishersOK, PublisherOK
      <3>5. \A q \in publications' :
               q.xid \in committed' \/ \E e \in Publishers : pub'[e].xid = q.xid
        BY <1>1, <2>1, <2>2, <2>4, <2>6, Ids DEF Publications, XidsOK, PublishersOK, PublisherOK
      <3> QED BY <3>1, <3>2, <3>3, <3>4, <3>5 DEF XidsOK
    <2>8. RowsUnique'
      BY <1>1, <2>1, <2>5, <2>6 DEF Publications, RowsUnique
    <2>9. KeysOK'
      BY <1>1, <2>1, <2>4, <2>6 DEF Publications, KeysOK, Answers
    <2>10. PublishersOK'
      <3> SUFFICES ASSUME NEW e \in Publishers
                   PROVE  PublisherOK(e)'
        BY DEF PublishersOK
      <3>1. CASE e = c
        BY <1>1, <2>1, <2>2, <2>4, <2>6, <3>1 DEF PublishersOK, PublisherOK, Writing, NoXid
      <3>2. CASE e # c
        BY <1>1, <2>1, <2>4, <2>6, <3>2 DEF Publications, PublishersOK, PublisherOK, Writing
      <3> QED BY <3>1, <3>2
    <2>11. Growth
      BY <1>1, <2>1, <2>2, <2>3 DEF Growth, Durable
    <2> QED BY <2>7, <2>8, <2>9, <2>10, <2>11 DEF Publications
  <1>4. CASE Holders(request.key) # {}
    <2>1. /\ pub'[c].pc = "existing" /\ pub'[c].xid = pub[c].xid
          /\ \A e \in Publishers \ {c} : pub'[e] = pub[e]
          /\ UNCHANGED <<nextXid, publications>>
      BY <1>4 DEF ClaimPublication, TypeInv, TypeOK, Transaction
    <2>2. \A e \in Publishers : pub'[e].xid = pub[e].xid
      BY <2>1
    <2>3. XidsOK'
      BY <1>1, <2>1, <2>2 DEF Publications, XidsOK, Writing
    <2>4. RowsUnique' /\ KeysOK'
      BY <1>1, <2>1 DEF Publications, RowsUnique, KeysOK, Answers
    <2>5. PublishersOK'
      BY <1>1, <2>1 DEF Publications, PublishersOK, PublisherOK, Answers, Writing
    <2>6. Growth
      BY <1>1, <2>1, <2>2, Ids DEF Growth, Durable
    <2> QED BY <2>3, <2>4, <2>5, <2>6 DEF Publications
  <1> QED BY <1>3, <1>4

\* A rollback removes rows of one open transaction, never a committed one.
LEMMA RollbackStep ==
    ASSUME TypeInv, Publications, NEW c \in Publishers, Rollback(c), UNCHANGED nextSerial
    PROVE  Publications' /\ Growth
  <1> DEFINE x == pub[c].xid
  <1>1. /\ pub'[c].pc = "idle" /\ pub'[c].xid = NoXid
        /\ \A e \in Publishers \ {c} : pub'[e] = pub[e]
        /\ UNCHANGED <<nextXid, committed>>
    BY DEF Rollback, IdlePublisher, TypeInv, TypeOK
  <1>2. /\ \A m : m \in messages' <=> m \in messages /\ m.xid # x
        /\ \A p : p \in publications' <=> p \in publications /\ p.xid # x
    BY DEF Rollback, Without
  <1>3. x \notin committed /\ \A e \in Publishers \ {c} : Writing(e) => pub[e].xid # x
    BY DEF Publications, XidsOK
  <1> HIDE DEF x
  <1>4. XidsOK'
    <2>1. \A e \in Publishers : /\ pub'[e].pc = "idle" => pub'[e].xid = NoXid
                                /\ pub'[e].xid < nextXid'
                                /\ pub'[e].xid \notin committed'
      BY <1>1, Ids DEF Publications, XidsOK, NoXid
    <2>2. \A e, f \in Publishers : e # f /\ Writing(e)' => pub'[e].xid # pub'[f].xid
      BY <1>1 DEF Publications, XidsOK, Writing, NoXid
    <2>3. \A y \in committed' : y < nextXid'
      BY <1>1 DEF Publications, XidsOK
    <2>4. \A m \in messages' : m.xid \in committed' \/ \E e \in Publishers : pub'[e].xid = m.xid
      BY <1>1, <1>2 DEF Publications, XidsOK, x
    <2>5. \A q \in publications' : q.xid \in committed' \/ \E e \in Publishers : pub'[e].xid = q.xid
      BY <1>1, <1>2 DEF Publications, XidsOK, x
    <2> QED BY <2>1, <2>2, <2>3, <2>4, <2>5 DEF XidsOK
  <1>5. RowsUnique'
    BY <1>2 DEF Publications, RowsUnique
  <1>6. KeysOK'
    <2>1. \A m \in messages' : m.key # NoKey =>
            \E p \in publications' : p.xid = m.xid /\ p.key = m.key
      BY <1>2 DEF Publications, KeysOK
    <2>2. \A p \in publications' : p.xid \in committed' =>
            \E m \in messages' : m.xid = p.xid /\ m.key = p.key /\ Answers(m, p)
      BY <1>1, <1>2, <1>3 DEF Publications, KeysOK
    <2> QED BY <1>2, <2>1, <2>2 DEF Publications, KeysOK
  <1>7. PublishersOK'
    <2> SUFFICES ASSUME NEW e \in Publishers
                 PROVE  PublisherOK(e)'
      BY DEF PublishersOK
    <2>1. CASE e = c
      BY <1>1, <2>1 DEF PublisherOK
    <2>2. CASE e # c
      <3>1. PublisherOK(e) /\ pub'[e] = pub[e]
        BY <1>1, <2>2 DEF Publications, PublishersOK
      <3>2. \A p \in publications : p.xid \in committed => p \in publications'
        BY <1>2, <1>3
      <3>3. Writing(e) => \A p \in publications : p.xid = pub[e].xid => p \in publications'
        BY <1>2, <1>3, <2>2
      <3>4. \A m \in messages : m.xid = pub[e].xid => m \in messages'
        BY <1>2, <1>3, <2>2, Ids DEF Writing, NoXid
      <3> QED BY <1>1, <1>2, <3>1, <3>2, <3>3, <3>4 DEF PublisherOK, Writing
    <2> QED BY <2>1, <2>2
  <1>8. Growth
    BY <1>1, <1>2, <1>3, Ids DEF Growth, Durable
  <1> QED BY <1>4, <1>5, <1>6, <1>7, <1>8 DEF Publications

\* The publication that answers a repeated key is committed: a transaction that
\* has just begun holds no row of its own.
LEMMA ExistingStep ==
    ASSUME TypeInv, Publications, NEW c \in Publishers, ExistingPublication(c)
    PROVE  Publications' /\ Growth
  <1>1. PICK p \in publications :
          /\ Visible(p.xid, c)
          /\ \/ /\ SameRequest(p, pub[c].request)
                /\ pub' = [pub EXCEPT ![c].pc = "commit", ![c].reference = p.id]
                /\ UNCHANGED database
             \/ Rollback(c)
    BY DEF ExistingPublication
  <1>2. CASE Rollback(c)
    BY <1>2, RollbackStep DEF ExistingPublication
  <1>3. CASE /\ SameRequest(p, pub[c].request)
             /\ pub' = [pub EXCEPT ![c].pc = "commit", ![c].reference = p.id]
             /\ UNCHANGED database
    <2>1. /\ pub[c].pc = "existing" /\ pub'[c].pc = "commit" /\ pub'[c].reference = p.id
          /\ pub'[c].xid = pub[c].xid /\ pub'[c].request = pub[c].request
          /\ \A e \in Publishers \ {c} : pub'[e] = pub[e]
      BY <1>3 DEF ExistingPublication, TypeInv, TypeOK, Transaction
    <2>2. UNCHANGED <<nextXid, committed, messages, publications, nextSerial>>
      BY <1>3 DEF ExistingPublication, database
    <2>3. /\ p.xid \in committed /\ Answers(p, pub[c].request)
          /\ \A q \in publications : q.xid # pub[c].xid
      BY <1>1, <1>3, <2>1 DEF Visible, Publications, PublishersOK, PublisherOK, SameRequest, Answers
    <2>4. \A e \in Publishers : pub'[e].xid = pub[e].xid
      BY <2>1
    <2>5. XidsOK'
      BY <2>1, <2>2, <2>4 DEF Publications, XidsOK, Writing
    <2>6. RowsUnique' /\ KeysOK'
      BY <2>2 DEF Publications, RowsUnique, KeysOK, Answers
    <2>7. PublishersOK'
      <3> SUFFICES ASSUME NEW e \in Publishers
                   PROVE  PublisherOK(e)'
        BY DEF PublishersOK
      <3>1. CASE e = c
        BY <2>1, <2>2, <2>3, <3>1 DEF PublisherOK
      <3>2. CASE e # c
        BY <2>1, <2>2, <3>2 DEF Publications, PublishersOK, PublisherOK, Writing
      <3> QED BY <3>1, <3>2
    <2>8. Growth
      BY <2>2, <2>4, Ids DEF Growth, Durable
    <2> QED BY <2>5, <2>6, <2>7, <2>8 DEF Publications
  <1> QED BY <1>1, <1>2, <1>3

\* The inserted message is the only one of its transaction and serial number.
LEMMA InsertStep ==
    ASSUME TypeInv, Publications, NEW c \in Publishers, InsertMessage(c)
    PROVE  Publications' /\ Growth
  <1> DEFINE x == XidOf(c)
  <1> DEFINE request == pub[c].request
  <1> DEFINE m == [xid |-> x, offset |-> nextSerial, topic |-> request.topic,
                   content |-> request.content, key |-> request.key]
  <1>1. /\ \/ pub[c].pc = "insert"
           \/ pub[c].pc = "begun" /\ request.key = NoKey
        /\ pub'[c].pc = "commit" /\ pub'[c].xid = x /\ pub'[c].reference = x
        /\ pub'[c].request = request
        /\ \A e \in Publishers \ {c} : pub'[e] = pub[e]
        /\ TakeXid(c) /\ messages' = messages \cup {m}
        /\ nextSerial' = nextSerial + 1
        /\ UNCHANGED <<committed, publications>>
    BY DEF InsertMessage, TypeInv, TypeOK, Transaction
  <1>2. /\ x \in Nat /\ x # 0
        /\ x = pub[c].xid \/ (x = nextXid /\ ~Writing(c))
    BY XidStep DEF Xids, NoXid
  <1>3. nextXid' \in Nat /\ nextXid' >= nextXid /\ x < nextXid'
    BY <1>1, <1>2, Ids DEF TakeXid, XidOf, Publications, XidsOK
  <1>4. /\ \A n \in messages : n.xid # x
        /\ \A e \in Publishers \ {c} : pub[e].xid # x
        /\ x \notin committed
    BY <1>1, <1>2, Ids DEF Publications, XidsOK, PublishersOK, PublisherOK, Writing, NoXid
  <1>5. /\ pub[c].pc = "insert" => x = pub[c].xid
        /\ \A p \in publications : p.xid = x => pub[c].pc = "insert"
    BY <1>1, <1>2, Ids DEF Publications, XidsOK, PublishersOK, PublisherOK, Writing
  <1>6. /\ m.xid = x /\ m.offset = nextSerial /\ m.key = request.key /\ Answers(m, request)
    BY DEF Answers
  <1> HIDE DEF x, m, request
  <1>7. XidsOK'
    <2>1. \A e \in Publishers : /\ pub'[e].pc = "idle" => pub'[e].xid = NoXid
                                /\ pub'[e].xid < nextXid'
                                /\ pub'[e].xid \notin committed'
      BY <1>1, <1>3, <1>4, Ids DEF Publications, XidsOK
    <2>2. \A e, f \in Publishers : e # f /\ Writing(e)' => pub'[e].xid # pub'[f].xid
      BY <1>1, <1>2, <1>4 DEF Publications, XidsOK, Writing, NoXid
    <2>3. \A y \in committed' : y < nextXid'
      BY <1>1, <1>3, Ids DEF Publications, XidsOK
    <2>4. \A e \in Publishers : Writing(e) => pub'[e].xid = pub[e].xid
      BY <1>1, <1>2
    <2>5. \A n \in messages' : n.xid \in committed' \/ \E e \in Publishers : pub'[e].xid = n.xid
      BY <1>1, <1>6, <2>4, Ids DEF Publications, XidsOK, Writing, NoXid
    <2>6. \A q \in publications' : q.xid \in committed' \/ \E e \in Publishers : pub'[e].xid = q.xid
      BY <1>1, <2>4, Ids DEF Publications, XidsOK, Writing, NoXid
    <2> QED BY <2>1, <2>2, <2>3, <2>5, <2>6 DEF XidsOK
  <1>8. RowsUnique'
    <2>1. \A n \in messages' : n.offset < nextSerial'
      BY <1>1, <1>6, Ids DEF Publications, RowsUnique
    <2>2. \A n, o \in messages' : n.offset = o.offset \/ n.xid = o.xid => n = o
      BY <1>1, <1>4, <1>6, Ids DEF Publications, RowsUnique
    <2> QED BY <1>1, <2>1, <2>2 DEF Publications, RowsUnique
  <1>9. KeysOK'
    <2>1. m.key # NoKey => \E p \in publications : p.xid = m.xid /\ p.key = m.key
      BY <1>1, <1>5, <1>6 DEF Publications, PublishersOK, PublisherOK, request
    <2> QED BY <1>1, <2>1 DEF Publications, KeysOK
  <1>10. PublishersOK'
    <2> SUFFICES ASSUME NEW e \in Publishers
                 PROVE  PublisherOK(e)'
      BY DEF PublishersOK
    <2>1. CASE e = c
      <3>1. \A p \in publications : p.xid = x => p.key = request.key /\ Answers(p, request)
        BY <1>5 DEF Publications, PublishersOK, PublisherOK, request
      <3> QED BY <1>1, <1>6, <2>1, <3>1 DEF PublisherOK
    <2>2. CASE e # c
      <3>1. PublisherOK(e) /\ pub'[e] = pub[e] /\ m.xid # pub[e].xid
        BY <1>1, <1>4, <1>6, <2>2 DEF Publications, PublishersOK
      <3> QED BY <1>1, <3>1 DEF PublisherOK, Writing
    <2> QED BY <2>1, <2>2
  <1>11. Growth
    <2>1. Durable' = Durable
      BY <1>1, <1>4, <1>6 DEF Durable
    <2> QED BY <1>1, <1>2, <1>3, <2>1 DEF Growth
  <1> QED BY <1>7, <1>8, <1>9, <1>10, <1>11 DEF Publications

\* A commit makes durable the claim together with its message.
LEMMA CommitStep ==
    ASSUME TypeInv, Publications, NEW c \in Publishers, Commit(c)
    PROVE  Publications' /\ Growth
  <1> DEFINE x == pub[c].xid
  <1>1. /\ pub[c].pc = "commit" /\ pub'[c].pc = "idle" /\ pub'[c].xid = NoXid
        /\ \A e \in Publishers \ {c} : pub'[e] = pub[e]
        /\ UNCHANGED <<nextXid, messages, publications, nextSerial>>
        /\ \A y : y \in committed' <=> y \in committed \/ (y = x /\ x # NoXid)
    BY DEF Commit, IdlePublisher, TypeInv, TypeOK
  <1>2. PublisherOK(c)
    BY DEF Publications, PublishersOK
  <1>3. XidsOK'
    <2>1. \A e \in Publishers : /\ pub'[e].pc = "idle" => pub'[e].xid = NoXid
                                /\ pub'[e].xid < nextXid'
                                /\ pub'[e].xid \notin committed'
      BY <1>1, Ids DEF Publications, XidsOK, NoXid, Writing
    <2>2. \A e, f \in Publishers : e # f /\ Writing(e)' => pub'[e].xid # pub'[f].xid
      BY <1>1 DEF Publications, XidsOK, Writing, NoXid
    <2>3. \A y \in committed' : y < nextXid'
      BY <1>1 DEF Publications, XidsOK
    <2>4. \A m \in messages' : m.xid \in committed' \/ \E e \in Publishers : pub'[e].xid = m.xid
      BY <1>1, Ids DEF Publications, XidsOK, NoXid
    <2>5. \A q \in publications' : q.xid \in committed' \/ \E e \in Publishers : pub'[e].xid = q.xid
      BY <1>1, Ids DEF Publications, XidsOK, NoXid
    <2> QED BY <2>1, <2>2, <2>3, <2>4, <2>5 DEF XidsOK
  <1>4. RowsUnique'
    BY <1>1 DEF Publications, RowsUnique
  <1>5. KeysOK'
    <2>1. \A p \in publications : p.xid = x =>
            \E m \in messages : m.xid = p.xid /\ m.key = p.key /\ Answers(m, p)
      BY <1>1, <1>2 DEF PublisherOK, Answers
    <2> QED BY <1>1, <2>1 DEF Publications, KeysOK
  <1>6. PublishersOK'
    <2> SUFFICES ASSUME NEW e \in Publishers
                 PROVE  PublisherOK(e)'
      BY DEF PublishersOK
    <2>1. CASE e = c
      BY <1>1, <2>1 DEF PublisherOK
    <2>2. CASE e # c
      <3>1. PublisherOK(e) /\ pub'[e] = pub[e]
        BY <1>1, <2>2 DEF Publications, PublishersOK
      <3> QED BY <1>1, <3>1 DEF PublisherOK, Writing
    <2> QED BY <2>1, <2>2
  <1>7. Growth
    BY <1>1, Ids DEF Growth, Durable, Writing, NoXid
  <1> QED BY <1>3, <1>4, <1>5, <1>6, <1>7 DEF Publications

\* Every step of a publisher keeps the tables in order and the subscriptions' state.
LEMMA PublisherStep ==
    ASSUME TypeInv, Publications, NEW c \in Publishers,
           Publish(c) \/ Abort(c) \/ \E r \in Requests : Begin(c, r)
    PROVE  Publications' /\ Growth /\ UNCHANGED <<position, poll, handled>>
  <1>1. CASE \E r \in Requests : Begin(c, r)
    BY <1>1, BeginStep DEF Begin
  <1>2. CASE CallerWrites(c)
    BY <1>2, CallerWritesStep DEF CallerWrites
  <1>3. CASE ClaimPublication(c)
    BY <1>3, ClaimStep DEF ClaimPublication
  <1>4. CASE ExistingPublication(c)
    BY <1>4, ExistingStep DEF ExistingPublication
  <1>5. CASE InsertMessage(c)
    BY <1>5, InsertStep DEF InsertMessage
  <1>6. CASE Commit(c)
    BY <1>6, CommitStep DEF Commit
  <1>7. CASE Abort(c)
    BY <1>7, RollbackStep DEF Abort
  <1> QED BY <1>1, <1>2, <1>3, <1>4, <1>5, <1>6, <1>7 DEF Publish

\* A step of a subscription leaves the publishers and their tables alone.
LEMMA SubscriptionStep ==
    ASSUME TypeInv, Publications, NEW s \in Subscriptions,
           Poll(s) \/ Handle(s) \/ CommitPoll(s) \/ LosePoll(s)
    PROVE  /\ Publications' /\ Growth /\ Durable' = Durable
           /\ UNCHANGED <<pub, committed, messages, publications, replies>>
  <1>1. /\ UNCHANGED <<pub, committed, messages, publications, nextSerial, replies>>
        /\ nextXid' = nextXid \/ nextXid' = nextXid + 1
    BY DEF Poll, Handle, CommitPoll, LosePoll, database
  <1>2. nextXid' \in Nat /\ nextXid' >= nextXid
    BY <1>1, Ids
  <1>3. XidsOK'
    BY <1>1, <1>2, Ids DEF Publications, XidsOK, Writing
  <1>4. RowsUnique' /\ KeysOK' /\ PublishersOK'
    BY <1>1 DEF Publications, RowsUnique, KeysOK, PublishersOK, PublisherOK, Answers, Writing
  <1>5. Durable' = Durable
    BY <1>1 DEF Durable
  <1>6. Growth
    BY <1>1, <1>2, <1>5 DEF Growth
  <1> QED BY <1>1, <1>3, <1>4, <1>5, <1>6 DEF Publications

\* A place that no open publication can commit before stays one.
LEMMA AheadKept ==
    ASSUME TypeInv, Growth, NEW place \in Places, Ahead(place), nextXid' \in Nat
    PROVE  Ahead(place)'
  <1>1. place.xid \in Nat /\ place.xid < nextXid
    BY DEF Places, Ahead
  <1>2. \A c \in Publishers : pub'[c].xid # NoXid => place.xid < pub'[c].xid
    BY <1>1, Ids DEF Ahead, Growth, Writing
  <1> QED BY <1>1, <1>2, Ids DEF Ahead, Growth, Writing

\* A message that is committed now comes after any such place.
LEMMA CommittedAfter ==
    ASSUME TypeInv, Growth, NEW place \in Places, Ahead(place), NEW m \in Durable' \ Durable
    PROVE  After(Place(m), place)
  <1>1. PICK c \in Publishers : Writing(c) /\ m.xid = pub[c].xid
    BY DEF Growth
  <1>2. place.xid \in Nat /\ m.xid \in Nat /\ place.xid < m.xid
    BY <1>1, Ids DEF Ahead, Places
  <1> QED BY <1>2 DEF After, Place

\* Whatever a publisher commits lies after all a subscription has passed.
LEMMA PublisherKeepsPolls ==
    ASSUME TypeInv, TypeInv', PollsOK, Growth, UNCHANGED <<position, poll, handled>>
    PROVE  PollsOK'
  <1> SUFFICES ASSUME NEW s \in Subscriptions PROVE PollOK(s)'
    BY DEF PollsOK
  <1>1. /\ position[s] \in Places /\ poll[s].acked \in Places
        /\ poll[s].batch \subseteq Message
        /\ \A m \in Message : Place(m) \in Places
        /\ nextXid' \in Nat
    BY RecordTypes DEF TypeInv, TypeOK, Xids
  <1>2. /\ Ahead(position[s]) /\ Ahead(poll[s].acked)
        /\ \A m \in poll[s].batch : m \in Durable /\ Ahead(Place(m))
    BY DEF PollsOK, PollOK
  <1>3. Ahead(position[s])' /\ Ahead(poll[s].acked)'
    <2>1. Ahead(position[s])'
      BY <1>1, <1>2, AheadKept DEF Ahead
    <2>2. Ahead(poll[s].acked)'
      BY <1>1, <1>2, AheadKept DEF Ahead
    <2> QED BY <2>1, <2>2
  <1>4. ASSUME NEW place \in Places, Ahead(place), PassedHandled(s, place), place' = place
        PROVE  PassedHandled(s, place)'
    BY <1>4, CommittedAfter DEF PassedHandled
  <1>5. PassedHandled(s, position[s])' /\ PassedHandled(s, poll[s].acked)'
    <2>1. PassedHandled(s, position[s])'
      BY <1>1, <1>2, <1>4 DEF PollsOK, PollOK
    <2>2. PassedHandled(s, poll[s].acked)'
      BY <1>1, <1>2, <1>4 DEF PollsOK, PollOK
    <2> QED BY <2>1, <2>2
  <1>6. ASSUME NEW m \in poll[s].batch
        PROVE  /\ m \in Durable' /\ Ahead(Place(m))'
               /\ \A n \in Durable' : n.topic = s[1] /\ After(Place(m), Place(n))
                                      => n \in poll[s].batch \cup handled[s]
    <2>1. m \in Durable' /\ Place(m) \in Places
      BY <1>1, <1>2 DEF Growth
    <2>2. Ahead(Place(m))'
      BY <1>1, <1>2, <2>1, AheadKept
    <2>3. \A n \in Durable' \ Durable : ~After(Place(m), Place(n))
      <3> SUFFICES ASSUME NEW n \in Durable' \ Durable PROVE ~After(Place(m), Place(n))
        OBVIOUS
      <3>1. After(Place(n), Place(m)) /\ n \in Message
        BY <1>2, <2>1, CommittedAfter DEF Durable, TypeInv, TypeOK
      <3>2. Place(n) \in Places
        BY <1>1, <3>1
      <3> QED BY <2>1, <3>1, <3>2 DEF After, Places
    <2> QED BY <2>1, <2>2, <2>3 DEF PollsOK, PollOK
  <1> QED BY <1>3, <1>5, <1>6 DEF PollOK

\* The order of the SELECT is total on the messages table.
LEMMA AfterTotal ==
    ASSUME NEW a \in Places, NEW b \in Places
    PROVE  /\ ~(After(a, b) /\ After(b, a))
           /\ After(a, b) \/ After(b, a) \/ (a.xid = b.xid /\ a.offset = b.offset)
  BY DEF After, Places

\* Nothing lies at or before the start of the table.
LEMMA AtStart ==
    ASSUME TypeInv
    PROVE  Ahead(Start) /\ \A s \in Subscriptions : PassedHandled(s, Start)
  <1>1. Ahead(Start)
    BY Ids DEF Ahead, Start, Writing, NoXid
  <1>2. \A m \in messages : After(Place(m), Start)
    BY Ids DEF After, Place, Start
  <1> QED BY <1>1, <1>2 DEF PassedHandled, Durable

\* The batch is a prefix of what is eligible, so all before its messages is in it
\* or was handled.
LEMMA PollStep ==
    ASSUME Inv, TypeInv', NEW s \in Subscriptions, Poll(s)
    PROVE  PollOK(s)'
  <1>1. PICK batch \in SUBSET Eligible(s) :
          /\ \A m \in batch, n \in Eligible(s) \ batch : After(Place(n), Place(m))
          /\ poll' = [poll EXCEPT ![s] = [xid |-> nextXid, batch |-> batch, acked |-> position[s]]]
    BY DEF Poll
  <1>2. /\ UNCHANGED <<pub, committed, messages, position, handled>>
        /\ nextXid' = nextXid + 1 /\ Durable' = Durable
        /\ poll'[s].acked = position[s] /\ poll'[s].batch = batch
    BY <1>1 DEF Poll, Durable, Inv, TypeInv, TypeOK
  <1>3. /\ nextXid \in Nat /\ position[s] \in Places /\ \A m \in Durable : Place(m) \in Places
        /\ \A m \in Durable : m.xid \in Nat
    BY RecordTypes, Ids DEF Inv, TypeInv, TypeOK, Xids, Durable
  <1>4. Ahead(position[s]) /\ PassedHandled(s, position[s])
    BY DEF Inv, PollsOK, PollOK
  <1>5. Ahead(position[s])' /\ PassedHandled(s, position[s])'
    BY <1>2, <1>3, <1>4 DEF Ahead, PassedHandled, Writing, Places
  <1>6. ASSUME NEW m \in batch
        PROVE  /\ m \in Durable /\ Ahead(Place(m))'
               /\ \A n \in Durable : n.topic = s[1] /\ After(Place(m), Place(n))
                                       => n \in batch \cup handled[s]
    <2>1. m \in Durable /\ BelowXmin(m.xid)
      BY DEF Eligible, Durable
    <2>2. \A c \in Publishers : Writing(c) => m.xid < pub[c].xid
      BY <2>1 DEF BelowXmin, Active
    <2>3. Ahead(Place(m))'
      BY <1>2, <1>3, <2>1, <2>2 DEF Ahead, BelowXmin, Place, Writing
    <2>4. ASSUME NEW n \in Durable, n.topic = s[1], After(Place(m), Place(n)), n \notin batch
          PROVE  n \in handled[s]
      <3>1. n.xid <= m.xid
        BY <1>3, <2>1, <2>4 DEF After, Place
      <3>2. BelowXmin(n.xid)
        <4>1. n.xid < nextXid
          BY <1>3, <2>1, <3>1 DEF BelowXmin
        <4>2. \A a \in Active : a \in Nat
          BY DEF Active, Inv, TypeInv, TypeOK, Transaction
        <4>3. \A a \in Active : n.xid < a
          BY <1>3, <2>1, <3>1, <4>2 DEF BelowXmin
        <4> QED BY <4>1, <4>3 DEF BelowXmin
      <3>3. n \notin Eligible(s)
        BY <1>1, <1>3, <2>1, <2>4, AfterTotal
      <3>4. ~After(Place(n), position[s])
        BY <2>4, <3>2, <3>3 DEF Eligible, Durable
      <3> QED BY <1>4, <2>4, <3>4 DEF PassedHandled
    <2> QED BY <2>1, <2>3, <2>4
  <1>7. Ahead(poll[s].acked)' /\ PassedHandled(s, poll[s].acked)'
    BY <1>2, <1>5 DEF Ahead, PassedHandled
  <1> QED BY <1>2, <1>5, <1>6, <1>7 DEF PollOK

\* The first message of the batch is acknowledged after all that precede it.
LEMMA HandleStep ==
    ASSUME Inv, TypeInv', NEW s \in Subscriptions, Handle(s)
    PROVE  PollOK(s)'
  <1>1. PICK m \in poll[s].batch :
          /\ \A n \in poll[s].batch \ {m} : After(Place(n), Place(m))
          /\ handled' = [handled EXCEPT ![s] = @ \cup {m}]
          /\ poll' = [poll EXCEPT ![s].batch = @ \ {m}, ![s].acked = Place(m)]
          /\ UNCHANGED <<database, nextSerial, pub, position, replies, begun, faults>>
    BY DEF Handle
  <1>2. /\ handled'[s] = handled[s] \cup {m}
        /\ poll'[s].batch = poll[s].batch \ {m} /\ poll'[s].acked = Place(m)
        /\ UNCHANGED <<nextXid, pub, position>> /\ Durable' = Durable
    BY <1>1 DEF Inv, TypeInv, TypeOK, database, Durable
  <1>3. PollOK(s)
    BY DEF Inv, PollsOK
  <1>4. \A n \in Durable : Place(n) \in Places
    BY RecordTypes DEF Durable, Inv, TypeInv, TypeOK
  <1>5. Ahead(position[s])' /\ PassedHandled(s, position[s])'
    BY <1>2, <1>3 DEF PollOK, Ahead, PassedHandled, Writing
  <1>6. Ahead(poll[s].acked)'
    BY <1>2, <1>3 DEF PollOK, Ahead, Writing
  <1>7. ASSUME NEW n \in Durable, n.topic = s[1], ~After(Place(n), Place(m))
        PROVE  n \in handled[s] \cup {m}
    <2>1. CASE After(Place(m), Place(n))
      <3>1. n \in poll[s].batch \cup handled[s]
        BY <1>3, <1>7, <2>1 DEF PollOK
      <3> QED BY <1>1, <1>7, <3>1
    <2>2. CASE n.offset = m.offset
      BY <1>3, <2>2 DEF PollOK, Durable, Inv, Publications, RowsUnique
    <2>3. m \in Durable
      BY <1>3 DEF PollOK
    <2>4. Place(n).offset = n.offset /\ Place(m).offset = m.offset
      BY DEF Place
    <2> QED BY <1>4, <1>7, <2>1, <2>2, <2>3, <2>4, AfterTotal
  <1>8. PassedHandled(s, poll[s].acked)'
    BY <1>2, <1>7 DEF PassedHandled
  <1>9. \A n \in poll'[s].batch :
          /\ n \in Durable' /\ Ahead(Place(n))'
          /\ \A o \in Durable' : o.topic = s[1] /\ After(Place(n), Place(o))
                                  => o \in poll'[s].batch \cup handled'[s]
    BY <1>2, <1>3 DEF PollOK, Ahead, Writing
  <1> QED BY <1>5, <1>6, <1>8, <1>9 DEF PollOK

\* The position becomes the last acknowledged message, or stays.
LEMMA EndPollStep ==
    ASSUME Inv, TypeInv', NEW s \in Subscriptions, CommitPoll(s) \/ LosePoll(s)
    PROVE  PollOK(s)'
  <1>1. /\ poll'[s] = NoPoll
        /\ position'[s] = position[s] \/ position'[s] = poll[s].acked
        /\ UNCHANGED <<nextXid, pub, handled>> /\ Durable' = Durable
    BY DEF CommitPoll, LosePoll, database, Durable, Inv, TypeInv, TypeOK
  <1>2. PollOK(s)
    BY DEF Inv, PollsOK, PollOK
  <1>3. Ahead(position[s])' /\ PassedHandled(s, position[s])'
    BY <1>1, <1>2 DEF PollOK, Ahead, PassedHandled, Writing
  <1>4. Ahead(Start)' /\ PassedHandled(s, Start)'
    BY AtStart, <1>1 DEF Inv, Ahead, PassedHandled, Writing
  <1>5. poll'[s].acked = Start /\ poll'[s].batch = {}
    BY <1>1 DEF NoPoll
  <1> QED BY <1>3, <1>4, <1>5 DEF PollOK, Ahead, PassedHandled

\* A subscription's step concerns its own position only.
LEMMA SubscriptionsKeepPolls ==
    ASSUME Inv, TypeInv', Growth, NEW s \in Subscriptions,
           Poll(s) \/ Handle(s) \/ CommitPoll(s) \/ LosePoll(s)
    PROVE  PollsOK'
  <1>1. PollOK(s)'
    BY PollStep, HandleStep, EndPollStep
  <1>2. /\ \A r \in Subscriptions \ {s} :
             poll'[r] = poll[r] /\ position'[r] = position[r] /\ handled'[r] = handled[r]
        /\ pub' = pub /\ Durable' = Durable /\ nextXid' >= nextXid /\ nextXid' \in Nat
    BY DEF Poll, Handle, CommitPoll, LosePoll, database, Durable, Inv, TypeInv, TypeOK, Growth, Xids
  <1>3. ASSUME NEW r \in Subscriptions \ {s} PROVE PollOK(r)'
    <2>1. PollOK(r)
      BY DEF Inv, PollsOK, PollOK
    <2>2. /\ position[r].xid \in Nat /\ poll[r].acked.xid \in Nat /\ nextXid \in Nat
          /\ \A m \in poll[r].batch : Place(m).xid \in Nat
      BY DEF Inv, TypeInv, TypeOK, Places, Message, Place, Xids
    <2>3. /\ Ahead(position[r])' /\ Ahead(poll[r].acked)'
          /\ \A m \in poll[r].batch : Ahead(Place(m))'
      BY <1>2, <2>1, <2>2 DEF PollOK, Ahead, Writing
    <2> QED BY <1>2, <2>1, <2>3 DEF PollOK, PassedHandled
  <1> QED BY <1>1, <1>3 DEF PollsOK

-----------------------------------------------------------------------------
(* The theorems.                                                             *)

\* The invariant holds at the start.
LEMMA InitInv == Init => Inv
  <1> SUFFICES ASSUME Init PROVE Inv
    OBVIOUS
  <1>1. TypeInv
    BY InitType
  <1>2. Publications
    BY DEF Init, Publications, XidsOK, RowsUnique, PublishersOK, PublisherOK, KeysOK,
           IdlePublisher, NoXid, Writing
  <1>3. /\ \A s \in Subscriptions : position[s] = Start /\ poll[s] = NoPoll
        /\ NoPoll.acked = Start /\ NoPoll.batch = {}
    BY DEF Init, NoPoll
  <1>4. PollsOK
    BY <1>1, <1>3, AtStart DEF PollsOK, PollOK
  <1>5. RepliesDurable
    BY DEF Init, RepliesDurable
  <1> QED BY <1>1, <1>2, <1>4, <1>5 DEF Inv

\* What the caller is told at the commit.
LEMMA ReplyStep ==
    ASSUME Inv, Growth, NEW c \in Publishers, Commit(c)
    PROVE  RepliesDurable'
  <1> DEFINE t == pub[c]
  <1>1. /\ replies' \subseteq replies \cup {[request |-> t.request, id |-> t.reference]}
        /\ t.pc = "commit" /\ UNCHANGED <<messages, publications>>
        /\ committed' = committed \cup ({t.xid} \ {NoXid})
    BY DEF Commit
  <1>2. \E m \in Durable' : m.xid = t.reference /\ Answers(m, t.request)
    <2>1. PublisherOK(c)
      BY DEF Inv, Publications, PublishersOK
    <2>2. CASE /\ t.reference = t.xid
               /\ \E m \in messages : m.xid = t.xid /\ Answers(m, t.request)
      <3>1. PICK m \in messages : m.xid = t.xid /\ Answers(m, t.request)
        BY <2>2
      <3>2. m \in Durable'
        BY <1>1, <3>1, Ids DEF Durable, NoXid, Inv
      <3> QED BY <2>2, <3>1, <3>2
    <2>3. CASE \E p \in publications : p.id = t.reference /\ p.xid \in committed
                                         /\ Answers(p, t.request)
      <3>1. PICK p \in publications : p.id = t.reference /\ p.xid \in committed
                                        /\ Answers(p, t.request)
        BY <2>3
      <3>2. PICK m \in messages : m.xid = p.xid /\ Answers(m, p)
        BY <3>1 DEF Inv, Publications, KeysOK
      <3>3. m \in Durable' /\ m.xid = t.reference
        BY <1>1, <3>1, <3>2 DEF Durable, Inv, Publications, KeysOK
      <3> QED BY <3>1, <3>2, <3>3 DEF Answers
    <2> QED BY <1>1, <2>1, <2>2, <2>3 DEF PublisherOK
  <1>3. \A r \in replies : \E m \in Durable' :
          m.xid = r.id /\ m.topic = r.request.topic /\ m.content = r.request.content
    BY DEF Inv, RepliesDurable, Growth
  <1> QED BY <1>1, <1>2, <1>3 DEF RepliesDurable, Answers

\* Every step keeps the invariant, and lets committed messages only grow.
LEMMA InvStep == Inv /\ [Next]_vars => Inv' /\ Growth
  <1> SUFFICES ASSUME Inv, [Next]_vars PROVE Inv' /\ Growth
    OBVIOUS
  <1> USE DEF Inv
  <1>0. TypeInv'
    BY TypeStep
  <1>1. CASE UNCHANGED vars
    <2>1. UNCHANGED <<nextXid, committed, messages, publications, nextSerial, pub, position,
                      poll, handled, replies>>
      BY <1>1 DEF vars, database
    <2>2. Publications'
      BY <2>1
         DEF Publications, XidsOK, RowsUnique, PublishersOK, PublisherOK, KeysOK, Answers, Writing
    <2>3. Growth
      BY <2>1, Ids DEF Growth, Durable
    <2>4. PollsOK'
      BY <1>0, <2>1, <2>3, PublisherKeepsPolls
    <2> QED BY <1>0, <2>1, <2>2, <2>3, <2>4 DEF RepliesDurable, Durable
  <1>2. ASSUME NEW c \in Publishers,
               Publish(c) \/ Abort(c) \/ \E r \in Requests : Begin(c, r)
        PROVE  Inv' /\ Growth
    <2>1. Publications' /\ Growth /\ UNCHANGED <<position, poll, handled>>
      BY <1>2, PublisherStep
    <2>2. PollsOK'
      BY <1>0, <2>1, PublisherKeepsPolls
    <2>3. RepliesDurable'
      <3>1. CASE Commit(c)
        BY <2>1, <3>1, ReplyStep
      <3>2. CASE ~Commit(c)
        <4>1. replies' = replies
          BY <1>2, <3>2 DEF Publish, CallerWrites, ClaimPublication, ExistingPublication,
                            InsertMessage, Abort, Begin
        <4> QED BY <2>1, <4>1 DEF RepliesDurable, Growth
      <3> QED BY <3>1, <3>2
    <2> QED BY <1>0, <2>1, <2>2, <2>3
  <1>3. ASSUME NEW s \in Subscriptions, Poll(s) \/ Handle(s) \/ CommitPoll(s) \/ LosePoll(s)
        PROVE  Inv' /\ Growth
    <2>1. Publications' /\ Growth /\ Durable' = Durable /\ UNCHANGED replies
      BY <1>3, SubscriptionStep
    <2>2. PollsOK'
      BY <1>0, <1>3, <2>1, SubscriptionsKeepPolls
    <2> QED BY <1>0, <2>1, <2>2 DEF RepliesDurable
  <1> QED BY <1>1, <1>2, <1>3 DEF Next

\* The inductive invariant.
LEMMA Invariance == Spec => []Inv
  BY InitInv, InvStep, PTL DEF Spec

\* No committed message is skipped by a subscription (NoMessageSkipped): the SELECT
\* stops at the oldest open transaction, so none can commit behind a position.
THEOREM NothingSkipped == Spec => []NoMessageSkipped
  <1>1. Inv => NoMessageSkipped
    BY DEF Inv, PollsOK, PollOK, PassedHandled, NoMessageSkipped
  <1> QED BY Invariance, <1>1, PTL

\* What the SELECT sees only grows, and only at its end (StableGrowsAtEnd).
THEOREM VisibleGrowsAtEnd == Spec => StableGrowsAtEnd
  <1>1. Inv /\ [Next]_vars =>
          /\ Stable \subseteq Stable'
          /\ \A m \in Stable' \ Stable, n \in Stable : After(Place(m), Place(n))
    <2> SUFFICES ASSUME Inv, [Next]_vars
                 PROVE  /\ Stable \subseteq Stable'
                        /\ \A m \in Stable' \ Stable, n \in Stable : After(Place(m), Place(n))
      OBVIOUS
    <2>1. Growth /\ Inv'
      BY InvStep
    <2>2. /\ nextXid \in Nat /\ nextXid' \in Nat /\ nextXid' >= nextXid
          /\ \A m \in messages : m.xid \in Nat
          /\ \A m \in messages' : m.xid \in Nat
          /\ \A a \in Active : a \in Nat
      BY <2>1 DEF Inv, TypeInv, TypeOK, Xids, Message, Active, Transaction, Growth
    <2>3. \A a \in Active' : a \in Active \/ a = nextXid
      <3>1. \A s \in Subscriptions : poll'[s].xid # NoXid => poll'[s].xid \in {poll[s].xid, nextXid}
        <4>1. ASSUME NEW r \in Subscriptions, Poll(r) \/ Handle(r) \/ CommitPoll(r) \/ LosePoll(r)
              PROVE  \A s \in Subscriptions : poll'[s].xid \in {poll[s].xid, NoXid, nextXid}
          <5> USE DEF Inv, TypeInv, TypeOK
          <5>1. CASE Poll(r)
            BY <5>1 DEF Poll
          <5>2. CASE Handle(r)
            BY <5>2 DEF Handle
          <5>3. CASE CommitPoll(r) \/ LosePoll(r)
            BY <5>3 DEF CommitPoll, LosePoll, NoPoll
          <5> QED BY <4>1, <5>1, <5>2, <5>3
        <4>2. ASSUME NEW c \in Publishers, Publish(c) \/ Abort(c) \/ \E r \in Requests : Begin(c, r)
              PROVE  UNCHANGED poll
          BY <4>2, PublisherStep DEF Inv
        <4> QED BY <4>1, <4>2 DEF Next, vars
      <3>2. \A c \in Publishers : pub'[c].xid # NoXid => pub'[c].xid \in {pub[c].xid, nextXid}
        BY <2>1 DEF Growth
      <3> QED BY <3>1, <3>2 DEF Active, Writing
    <2>4. Stable \subseteq Stable'
      BY <2>1, <2>2, <2>3 DEF Growth, Stable, BelowXmin, Durable
    <2>5. ASSUME NEW m \in Stable' \ Stable, NEW n \in Stable
          PROVE  After(Place(m), Place(n))
      <3>1. m \in Durable' /\ n \in Durable /\ BelowXmin(n.xid) /\ m.xid \in Nat /\ n.xid \in Nat
        BY <2>2 DEF Stable, Durable
      <3>2. \E a \in Active : a <= m.xid
        <4>1. CASE m \notin Durable
          <5>1. PICK c \in Publishers : Writing(c) /\ m.xid = pub[c].xid
            BY <2>1, <3>1, <4>1 DEF Growth
          <5>2. pub[c].xid \in Active
            BY <5>1 DEF Active
          <5> QED BY <3>1, <5>1, <5>2
        <4>2. CASE m \in Durable
          <5>1. m.xid < nextXid
            BY <4>2 DEF Durable, Inv, Publications, XidsOK
          <5> QED BY <2>2, <2>5, <3>1, <4>2, <5>1 DEF Stable, BelowXmin
        <4> QED BY <4>1, <4>2
      <3>3. n.xid < m.xid
        BY <2>2, <3>1, <3>2 DEF BelowXmin
      <3> QED BY <3>3 DEF After, Place
    <2> QED BY <2>4, <2>5
  <1> QED BY Invariance, <1>1, PTL DEF Spec, StableGrowsAtEnd

\* An idempotency key names one committed message (KeyNamesOneMessage).
THEOREM KeysAreIdempotent == Spec => []KeyNamesOneMessage
  <1>1. ASSUME Inv PROVE KeyNamesOneMessage
    <2>1. ASSUME NEW m \in Durable, NEW n \in Durable, m.key = n.key, m.key # NoKey PROVE m = n
      <3>1. PICK p \in publications : p.xid = m.xid /\ p.key = m.key
        BY <1>1, <2>1 DEF Inv, Publications, KeysOK, Durable
      <3>2. PICK q \in publications : q.xid = n.xid /\ q.key = n.key
        BY <1>1, <2>1 DEF Inv, Publications, KeysOK, Durable
      <3> QED BY <1>1, <2>1, <3>1, <3>2 DEF Inv, Publications, RowsUnique, Durable
    <2>2. ASSUME NEW p \in publications, p.xid \in committed
          PROVE  \E m \in Durable : m.xid = p.id /\ m.key = p.key
                                    /\ m.topic = p.topic /\ m.content = p.content
      BY <1>1, <2>2 DEF Inv, Publications, KeysOK, Durable, Answers
    <2> QED BY <2>1, <2>2 DEF KeyNamesOneMessage
  <1> QED BY Invariance, <1>1, PTL

\* A reference given to a caller is that of a committed message with the topic and
\* payload it asked for (RepliesDurable).
THEOREM ReferencesAreDurable == Spec => []RepliesDurable
  <1>1. Inv => RepliesDurable
    BY DEF Inv
  <1> QED BY Invariance, <1>1, PTL
=============================================================================
