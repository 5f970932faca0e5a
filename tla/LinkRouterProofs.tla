--------------------------- MODULE LinkRouterProofs ---------------------------
(* Theorems about the bank links and the router of Components: for any starts, *)
(* requests, connections and users' operations; for any topics, messages,      *)
(* deliveries at a time, attempts and abandoned deliveries; and for any number *)
(* of failures.                                                                *)
EXTENDS Components, FiniteSetTheorems, SequenceTheorems, TLAPS

-----------------------------------------------------------------------------
(* The inductive invariant of the links.                                     *)

References == [start : Starts, session : Nat]

ConnectionType ==
    [live : BOOLEAN, ref : References \cup {None}, start : Starts \cup {None},
     owned : BOOLEAN, schedule : {"on", "off", None}]

SaveType == [ref : References, start : Starts, found : SUBSET Nat]

RequestType ==
    [pc : {"idle", "finishing", "saving", "restoring"}, start : Starts \cup {None},
     save : SaveType \cup {None}]

LinkTypes ==
    /\ starts \in [Starts -> {"none", "pending", "consumed"}]
    /\ connections \in Seq(ConnectionType)
    /\ Len(connections) <= MaxMade
    /\ requests \in [Finishers -> RequestType]
    /\ adrift \subseteq SaveType /\ IsFiniteSet(adrift)
    /\ linkPast \in [unsure : SUBSET Starts, lost : SUBSET Starts]

\* A start has one name for its synthetic connection.
NamedBySynthetic(ref) == ref.start \in Synthetic => ref.session = 0

\* A transaction makes a connection of its start, or has locked those of its
\* reference.
SaveOf(s, save) ==
    /\ save \in SaveType
    /\ save.start = s /\ save.ref.start = s
    /\ NamedBySynthetic(save.ref)
    /\ \A c \in save.found : c \in Link!Live /\ connections[c].ref = save.ref

\* A request holds a consumed start, which no other request holds.
RequestsHold ==
    \A f \in Finishers :
        /\ requests[f].pc = "idle" => requests[f].start = None
        /\ requests[f].pc # "idle" => /\ requests[f].start \in Starts
                                      /\ starts[requests[f].start] = "consumed"
        /\ requests[f].pc = "saving" => SaveOf(requests[f].start, requests[f].save)
        /\ \A g \in Finishers :
              f # g /\ requests[f].pc # "idle" => requests[f].start # requests[g].start

\* The start of a transaction that nobody waits for is no longer sure.
AdriftUnsure == \A save \in adrift : /\ save.start \in linkPast.unsure
                                     /\ SaveOf(save.start, save)

\* A connection with a reference is named after its start; a deleted one owns nothing.
ConnectionsNamed ==
    \A c \in DOMAIN connections :
        /\ connections[c].ref = None => connections[c].start = None
        /\ connections[c].ref # None => /\ connections[c].start = connections[c].ref.start
                                        /\ NamedBySynthetic(connections[c].ref)
        /\ ~connections[c].live => ~connections[c].owned /\ connections[c].schedule = None

\* The unique index.
ReferencesUnique ==
    \A c, d \in Link!Live :
        connections[c].ref # None /\ connections[c].ref = connections[d].ref => c = d

\* As long as no request gave up on the start of a connection, the start is
\* consumed, held by no request, and has made this connection only.
SureOnce ==
    \A c \in DOMAIN connections :
        connections[c].start # None /\ connections[c].start \notin linkPast.unsure =>
            /\ starts[connections[c].start] = "consumed"
            /\ \A f \in Finishers : requests[f].start # connections[c].start
            /\ \A d \in DOMAIN connections : connections[d].start = connections[c].start => c = d

\* A consumed start has made its connection, is held, or was lost.
ConsumedMade ==
    \A s \in Starts \ linkPast.lost :
        starts[s] = "consumed" =>
            \/ \E f \in Finishers : requests[f].start = s
            \/ \E c \in DOMAIN connections : connections[c].start = s

LinkInv ==
    /\ LinkTypes
    /\ RequestsHold
    /\ AdriftUnsure
    /\ ConnectionsNamed
    /\ ReferencesUnique
    /\ SureOnce
    /\ ConsumedMade

-----------------------------------------------------------------------------
(* What the statements do to the connections.                                *)

\* A connection is appended after all the others.
LEMMA AppendConnection ==
    ASSUME connections \in Seq(ConnectionType), NEW e \in ConnectionType
    PROVE  /\ Append(connections, e) \in Seq(ConnectionType)
           /\ Len(Append(connections, e)) = Len(connections) + 1
           /\ DOMAIN Append(connections, e) = DOMAIN connections \cup {Len(connections) + 1}
           /\ Len(connections) + 1 \notin DOMAIN connections
           /\ \A c \in DOMAIN connections : Append(connections, e)[c] = connections[c]
           /\ Append(connections, e)[Len(connections) + 1] = e
  <1>1. Len(connections) \in Nat /\ DOMAIN connections = 1 .. Len(connections)
    BY LenProperties
  <1>2. /\ Append(connections, e) \in Seq(ConnectionType)
        /\ Len(Append(connections, e)) = Len(connections) + 1
        /\ \A c \in 1 .. Len(connections) : Append(connections, e)[c] = connections[c]
        /\ Append(connections, e)[Len(connections) + 1] = e
    BY AppendProperties
  <1>3. DOMAIN Append(connections, e) = 1 .. Len(connections) + 1
    BY <1>2, LenProperties
  <1> QED BY <1>1, <1>2, <1>3

\* The connections and their parts are of their types.
LEMMA ConnectionParts ==
    ASSUME LinkTypes
    PROVE  /\ Len(connections) \in Nat /\ DOMAIN connections = 1 .. Len(connections)
           /\ \A c \in DOMAIN connections : connections[c] \in ConnectionType
  BY LenProperties, ElementOfSeq DEF LinkTypes

\* A transaction makes one connection of its reference, or gives those it has
\* locked their secret and a schedule they lack.
Makes(s, save, made) ==
    /\ made \in Seq(ConnectionType) /\ Len(made) <= MaxMade
    /\ DOMAIN connections \subseteq DOMAIN made
    /\ \A c \in DOMAIN connections :
          /\ made[c].live = connections[c].live
          /\ made[c].ref = connections[c].ref
          /\ made[c].start = connections[c].start
          /\ ~connections[c].live => made[c] = connections[c]
          /\ connections[c].schedule = "off" => made[c].schedule = "off"
    /\ \A c \in DOMAIN made \ DOMAIN connections :
          /\ made[c].live /\ made[c].ref = save.ref /\ made[c].start = s
          /\ \A d \in DOMAIN made \ DOMAIN connections : c = d
          /\ \A d \in Link!Live : connections[d].ref # save.ref
    /\ \E c \in DOMAIN made : made[c].start = s

\* A connection that is linked again.
Relinked(k) == [k EXCEPT !.owned = TRUE, !.schedule = Link!ScheduleOf(k.schedule)]

\* Linking again rewrites session and schedule, never the start or the reference.
LEMMA RelinkedType ==
    ASSUME NEW k \in ConnectionType
    PROVE  /\ Relinked(k) \in ConnectionType
           /\ Relinked(k).live = k.live
           /\ Relinked(k).ref = k.ref
           /\ Relinked(k).start = k.start
           /\ k.schedule = "off" => Relinked(k).schedule = "off"
  BY ComponentsAssumption DEF Relinked, ConnectionType, Link!ScheduleOf

\* An insert makes one more connection, the only live one of its reference.
LEMMA LinkedMakes ==
    ASSUME LinkInv, NEW s \in Starts, NEW save, SaveOf(s, save),
           ~Link!Collides(save), Len(connections) < MaxMade
    PROVE  Makes(s, save, Link!Linked(save))
  <1> DEFINE made == Link!Linked(save)
  <1>0. /\ Len(connections) \in Nat /\ DOMAIN connections = 1 .. Len(connections)
        /\ \A c \in DOMAIN connections : connections[c] \in ConnectionType
        /\ connections \in Seq(ConnectionType)
    BY ConnectionParts DEF LinkInv, LinkTypes
  <1>1. CASE save.found = {}
    <2>1. Link!NewConnection(save) \in ConnectionType
      BY <1>1 DEF Link!NewConnection, ConnectionType, SaveOf, SaveType
    <2>2. made = Append(connections, Link!NewConnection(save))
      BY <1>1 DEF Link!Linked
    <2>3. \A d \in Link!Live : connections[d].ref # save.ref
      BY <1>1, ComponentsAssumption
         DEF Link!Collides, Link!SameReference, SaveOf, SaveType, References
    <2>4. /\ made[Len(connections) + 1] = Link!NewConnection(save)
          /\ Link!NewConnection(save).live
          /\ Link!NewConnection(save).ref = save.ref
          /\ Link!NewConnection(save).start = s
      BY <2>1, <2>2, <1>0, AppendConnection DEF Link!NewConnection, SaveOf
    <2>5. /\ made \in Seq(ConnectionType)
          /\ Len(made) = Len(connections) + 1
          /\ DOMAIN made = DOMAIN connections \cup {Len(connections) + 1}
          /\ \A c \in DOMAIN connections : made[c] = connections[c]
      BY <1>0, <2>1, <2>2, AppendConnection
    <2> HIDE DEF made
    <2>6. Len(made) <= MaxMade
      BY <1>0, <2>5, ComponentsAssumption
    <2>7. Makes(s, save, made)
      BY <2>3, <2>4, <2>5, <2>6 DEF Makes
    <2> QED BY <2>7 DEF made
  <1>2. CASE save.found # {}
    <2>1. /\ DOMAIN made = 1 .. Len(connections)
          /\ made = [c \in 1 .. Len(connections) |-> made[c]]
          /\ \A c \in 1 .. Len(connections) :
                made[c] = IF c \in save.found THEN Relinked(connections[c]) ELSE connections[c]
      BY <1>0, <1>2 DEF Link!Linked, Link!Connections, Relinked
    <2> HIDE DEF made
    <2>2. \A c \in 1 .. Len(connections) : made[c] \in ConnectionType
      BY <1>0, <2>1, RelinkedType
    <2>3. made \in Seq(ConnectionType) /\ DOMAIN made = 1 .. Len(connections)
          /\ Len(made) = Len(connections)
      <3>1. made \in [1 .. Len(connections) -> ConnectionType]
        BY <2>1, <2>2
      <3>2. made \in Seq(ConnectionType)
        BY <3>1, <1>0
      <3> QED BY <2>1, <3>2, <1>0, LenProperties
    <2>4. \A c \in save.found : c \in Link!Live /\ connections[c].ref = save.ref
      BY DEF SaveOf
    <2>5. \A c \in save.found : c \in DOMAIN connections /\ connections[c].live
                                /\ connections[c].start = s
      BY <2>4, ComponentsAssumption
         DEF Link!Live, Link!Connections, LinkInv, ConnectionsNamed, SaveOf, SaveType, References
    <2>6. \A c \in DOMAIN connections :
              /\ made[c].live = connections[c].live
              /\ made[c].ref = connections[c].ref
              /\ made[c].start = connections[c].start
              /\ ~connections[c].live => made[c] = connections[c]
              /\ connections[c].schedule = "off" => made[c].schedule = "off"
      BY <1>0, <2>1, <2>5, RelinkedType
    <2>7. \E c \in DOMAIN made : made[c].start = s
      BY <1>2, <2>3, <2>5, <2>6, <1>0
    <2>8. Len(made) <= MaxMade /\ DOMAIN connections \subseteq DOMAIN made
          /\ DOMAIN made \ DOMAIN connections = {}
      BY <1>0, <2>3 DEF LinkInv, LinkTypes
    <2>9. Makes(s, save, made)
      BY <2>3, <2>6, <2>7, <2>8 DEF Makes
    <2> QED BY <2>9 DEF made
  <1> QED BY <1>1, <1>2

-----------------------------------------------------------------------------
(* The invariant is inductive.                                               *)

\* No start, no request, no connection: the invariant holds at the start.
LEMMA LinkInit == Link!Init => LinkInv
  <1> SUFFICES ASSUME Link!Init PROVE LinkInv
    OBVIOUS
  <1>1. LinkTypes
    BY FS_EmptySet, ComponentsAssumption
       DEF Link!Init, Link!NoRequest, LinkTypes, RequestType
  <1> QED BY <1>1 DEF Link!Init, Link!NoRequest, Link!Live, Link!Connections, LinkInv,
                      RequestsHold, AdriftUnsure, ConnectionsNamed, ReferencesUnique,
                      SureOnce, ConsumedMade

\* What a transaction knows stays so as long as the connections do.
LEMMA SavesKept ==
    ASSUME UNCHANGED connections
    PROVE  \A s, save : SaveOf(s, save) => SaveOf(s, save)'
  BY DEF SaveOf, Link!Live, Link!Connections

\* A start begins, and its time passes.
LEMMA StartSteps ==
    ASSUME LinkInv, NEW s \in Starts, Link!StartRedirectLink(s) \/ Link!Expire(s)
    PROVE  LinkInv'
  <1>1. /\ UNCHANGED <<connections, requests, adrift, linkPast>>
        /\ starts' \in [Starts -> {"none", "pending", "consumed"}]
        /\ \A t \in Starts : starts'[t] = "consumed" <=> starts[t] = "consumed"
    BY DEF Link!StartRedirectLink, Link!Expire, LinkInv, LinkTypes
  <1>2. LinkTypes'
    BY <1>1 DEF LinkInv, LinkTypes
  <1>3. RequestsHold' /\ AdriftUnsure'
    BY <1>1, SavesKept DEF LinkInv, LinkTypes, RequestsHold, AdriftUnsure, RequestType
  <1>4. ConnectionsNamed' /\ ReferencesUnique'
    BY <1>1 DEF LinkInv, ConnectionsNamed, ReferencesUnique, Link!Live, Link!Connections
  <1>5. SureOnce' /\ ConsumedMade'
    BY <1>1, ConnectionParts DEF LinkInv, SureOnce, ConsumedMade, ConnectionType
  <1> QED BY <1>2, <1>3, <1>4, <1>5 DEF LinkInv

\* A request takes a start that no other one holds.
LEMMA ConsumeStep ==
    ASSUME LinkInv, NEW f \in Finishers, NEW s \in Starts, Link!Consume(f, s)
    PROVE  LinkInv'
  <1>1. /\ UNCHANGED <<connections, adrift, linkPast>>
        /\ starts[s] = "pending" /\ requests[f].pc = "idle"
        /\ starts' = [starts EXCEPT ![s] = "consumed"]
        /\ requests' = [requests EXCEPT ![f] =
                           [pc |-> "finishing", start |-> s, save |-> None]]
    BY DEF Link!Consume, Link!Consumable
  <1>2. LinkTypes'
    BY <1>1 DEF LinkInv, LinkTypes, RequestType
  <1>3. \A g \in Finishers : requests[g].start # s
    BY <1>1, ComponentsAssumption DEF LinkInv, RequestsHold
  <1>4. /\ \A g \in Finishers : requests'[g] = IF g = f THEN
                 [pc |-> "finishing", start |-> s, save |-> None] ELSE requests[g]
        /\ \A t \in Starts : starts'[t] = IF t = s THEN "consumed" ELSE starts[t]
    BY <1>1 DEF LinkInv, LinkTypes
  <1>5. RequestsHold' /\ AdriftUnsure'
    BY <1>1, <1>3, <1>4, SavesKept, ComponentsAssumption
       DEF LinkInv, LinkTypes, RequestsHold, AdriftUnsure, RequestType
  <1>6. ConnectionsNamed' /\ ReferencesUnique'
    BY <1>1 DEF LinkInv, ConnectionsNamed, ReferencesUnique, Link!Live, Link!Connections
  <1>7. \A c \in DOMAIN connections :
            connections[c].start \in linkPast.unsure \/ connections[c].start # s
    BY <1>1, ComponentsAssumption DEF LinkInv, SureOnce
  <1>8. \A c \in DOMAIN connections : connections[c].start \in Starts \cup {None}
    BY ConnectionParts DEF LinkInv, ConnectionType
  <1>9. SureOnce'
    BY <1>1, <1>4, <1>7, <1>8 DEF LinkInv, SureOnce
  <1>10. ConsumedMade'
    BY <1>1, <1>4, ComponentsAssumption DEF LinkInv, ConsumedMade, RequestsHold
  <1> QED BY <1>2, <1>5, <1>6, <1>9, <1>10 DEF LinkInv

\* The instance's cardinality is the library's.
LEMMA LinkCardinality == \A S : Link!Cardinality(S) = Cardinality(S)
  BY DEF Link!Cardinality, Cardinality

\* A request that goes on.
LEMMA RequestSet ==
    ASSUME NEW r \in RequestType, NEW step \in {"idle", "finishing", "saving", "restoring"},
           NEW save \in SaveType \cup {None}
    PROVE  /\ [r EXCEPT !.pc = step, !.save = save] \in RequestType
           /\ [r EXCEPT !.pc = step, !.save = save].pc = step
           /\ [r EXCEPT !.pc = step, !.save = save].start = r.start
           /\ [r EXCEPT !.pc = step, !.save = save].save = save
  BY DEF RequestType

\* The bank answers: the transaction knows the live connections of its reference.
LEMMA FinishStep ==
    ASSUME LinkInv, NEW f \in Finishers, Link!FinishLink(f)
    PROVE  LinkInv'
  <1> DEFINE s == requests[f].start
             transaction == [ref |-> Link!NewReference(s), start |-> s,
                             found |-> Link!SameReference(Link!NewReference(s))]
  <1>1. /\ UNCHANGED <<connections, adrift, linkPast, starts>>
        /\ requests[f].pc = "finishing" /\ s \in Starts /\ starts[s] = "consumed"
    BY DEF Link!FinishLink, LinkInv, RequestsHold
  <1>2. Link!NewReference(s) \in References /\ Link!NewReference(s).start = s
        /\ NamedBySynthetic(Link!NewReference(s))
    <2>1. Len(connections) + Cardinality(adrift) + 1 \in Nat
      BY ConnectionParts, FS_CardinalityType DEF LinkInv, LinkTypes
    <2> QED BY <1>1, <2>1, LinkCardinality DEF Link!NewReference, References, NamedBySynthetic
  <1>3. Link!SameReference(Link!NewReference(s)) \subseteq Nat
    BY ConnectionParts DEF Link!SameReference, Link!Live, Link!Connections, LinkInv
  <1>4. SaveOf(s, transaction)
    BY <1>1, <1>2, <1>3 DEF SaveOf, SaveType, Link!SameReference
  <1>5. /\ requests' \in [Finishers -> RequestType]
        /\ \A g \in Finishers : g # f => requests'[g] = requests[g]
        /\ requests'[f].pc = "saving" /\ requests'[f].start = s
        /\ requests'[f].save = transaction
    <2>1. requests[f] \in RequestType /\ f \in DOMAIN requests
      BY DEF LinkInv, LinkTypes
    <2>2. transaction \in SaveType
      BY <1>4 DEF SaveOf
    <2> DEFINE request == [requests[f] EXCEPT !.pc = "saving", !.save = transaction]
    <2>3. requests' = [requests EXCEPT ![f] = request]
      BY <2>1 DEF Link!FinishLink
    <2> HIDE DEF transaction
    <2>4. /\ request \in RequestType /\ request.pc = "saving"
          /\ request.start = s /\ request.save = transaction
      BY ZenonT(60), <2>1, <2>2, RequestSet
    <2> HIDE DEF request
    <2> QED BY <2>1, <2>3, <2>4 DEF LinkInv, LinkTypes
  <1>6. LinkTypes'
    BY <1>1, <1>5 DEF LinkInv, LinkTypes
  <1>7. RequestsHold' /\ AdriftUnsure'
    BY <1>1, <1>4, <1>5, SavesKept DEF LinkInv, RequestsHold, AdriftUnsure
  <1>8. ConnectionsNamed' /\ ReferencesUnique'
    BY <1>1 DEF LinkInv, ConnectionsNamed, ReferencesUnique, Link!Live, Link!Connections
  <1>9. SureOnce' /\ ConsumedMade'
    BY <1>1, <1>5 DEF LinkInv, SureOnce, ConsumedMade
  <1> QED BY <1>6, <1>7, <1>8, <1>9 DEF LinkInv

\* A request that fails keeps its start; the transaction it gave up on is adrift,
\* and its start unsure.
LEMMA FailSteps ==
    ASSUME LinkInv, NEW f \in Finishers, Link!FailLink(f) \/ Link!GiveUp(f)
    PROVE  LinkInv'
  <1> DEFINE s == requests[f].start
  <1>1. /\ UNCHANGED <<connections, starts>>
        /\ requests[f].pc # "idle" /\ s \in Starts /\ starts[s] = "consumed"
        /\ requests[f] \in RequestType
        /\ requests' = [requests EXCEPT ![f] =
                           [requests[f] EXCEPT !.pc = "restoring", !.save = None]]
    BY DEF Link!FailLink, Link!GiveUp, LinkInv, RequestsHold, LinkTypes
  <1>2. /\ requests' \in [Finishers -> RequestType]
        /\ \A g \in Finishers : g # f => requests'[g] = requests[g]
        /\ requests'[f].pc = "restoring" /\ requests'[f].start = s
    <2> DEFINE request == [requests[f] EXCEPT !.pc = "restoring", !.save = None]
    <2>1. /\ request \in RequestType /\ request.pc = "restoring" /\ request.start = s
      <3> None \in SaveType \cup {None} /\ requests[f] \in RequestType
        BY <1>1
      <3> QED BY RequestSet
    <2>2. requests' = [requests EXCEPT ![f] = request]
      BY <1>1
    <2> HIDE DEF request
    <2> QED BY <2>1, <2>2 DEF LinkInv, LinkTypes
  <1>3. \/ UNCHANGED <<adrift, linkPast>>
        \/ /\ SaveOf(s, requests[f].save)
           /\ adrift' = adrift \cup {requests[f].save}
           /\ linkPast' = [linkPast EXCEPT !.unsure = linkPast.unsure \cup {s}]
    BY DEF Link!FailLink, Link!GiveUp, LinkInv, RequestsHold
  <1>4. /\ linkPast' \in [unsure : SUBSET Starts, lost : SUBSET Starts]
        /\ linkPast.unsure \subseteq linkPast'.unsure /\ linkPast'.lost = linkPast.lost
    BY <1>1, <1>3 DEF LinkInv, LinkTypes
  <1>5. adrift' \subseteq SaveType /\ IsFiniteSet(adrift')
    BY <1>3, FS_AddElement DEF LinkInv, LinkTypes, SaveOf
  <1>6. LinkTypes'
    BY <1>1, <1>2, <1>4, <1>5 DEF LinkInv, LinkTypes
  <1>7. RequestsHold'
    BY <1>1, <1>2, SavesKept DEF LinkInv, RequestsHold
  <1>8. AdriftUnsure'
    BY <1>1, <1>3, <1>4, SavesKept DEF LinkInv, LinkTypes, AdriftUnsure, SaveOf
  <1>9. ConnectionsNamed' /\ ReferencesUnique'
    BY <1>1 DEF LinkInv, ConnectionsNamed, ReferencesUnique, Link!Live, Link!Connections
  <1>10. SureOnce' /\ ConsumedMade'
    BY <1>1, <1>2, <1>4 DEF LinkInv, SureOnce, ConsumedMade
  <1> QED BY <1>6, <1>7, <1>8, <1>9, <1>10 DEF LinkInv

\* A request that restores its start, or is lost with it, holds it no longer.
LEMMA LetGoSteps ==
    ASSUME LinkInv, NEW f \in Finishers, Link!Restore(f) \/ Link!LoseRequest(f)
    PROVE  LinkInv'
  <1> DEFINE s == requests[f].start
  <1>1. /\ UNCHANGED <<connections, adrift>>
        /\ requests[f].pc # "idle" /\ s \in Starts /\ starts[s] = "consumed"
        /\ requests' = [requests EXCEPT ![f] = Link!NoRequest]
        /\ \/ starts' = [starts EXCEPT ![s] = "pending"] /\ UNCHANGED linkPast
           \/ /\ UNCHANGED starts
              /\ linkPast' = [linkPast EXCEPT !.lost = linkPast.lost \cup {s}]
    BY DEF Link!Restore, Link!Restored, Link!LoseRequest, LinkInv, RequestsHold
  <1>2. /\ requests' \in [Finishers -> RequestType]
        /\ \A g \in Finishers : requests'[g] = IF g = f THEN
              [pc |-> "idle", start |-> None, save |-> None] ELSE requests[g]
    BY <1>1 DEF LinkInv, LinkTypes, RequestType, Link!NoRequest
  <1>3. /\ linkPast' \in [unsure : SUBSET Starts, lost : SUBSET Starts]
        /\ linkPast'.unsure = linkPast.unsure /\ linkPast.lost \subseteq linkPast'.lost
        /\ starts' \in [Starts -> {"none", "pending", "consumed"}]
        /\ \A t \in Starts : t # s => starts'[t] = starts[t]
        /\ starts'[s] = "consumed" => s \in linkPast'.lost
    BY <1>1 DEF LinkInv, LinkTypes
  <1>4. LinkTypes'
    BY <1>1, <1>2, <1>3 DEF LinkInv, LinkTypes
  <1>5. RequestsHold'
    BY <1>1, <1>2, <1>3, SavesKept, ComponentsAssumption DEF LinkInv, RequestsHold
  <1>6. AdriftUnsure'
    BY <1>1, <1>3, SavesKept DEF LinkInv, AdriftUnsure
  <1>7. ConnectionsNamed' /\ ReferencesUnique'
    BY <1>1 DEF LinkInv, ConnectionsNamed, ReferencesUnique, Link!Live, Link!Connections
  <1>8. \A c \in DOMAIN connections : connections[c].start \in Starts \cup {None}
    BY ConnectionParts DEF LinkInv, ConnectionType
  <1>9. SureOnce'
    BY <1>1, <1>2, <1>3, <1>8 DEF LinkInv, SureOnce
  <1>10. ConsumedMade'
    BY <1>1, <1>2, <1>3 DEF LinkInv, ConsumedMade
  <1> QED BY <1>4, <1>5, <1>6, <1>7, <1>9, <1>10 DEF LinkInv

\* A transaction ends: no request holds its start any longer, unless it was unsure.
Released(s) ==
    /\ UNCHANGED <<starts, linkPast>>
    /\ requests' \in [Finishers -> RequestType]
    /\ \A g \in Finishers :
          \/ requests'[g] = requests[g]
          \/ requests'[g].pc = "idle" /\ requests'[g].start = None
    /\ \A t \in Starts \ {s} : \A f \in Finishers :
          requests[f].start = t => requests'[f] = requests[f]
    /\ adrift' \subseteq adrift /\ IsFiniteSet(adrift')
    /\ \/ s \in linkPast.unsure /\ UNCHANGED requests
       \/ /\ starts[s] = "consumed" /\ \E f \in Finishers : requests[f].start = s
          /\ \A f \in Finishers : requests'[f].start # s

\* It commits with the connection it has made.
LEMMA Committed ==
    ASSUME LinkInv, NEW s \in Starts, NEW save, SaveOf(s, save),
           Makes(s, save, connections'), Released(s)
    PROVE  LinkInv'
  <1>1. /\ DOMAIN connections \subseteq DOMAIN connections'
        /\ \A c \in DOMAIN connections :
              /\ connections'[c].live = connections[c].live
              /\ connections'[c].ref = connections[c].ref
              /\ connections'[c].start = connections[c].start
              /\ ~connections[c].live => connections'[c] = connections[c]
        /\ \A c \in DOMAIN connections' \ DOMAIN connections :
              /\ connections'[c].live /\ connections'[c].ref = save.ref
              /\ connections'[c].start = s
              /\ \A d \in DOMAIN connections' \ DOMAIN connections : c = d
              /\ \A d \in Link!Live : connections[d].ref # save.ref
        /\ \E c \in DOMAIN connections' : connections'[c].start = s
    BY DEF Makes
  <1>2. LinkTypes'
    BY DEF Makes, Released, LinkInv, LinkTypes
  <1>3. \A t, other : SaveOf(t, other) => SaveOf(t, other)'
    BY <1>1 DEF SaveOf, Link!Live, Link!Connections
  <1>4. RequestsHold'
    BY <1>3, ComponentsAssumption DEF Released, LinkInv, RequestsHold
  <1>5. AdriftUnsure'
    BY <1>3 DEF Released, LinkInv, AdriftUnsure
  <1>6. save.ref # None /\ save.ref.start = s /\ NamedBySynthetic(save.ref)
    BY ComponentsAssumption DEF SaveOf, SaveType, References
  <1>7. ConnectionsNamed'
    BY <1>1, <1>6 DEF Released, LinkInv, ConnectionsNamed
  <1>8. ReferencesUnique'
    BY <1>1 DEF LinkInv, ReferencesUnique, Link!Live, Link!Connections
  <1>9. s \notin linkPast.unsure =>
            \A c \in DOMAIN connections : connections[c].start # s
    BY ComponentsAssumption DEF Released, LinkInv, SureOnce
  <1>10. SureOnce'
    BY <1>1, <1>9, ConnectionParts, ComponentsAssumption
       DEF Released, LinkInv, SureOnce, ConnectionType
  <1>11. ConsumedMade'
    BY <1>1 DEF Released, LinkInv, ConsumedMade
  <1> QED BY <1>2, <1>4, <1>5, <1>7, <1>8, <1>10, <1>11 DEF LinkInv

\* A row that another transaction has committed meanwhile is the connection.
LEMMA CollidesMakes ==
    ASSUME LinkInv, NEW s \in Starts, NEW save, SaveOf(s, save), Link!Collides(save)
    PROVE  Makes(s, save, connections)
  <1>1. PICK c \in Link!Live : save.ref # None /\ connections[c].ref = save.ref
    BY DEF Link!Collides, Link!SameReference
  <1>2. c \in DOMAIN connections /\ connections[c].start = s
    BY <1>1 DEF LinkInv, ConnectionsNamed, Link!Live, Link!Connections, SaveOf
  <1> QED BY <1>2 DEF Makes, LinkInv, LinkTypes

\* The transaction of a request commits.
LEMMA CommitStep ==
    ASSUME LinkInv, NEW f \in Finishers, Link!CommitLink(f)
    PROVE  LinkInv'
  <1> DEFINE s == requests[f].start
             save == requests[f].save
  <1>1. /\ s \in Starts /\ starts[s] = "consumed" /\ SaveOf(s, save)
        /\ UNCHANGED <<starts, linkPast, adrift>>
        /\ requests' = [requests EXCEPT ![f] = Link!NoRequest]
    BY DEF Link!CommitLink, LinkInv, RequestsHold
  <1>2. Makes(s, save, connections')
    <2>1. CASE Link!Collides(save)
      BY <1>1, <2>1, CollidesMakes DEF Link!CommitLink
    <2>2. CASE ~Link!Collides(save)
      BY <1>1, <2>2, LinkedMakes DEF Link!CommitLink
    <2> QED BY <2>1, <2>2
  <1>3. /\ requests' \in [Finishers -> RequestType]
        /\ \A g \in Finishers : g # f => requests'[g] = requests[g]
        /\ requests'[f].pc = "idle" /\ requests'[f].start = None
    BY <1>1 DEF LinkInv, LinkTypes, RequestType, Link!NoRequest
  <1>4. \A g \in Finishers : requests'[g].start # s
    BY <1>1, <1>3, ComponentsAssumption DEF Link!CommitLink, LinkInv, RequestsHold
  <1>5. Released(s)
    <2>1. IsFiniteSet(adrift') /\ adrift' \subseteq adrift
      BY <1>1 DEF LinkInv, LinkTypes
    <2>2. \A t \in Starts \ {s} : \A g \in Finishers :
              requests[g].start = t => requests'[g] = requests[g]
      BY <1>3
    <2> QED BY <1>1, <1>3, <1>4, <2>1, <2>2 DEF Released
  <1> HIDE DEF s, save
  <1> QED BY <1>1, <1>2, <1>5, Committed

\* A transaction that nobody waits for commits or not.
LEMMA SettleStep ==
    ASSUME LinkInv, NEW save \in adrift, NEW commits \in BOOLEAN, Link!Settle(save, commits)
    PROVE  LinkInv'
  <1> DEFINE s == save.start
  <1>1. /\ s \in linkPast.unsure /\ SaveOf(s, save) /\ s \in Starts
        /\ UNCHANGED <<starts, linkPast, requests>>
        /\ adrift' \subseteq adrift /\ IsFiniteSet(adrift')
    BY FS_Subset DEF Link!Settle, LinkInv, AdriftUnsure, LinkTypes
  <1>2. CASE UNCHANGED connections
    <2>1. LinkTypes' /\ RequestsHold'
      BY <1>1, <1>2, SavesKept DEF LinkInv, LinkTypes, RequestsHold
    <2>2. AdriftUnsure'
      BY <1>1, <1>2, SavesKept DEF LinkInv, AdriftUnsure
    <2>3. ConnectionsNamed' /\ ReferencesUnique' /\ SureOnce' /\ ConsumedMade'
      BY <1>1, <1>2 DEF LinkInv, ConnectionsNamed, ReferencesUnique, SureOnce, ConsumedMade,
                        Link!Live, Link!Connections
    <2> QED BY <2>1, <2>2, <2>3 DEF LinkInv
  <1>3. CASE ~Link!Collides(save) /\ Len(connections) < MaxMade
             /\ connections' = Link!Linked(save)
    <2>1. Makes(s, save, connections')
      BY <1>1, <1>3, LinkedMakes
    <2>2. requests \in [Finishers -> RequestType]
      BY DEF LinkInv, LinkTypes
    <2>3. Released(s)
      BY <1>1, <2>2 DEF Released
    <2> QED BY <1>1, <2>1, <2>3, Committed
  <1> QED BY <1>2, <1>3 DEF Link!Settle

\* A token's connection has neither a reference nor a start.
LEMMA TokenStep ==
    ASSUME LinkInv, Link!LinkToken
    PROVE  LinkInv'
  <1> DEFINE made == Link!NewConnection([ref |-> None, start |-> None, found |-> {}])
  <1>1. /\ made \in ConnectionType /\ made.ref = None /\ made.start = None /\ made.live
        /\ connections' = Append(connections, made)
        /\ Len(connections) < MaxMade
        /\ UNCHANGED <<starts, requests, adrift, linkPast>>
    BY DEF Link!LinkToken, Link!NewConnection, ConnectionType
  <1> HIDE DEF made
  <1>2. /\ connections' \in Seq(ConnectionType) /\ Len(connections') <= MaxMade
        /\ DOMAIN connections' = DOMAIN connections \cup {Len(connections) + 1}
        /\ Len(connections) + 1 \notin DOMAIN connections
        /\ \A c \in DOMAIN connections : connections'[c] = connections[c]
        /\ connections'[Len(connections) + 1] = made
    BY <1>1, AppendConnection, ConnectionParts, ComponentsAssumption DEF LinkInv, LinkTypes
  <1>3. \A t, other : SaveOf(t, other) => SaveOf(t, other)'
    BY <1>2 DEF SaveOf, Link!Live, Link!Connections
  <1>4. LinkTypes' /\ RequestsHold' /\ AdriftUnsure'
    BY <1>1, <1>2, <1>3 DEF LinkInv, LinkTypes, RequestsHold, AdriftUnsure
  <1>5. ConnectionsNamed' /\ ReferencesUnique'
    BY <1>1, <1>2 DEF LinkInv, ConnectionsNamed, ReferencesUnique, Link!Live, Link!Connections
  <1>6. SureOnce' /\ ConsumedMade'
    BY <1>1, <1>2 DEF LinkInv, SureOnce, ConsumedMade
  <1> QED BY <1>4, <1>5, <1>6 DEF LinkInv

\* Users pause a schedule, and delete a connection that no transaction has locked.
LEMMA UserSteps ==
    ASSUME LinkInv, NEW c \in DOMAIN connections, Link!Pause(c) \/ Link!Delete(c)
    PROVE  LinkInv'
  <1>1. connections[c] \in ConnectionType /\ c \in 1 .. Len(connections)
    BY ConnectionParts DEF LinkInv
  <1>2. PICK made :
            /\ made \in ConnectionType
            /\ made.ref = connections[c].ref /\ made.start = connections[c].start
            /\ connections' = [connections EXCEPT ![c] = made]
            /\ ~made.live => ~made.owned /\ made.schedule = None /\ ~Link!Locked(c)
            /\ made.live => connections[c].live
    <2>1. CASE Link!Pause(c)
      <3> DEFINE paused == [connections[c] EXCEPT !.schedule = "off"]
      <3>1. paused \in ConnectionType /\ paused.ref = connections[c].ref
            /\ paused.start = connections[c].start /\ paused.live = connections[c].live
        BY <1>1 DEF ConnectionType
      <3>2. connections' = [connections EXCEPT ![c] = paused] /\ connections[c].live
        BY <2>1 DEF Link!Pause, Link!Live, Link!Connections
      <3> HIDE DEF paused
      <3> QED BY <1>1, <3>1, <3>2
    <2>2. CASE Link!Delete(c)
      <3> DEFINE deleted == [connections[c] EXCEPT !.live = FALSE, !.owned = FALSE,
                                                   !.schedule = None]
      <3>1. deleted \in ConnectionType /\ deleted.ref = connections[c].ref
            /\ deleted.start = connections[c].start /\ deleted.live = FALSE
            /\ deleted.owned = FALSE /\ deleted.schedule = None
        BY <1>1 DEF ConnectionType
      <3> QED BY <1>1, <2>2, <3>1 DEF Link!Delete
    <2> QED BY <2>1, <2>2
  <1>3. /\ connections' \in Seq(ConnectionType) /\ Len(connections') = Len(connections)
        /\ DOMAIN connections' = DOMAIN connections
        /\ \A d \in DOMAIN connections : d # c => connections'[d] = connections[d]
        /\ connections'[c] = made
        /\ UNCHANGED <<starts, requests, adrift, linkPast>>
    BY <1>1, <1>2, ExceptSeq, LenProperties DEF LinkInv, LinkTypes, Link!Pause, Link!Delete
  <1>4. /\ \A f \in Finishers : requests[f].pc = "saving" /\ c \in requests[f].save.found
                                    => made.live
        /\ \A save \in adrift : c \in save.found => made.live
    BY <1>2 DEF Link!Locked
  <1>5. LinkTypes'
    BY <1>3 DEF LinkInv, LinkTypes
  <1>6. \A t, other : (c \in other.found => made.live) /\ SaveOf(t, other)
                          => SaveOf(t, other)'
    BY <1>2, <1>3 DEF SaveOf, Link!Live, Link!Connections
  <1>7. RequestsHold' /\ AdriftUnsure'
    BY <1>3, <1>4, <1>6 DEF LinkInv, RequestsHold, AdriftUnsure
  <1>8. ConnectionsNamed' /\ ReferencesUnique'
    BY <1>2, <1>3 DEF LinkInv, ConnectionsNamed, ReferencesUnique, Link!Live, Link!Connections
  <1>9. SureOnce' /\ ConsumedMade'
    BY <1>2, <1>3 DEF LinkInv, SureOnce, ConsumedMade
  <1> QED BY <1>5, <1>7, <1>8, <1>9 DEF LinkInv

\* The invariant is kept by every step.
LEMMA LinkStep == LinkInv /\ [Link!Next]_linkVars => LinkInv'
  <1> SUFFICES ASSUME LinkInv, [Link!Next]_linkVars PROVE LinkInv'
    OBVIOUS
  <1>1. ASSUME NEW s \in Starts, Link!StartRedirectLink(s) \/ Link!Expire(s) PROVE LinkInv'
    BY <1>1, StartSteps
  <1>2. ASSUME NEW f \in Finishers, NEW s \in Starts, Link!Consume(f, s) PROVE LinkInv'
    BY <1>2, ConsumeStep
  <1>3. ASSUME NEW f \in Finishers, Link!FinishLink(f) PROVE LinkInv'
    BY <1>3, FinishStep
  <1>4. ASSUME NEW f \in Finishers, Link!CommitLink(f) PROVE LinkInv'
    BY <1>4, CommitStep
  <1>5. ASSUME NEW f \in Finishers, Link!FailLink(f) \/ Link!GiveUp(f) PROVE LinkInv'
    BY <1>5, FailSteps
  <1>6. ASSUME NEW f \in Finishers, Link!Restore(f) \/ Link!LoseRequest(f) PROVE LinkInv'
    BY <1>6, LetGoSteps
  <1>7. ASSUME NEW save \in adrift, NEW commits \in BOOLEAN, Link!Settle(save, commits)
        PROVE  LinkInv'
    BY <1>7, SettleStep
  <1>8. CASE Link!LinkToken
    BY <1>8, TokenStep
  <1>9. ASSUME NEW c \in DOMAIN connections, Link!Pause(c) \/ Link!Delete(c) PROVE LinkInv'
    BY <1>9, UserSteps
  <1>10. CASE UNCHANGED linkVars
    <2>1. UNCHANGED <<starts, connections, requests, adrift, linkPast>>
      BY <1>10 DEF linkVars
    <2>2. LinkTypes' /\ RequestsHold' /\ AdriftUnsure'
      BY <2>1, SavesKept DEF LinkInv, LinkTypes, RequestsHold, AdriftUnsure
    <2>3. ConnectionsNamed' /\ ReferencesUnique' /\ SureOnce' /\ ConsumedMade'
      BY <2>1 DEF LinkInv, ConnectionsNamed, ReferencesUnique, SureOnce, ConsumedMade,
                  Link!Live, Link!Connections
    <2> QED BY <2>2, <2>3 DEF LinkInv
  <1> QED BY <1>1, <1>2, <1>3, <1>4, <1>5, <1>6, <1>7, <1>8, <1>9, <1>10
          DEF Link!Next, Link!Connections

\* The components take turns that the links do not notice.
LEMMA LinkTurns ==
    [ComponentsNext]_<<part, vars, importVars, linkVars, routerVars, agentVars>>
        => [Link!Next]_linkVars
  BY DEF ComponentsNext, Matching, Importing, Linking, Routing, Talking, Link!Next,
         Link!Connections

-----------------------------------------------------------------------------
(* The theorems.                                                             *)

\* Whatever the links do, they do as LinkCoordinator says (Components composes it
\* with components that leave it alone).
THEOREM LinksImplemented == ComponentsSpec => Link!Spec
  <1>1. ComponentsInit => Link!Init
    BY DEF ComponentsInit
  <1>2. [ComponentsNext]_<<part, vars, importVars, linkVars, routerVars, agentVars>>
        => [Link!Next]_(Link!vars)
    BY LinkTurns DEF linkVars, Link!vars
  <1> QED BY <1>1, <1>2, PTL DEF ComponentsSpec, Link!Spec

\* Starts, requests, transactions and connections stay of their types.
THEOREM LinksInvariant == ComponentsSpec => []LinkInv
  <1>1. ComponentsInit => LinkInv
    BY LinkInit DEF ComponentsInit
  <1>2. /\ LinkInv
        /\ [ComponentsNext]_<<part, vars, importVars, linkVars, routerVars, agentVars>>
        => LinkInv'
    BY LinkTurns, LinkStep
  <1> QED BY <1>1, <1>2, PTL DEF ComponentsSpec

\* The invariant says more than the type invariant the run checks.
LEMMA LinksTyped == LinkInv => Link!TypeOK
  BY ConnectionParts
     DEF LinkInv, LinkTypes, RequestsHold, SaveOf, Link!Live, Link!Connections,
         Link!TypeOK, RequestType

\* One redirect start makes one connection, however many requests finish it, fail and
\* try again, and is not lost (FinishRedirectLink, RestorePendingStart).
THEOREM OneConnection == ComponentsSpec => []OneConnectionPerStart
  <1>1. LinkInv => OneConnectionPerStart
    <2> SUFFICES ASSUME LinkInv PROVE Link!OneConnectionPerStart
      BY DEF OneConnectionPerStart
    <2>1. ASSUME NEW c \in Link!Live, NEW d \in Link!Live,
                 c # d, connections[c].start = connections[d].start,
                 connections[c].start # None
          PROVE  connections[c].start \in linkPast.unsure \ Synthetic
      <3>1. c \in DOMAIN connections /\ d \in DOMAIN connections
        BY DEF Link!Live, Link!Connections
      <3>2. connections[c].start \in linkPast.unsure
        BY <2>1, <3>1 DEF LinkInv, SureOnce
      <3>3. /\ connections[c].ref \in References /\ connections[d].ref \in References
            /\ connections[c].ref.start = connections[c].start
            /\ connections[d].ref.start = connections[c].start
            /\ NamedBySynthetic(connections[c].ref) /\ NamedBySynthetic(connections[d].ref)
        BY <2>1, <3>1, ConnectionParts DEF LinkInv, ConnectionsNamed, ConnectionType
      <3>4. connections[c].start \in Synthetic => connections[c].ref = connections[d].ref
        BY <3>3 DEF NamedBySynthetic, References
      <3>5. connections[c].ref # connections[d].ref
        BY <2>1, <3>3, ComponentsAssumption DEF LinkInv, ReferencesUnique, References
      <3> QED BY <3>2, <3>4, <3>5
    <2>2. ASSUME NEW s \in Starts \ linkPast.lost, starts[s] = "consumed",
                 \A f \in Finishers : requests[f].start # s
          PROVE  \E c \in DOMAIN connections : connections[c].start = s
      BY <2>2 DEF LinkInv, ConsumedMade
    <2> QED BY <2>1, <2>2 DEF Link!OneConnectionPerStart, Link!Connections
  <1> QED BY <1>1, LinksInvariant, PTL

\* A deleted connection owns nothing and a paused one stays paused, although links
\* write what they looked up before (SaveLinkedConnectionWithSnapshotAndSchedule,
\* saveMissingBankConnectionSchedule).
THEOREM UsersWord == ComponentsSpec => UsersWordKept
  <1>1. LinkInv /\ LinkInv' /\ [Link!Next]_linkVars => Link!UsersWordKept
    <2> SUFFICES ASSUME LinkInv, LinkInv', [Link!Next]_linkVars,
                        NEW c \in DOMAIN connections
                 PROVE  /\ connections[c].schedule = "off" => connections'[c].schedule # "on"
                        /\ ~connections'[c].live =>
                              ~connections'[c].owned /\ connections'[c].schedule = None
      BY DEF Link!UsersWordKept, Link!Connections
    <2>1. ASSUME NEW s \in Starts, NEW save, SaveOf(s, save), Makes(s, save, connections')
          PROVE  /\ c \in DOMAIN connections'
                 /\ connections[c].schedule = "off" => connections'[c].schedule = "off"
      BY <2>1 DEF Makes
    <2>2. /\ c \in DOMAIN connections'
          /\ connections[c].schedule = "off" => connections'[c].schedule # "on"
      <3>1. CASE UNCHANGED connections
        BY <3>1
      <3>2. ASSUME NEW f \in Finishers, Link!CommitLink(f)
            PROVE  UNCHANGED connections
                   \/ \E s \in Starts : \E save :
                         SaveOf(s, save) /\ Makes(s, save, connections')
        BY <3>2, LinkedMakes DEF Link!CommitLink, LinkInv, RequestsHold
      <3>3. ASSUME NEW save \in adrift, NEW commits \in BOOLEAN, Link!Settle(save, commits)
            PROVE  UNCHANGED connections
                   \/ \E s \in Starts : SaveOf(s, save) /\ Makes(s, save, connections')
        BY <3>3, LinkedMakes DEF Link!Settle, LinkInv, AdriftUnsure, LinkTypes
      <3>4. CASE Link!LinkToken
        BY <3>4, AppendConnection, ComponentsAssumption
           DEF Link!LinkToken, Link!NewConnection, ConnectionType, LinkInv, LinkTypes
      <3>5. ASSUME NEW d \in DOMAIN connections, Link!Pause(d) \/ Link!Delete(d)
            PROVE  /\ c \in DOMAIN connections'
                   /\ connections[c].schedule = "off" => connections'[c].schedule # "on"
        BY SMTT(60), <3>5, ConnectionParts, ComponentsAssumption
           DEF Link!Pause, Link!Delete, LinkInv, ConnectionType
      <3>6. \/ UNCHANGED connections
            \/ \E f \in Finishers : Link!CommitLink(f)
            \/ \E save \in adrift, commits \in BOOLEAN : Link!Settle(save, commits)
            \/ Link!LinkToken
            \/ \E d \in DOMAIN connections : Link!Pause(d) \/ Link!Delete(d)
        BY DEF Link!Next, linkVars, Link!StartRedirectLink, Link!Expire, Link!Consume,
               Link!FinishLink, Link!FailLink, Link!GiveUp, Link!Restore, Link!LoseRequest,
               Link!Connections
      <3> QED BY <2>1, <3>1, <3>2, <3>3, <3>4, <3>5, <3>6
    <2> QED BY <2>2 DEF LinkInv, ConnectionsNamed
  <1>2. LinkInv /\ [ComponentsNext]_<<part, vars, importVars, linkVars, routerVars, agentVars>>
        => LinkInv' /\ [Link!Next]_linkVars
    BY LinkTurns, LinkStep
  <1>3. /\ LinkInv
        /\ [ComponentsNext]_<<part, vars, importVars, linkVars, routerVars, agentVars>>
        => [part = "links" => Link!UsersWordKept]_linkVars
    BY <1>1, <1>2
  <1> QED BY <1>3, LinksInvariant, PTL DEF ComponentsSpec, UsersWordKept


-----------------------------------------------------------------------------
(* The inductive invariant of the router: threads.                           *)

Stages == {"idle", "starting", "polling", "draining", "entry", "begin", "serving",
           "watching", "lock", "signal", "finish", "await", "returned"}

DeliveryType ==
    [pc : {"free", "fetched", "active", "failed", "backoff"},
     message : DOMAIN Topic \cup {Router!Free.message}, live : BOOLEAN, tries : Int]

RouterTypes ==
    /\ mode \in {"run", "once", "workerOnce"}
    /\ pc \in [Router!Threads -> Stages]
    /\ sawStarted \in [Router!Threads -> BOOLEAN]
    /\ router \in [started : BOOLEAN, closed : BOOLEAN, closeDone : BOOLEAN,
                   wmClosed : BOOLEAN]
    /\ handlers \in [DOMAIN handlers -> {"none", "subscribing", "consuming", "stopped"}]
    /\ subscriber \in [begin : BOOLEAN, closing : BOOLEAN, failed : BOOLEAN, started : Int,
                       ready : BOOLEAN, open : BOOLEAN]
    /\ deliveries \in [Deliveries -> DeliveryType]
    /\ tracker \in [active : [DOMAIN Topic -> Nat], retries : SUBSET DOMAIN Topic, idle : Nat]
    /\ dbOpen \in BOOLEAN
    /\ abandons \in 0 .. MaxAbandons

\* Where each thread can be.
Places ==
    /\ pc["main"] \in {"idle", "starting", "polling", "draining", "returned"}
    /\ pc["run"] \in {"idle", "entry", "begin", "serving", "lock", "signal", "finish",
                      "returned"}
    /\ pc["watcher"] \in {"idle", "watching", "lock", "signal", "returned"}
    /\ \A p \in Router!Closers : pc[p] \in {"idle", "lock", "signal", "finish", "await",
                                            "returned"}
    /\ pc["main"] = "idle" => pc["run"] = "idle"
    /\ mode = "run" => pc["main"] \notin {"starting", "polling"}

\* A router that Run has started is finished by Run alone.
ClosesAgree ==
    /\ pc["run"] \in {"begin", "serving"} => router.started
    /\ \A p \in {"run"} \cup Router!Closers :
          pc[p] \in {"signal", "finish", "await"} => router.closed
    /\ \A p \in Router!Closers :
          /\ pc[p] = "signal" /\ ~sawStarted[p] => ~router.started
          /\ pc[p] = "finish" => ~router.started
          /\ pc[p] = "returned" => router.closeDone
    /\ router.closeDone =>
          router.closed /\ ~subscriber.open /\ pc["run"] \notin {"begin", "serving"}
    /\ ~dbOpen => pc["hook"] = "returned"

\* Only while Run serves are there subscriptions and deliveries.
QuietUnlessServing ==
    pc["run"] # "serving" =>
        /\ \A t \in DOMAIN handlers : handlers[t] \in {"none", "stopped"}
        /\ \A d \in Deliveries : deliveries[d].pc = "free"

-----------------------------------------------------------------------------
(* The inductive invariant: deliveries and their tracker.                    *)

DeliveriesKnown ==
    \A d \in Deliveries :
        /\ deliveries[d].pc # "free" => deliveries[d].message \in DOMAIN Topic
        /\ deliveries[d].live => deliveries[d].pc # "free"

\* The deliveries of a message whose handler is at work.
Carried(m) == {d \in Deliveries : deliveries[d].pc = "active" /\ deliveries[d].message = m}

CountsRight ==
    mode = "workerOnce" =>
        \A m \in DOMAIN Topic : tracker.active[m] = Cardinality(Carried(m))

\* As long as no delivery was abandoned, a message has one delivery, and the tracker
\* knows the handlers at work and the backoffs.
OneEach ==
    abandons = MaxAbandons =>
        /\ \A d \in Deliveries : deliveries[d].pc # "free" /\ ~deliveries[d].live =>
              /\ Topic[deliveries[d].message] \in DOMAIN handlers
              /\ handlers[Topic[deliveries[d].message]] = "stopped"
        /\ \A d, e \in Deliveries :
              /\ deliveries[d].pc # "free" /\ deliveries[e].pc # "free"
              /\ deliveries[d].message = deliveries[e].message
              => d = e
        /\ \A d \in Deliveries :
              /\ mode = "once" /\ deliveries[d].pc = "active" =>
                    tracker.active[deliveries[d].message] = 1
              /\ mode = "workerOnce" /\ deliveries[d].pc = "backoff" =>
                    deliveries[d].message \in tracker.retries

RouterInv ==
    /\ RouterTypes
    /\ Places
    /\ ClosesAgree
    /\ QuietUnlessServing
    /\ DeliveriesKnown
    /\ CountsRight
    /\ OneEach

-----------------------------------------------------------------------------
(* Closing.                                                                  *)

\* Nothing has started: the invariant holds at the start.
LEMMA RouterInit == Router!Init => RouterInv
  <1> SUFFICES ASSUME Router!Init PROVE RouterInv
    OBVIOUS
  <1>1. PICK registered \in SUBSET Topics : handlers = [t \in registered |-> "none"]
    BY DEF Router!Init
  <1>2. Router!Free \in DeliveryType /\ Router!Free.pc = "free" /\ ~Router!Free.live
    BY DEF Router!Free, DeliveryType
  <1>3. RouterTypes
    <2>1. handlers \in [DOMAIN handlers -> {"none", "subscribing", "consuming", "stopped"}]
      BY <1>1
    <2>2. deliveries \in [Deliveries -> DeliveryType]
      BY <1>2 DEF Router!Init
    <2>3. tracker \in [active : [DOMAIN Topic -> Nat], retries : SUBSET DOMAIN Topic,
                      idle : Nat]
      BY DEF Router!Init, Router!Messages
    <2>4. abandons \in 0 .. MaxAbandons
      BY ComponentsAssumption DEF Router!Init
    <2>5. /\ mode \in {"run", "once", "workerOnce"}
          /\ pc \in [Router!Threads -> Stages]
          /\ sawStarted \in [Router!Threads -> BOOLEAN]
      BY DEF Router!Init, Stages
    <2>6. /\ router \in [started : BOOLEAN, closed : BOOLEAN, closeDone : BOOLEAN,
                         wmClosed : BOOLEAN]
          /\ subscriber \in [begin : BOOLEAN, closing : BOOLEAN, failed : BOOLEAN,
                             started : Int, ready : BOOLEAN, open : BOOLEAN]
          /\ dbOpen \in BOOLEAN
      BY DEF Router!Init
    <2> QED BY <2>1, <2>2, <2>3, <2>4, <2>5, <2>6 DEF RouterTypes
  <1>4. Places /\ ClosesAgree
    BY DEF Router!Init, Places, ClosesAgree, Router!Threads, Router!Closers
  <1>5. QuietUnlessServing /\ DeliveriesKnown /\ OneEach
    BY <1>1, <1>2 DEF Router!Init, QuietUnlessServing, DeliveriesKnown, OneEach
  <1>6. CountsRight
    <2>1. \A m \in DOMAIN Topic : Carried(m) = {} /\ tracker.active[m] = 0
      BY <1>2 DEF Router!Init, Carried, Router!Messages
    <2> QED BY <2>1, FS_EmptySet DEF CountsRight
  <1> QED BY <1>3, <1>4, <1>5, <1>6 DEF RouterInv

\* A step of the threads leaves the deliveries and their tracker as they are.
LEMMA DeliveriesUntouched ==
    ASSUME RouterInv, UNCHANGED <<mode, handlers, deliveries, abandons>>,
           tracker'.active = tracker.active, tracker'.retries = tracker.retries
    PROVE  DeliveriesKnown' /\ CountsRight' /\ OneEach'
  BY DEF RouterInv, DeliveriesKnown, CountsRight, OneEach, Carried

\* requestClose, finishClose and Close.
LEMMA LockCloseStep ==
    ASSUME RouterInv, NEW p \in Router!Threads, Router!LockClose(p)
    PROVE  RouterInv'
  <1>1. UNCHANGED <<mode, cancelled, handlers, subscriber, dbOpen, deliveries, tracker,
                    abandons>>
    BY DEF Router!LockClose, Router!dispatch
  <1>2. /\ pc[p] = "lock" /\ pc' \in [Router!Threads -> Stages] /\ pc'[p] = "signal"
        /\ \A q \in Router!Threads : q # p => pc'[q] = pc[q]
    BY DEF RouterInv, RouterTypes, Stages, Router!LockClose, Router!Goto
  <1>3. /\ sawStarted' \in [Router!Threads -> BOOLEAN] /\ sawStarted'[p] = router.started
        /\ \A q \in Router!Threads : q # p => sawStarted'[q] = sawStarted[q]
    BY DEF RouterInv, RouterTypes, Router!LockClose
  <1>4. /\ router' \in [started : BOOLEAN, closed : BOOLEAN, closeDone : BOOLEAN,
                        wmClosed : BOOLEAN]
        /\ router'.started = router.started /\ router'.closed
        /\ router'.closeDone = router.closeDone
    BY DEF RouterInv, RouterTypes, Router!LockClose
  <1>5. RouterTypes'
    BY <1>1, <1>2, <1>3, <1>4 DEF RouterInv, RouterTypes
  <1>6. Places'
    BY <1>1, <1>2 DEF RouterInv, Places, Router!Threads, Router!Closers
  <1>7. ClosesAgree'
    BY <1>1, <1>2, <1>3, <1>4 DEF RouterInv, Places, ClosesAgree, Router!Threads, Router!Closers
  <1>8. QuietUnlessServing'
    BY <1>1, <1>2 DEF RouterInv, QuietUnlessServing, Router!Threads
  <1> QED BY <1>1, <1>5, <1>6, <1>7, <1>8, DeliveriesUntouched DEF RouterInv

\* The rest of requestClose, outside the mutex: a closer goes on to finish only if the
\* router had not started.
LEMMA SignalCloseStep ==
    ASSUME RouterInv, NEW p \in Router!Threads, Router!SignalClose(p)
    PROVE  RouterInv'
  <1>1. UNCHANGED <<mode, sawStarted, handlers, dbOpen, deliveries, tracker, abandons>>
    BY DEF Router!SignalClose, Router!dispatch
  <1>2. /\ pc[p] = "signal" /\ pc' \in [Router!Threads -> Stages]
        /\ pc'[p] = Router!AfterSignal(p)
        /\ \A q \in Router!Threads : q # p => pc'[q] = pc[q]
    BY DEF RouterInv, RouterTypes, Stages, Router!SignalClose, Router!Goto, Router!AfterSignal
  <1>3. /\ p = "watcher" => pc'[p] = "returned"
        /\ p \in Router!Closers /\ sawStarted[p] => pc'[p] = "await"
        /\ p \in Router!Closers /\ ~sawStarted[p] => pc'[p] = "finish"
        /\ p = "run" => pc'[p] = "finish"
        /\ p # "main"
    BY <1>2 DEF RouterInv, Places, Router!AfterSignal, Router!Closers
  <1>4. /\ router' \in [started : BOOLEAN, closed : BOOLEAN, closeDone : BOOLEAN,
                        wmClosed : BOOLEAN]
        /\ router'.started = router.started /\ router'.closed = router.closed
        /\ router'.closeDone = router.closeDone
    <2>1. Router!ClosesWatermill(p) \in BOOLEAN
      BY DEF RouterInv, RouterTypes, Router!ClosesWatermill
    <2> QED BY <2>1 DEF RouterInv, RouterTypes, Router!SignalClose
  <1>5. /\ subscriber' \in [begin : BOOLEAN, closing : BOOLEAN, failed : BOOLEAN,
                             started : Int, ready : BOOLEAN, open : BOOLEAN]
        /\ subscriber'.open = subscriber.open
    BY DEF RouterInv, RouterTypes, Router!SignalClose
  <1>6. RouterTypes'
    BY <1>1, <1>2, <1>4, <1>5 DEF RouterInv, RouterTypes
  <1>7. Places'
    BY <1>1, <1>2, <1>3 DEF RouterInv, Places, Router!Threads, Router!Closers
  <1>8. ClosesAgree'
    BY <1>1, <1>2, <1>3, <1>4, <1>5
       DEF RouterInv, Places, ClosesAgree, Router!Threads, Router!Closers
  <1>9. QuietUnlessServing'
    BY <1>1, <1>2, <1>3 DEF RouterInv, QuietUnlessServing, Router!Threads
  <1> QED BY <1>1, <1>6, <1>7, <1>8, <1>9, DeliveriesUntouched DEF RouterInv

\* finishClose closes the subscriber and then done, which the other callers await.
LEMMA FinishCloseStep ==
    ASSUME RouterInv, NEW p \in Router!Threads, Router!FinishClose(p)
    PROVE  RouterInv'
  <1>1. UNCHANGED <<mode, sawStarted, handlers, dbOpen, deliveries, tracker, abandons>>
    BY DEF Router!FinishClose, Router!dispatch
  <1>2. /\ pc[p] = "finish" /\ pc' \in [Router!Threads -> Stages] /\ pc'[p] = "returned"
        /\ \A q \in Router!Threads : q # p => pc'[q] = pc[q]
    BY DEF RouterInv, RouterTypes, Stages, Router!FinishClose, Router!Goto
  <1>3. p # "main" /\ p # "watcher"
    BY <1>2 DEF RouterInv, Places
  <1>4. /\ router' \in [started : BOOLEAN, closed : BOOLEAN, closeDone : BOOLEAN,
                        wmClosed : BOOLEAN]
        /\ router'.started = router.started /\ router'.closed = router.closed
        /\ router'.closeDone
    BY DEF RouterInv, RouterTypes, Router!FinishClose
  <1>5. /\ subscriber' \in [begin : BOOLEAN, closing : BOOLEAN, failed : BOOLEAN,
                             started : Int, ready : BOOLEAN, open : BOOLEAN]
        /\ ~subscriber'.open
    BY DEF RouterInv, RouterTypes, Router!FinishClose
  <1>6. RouterTypes'
    BY <1>1, <1>2, <1>4, <1>5 DEF RouterInv, RouterTypes
  <1>7. Places'
    BY <1>1, <1>2, <1>3 DEF RouterInv, Places, Router!Threads, Router!Closers
  <1>8. ClosesAgree'
    BY <1>1, <1>2, <1>3, <1>4, <1>5
       DEF RouterInv, Places, ClosesAgree, Router!Threads, Router!Closers
  <1>9. QuietUnlessServing'
    BY <1>1, <1>2 DEF RouterInv, QuietUnlessServing, Router!Threads
  <1> QED BY <1>1, <1>6, <1>7, <1>8, <1>9, DeliveriesUntouched DEF RouterInv

\* A step of one thread, of main and run, or of run and watcher, that changes nothing
\* else than a flag of the router or of the subscriber or a context.
LEMMA ThreadSteps ==
    ASSUME RouterInv, pc' \in [Router!Threads -> Stages],
           UNCHANGED <<mode, sawStarted, handlers, deliveries, tracker, abandons>>,
           router' = router, subscriber' = subscriber,
           Places',
           pc'["run"] = pc["run"] \/ pc'["run"] \notin {"begin", "serving", "signal", "finish"},
           pc["run"] = "serving" /\ pc'["run"] # "serving" =>
              /\ \A t \in DOMAIN handlers : handlers[t] \in {"none", "stopped"}
              /\ \A d \in Deliveries : deliveries[d].pc = "free",
           \A p \in Router!Closers :
              \/ pc'[p] = pc[p] \/ pc'[p] = "lock"
              \/ pc'[p] = "returned" /\ pc[p] = "await" /\ router.closeDone,
           dbOpen' \in BOOLEAN, ~dbOpen' => pc'["hook"] = "returned"
    PROVE  RouterInv'
  <1>1. RouterTypes'
    BY DEF RouterInv, RouterTypes
  <1>2. ClosesAgree'
    <2>1. "run" \notin Router!Closers /\ "hook" \in Router!Closers
      BY DEF Router!Closers
    <2>2. \A p \in {"run"} \cup Router!Closers :
             pc'[p] \in {"signal", "finish", "await"} => pc'[p] = pc[p]
      BY <2>1 DEF Places, Router!Closers
    <2> QED BY <2>1, <2>2 DEF RouterInv, ClosesAgree, Places
  <1>3. QuietUnlessServing'
    BY DEF RouterInv, QuietUnlessServing
  <1> QED BY <1>1, <1>2, <1>3, DeliveriesUntouched DEF RouterInv

\* A later Close returns only after done, hence after the subscriber is closed.
LEMMA AwaitClosedStep ==
    ASSUME RouterInv, NEW p \in Router!Threads, Router!AwaitClosed(p)
    PROVE  RouterInv'
  <1>1. /\ UNCHANGED <<mode, sawStarted, handlers, dbOpen, deliveries, tracker, abandons>>
        /\ router' = router /\ subscriber' = subscriber
    BY DEF Router!AwaitClosed, Router!dispatch, Router!lifecycle
  <1>2. /\ pc[p] = "await" /\ pc' \in [Router!Threads -> Stages] /\ pc'[p] = "returned"
        /\ \A q \in Router!Threads : q # p => pc'[q] = pc[q]
        /\ router.closeDone
    BY DEF RouterInv, RouterTypes, Stages, Router!AwaitClosed, Router!Goto
  <1>3. p \in Router!Closers
    BY <1>2 DEF RouterInv, Places, Router!Threads, Router!Closers
  <1>4. Places'
    BY <1>1, <1>2, <1>3 DEF RouterInv, Places, Router!Threads, Router!Closers
  <1>5. dbOpen' \in BOOLEAN /\ (~dbOpen' => pc'["hook"] = "returned")
    BY <1>1, <1>2 DEF RouterInv, RouterTypes, ClosesAgree, Router!Threads, Router!Closers
  <1>6. pc'["run"] = pc["run"]
    BY <1>2, <1>3 DEF Router!Threads, Router!Closers
  <1> QED BY <1>1, <1>2, <1>4, <1>5, <1>6, ThreadSteps DEF Router!Threads

-----------------------------------------------------------------------------
(* Run, RunOnce and their callers.                                           *)

\* Close is called, and the hook closes the database.
LEMMA CallCloseStep ==
    ASSUME RouterInv, NEW p \in Router!Closers, Router!CallClose(p)
    PROVE  RouterInv'
  <1>1. /\ UNCHANGED <<mode, sawStarted, handlers, dbOpen, deliveries, tracker, abandons>>
        /\ router' = router /\ subscriber' = subscriber
    BY DEF Router!CallClose, Router!dispatch, Router!lifecycle
  <1>2. /\ pc[p] = "idle" /\ pc' \in [Router!Threads -> Stages] /\ pc'[p] = "lock"
        /\ \A q \in Router!Threads : q # p => pc'[q] = pc[q]
    BY DEF RouterInv, RouterTypes, Stages, Router!CallClose, Router!Goto, Router!Threads
  <1>3. Places'
    BY <1>1, <1>2 DEF RouterInv, Places, Router!Threads, Router!Closers
  <1>4. dbOpen' \in BOOLEAN /\ (~dbOpen' => pc'["hook"] = "returned")
    BY <1>1, <1>2 DEF RouterInv, RouterTypes, ClosesAgree, Router!Threads, Router!Closers
  <1>5. pc'["run"] = pc["run"]
    BY <1>2 DEF Router!Threads, Router!Closers
  <1> QED BY <1>1, <1>2, <1>3, <1>4, <1>5, ThreadSteps DEF Router!Threads

\* The shutdown hook closes the database after its Close, where the router is finished.
LEMMA CloseDatabaseStep ==
    ASSUME RouterInv, Router!CloseDatabase
    PROVE  RouterInv'
  <1>1. /\ UNCHANGED <<mode, pc, sawStarted, handlers, deliveries, tracker, abandons>>
        /\ router' = router /\ subscriber' = subscriber
        /\ ~dbOpen' /\ dbOpen' \in BOOLEAN /\ pc["hook"] = "returned"
    BY DEF Router!CloseDatabase, Router!dispatch, Router!threads
  <1>2. pc' \in [Router!Threads -> Stages] /\ Places'
    BY <1>1 DEF RouterInv, RouterTypes, Places
  <1> QED BY <1>1, <1>2, ThreadSteps

\* The steps of main, and of run where it only goes on.
LEMMA CallRunStep ==
    ASSUME RouterInv, Router!CallRun
    PROVE  RouterInv'
  <1>1. /\ UNCHANGED <<mode, sawStarted, handlers, dbOpen, deliveries, tracker, abandons>>
        /\ router' = router /\ subscriber' = subscriber
    BY DEF Router!CallRun, Router!dispatch, Router!lifecycle
  <1>2. /\ pc["main"] = "idle" /\ pc' \in [Router!Threads -> Stages]
        /\ pc'["main"] = IF mode # "run" THEN "starting" ELSE "draining"
        /\ pc'["run"] = "entry"
        /\ \A q \in Router!Threads : q \notin {"main", "run"} => pc'[q] = pc[q]
    BY DEF RouterInv, RouterTypes, Stages, Router!CallRun, Router!Once, Router!Threads
  <1>3. Places'
    BY <1>1, <1>2 DEF RouterInv, Places, Router!Threads, Router!Closers
  <1>4. dbOpen' \in BOOLEAN /\ (~dbOpen' => pc'["hook"] = "returned")
    BY <1>1, <1>2 DEF RouterInv, RouterTypes, ClosesAgree, Router!Threads, Router!Closers
  <1>5. \A q \in Router!Closers : pc'[q] = pc[q]
    BY <1>2 DEF Router!Threads, Router!Closers
  <1>6. pc["run"] = "idle"
    BY <1>2 DEF RouterInv, Places
  <1> QED BY <1>1, <1>2, <1>3, <1>4, <1>5, <1>6, ThreadSteps

\* The caller's step: it goes on, a context may be cancelled, and idle polls counted.
LEMMA MainStep ==
    ASSUME RouterInv,
           UNCHANGED <<mode, sawStarted, handlers, dbOpen, deliveries, abandons>>,
           router' = router, subscriber' = subscriber,
           tracker' \in [active : [DOMAIN Topic -> Nat], retries : SUBSET DOMAIN Topic,
                         idle : Nat],
           tracker'.active = tracker.active, tracker'.retries = tracker.retries,
           \/ pc' = pc
           \/ /\ pc["main"] # "idle"
              /\ \E to \in {"polling", "draining", "returned"} :
                    /\ pc' = [pc EXCEPT !["main"] = to]
                    /\ mode = "run" => to # "polling"
    PROVE  RouterInv'
  <1>1. /\ pc' \in [Router!Threads -> Stages]
        /\ \A q \in Router!Threads : q # "main" => pc'[q] = pc[q]
        /\ pc'["main"] \in {pc["main"], "polling", "draining", "returned"}
        /\ pc'["main"] = "idle" => pc["main"] = "idle"
        /\ mode = "run" => pc'["main"] \notin {"starting", "polling"}
    BY DEF RouterInv, RouterTypes, Places, Stages, Router!Threads
  <1>2. /\ pc'["run"] = pc["run"] /\ pc'["watcher"] = pc["watcher"]
        /\ \A q \in Router!Closers : pc'[q] = pc[q]
    BY <1>1 DEF Router!Threads, Router!Closers
  <1>3. RouterTypes'
    BY <1>1 DEF RouterInv, RouterTypes
  <1>4. Places'
    BY <1>1, <1>2 DEF RouterInv, Places
  <1>5. ClosesAgree'
    BY <1>2 DEF RouterInv, ClosesAgree, Router!Closers
  <1>6. QuietUnlessServing'
    BY <1>2 DEF RouterInv, QuietUnlessServing
  <1> QED BY <1>3, <1>4, <1>5, <1>6, DeliveriesUntouched DEF RouterInv

\* The steps of the commands and their caller leave router, handlers and deliveries alone.
LEMMA CallerSteps ==
    ASSUME RouterInv,
           \/ Router!RunReturned \/ Router!StartPolling \/ Router!CallerGone
           \/ Router!CancelCaller
    PROVE  RouterInv'
  <1>1. /\ UNCHANGED <<mode, sawStarted, handlers, dbOpen, deliveries, tracker, abandons>>
        /\ router' = router /\ subscriber' = subscriber
    BY DEF Router!RunReturned, Router!StartPolling, Router!CallerGone, Router!CancelCaller,
           Router!Return, Router!dispatch, Router!lifecycle, Router!threads
  <1>2. \/ pc' = pc
        \/ /\ pc["main"] # "idle"
           /\ \E to \in {"polling", "draining", "returned"} :
                 /\ pc' = [pc EXCEPT !["main"] = to]
                 /\ mode = "run" => to # "polling"
    <2>1. CASE Router!RunReturned
      BY <2>1 DEF Router!RunReturned, Router!Return, Router!Goto
    <2>2. CASE Router!StartPolling
      BY <2>2 DEF RouterInv, Places, Router!StartPolling, Router!Goto
    <2>3. CASE Router!CallerGone
      BY <2>3 DEF Router!CallerGone, Router!Return, Router!Goto
    <2>4. CASE Router!CancelCaller
      BY <2>4 DEF Router!CancelCaller, Router!threads
    <2> QED BY <2>1, <2>2, <2>3, <2>4
  <1> QED BY <1>1, <1>2, MainStep DEF RouterInv, RouterTypes

\* A poll of RunOnce reads the tracker: it calls the run idle only with nothing at work.
LEMMA PollStep ==
    ASSUME RouterInv, Router!Poll
    PROVE  RouterInv'
  <1>1. /\ UNCHANGED <<mode, sawStarted, handlers, dbOpen, deliveries, abandons>>
        /\ router' = router /\ subscriber' = subscriber
    BY DEF Router!Poll
  <1>2. \E i \in Nat : tracker' = [tracker EXCEPT !.idle = i]
    BY DEF RouterInv, RouterTypes, Router!Poll
  <1>3. /\ tracker' \in [active : [DOMAIN Topic -> Nat], retries : SUBSET DOMAIN Topic,
                         idle : Nat]
        /\ tracker'.active = tracker.active /\ tracker'.retries = tracker.retries
    BY <1>2 DEF RouterInv, RouterTypes
  <1>4. /\ pc["main"] = "polling"
        /\ pc' = pc \/ pc' = [pc EXCEPT !["main"] = "draining"]
    BY DEF Router!Poll, Router!Goto
  <1> QED BY <1>1, <1>3, <1>4, MainStep

\* Run is entered: it starts, or closes a router whose context is done.
LEMMA EnterRunStep ==
    ASSUME RouterInv, Router!EnterRun
    PROVE  RouterInv'
  <1>1. UNCHANGED <<mode, sawStarted, handlers, subscriber, dbOpen, deliveries, tracker,
                    abandons>>
    BY DEF Router!EnterRun, Router!dispatch
  <1>2. /\ pc["run"] = "entry" /\ pc' \in [Router!Threads -> Stages]
        /\ pc'["run"] \in {"lock", "returned", "begin"}
        /\ \A q \in Router!Threads : q # "run" => pc'[q] = pc[q]
    BY DEF RouterInv, RouterTypes, Stages, Router!EnterRun, Router!Goto, Router!Threads
  <1>3. \/ router' = router /\ pc'["run"] # "begin"
        \/ /\ router' = [router EXCEPT !.started = TRUE] /\ ~router.closed
    BY DEF RouterInv, RouterTypes, Router!EnterRun, Router!Goto, Router!Threads
  <1>4. /\ router' \in [started : BOOLEAN, closed : BOOLEAN, closeDone : BOOLEAN,
                        wmClosed : BOOLEAN]
        /\ router'.closed = router.closed /\ router'.closeDone = router.closeDone
        /\ pc'["run"] = "begin" => router'.started
        /\ router.closed => router'.started = router.started
    <2>1. router \in [started : BOOLEAN, closed : BOOLEAN, closeDone : BOOLEAN,
                      wmClosed : BOOLEAN]
      BY DEF RouterInv, RouterTypes
    <2> QED BY <1>3, <2>1
  <1>5. RouterTypes'
    BY <1>1, <1>2, <1>4 DEF RouterInv, RouterTypes
  <1>6. Places'
    BY <1>1, <1>2 DEF RouterInv, Places, Router!Threads, Router!Closers
  <1>7. ~router.closed => ~router.closeDone
    BY DEF RouterInv, ClosesAgree
  <1>8. ClosesAgree'
    BY <1>1, <1>2, <1>3, <1>4, <1>7 DEF RouterInv, ClosesAgree, Router!Threads, Router!Closers
  <1>9. QuietUnlessServing'
    BY <1>1, <1>2 DEF RouterInv, QuietUnlessServing
  <1> QED BY <1>1, <1>5, <1>6, <1>8, <1>9, DeliveriesUntouched DEF RouterInv

\* Run subscribes its handlers unless the router is closing already.
LEMMA BeginSubscriptionsStep ==
    ASSUME RouterInv, Router!BeginSubscriptions
    PROVE  RouterInv'
  <1>1. UNCHANGED <<mode, sawStarted, router, handlers, dbOpen, deliveries, tracker, abandons>>
    BY DEF Router!BeginSubscriptions, Router!dispatch
  <1>2. /\ pc["run"] = "begin" /\ pc' \in [Router!Threads -> Stages]
        /\ pc'["run"] = "serving" /\ pc'["watcher"] = "watching"
        /\ \A q \in Router!Threads : q \notin {"run", "watcher"} => pc'[q] = pc[q]
    BY DEF RouterInv, RouterTypes, Stages, Router!BeginSubscriptions, Router!Threads
  <1>3. /\ subscriber' \in [begin : BOOLEAN, closing : BOOLEAN, failed : BOOLEAN,
                             started : Int, ready : BOOLEAN, open : BOOLEAN]
        /\ subscriber'.open = subscriber.open
    <2>1. Router!Ready(subscriber.started) \in BOOLEAN
      BY DEF Router!Ready
    <2> QED BY <2>1 DEF RouterInv, RouterTypes, Router!BeginSubscriptions
  <1>4. RouterTypes'
    BY <1>1, <1>2, <1>3 DEF RouterInv, RouterTypes
  <1>5. Places'
    BY <1>1, <1>2 DEF RouterInv, Places, Router!Threads, Router!Closers
  <1>6. ClosesAgree'
    BY <1>1, <1>2, <1>3 DEF RouterInv, ClosesAgree, Router!Threads, Router!Closers
  <1>7. QuietUnlessServing'
    BY <1>2 DEF QuietUnlessServing
  <1> QED BY <1>1, <1>4, <1>5, <1>6, <1>7, DeliveriesUntouched DEF RouterInv

\* The watcher closes the router when the run's context is done.
LEMMA WatchStep ==
    ASSUME RouterInv, Router!Watch
    PROVE  RouterInv'
  <1>1. /\ UNCHANGED <<mode, sawStarted, handlers, dbOpen, deliveries, tracker, abandons>>
        /\ router' = router /\ subscriber' = subscriber
    BY DEF Router!Watch, Router!dispatch, Router!lifecycle
  <1>2. /\ pc' \in [Router!Threads -> Stages] /\ pc'["watcher"] = "lock"
        /\ \A q \in Router!Threads : q # "watcher" => pc'[q] = pc[q]
    BY DEF RouterInv, RouterTypes, Stages, Router!Watch, Router!Goto, Router!Threads
  <1>3. Places'
    BY <1>1, <1>2 DEF RouterInv, Places, Router!Threads, Router!Closers
  <1>4. dbOpen' \in BOOLEAN /\ (~dbOpen' => pc'["hook"] = "returned")
    BY <1>1, <1>2 DEF RouterInv, RouterTypes, ClosesAgree, Router!Threads, Router!Closers
  <1>5. pc'["run"] = pc["run"] /\ \A q \in Router!Closers : pc'[q] = pc[q]
    BY <1>2 DEF Router!Threads, Router!Closers
  <1> QED BY <1>1, <1>2, <1>3, <1>4, <1>5, ThreadSteps

\* Watermill's router returns when all is quiet.
LEMMA WatermillReturnsStep ==
    ASSUME RouterInv, Router!WatermillReturns
    PROVE  RouterInv'
  <1>1. /\ UNCHANGED <<mode, sawStarted, handlers, dbOpen, deliveries, tracker, abandons>>
        /\ router' = router /\ subscriber' = subscriber
    BY DEF Router!WatermillReturns, Router!dispatch, Router!lifecycle
  <1>2. /\ pc["run"] = "serving" /\ pc' \in [Router!Threads -> Stages]
        /\ pc'["run"] = "lock"
        /\ pc'["watcher"] = IF pc["watcher"] = "watching" THEN "returned" ELSE pc["watcher"]
        /\ \A q \in Router!Threads : q \notin {"run", "watcher"} => pc'[q] = pc[q]
    <2>1. pc["watcher"] \in Stages
      BY DEF RouterInv, RouterTypes, Router!Threads
    <2> QED BY <2>1 DEF RouterInv, RouterTypes, Stages, Router!WatermillReturns, Router!Threads
  <1>3. Places'
    BY <1>1, <1>2 DEF RouterInv, Places, Router!Threads, Router!Closers
  <1>4. dbOpen' \in BOOLEAN /\ (~dbOpen' => pc'["hook"] = "returned")
    BY <1>1, <1>2 DEF RouterInv, RouterTypes, ClosesAgree, Router!Threads, Router!Closers
  <1>5. \A q \in Router!Closers : pc'[q] = pc[q]
    BY <1>2 DEF Router!Threads, Router!Closers
  <1>6. /\ \A t \in DOMAIN handlers : handlers[t] \in {"none", "stopped"}
        /\ \A d \in Deliveries : deliveries[d].pc = "free"
    BY DEF Router!WatermillReturns, Router!Registered
  <1> QED BY <1>1, <1>2, <1>3, <1>4, <1>5, <1>6, ThreadSteps

-----------------------------------------------------------------------------
(* Subscriptions.                                                            *)

\* The handlers' states change while Run serves, and a stopped one stays so.
LEMMA HandlerMoves ==
    ASSUME RouterInv, NEW t \in DOMAIN handlers,
           NEW to \in {"none", "subscribing", "consuming", "stopped"},
           UNCHANGED <<mode, pc, sawStarted, dbOpen, deliveries, tracker, abandons>>,
           router' = router, pc["run"] = "serving",
           subscriber' \in [begin : BOOLEAN, closing : BOOLEAN, failed : BOOLEAN,
                            started : Int, ready : BOOLEAN, open : BOOLEAN],
           subscriber'.open = subscriber.open,
           handlers[t] # "stopped", handlers' = [handlers EXCEPT ![t] = to]
    PROVE  RouterInv'
  <1>1. /\ DOMAIN handlers' = DOMAIN handlers
        /\ handlers' \in [DOMAIN handlers' -> {"none", "subscribing", "consuming", "stopped"}]
        /\ \A u \in DOMAIN handlers : handlers[u] = "stopped" => handlers'[u] = "stopped"
    BY DEF RouterInv, RouterTypes
  <1>2. RouterTypes'
    BY <1>1 DEF RouterInv, RouterTypes
  <1>3. Places' /\ ClosesAgree' /\ QuietUnlessServing'
    BY DEF RouterInv, Places, ClosesAgree, QuietUnlessServing
  <1>4. DeliveriesKnown' /\ CountsRight'
    BY DEF RouterInv, DeliveriesKnown, CountsRight, Carried
  <1>5. OneEach'
    BY <1>1 DEF RouterInv, OneEach
  <1> QED BY <1>2, <1>3, <1>4, <1>5 DEF RouterInv

\* Handlers subscribe only while Run serves.
LEMMA SubscribeSteps ==
    ASSUME RouterInv, NEW t \in DOMAIN handlers, Router!Subscribe(t) \/ Router!Subscribed(t)
    PROVE  RouterInv'
  <1>1. /\ UNCHANGED <<mode, pc, sawStarted, dbOpen, deliveries, tracker, abandons>>
        /\ router' = router
    BY DEF Router!Subscribe, Router!Subscribed, Router!threads, Router!dispatch
  <1>2. pc["run"] = "serving" /\ handlers[t] # "stopped"
    BY DEF RouterInv, QuietUnlessServing, Router!Subscribe, Router!Subscribed
  <1>3. \/ /\ handlers' = [handlers EXCEPT ![t] = "subscribing"]
           /\ subscriber' = subscriber
        \/ \E to \in {"consuming", "stopped"}, error \in BOOLEAN :
              Router!SubscriptionStarted(t, to, error)
    BY DEF Router!Subscribe, Router!Subscribed
  <1>4. CASE /\ handlers' = [handlers EXCEPT ![t] = "subscribing"]
             /\ subscriber' = subscriber
    BY <1>1, <1>2, <1>4, HandlerMoves DEF RouterInv, RouterTypes
  <1>5. ASSUME NEW to \in {"consuming", "stopped"}, NEW error \in BOOLEAN,
               Router!SubscriptionStarted(t, to, error)
        PROVE  RouterInv'
    <2> DEFINE n == subscriber.started + 1
               failed == subscriber.failed \/ error
               ready == subscriber.ready \/ (subscriber.begin /\ Router!Ready(n))
    <2>1. n \in Int /\ failed \in BOOLEAN /\ ready \in BOOLEAN
      <3>1. /\ subscriber.started \in Int
            /\ subscriber.failed \in BOOLEAN /\ subscriber.ready \in BOOLEAN
        BY DEF RouterInv, RouterTypes
      <3> QED BY <3>1
    <2>2. /\ handlers' = [handlers EXCEPT ![t] = to]
          /\ subscriber' = [subscriber EXCEPT !.started = n, !.failed = failed,
                                              !.ready = ready]
      BY <1>5, Zenon DEF Router!SubscriptionStarted
    <2> HIDE DEF n, failed, ready
    <2>3. /\ subscriber' \in [begin : BOOLEAN, closing : BOOLEAN, failed : BOOLEAN,
                               started : Int, ready : BOOLEAN, open : BOOLEAN]
          /\ subscriber'.open = subscriber.open
      BY <2>1, <2>2 DEF RouterInv, RouterTypes
    <2> QED BY <1>1, <1>2, <2>2, <2>3, HandlerMoves
  <1> QED BY <1>3, <1>4, <1>5

\* The end of a subscription ends its deliveries' contexts, not their handlers.
LEMMA StopHandlerStep ==
    ASSUME RouterInv, NEW t \in DOMAIN handlers, Router!StopHandler(t)
    PROVE  RouterInv'
  <1>1. UNCHANGED <<mode, pc, sawStarted, router, subscriber, dbOpen, tracker, abandons>>
    BY DEF Router!StopHandler, Router!threads
  <1>2. /\ DOMAIN handlers' = DOMAIN handlers
        /\ handlers' \in [DOMAIN handlers' -> {"none", "subscribing", "consuming", "stopped"}]
        /\ handlers'[t] = "stopped"
        /\ \A u \in DOMAIN handlers : u # t => handlers'[u] = handlers[u]
    BY DEF RouterInv, RouterTypes, Router!StopHandler
  <1>3. \A d \in Deliveries :
           deliveries'[d] = IF Topic[deliveries[d].message] = t
                            THEN [deliveries[d] EXCEPT !.live = FALSE] ELSE deliveries[d]
    BY DEF Router!StopHandler
  <1>4. deliveries' = [d \in Deliveries |-> deliveries'[d]]
    BY DEF Router!StopHandler
  <1>5. \A d \in Deliveries :
           /\ deliveries'[d] \in DeliveryType
           /\ deliveries'[d].pc = deliveries[d].pc
           /\ deliveries'[d].message = deliveries[d].message
           /\ deliveries'[d].live => deliveries[d].live
           /\ \/ deliveries'[d].live = deliveries[d].live
              \/ /\ Topic[deliveries[d].message] = t
                 /\ ~deliveries'[d].live
    <2> TAKE d \in Deliveries
    <2>1. deliveries[d] \in DeliveryType
      BY DEF RouterInv, RouterTypes
    <2> QED BY <1>3, <2>1 DEF DeliveryType
  <1>6. RouterTypes'
    BY <1>1, <1>2, <1>4, <1>5 DEF RouterInv, RouterTypes
  <1>7. Places' /\ ClosesAgree'
    BY <1>1 DEF RouterInv, Places, ClosesAgree
  <1>8. QuietUnlessServing'
    BY <1>1, <1>2, <1>5 DEF RouterInv, QuietUnlessServing
  <1>9. DeliveriesKnown'
    BY <1>5 DEF RouterInv, DeliveriesKnown
  <1>10. CountsRight'
    <2>1. \A m \in DOMAIN Topic : Carried(m)' = Carried(m)
      BY <1>5 DEF Carried
    <2> QED BY <1>1, <2>1 DEF RouterInv, CountsRight
  <1>11. OneEach'
    BY <1>1, <1>2, <1>5 DEF RouterInv, OneEach
  <1> QED BY <1>6, <1>7, <1>8, <1>9, <1>10, <1>11 DEF RouterInv

-----------------------------------------------------------------------------
(* Deliveries.                                                               *)

\* What a step of the deliveries leaves to be shown.
LEMMA DeliverySteps ==
    ASSUME RouterInv,
           UNCHANGED <<mode, pc, sawStarted, router, handlers, subscriber, dbOpen>>,
           pc["run"] = "serving",
           deliveries' \in [Deliveries -> DeliveryType],
           tracker' \in [active : [DOMAIN Topic -> Nat], retries : SUBSET DOMAIN Topic,
                         idle : Nat],
           abandons' \in 0 .. MaxAbandons,
           DeliveriesKnown', CountsRight', OneEach'
    PROVE  RouterInv'
  <1>1. RouterTypes'
    BY DEF RouterInv, RouterTypes
  <1>2. Places' /\ ClosesAgree' /\ QuietUnlessServing'
    BY DEF RouterInv, Places, ClosesAgree, QuietUnlessServing
  <1> QED BY <1>1, <1>2 DEF RouterInv

\* The handlers at work on a message are finitely many.
LEMMA CarriedFinite == \A m : IsFiniteSet(Carried(m)) /\ Cardinality(Carried(m)) \in Nat
  BY ComponentsAssumption, FS_Subset, FS_CardinalityType DEF Carried

\* A move of one delivery, and the handlers at work after it.
LEMMA Moved ==
    ASSUME RouterInv, NEW d \in Deliveries, NEW to \in DeliveryType, Router!Move(d, to)
    PROVE  /\ deliveries' \in [Deliveries -> DeliveryType]
           /\ deliveries'[d] = to
           /\ \A e \in Deliveries : e # d => deliveries'[e] = deliveries[e]
           /\ \A m : Carried(m)' = IF to.pc = "active" /\ to.message = m
                                  THEN Carried(m) \cup {d} ELSE Carried(m) \ {d}
           /\ \A m : d \in Carried(m) <=> deliveries[d].pc = "active" /\ deliveries[d].message = m
  <1>1. /\ deliveries' \in [Deliveries -> DeliveryType]
        /\ deliveries'[d] = to
        /\ \A e \in Deliveries : e # d => deliveries'[e] = deliveries[e]
    BY DEF RouterInv, RouterTypes, Router!Move
  <1>2. \A m : Carried(m)' = IF to.pc = "active" /\ to.message = m
                            THEN Carried(m) \cup {d} ELSE Carried(m) \ {d}
    BY <1>1 DEF Carried
  <1> QED BY <1>1, <1>2 DEF Carried

\* What is known of a delivery that is at work.
LEMMA AtWork ==
    ASSUME RouterInv, NEW d \in Deliveries
    PROVE  /\ deliveries[d] \in DeliveryType
           /\ deliveries[d].pc # "free" =>
                 pc["run"] = "serving" /\ deliveries[d].message \in DOMAIN Topic
           /\ Router!Free \in DeliveryType /\ Router!Free.pc = "free" /\ ~Router!Free.live
  BY DEF RouterInv, RouterTypes, QuietUnlessServing, DeliveriesKnown, Router!Free, DeliveryType

\* A delivery is fetched by a live subscription: the handler of its topic is at work.
LEMMA FetchStep ==
    ASSUME RouterInv, NEW d \in Deliveries, NEW m \in DOMAIN Topic, Router!Fetch(d, m)
    PROVE  RouterInv'
  <1> DEFINE to == [pc |-> "fetched", message |-> m, live |-> TRUE, tries |-> 0]
  <1>1. /\ UNCHANGED <<mode, pc, sawStarted, router, handlers, subscriber, dbOpen>>
        /\ tracker' = tracker /\ abandons' = abandons
    BY DEF Router!Fetch, Router!threads, Router!lifecycle
  <1>2. /\ deliveries[d].pc = "free" /\ Router!Move(d, to)
        /\ handlers[Topic[m]] = "consuming" /\ Topic[m] \in DOMAIN handlers
        /\ \A e \in Deliveries : deliveries[e].live => deliveries[e].message # m
    BY DEF Router!Fetch, Router!Registered
  <1>3. /\ to \in DeliveryType /\ to.pc = "fetched" /\ to.message = m /\ to.live
    BY DEF DeliveryType
  <1> HIDE DEF to
  <1>4. /\ deliveries' \in [Deliveries -> DeliveryType]
        /\ deliveries'[d] = to
        /\ \A e \in Deliveries : e # d => deliveries'[e] = deliveries[e]
        /\ \A n : Carried(n)' = Carried(n)
    BY <1>2, <1>3, Moved DEF Carried
  <1>5. pc["run"] = "serving"
    BY <1>2 DEF RouterInv, QuietUnlessServing
  <1>6. DeliveriesKnown'
    BY <1>3, <1>4 DEF RouterInv, DeliveriesKnown
  <1>7. CountsRight'
    BY <1>1, <1>4 DEF RouterInv, CountsRight
  <1>8. OneEach'
    <2> SUFFICES ASSUME abandons' = MaxAbandons PROVE OneEach'
      BY DEF OneEach
    <2>1. \A e \in Deliveries : deliveries[e].pc # "free" => deliveries[e].message # m
      BY <1>1, <1>2 DEF RouterInv, OneEach
    <2> QED BY <1>1, <1>3, <1>4, <2>1 DEF RouterInv, OneEach
  <1> QED BY <1>1, <1>4, <1>5, <1>6, <1>7, <1>8, DeliverySteps DEF RouterInv, RouterTypes

\* A delivery that enters its handler is tracked from then on.
LEMMA EnterHandlerStep ==
    ASSUME RouterInv, NEW d \in Deliveries, Router!EnterHandler(d)
    PROVE  RouterInv'
  <1> DEFINE m == deliveries[d].message
             to == [deliveries[d] EXCEPT !.pc = "active", !.tries = @ + 1]
             count == IF mode = "once" THEN 1 ELSE tracker.active[m] + 1
  <1>1. /\ UNCHANGED <<mode, pc, sawStarted, router, handlers, subscriber, dbOpen>>
        /\ abandons' = abandons
    BY DEF Router!EnterHandler, Router!threads, Router!lifecycle
  <1>2. deliveries[d].pc \in {"fetched", "backoff"} /\ Router!Move(d, to)
    BY DEF Router!EnterHandler
  <1>3. \/ mode = "run" /\ tracker' = tracker
        \/ /\ mode # "run"
           /\ tracker' = [tracker EXCEPT !.active[m] = count, !.retries = @ \ {m}]
    BY Zenon DEF Router!EnterHandler, Router!StartDelivery, Router!Once
  <1>4. deliveries[d] \in DeliveryType /\ m \in DOMAIN Topic /\ pc["run"] = "serving"
    BY <1>2, AtWork
  <1>5. /\ to \in DeliveryType /\ to.pc = "active" /\ to.message = m
        /\ to.live = deliveries[d].live
    <2> DEFINE tries == deliveries[d].tries + 1
    <2>1. tries \in Int
      BY <1>4 DEF DeliveryType
    <2>2. to = [deliveries[d] EXCEPT !.pc = "active", !.tries = tries]
      OBVIOUS
    <2> HIDE DEF tries, to
    <2> QED BY <1>4, <2>1, <2>2 DEF DeliveryType
  <1>6. /\ tracker \in [active : [DOMAIN Topic -> Nat], retries : SUBSET DOMAIN Topic,
                        idle : Nat]
        /\ count \in Nat
    BY <1>4 DEF RouterInv, RouterTypes
  <1> HIDE DEF to, count, m
  <1>7. /\ tracker' \in [active : [DOMAIN Topic -> Nat], retries : SUBSET DOMAIN Topic,
                         idle : Nat]
        /\ mode # "run" => tracker'.active[m] = count
        /\ mode # "run" => tracker'.retries = tracker.retries \ {m}
        /\ \A n \in DOMAIN Topic : n # m => tracker'.active[n] = tracker.active[n]
    <2>1. CASE tracker' = tracker /\ mode = "run"
      BY <1>6, <2>1
    <2>2. CASE /\ mode # "run"
               /\ tracker' = [tracker EXCEPT !.active[m] = count, !.retries = @ \ {m}]
      BY <1>4, <1>6, <2>2
    <2> QED BY <1>3, <2>1, <2>2
  <1>8. /\ deliveries' \in [Deliveries -> DeliveryType]
        /\ deliveries'[d] = to
        /\ \A e \in Deliveries : e # d => deliveries'[e] = deliveries[e]
        /\ \A n : Carried(n)' = IF n = m THEN Carried(n) \cup {d} ELSE Carried(n)
        /\ d \notin Carried(m)
    BY <1>2, <1>5, Moved DEF Carried, m
  <1>9. DeliveriesKnown'
    BY <1>4, <1>5, <1>8 DEF RouterInv, DeliveriesKnown
  <1>10. CountsRight'
    <2> SUFFICES ASSUME mode = "workerOnce", NEW n \in DOMAIN Topic
                 PROVE  tracker'.active[n] = Cardinality(Carried(n)')
      BY <1>1 DEF CountsRight
    <2>1. tracker.active[n] = Cardinality(Carried(n))
      BY DEF RouterInv, CountsRight
    <2>2. CASE n # m
      BY <1>7, <1>8, <2>1, <2>2
    <2>3. CASE n = m
      <3>1. Cardinality(Carried(n) \cup {d}) = Cardinality(Carried(n)) + 1
        BY <1>8, <2>3, CarriedFinite, FS_AddElement
      <3> QED BY <1>7, <1>8, <2>1, <2>3, <3>1 DEF count
    <2> QED BY <2>2, <2>3
  <1>11. OneEach'
    <2> SUFFICES ASSUME abandons = MaxAbandons PROVE OneEach'
      BY <1>1 DEF OneEach
    <2>1. \A e \in Deliveries :
             e # d /\ deliveries[e].pc # "free" => deliveries[e].message # m
      BY <1>2 DEF RouterInv, OneEach, m
    <2>2. \A e \in Deliveries : /\ e # d /\ deliveries[e].pc = "active"
                                   => deliveries[e].message \in DOMAIN Topic
      BY AtWork
    <2>3. mode = "once" => count = 1
      BY DEF count
    <2> QED BY <1>1, <1>2, <1>5, <1>7, <1>8, <2>1, <2>2, <2>3 DEF RouterInv, OneEach, m
  <1> QED BY <1>1, <1>4, <1>7, <1>8, <1>9, <1>10, <1>11, DeliverySteps DEF RouterInv, RouterTypes

\* A handler that returns leaves the ones at work, and the tracker's count follows.
LEMMA FinishSteps ==
    ASSUME RouterInv, NEW d \in Deliveries, Router!HandlerEnds(d) \/ Router!HandlerFails(d)
    PROVE  RouterInv'
  <1> DEFINE m == deliveries[d].message
             count == Router!Finished(m)
  <1>1. /\ UNCHANGED <<mode, pc, sawStarted, router, handlers, subscriber, dbOpen>>
        /\ abandons' = abandons /\ deliveries[d].pc = "active"
    BY DEF Router!HandlerEnds, Router!HandlerFails, Router!threads, Router!lifecycle
  <1>2. deliveries[d] \in DeliveryType /\ m \in DOMAIN Topic /\ pc["run"] = "serving"
    BY <1>1, AtWork
  <1>3. PICK to \in DeliveryType :
           /\ Router!Move(d, to) /\ to.pc \in {"free", "failed"}
           /\ to.pc = "failed" => to.message = m /\ to.live = deliveries[d].live
           /\ to.live => to.pc # "free"
    <2>1. CASE Router!HandlerEnds(d)
      BY <2>1, AtWork DEF Router!HandlerEnds
    <2>2. CASE Router!HandlerFails(d)
      <3> DEFINE to == [deliveries[d] EXCEPT !.pc = "failed"]
      <3>1. /\ to \in DeliveryType /\ to.pc = "failed" /\ to.message = m
            /\ to.live = deliveries[d].live
        BY <1>2 DEF DeliveryType
      <3>2. Router!Move(d, to)
        BY <2>2 DEF Router!HandlerFails
      <3> HIDE DEF to, m
      <3> QED BY <3>1, <3>2
    <2> QED BY <2>1, <2>2
  <1>4. tracker' = [tracker EXCEPT !.active[m] = count]
    BY Zenon DEF Router!HandlerEnds, Router!HandlerFails, Router!FinishDelivery
  <1>5. /\ tracker \in [active : [DOMAIN Topic -> Nat], retries : SUBSET DOMAIN Topic,
                        idle : Nat]
        /\ count \in Nat
        /\ mode = "workerOnce" /\ tracker.active[m] # 0 => count = tracker.active[m] - 1
    <2>1. /\ tracker \in [active : [DOMAIN Topic -> Nat], retries : SUBSET DOMAIN Topic,
                          idle : Nat]
          /\ tracker.active[m] \in Nat
      BY <1>2 DEF RouterInv, RouterTypes
    <2> QED BY <2>1 DEF Router!Finished
  <1> HIDE DEF m, count
  <1>6. /\ tracker' \in [active : [DOMAIN Topic -> Nat], retries : SUBSET DOMAIN Topic,
                         idle : Nat]
        /\ tracker'.active[m] = count
        /\ tracker'.retries = tracker.retries
        /\ \A n \in DOMAIN Topic : n # m => tracker'.active[n] = tracker.active[n]
    BY <1>2, <1>4, <1>5
  <1>7. /\ deliveries' \in [Deliveries -> DeliveryType]
        /\ deliveries'[d] = to
        /\ \A e \in Deliveries : e # d => deliveries'[e] = deliveries[e]
        /\ \A n : Carried(n)' = IF n = m THEN Carried(n) \ {d} ELSE Carried(n)
        /\ d \in Carried(m)
    BY <1>1, <1>3, Moved DEF Carried, m
  <1>8. DeliveriesKnown'
    BY <1>2, <1>3, <1>7 DEF RouterInv, DeliveriesKnown
  <1>9. CountsRight'
    <2> SUFFICES ASSUME mode = "workerOnce", NEW n \in DOMAIN Topic
                 PROVE  tracker'.active[n] = Cardinality(Carried(n)')
      BY <1>1 DEF CountsRight
    <2>1. tracker.active[n] = Cardinality(Carried(n))
      BY DEF RouterInv, CountsRight
    <2>2. CASE n # m
      BY <1>6, <1>7, <2>1, <2>2
    <2>3. CASE n = m
      <3>1. /\ Cardinality(Carried(n) \ {d}) = Cardinality(Carried(n)) - 1
            /\ Cardinality(Carried(n)) # 0
        BY <1>7, <2>3, CarriedFinite, FS_RemoveElement, FS_EmptySet
      <3> QED BY <1>5, <1>6, <1>7, <2>1, <2>3, <3>1
    <2> QED BY <2>2, <2>3
  <1>10. OneEach'
    <2> SUFFICES ASSUME abandons = MaxAbandons PROVE OneEach'
      BY <1>1 DEF OneEach
    <2>1. \A e \in Deliveries :
             e # d /\ deliveries[e].pc # "free" => deliveries[e].message # m
      BY <1>1 DEF RouterInv, OneEach, m
    <2>2. \A e \in Deliveries : /\ e # d /\ deliveries[e].pc = "active"
                                   => deliveries[e].message \in DOMAIN Topic
      BY AtWork
    <2> QED BY <1>1, <1>3, <1>6, <1>7, <2>1, <2>2 DEF RouterInv, OneEach, m
  <1> QED BY <1>1, <1>2, <1>6, <1>7, <1>8, <1>9, <1>10, DeliverySteps DEF RouterInv, RouterTypes

\* After the handler: the backoff, the dead letter, and a backoff's end.
LEMMA RetryStep ==
    ASSUME RouterInv, NEW d \in Deliveries, Router!Retry(d)
    PROVE  RouterInv'
  <1> DEFINE m == deliveries[d].message
             last == deliveries[d].tries = MaxTries
             waiting == [deliveries[d] EXCEPT !.pc = "backoff"]
  <1>1. /\ UNCHANGED <<mode, pc, sawStarted, router, handlers, subscriber, dbOpen>>
        /\ abandons' = abandons /\ deliveries[d].pc = "failed"
    BY DEF Router!Retry, Router!threads, Router!lifecycle
  <1>2. deliveries[d] \in DeliveryType /\ m \in DOMAIN Topic /\ pc["run"] = "serving"
    BY <1>1, AtWork
  <1>3. /\ waiting \in DeliveryType /\ waiting.pc = "backoff" /\ waiting.message = m
        /\ waiting.live = deliveries[d].live
    BY <1>2 DEF DeliveryType
  <1>4. /\ Router!Move(d, IF last THEN Router!Free ELSE waiting)
        /\ tracker' = IF mode # "workerOnce" THEN tracker
                      ELSE [tracker EXCEPT !.retries = IF last THEN @ \ {m} ELSE @ \cup {m}]
    BY Zenon DEF Router!Retry
  <1> HIDE DEF m, last, waiting
  <1>5. PICK to \in DeliveryType :
           /\ Router!Move(d, to) /\ to.pc \in {"free", "backoff"}
           /\ to.pc = "backoff" => /\ ~last
                                   /\ to.message = m
                                   /\ to.live = deliveries[d].live
           /\ to.live => to.pc # "free"
    BY <1>3, <1>4, AtWork
  <1>6. /\ tracker' \in [active : [DOMAIN Topic -> Nat], retries : SUBSET DOMAIN Topic,
                         idle : Nat]
        /\ tracker'.active = tracker.active
        /\ tracker.retries \ {m} \subseteq tracker'.retries
        /\ mode = "workerOnce" /\ ~last => m \in tracker'.retries
    <2>1. tracker \in [active : [DOMAIN Topic -> Nat], retries : SUBSET DOMAIN Topic,
                       idle : Nat]
      BY DEF RouterInv, RouterTypes
    <2> QED BY <1>2, <1>4, <2>1
  <1>7. /\ deliveries' \in [Deliveries -> DeliveryType]
        /\ deliveries'[d] = to
        /\ \A e \in Deliveries : e # d => deliveries'[e] = deliveries[e]
        /\ \A n : Carried(n)' = Carried(n)
    BY <1>1, <1>5, Moved DEF Carried
  <1>8. DeliveriesKnown'
    BY <1>2, <1>5, <1>7 DEF RouterInv, DeliveriesKnown
  <1>9. CountsRight'
    BY <1>1, <1>6, <1>7 DEF RouterInv, CountsRight
  <1>10. OneEach'
    <2> SUFFICES ASSUME abandons = MaxAbandons PROVE OneEach'
      BY <1>1 DEF OneEach
    <2>1. \A e \in Deliveries :
             e # d /\ deliveries[e].pc # "free" => deliveries[e].message # m
      BY <1>1 DEF RouterInv, OneEach, m
    <2> QED BY <1>1, <1>5, <1>6, <1>7, <2>1 DEF RouterInv, OneEach, m
  <1> QED BY <1>1, <1>2, <1>6, <1>7, <1>8, <1>9, <1>10, DeliverySteps DEF RouterInv, RouterTypes

\* A delivery given up is over; the retry it leaves in the tracker is that of an
\* abandoned one.
LEMMA GiveUpStep ==
    ASSUME RouterInv, NEW d \in Deliveries, Router!GiveUp(d)
    PROVE  RouterInv'
  <1>1. /\ UNCHANGED <<mode, pc, sawStarted, router, handlers, subscriber, dbOpen>>
        /\ abandons' = abandons /\ tracker' = tracker
        /\ deliveries[d].pc = "backoff" /\ Router!Move(d, Router!Free)
    BY DEF Router!GiveUp, Router!threads, Router!lifecycle
  <1>2. /\ pc["run"] = "serving" /\ Router!Free \in DeliveryType
        /\ Router!Free.pc = "free" /\ ~Router!Free.live
    BY <1>1, AtWork
  <1>3. /\ deliveries' \in [Deliveries -> DeliveryType]
        /\ deliveries'[d] = Router!Free
        /\ \A e \in Deliveries : e # d => deliveries'[e] = deliveries[e]
        /\ \A n : Carried(n)' = Carried(n)
    BY <1>1, <1>2, Moved DEF Carried
  <1>4. DeliveriesKnown'
    BY <1>2, <1>3 DEF RouterInv, DeliveriesKnown
  <1>5. CountsRight'
    BY <1>1, <1>3 DEF RouterInv, CountsRight
  <1>6. OneEach'
    BY <1>1, <1>2, <1>3 DEF RouterInv, OneEach
  <1> QED BY <1>1, <1>2, <1>3, <1>4, <1>5, <1>6, DeliverySteps DEF RouterInv, RouterTypes

\* An abandoned delivery goes on beside its successor, and is tracked all the same.
LEMMA AbandonStep ==
    ASSUME RouterInv, NEW d \in Deliveries, Router!Abandon(d)
    PROVE  RouterInv'
  <1> DEFINE to == [deliveries[d] EXCEPT !.live = FALSE]
  <1>1. /\ UNCHANGED <<mode, pc, sawStarted, router, handlers, subscriber, dbOpen>>
        /\ tracker' = tracker
        /\ deliveries[d].live /\ Router!Move(d, to)
    BY DEF Router!Abandon, Router!threads, Router!lifecycle
  <1>2. abandons' \in 0 .. MaxAbandons /\ abandons' # MaxAbandons
    <2>1. abandons \in 0 .. MaxAbandons /\ abandons > 0 /\ abandons' = abandons - 1
      BY DEF RouterInv, RouterTypes, Router!Abandon
    <2> QED BY <2>1, ComponentsAssumption
  <1>3. deliveries[d].pc # "free"
    BY <1>1 DEF RouterInv, DeliveriesKnown
  <1>4. /\ deliveries[d] \in DeliveryType /\ pc["run"] = "serving"
    BY <1>3, AtWork
  <1>5. /\ to \in DeliveryType /\ to.pc = deliveries[d].pc
        /\ to.message = deliveries[d].message /\ ~to.live
    BY <1>4 DEF DeliveryType
  <1> HIDE DEF to
  <1>6. /\ deliveries' \in [Deliveries -> DeliveryType]
        /\ deliveries'[d] = to
        /\ \A e \in Deliveries : e # d => deliveries'[e] = deliveries[e]
        /\ \A n : Carried(n)' = Carried(n)
    BY <1>1, <1>5, Moved DEF Carried
  <1>7. DeliveriesKnown'
    BY <1>5, <1>6 DEF RouterInv, DeliveriesKnown
  <1>8. CountsRight'
    BY <1>1, <1>6 DEF RouterInv, CountsRight
  <1>9. OneEach'
    BY <1>2 DEF OneEach
  <1> QED BY <1>1, <1>2, <1>4, <1>6, <1>7, <1>8, <1>9, DeliverySteps DEF RouterInv, RouterTypes

\* Messages are no part of the invariant.
LEMMA RouterStutter ==
    ASSUME RouterInv,
           UNCHANGED <<mode, pc, sawStarted, router, handlers, subscriber, deliveries, tracker,
                       dbOpen, abandons>>
    PROVE  RouterInv'
  BY DEF RouterInv, RouterTypes, Places, ClosesAgree, QuietUnlessServing, DeliveriesKnown,
         CountsRight, OneEach, Carried

-----------------------------------------------------------------------------
(* The theorems.                                                             *)

\* Every step of the router keeps the invariant.
LEMMA RouterStep == RouterInv /\ [Router!Next]_routerVars => RouterInv'
  <1> SUFFICES ASSUME RouterInv, [Router!Next]_routerVars
               PROVE  RouterInv'
    OBVIOUS
  <1>1. CASE UNCHANGED routerVars
    BY <1>1, RouterStutter DEF routerVars
  <1>2. ASSUME NEW p \in Router!Threads,
               \/ Router!LockClose(p) \/ Router!SignalClose(p) \/ Router!FinishClose(p)
               \/ Router!AwaitClosed(p)
        PROVE  RouterInv'
    BY <1>2, LockCloseStep, SignalCloseStep, FinishCloseStep, AwaitClosedStep
  <1>3. ASSUME NEW p \in Router!Closers, Router!CallClose(p)
        PROVE  RouterInv'
    BY <1>3, CallCloseStep
  <1>4. CASE \/ Router!CloseDatabase \/ Router!EnterRun \/ Router!BeginSubscriptions
             \/ Router!Watch \/ Router!WatermillReturns
    BY <1>4, CloseDatabaseStep, EnterRunStep, BeginSubscriptionsStep, WatchStep,
       WatermillReturnsStep
  <1>5. ASSUME NEW t \in DOMAIN handlers,
               Router!Subscribe(t) \/ Router!Subscribed(t) \/ Router!StopHandler(t)
        PROVE  RouterInv'
    BY <1>5, SubscribeSteps, StopHandlerStep
  <1>6. CASE \/ Router!CallRun \/ Router!RunReturned \/ Router!StartPolling
             \/ Router!CallerGone \/ Router!Poll \/ Router!CancelCaller
    BY <1>6, CallRunStep, CallerSteps, PollStep
  <1>7. ASSUME NEW d \in Deliveries,
               \/ \E m \in DOMAIN Topic : Router!Fetch(d, m)
               \/ Router!EnterHandler(d) \/ Router!HandlerEnds(d) \/ Router!HandlerFails(d)
               \/ Router!Retry(d) \/ Router!GiveUp(d) \/ Router!Abandon(d)
        PROVE  RouterInv'
    BY <1>7, FetchStep, EnterHandlerStep, FinishSteps, RetryStep, GiveUpStep, AbandonStep
  <1>8. ASSUME NEW m \in DOMAIN Topic, Router!TakenElsewhere(m)
        PROVE  RouterInv'
    BY <1>8, RouterStutter DEF Router!TakenElsewhere, Router!threads, Router!lifecycle
  <1> QED BY <1>1, <1>2, <1>3, <1>4, <1>5, <1>6, <1>7, <1>8
       DEF Router!Next, Router!Proceed, Router!Registered, Router!Messages

\* The composition's steps are the router's or leave it alone.
LEMMA RouterTurns ==
    [ComponentsNext]_<<part, vars, importVars, linkVars, routerVars, agentVars>>
        => [Router!Next]_routerVars
  BY DEF ComponentsNext, Matching, Importing, Linking, Routing, Talking, Router!Next,
         Router!Proceed, Router!Registered, Router!Messages

\* Whatever the router does, it does as RouterLifecycle says (Components composes it
\* with components that leave it alone).
THEOREM RouterImplemented == ComponentsSpec => Router!Spec
  <1>1. ComponentsInit => Router!Init
    BY DEF ComponentsInit
  <1>2. [ComponentsNext]_<<part, vars, importVars, linkVars, routerVars, agentVars>>
        => [Router!Next]_(Router!vars)
    BY RouterTurns DEF routerVars, Router!vars, Router!threads, Router!lifecycle,
                       Router!dispatch
  <1> QED BY <1>1, <1>2, PTL DEF ComponentsSpec, Router!Spec

\* Threads, subscriptions, deliveries and tracker agree: only a serving Run has
\* subscriptions and deliveries, and the tracker counts the handlers at work
\* (Router.Run, Close; runOnceTracker).
THEOREM RouterInvariant == ComponentsSpec => []RouterInv
  <1>1. ComponentsInit => RouterInv
    BY RouterInit DEF ComponentsInit
  <1>2. /\ RouterInv
        /\ [ComponentsNext]_<<part, vars, importVars, linkVars, routerVars, agentVars>>
        => RouterInv'
    BY RouterTurns, RouterStep
  <1> QED BY <1>1, <1>2, PTL DEF ComponentsSpec

\* When the shutdown hook closes the database, the router has released its subscriber,
\* has no subscription left and handles no message (WorkerRoot.Stop, Router.Close).
THEOREM DatabaseLast == ComponentsSpec => []DatabaseClosedLast
  <1>1. RouterInv => DatabaseClosedLast
    <2> SUFFICES ASSUME RouterInv, ~dbOpen PROVE Router!DatabaseClosedLast
      BY DEF DatabaseClosedLast, Router!DatabaseClosedLast
    <2>1. router.closeDone
      BY DEF RouterInv, ClosesAgree, Router!Closers
    <2>2. ~subscriber.open /\ pc["run"] # "serving"
      BY <2>1 DEF RouterInv, ClosesAgree
    <2> QED BY <2>2 DEF RouterInv, QuietUnlessServing, Router!DatabaseClosedLast,
                        Router!Registered
  <1> QED BY <1>1, RouterInvariant, PTL

\* Only a poll counts idle polls.
LEMMA IdleOnlyByPoll ==
    ASSUME RouterInv, [Router!Next]_routerVars, tracker'.idle # tracker.idle
    PROVE  Router!Poll
  <1>1. tracker \in [active : [DOMAIN Topic -> Nat], retries : SUBSET DOMAIN Topic, idle : Nat]
    BY DEF RouterInv, RouterTypes
  <1>2. tracker' # tracker
    OBVIOUS
  <1>3. ASSUME NEW d \in Deliveries, Router!EnterHandler(d)
        PROVE  FALSE
    BY <1>1, <1>3 DEF Router!EnterHandler, Router!StartDelivery
  <1>4. ASSUME NEW d \in Deliveries, Router!HandlerEnds(d) \/ Router!HandlerFails(d)
        PROVE  FALSE
    BY <1>1, <1>4 DEF Router!HandlerEnds, Router!HandlerFails, Router!FinishDelivery
  <1>5. ASSUME NEW d \in Deliveries, Router!Retry(d)
        PROVE  FALSE
    BY <1>1, <1>5 DEF Router!Retry
  <1>6. CASE UNCHANGED tracker
    BY <1>2, <1>6
  <1>7. \/ Router!Poll \/ UNCHANGED tracker
        \/ \E d \in Deliveries : \/ Router!EnterHandler(d) \/ Router!HandlerEnds(d)
                                \/ Router!HandlerFails(d) \/ Router!Retry(d)
    BY DEF Router!Next, Router!Proceed, Router!LockClose, Router!SignalClose,
           Router!FinishClose, Router!AwaitClosed, Router!CloseDatabase, Router!EnterRun,
           Router!BeginSubscriptions, Router!Watch, Router!WatermillReturns,
           Router!Subscribe, Router!Subscribed, Router!StopHandler, Router!CallRun,
           Router!RunReturned, Router!Return, Router!StartPolling, Router!CallerGone,
           Router!CancelCaller, Router!Fetch, Router!GiveUp, Router!Abandon,
           Router!TakenElsewhere, Router!CallClose, Router!dispatch, routerVars
  <1> QED BY <1>3, <1>4, <1>5, <1>6, <1>7

\* The second idle poll meets no handler at work and no backoff of the worker's, as
\* long as no delivery was abandoned; in the worker no handler ever (RunOnce,
\* runOnceTracker).
THEOREM LongDelivery == ComponentsSpec => LongDeliveryPreserved
  <1>1. RouterInv /\ [Router!Next]_routerVars => Router!LongDeliveryPreserved
    <2> SUFFICES ASSUME RouterInv, [Router!Next]_routerVars,
                        tracker.idle < 2, tracker'.idle = 2, NEW d \in Deliveries
                 PROVE  /\ deliveries[d].pc = "active" => mode = "once" /\ abandons < MaxAbandons
                        /\ deliveries[d].pc = "backoff" =>
                              mode = "once" \/ abandons < MaxAbandons
      BY DEF Router!LongDeliveryPreserved
    <2>1. tracker \in [active : [DOMAIN Topic -> Nat], retries : SUBSET DOMAIN Topic,
                       idle : Nat]
      BY DEF RouterInv, RouterTypes
    <2>2. Router!Poll
      BY IdleOnlyByPoll
    <2>3. /\ tracker.retries = {} /\ \A m \in DOMAIN Topic : tracker.active[m] = 0
          /\ mode \in {"once", "workerOnce"}
      BY <2>1, <2>2 DEF RouterInv, RouterTypes, Places, Router!Poll, Router!IsIdle,
                        Router!Messages
    <2>4. abandons # MaxAbandons => abandons < MaxAbandons
      BY ComponentsAssumption DEF RouterInv, RouterTypes
    <2>5. ASSUME deliveries[d].pc = "active"
          PROVE  mode = "once" /\ abandons # MaxAbandons
      <3>1. deliveries[d].message \in DOMAIN Topic
        BY <2>5, AtWork
      <3>2. d \in Carried(deliveries[d].message)
        BY <2>5 DEF Carried
      <3>3. Cardinality(Carried(deliveries[d].message)) # 0
        BY <3>2, CarriedFinite, FS_EmptySet
      <3> QED BY <2>3, <2>5, <3>1, <3>3 DEF RouterInv, CountsRight, OneEach
    <2>6. ASSUME deliveries[d].pc = "backoff"
          PROVE  mode = "once" \/ abandons # MaxAbandons
      BY <2>3, <2>6 DEF RouterInv, OneEach
    <2> QED BY <2>4, <2>5, <2>6
  <1>2. /\ RouterInv
        /\ [ComponentsNext]_<<part, vars, importVars, linkVars, routerVars, agentVars>>
        => [part = "router" => Router!LongDeliveryPreserved]_routerVars
    BY <1>1, RouterTurns
  <1> QED BY <1>2, RouterInvariant, PTL DEF ComponentsSpec, LongDeliveryPreserved

-----------------------------------------------------------------------------
(* Types and bounds.                                                         *)

\* The topics whose subscription has been tried.
Tried == {t \in DOMAIN handlers : handlers[t] \in {"consuming", "stopped"}}

TriedCounted == DOMAIN handlers \subseteq Topics /\ subscriber.started = Cardinality(Tried)

\* A delivery that waits for its handler has an attempt left.
TriesLeft ==
    \A d \in Deliveries :
        /\ deliveries[d].message \in DOMAIN Topic
        /\ deliveries[d].tries \in 0 .. MaxTries
        /\ deliveries[d].pc \in {"fetched", "backoff"} => deliveries[d].tries < MaxTries

\* The third idle poll never comes: the second one ends the polling.
PollsFew ==
    /\ tracker.idle <= 2
    /\ pc["main"] \in {"idle", "starting"} => tracker.idle = 0
    /\ pc["main"] = "polling" => tracker.idle < 2

ActiveFew == \A m \in DOMAIN Topic : tracker.active[m] <= Cardinality(Deliveries)

RouterBounds ==
    /\ cancelled \subseteq {"caller", "once", "inner"}
    /\ taken \in [DOMAIN Topic -> {"pending", "acked", "elsewhere"}]
    /\ TriedCounted
    /\ TriesLeft
    /\ PollsFew
    /\ ActiveFew

\* Topics are finitely many, and no more are tried than there are.
LEMMA TriedFew ==
    ASSUME DOMAIN handlers \subseteq Topics
    PROVE  IsFiniteSet(Tried) /\ Cardinality(Tried) \in 0 .. Cardinality(Topics)
  <1>1. Tried \subseteq Topics /\ IsFiniteSet(Topics)
    BY ComponentsAssumption DEF Tried
  <1>2. /\ IsFiniteSet(Tried) /\ Cardinality(Tried) <= Cardinality(Topics)
        /\ Cardinality(Tried) \in Nat /\ Cardinality(Topics) \in Nat
    BY <1>1, FS_Subset, FS_CardinalityType
  <1> QED BY <1>2

\* At the start nothing is tried, delivered or counted.
LEMMA RouterBoundsInit == Router!Init => RouterBounds
  <1> SUFFICES ASSUME Router!Init PROVE RouterBounds
    OBVIOUS
  <1>1. PICK registered \in SUBSET Topics : handlers = [t \in registered |-> "none"]
    BY DEF Router!Init
  <1>2. TriedCounted
    <2>1. Tried = {} /\ DOMAIN handlers \subseteq Topics /\ subscriber.started = 0
      BY <1>1 DEF Router!Init, Tried
    <2> QED BY <2>1, FS_EmptySet DEF TriedCounted
  <1>3. TriesLeft
    <2>1. Router!Free.message \in DOMAIN Topic
      BY ComponentsAssumption DEF Router!Free, Router!Messages
    <2>2. Router!Free.tries = 0 /\ Router!Free.pc = "free"
      BY DEF Router!Free
    <2>3. \A d \in Deliveries : deliveries[d] = Router!Free
      BY DEF Router!Init
    <2> QED BY <2>1, <2>2, <2>3, ComponentsAssumption DEF TriesLeft
  <1>4. ActiveFew
    <2>1. \A m \in DOMAIN Topic : tracker.active[m] = 0
      BY DEF Router!Init, Router!Messages
    <2>2. Cardinality(Deliveries) \in Nat
      BY ComponentsAssumption, FS_CardinalityType
    <2> QED BY <2>1, <2>2 DEF ActiveFew
  <1>5. PollsFew
    BY DEF Router!Init, PollsFew, Router!Threads, Router!Closers
  <1>6. /\ cancelled \subseteq {"caller", "once", "inner"}
        /\ taken \in [DOMAIN Topic -> {"pending", "acked", "elsewhere"}]
    BY DEF Router!Init, Router!Messages
  <1> QED BY <1>2, <1>3, <1>4, <1>5, <1>6 DEF RouterBounds

\* The steps of the threads.
ThreadStep ==
    \/ \E p \in Router!Threads : \/ Router!LockClose(p) \/ Router!SignalClose(p)
                                 \/ Router!FinishClose(p) \/ Router!AwaitClosed(p)
    \/ \E p \in Router!Closers : Router!CallClose(p)
    \/ Router!CloseDatabase \/ Router!EnterRun \/ Router!BeginSubscriptions
    \/ Router!Watch \/ Router!WatermillReturns
    \/ Router!CallRun \/ Router!RunReturned \/ Router!StartPolling \/ Router!CallerGone
    \/ Router!CancelCaller

\* Threads leave handlers, deliveries and the tracker alone; only they cancel contexts.
LEMMA ThreadStepBounds ==
    ASSUME RouterInv, RouterBounds, ThreadStep
    PROVE  RouterBounds'
  <1>1. UNCHANGED <<handlers, deliveries, taken, tracker>>
    BY DEF ThreadStep, Router!LockClose, Router!SignalClose, Router!FinishClose,
           Router!AwaitClosed, Router!CallClose, Router!CloseDatabase, Router!EnterRun,
           Router!BeginSubscriptions, Router!Watch, Router!WatermillReturns, Router!CallRun,
           Router!RunReturned, Router!Return, Router!StartPolling, Router!CallerGone,
           Router!CancelCaller, Router!dispatch, Router!lifecycle
  <1>2. subscriber'.started = subscriber.started
    <2>1. subscriber \in [begin : BOOLEAN, closing : BOOLEAN, failed : BOOLEAN, started : Int,
                          ready : BOOLEAN, open : BOOLEAN]
      BY DEF RouterInv, RouterTypes
    <2> QED BY <2>1
         DEF ThreadStep, Router!LockClose, Router!SignalClose, Router!FinishClose,
             Router!AwaitClosed, Router!CallClose, Router!CloseDatabase, Router!EnterRun,
             Router!BeginSubscriptions, Router!Watch, Router!WatermillReturns, Router!CallRun,
             Router!RunReturned, Router!Return, Router!StartPolling, Router!CallerGone,
             Router!CancelCaller, Router!dispatch, Router!lifecycle
  <1>3. cancelled' \subseteq cancelled \cup {"caller", "once", "inner"}
    BY DEF ThreadStep, Router!LockClose, Router!SignalClose, Router!FinishClose,
           Router!AwaitClosed, Router!CallClose, Router!CloseDatabase, Router!EnterRun,
           Router!BeginSubscriptions, Router!Watch, Router!WatermillReturns, Router!CallRun,
           Router!RunReturned, Router!Return, Router!StartPolling, Router!CallerGone,
           Router!CancelCaller, Router!dispatch, Router!lifecycle
  <1>4. PollsFew'
    <2>1. \/ pc'["main"] = pc["main"]
          \/ pc'["main"] \in {"draining", "returned"}
          \/ pc["main"] = "idle" /\ pc'["main"] \in {"starting", "draining"}
          \/ pc["main"] = "starting" /\ pc'["main"] = "polling"
      <3>1. pc \in [Router!Threads -> Stages] /\ "main" \in Router!Threads
        BY DEF RouterInv, RouterTypes, Router!Threads
      <3>2. ASSUME NEW p \in Router!Threads,
                   \/ Router!LockClose(p) \/ Router!SignalClose(p)
                   \/ Router!FinishClose(p) \/ Router!AwaitClosed(p)
            PROVE  pc'["main"] = pc["main"]
        <4>1. p # "main"
          BY <3>2 DEF RouterInv, Places, Router!LockClose, Router!SignalClose,
                      Router!FinishClose, Router!AwaitClosed
        <4> QED BY <3>1, <3>2, <4>1 DEF Router!LockClose, Router!SignalClose,
                   Router!FinishClose, Router!AwaitClosed, Router!Goto
      <3>3. ASSUME NEW p \in Router!Closers, Router!CallClose(p)
            PROVE  pc'["main"] = pc["main"]
        BY <3>1, <3>3 DEF Router!CallClose, Router!Goto, Router!Closers
      <3>4. CASE \/ Router!CloseDatabase \/ Router!EnterRun \/ Router!BeginSubscriptions
                 \/ Router!Watch \/ Router!WatermillReturns \/ Router!CancelCaller
        BY <3>1, <3>4 DEF Router!CloseDatabase, Router!EnterRun, Router!BeginSubscriptions,
                      Router!Watch, Router!WatermillReturns, Router!CancelCaller, Router!Goto,
                      Router!threads
      <3>5. CASE \/ Router!CallRun \/ Router!RunReturned \/ Router!StartPolling
                 \/ Router!CallerGone
        BY <3>1, <3>5 DEF Router!CallRun, Router!RunReturned, Router!StartPolling,
                      Router!CallerGone, Router!Return, Router!Goto
      <3> QED BY <3>2, <3>3, <3>4, <3>5 DEF ThreadStep
    <2> QED BY <1>1, <2>1 DEF RouterBounds, PollsFew
  <1>5. TriedCounted' /\ TriesLeft' /\ ActiveFew'
    BY <1>1, <1>2 DEF RouterBounds, TriedCounted, Tried, TriesLeft, ActiveFew
  <1> QED BY <1>1, <1>3, <1>4, <1>5 DEF RouterBounds

\* A poll counts the idle ones, and the second one is the last.
LEMMA PollBounds ==
    ASSUME RouterInv, RouterBounds, Router!Poll
    PROVE  RouterBounds'
  <1>1. /\ UNCHANGED <<handlers, subscriber, deliveries, taken>>
        /\ pc["main"] = "polling"
        /\ cancelled' \subseteq cancelled \cup {"once"}
    BY DEF Router!Poll
  <1>2. /\ tracker \in [active : [DOMAIN Topic -> Nat], retries : SUBSET DOMAIN Topic,
                        idle : Nat]
        /\ tracker.idle < 2 /\ pc \in [Router!Threads -> Stages] /\ "main" \in Router!Threads
    BY <1>1 DEF RouterInv, RouterTypes, RouterBounds, PollsFew, Router!Threads
  <1>3. /\ tracker'.active = tracker.active
        /\ tracker'.idle \in {0, tracker.idle + 1}
        /\ \/ pc' = pc /\ tracker'.idle < 2
           \/ pc'["main"] = "draining"
    BY <1>2 DEF Router!Poll, Router!Goto
  <1>4. PollsFew'
    BY <1>1, <1>2, <1>3 DEF PollsFew
  <1>5. TriedCounted' /\ TriesLeft' /\ ActiveFew'
    BY <1>1, <1>3 DEF RouterBounds, TriedCounted, Tried, TriesLeft, ActiveFew
  <1> QED BY <1>1, <1>4, <1>5 DEF RouterBounds

\* A subscription that was tried is counted once, and stays counted when it stops.
LEMMA HandlerBounds ==
    ASSUME RouterInv, RouterBounds, NEW t \in DOMAIN handlers,
           Router!Subscribe(t) \/ Router!Subscribed(t) \/ Router!StopHandler(t)
    PROVE  RouterBounds'
  <1>1. UNCHANGED <<pc, cancelled, taken, tracker>>
    BY DEF Router!Subscribe, Router!Subscribed, Router!StopHandler, Router!threads,
           Router!dispatch
  <1>2. /\ subscriber \in [begin : BOOLEAN, closing : BOOLEAN, failed : BOOLEAN, started : Int,
                           ready : BOOLEAN, open : BOOLEAN]
        /\ IsFiniteSet(Tried) /\ DOMAIN handlers \subseteq Topics
        /\ subscriber.started = Cardinality(Tried)
    BY TriedFew DEF RouterInv, RouterTypes, RouterBounds, TriedCounted
  <1>3. TriedCounted'
    <2>1. CASE handlers' = [handlers EXCEPT ![t] = "subscribing"] /\ subscriber' = subscriber
               /\ handlers[t] = "none"
      <3>1. Tried' = Tried /\ DOMAIN handlers' = DOMAIN handlers
        BY <2>1 DEF Tried
      <3> QED BY <1>2, <2>1, <3>1 DEF TriedCounted
    <2>2. ASSUME NEW to \in {"consuming", "stopped"}, NEW error \in BOOLEAN,
                 handlers[t] \in {"none", "subscribing"},
                 Router!SubscriptionStarted(t, to, error)
          PROVE  TriedCounted'
      <3>1. /\ DOMAIN handlers' = DOMAIN handlers
            /\ Tried' = Tried \cup {t} /\ t \notin Tried
        BY <2>2 DEF Tried, Router!SubscriptionStarted
      <3>2. subscriber'.started = subscriber.started + 1
        BY <1>2, <2>2 DEF Router!SubscriptionStarted
      <3>3. Cardinality(Tried \cup {t}) = Cardinality(Tried) + 1
        BY <1>2, <3>1, FS_AddElement
      <3> QED BY <1>2, <3>1, <3>2, <3>3 DEF TriedCounted
    <2>3. CASE Router!StopHandler(t)
      <3>1. /\ DOMAIN handlers' = DOMAIN handlers /\ Tried' = Tried
            /\ subscriber' = subscriber
        BY <2>3 DEF Tried, Router!StopHandler
      <3> QED BY <1>2, <3>1 DEF TriedCounted
    <2> QED BY <2>1, <2>2, <2>3 DEF Router!Subscribe, Router!Subscribed
  <1>4. TriesLeft'
    <2>1. CASE Router!Subscribe(t) \/ Router!Subscribed(t)
      BY <2>1 DEF RouterBounds, TriesLeft, Router!Subscribe, Router!Subscribed, Router!dispatch
    <2>2. CASE Router!StopHandler(t)
      <3>1. \A d \in Deliveries : /\ deliveries'[d].message = deliveries[d].message
                                 /\ deliveries'[d].pc = deliveries[d].pc
                                 /\ deliveries'[d].tries = deliveries[d].tries
        <4> TAKE d \in Deliveries
        <4>1. deliveries[d] \in DeliveryType
          BY DEF RouterInv, RouterTypes
        <4>2. deliveries'[d] = IF Topic[deliveries[d].message] = t
                               THEN [deliveries[d] EXCEPT !.live = FALSE] ELSE deliveries[d]
          BY <2>2 DEF Router!StopHandler
        <4> QED BY <4>1, <4>2 DEF DeliveryType
      <3> QED BY <3>1 DEF RouterBounds, TriesLeft
    <2> QED BY <2>1, <2>2
  <1>5. PollsFew' /\ ActiveFew'
    BY <1>1 DEF RouterBounds, PollsFew, ActiveFew
  <1> QED BY <1>1, <1>3, <1>4, <1>5 DEF RouterBounds

\* What a step of the deliveries leaves to be shown of the bounds.
LEMMA DeliveryBounds ==
    ASSUME RouterBounds, UNCHANGED <<pc, handlers, subscriber, cancelled>>,
           taken' \in [DOMAIN Topic -> {"pending", "acked", "elsewhere"}],
           tracker'.idle = tracker.idle,
           TriesLeft', ActiveFew'
    PROVE  RouterBounds'
  <1>1. TriedCounted' /\ PollsFew'
    BY DEF RouterBounds, TriedCounted, Tried, PollsFew
  <1> QED BY <1>1 DEF RouterBounds

\* One delivery moves to a place where it has the attempts it needs.
LEMMA MovedBounds ==
    ASSUME RouterInv, TriesLeft, NEW d \in Deliveries, NEW to \in DeliveryType,
           Router!Move(d, to),
           to.message \in DOMAIN Topic, to.tries \in 0 .. MaxTries,
           to.pc \in {"fetched", "backoff"} => to.tries < MaxTries
    PROVE  TriesLeft'
  <1>1. /\ deliveries'[d] = to
        /\ \A e \in Deliveries : e # d => deliveries'[e] = deliveries[e]
    BY Moved
  <1> QED BY <1>1 DEF TriesLeft

\* The count of a message follows its handlers in the worker, and is one at most
\* elsewhere.
LEMMA ActiveBounds ==
    ASSUME RouterInv', RouterBounds, mode' = mode, NEW d \in Deliveries,
           mode # "workerOnce" =>
              \A m \in DOMAIN Topic : tracker'.active[m] <= tracker.active[m]
                                      \/ tracker'.active[m] <= 1,
           \A m \in DOMAIN Topic : tracker.active[m] \in Nat /\ tracker'.active[m] \in Nat
    PROVE  ActiveFew'
  <1>1. Cardinality(Deliveries) \in Nat /\ Cardinality(Deliveries) >= 1
    <2>1. Cardinality(Deliveries) \in Nat /\ Cardinality(Deliveries) # 0
      BY ComponentsAssumption, FS_CardinalityType, FS_EmptySet
    <2> QED BY <2>1
  <1>2. CASE mode = "workerOnce"
    <2>1. \A m \in DOMAIN Topic : tracker'.active[m] = Cardinality(Carried(m)')
      BY <1>2 DEF RouterInv, CountsRight
    <2>2. \A m : Cardinality(Carried(m)') <= Cardinality(Deliveries)
      <3>1. \A m : Carried(m)' \subseteq Deliveries
        BY DEF Carried
      <3> QED BY <3>1, ComponentsAssumption, FS_Subset
    <2> QED BY <2>1, <2>2 DEF ActiveFew
  <1>3. CASE mode # "workerOnce"
    BY <1>1, <1>3 DEF RouterBounds, ActiveFew
  <1> QED BY <1>2, <1>3

\* A fetched delivery has no attempt behind it.
LEMMA FetchBounds ==
    ASSUME RouterInv, RouterBounds, NEW d \in Deliveries, NEW m \in DOMAIN Topic,
           Router!Fetch(d, m)
    PROVE  RouterBounds'
  <1> DEFINE to == [pc |-> "fetched", message |-> m, live |-> TRUE, tries |-> 0]
  <1>1. /\ UNCHANGED <<pc, handlers, subscriber, cancelled, taken, tracker>>
        /\ Router!Move(d, to)
    BY DEF Router!Fetch, Router!threads, Router!lifecycle
  <1>2. /\ to \in DeliveryType /\ to.message \in DOMAIN Topic /\ to.tries \in 0 .. MaxTries
        /\ to.tries < MaxTries
    BY ComponentsAssumption DEF DeliveryType
  <1> HIDE DEF to
  <1>3. TriesLeft'
    BY <1>1, <1>2, MovedBounds DEF RouterBounds
  <1>4. ActiveFew'
    BY <1>1 DEF RouterBounds, ActiveFew
  <1> QED BY <1>1, <1>3, <1>4, DeliveryBounds DEF RouterBounds

\* An attempt is made only where one is left, and counted for its message.
LEMMA EnterHandlerBounds ==
    ASSUME RouterInv, RouterInv', RouterBounds, NEW d \in Deliveries, Router!EnterHandler(d)
    PROVE  RouterBounds'
  <1> DEFINE m == deliveries[d].message
             to == [deliveries[d] EXCEPT !.pc = "active", !.tries = @ + 1]
             count == IF mode = "once" THEN 1 ELSE tracker.active[m] + 1
  <1>1. /\ UNCHANGED <<mode, pc, handlers, subscriber, cancelled, taken>>
        /\ deliveries[d].pc \in {"fetched", "backoff"} /\ Router!Move(d, to)
    BY DEF Router!EnterHandler, Router!threads, Router!lifecycle
  <1>2. \/ mode = "run" /\ tracker' = tracker
        \/ /\ mode # "run"
           /\ tracker' = [tracker EXCEPT !.active[m] = count, !.retries = @ \ {m}]
    BY Zenon DEF Router!EnterHandler, Router!StartDelivery, Router!Once
  <1>3. /\ deliveries[d] \in DeliveryType /\ m \in DOMAIN Topic
        /\ deliveries[d].tries \in 0 .. MaxTries /\ deliveries[d].tries < MaxTries
    BY <1>1, AtWork DEF RouterBounds, TriesLeft
  <1>4. /\ to \in DeliveryType /\ to.message \in DOMAIN Topic /\ to.tries \in 0 .. MaxTries
        /\ to.pc = "active"
    <2> DEFINE tries == deliveries[d].tries + 1
    <2>1. tries \in 0 .. MaxTries /\ tries \in Int
      BY <1>3, ComponentsAssumption
    <2>2. to = [deliveries[d] EXCEPT !.pc = "active", !.tries = tries]
      OBVIOUS
    <2> HIDE DEF tries, to
    <2> QED BY <1>3, <2>1, <2>2 DEF DeliveryType
  <1>5. /\ tracker \in [active : [DOMAIN Topic -> Nat], retries : SUBSET DOMAIN Topic,
                        idle : Nat]
        /\ mode = "once" => count = 1
    BY DEF RouterInv, RouterTypes
  <1> HIDE DEF to, count, m
  <1>6. /\ tracker'.idle = tracker.idle
        /\ mode # "workerOnce" =>
              \A n \in DOMAIN Topic : tracker'.active[n] \in {tracker.active[n], 1}
        /\ \A n \in DOMAIN Topic : tracker.active[n] \in Nat
    <2>1. CASE mode = "run" /\ tracker' = tracker
      BY <1>5, <2>1
    <2>2. CASE /\ mode # "run"
               /\ tracker' = [tracker EXCEPT !.active[m] = count, !.retries = @ \ {m}]
      BY <1>3, <1>5, <2>2 DEF RouterInv, RouterTypes
    <2> QED BY <1>2, <2>1, <2>2
  <1>7. \A n \in DOMAIN Topic : tracker'.active[n] \in Nat
    BY DEF RouterInv, RouterTypes
  <1>8. ActiveFew'
    BY <1>1, <1>6, <1>7, ActiveBounds
  <1>9. TriesLeft'
    BY <1>1, <1>4, MovedBounds DEF RouterBounds
  <1> QED BY <1>1, <1>6, <1>8, <1>9, DeliveryBounds DEF RouterBounds

\* An acknowledgement is of a message.
LEMMA AckTyped ==
    ASSUME RouterBounds, NEW d \in Deliveries, Router!Ack(d) \/ taken' = taken
    PROVE  taken' \in [DOMAIN Topic -> {"pending", "acked", "elsewhere"}]
  BY DEF RouterBounds, TriesLeft, Router!Ack

\* A delivery that is over is free, and as such of the type.
LEMMA FreeBounds ==
    /\ Router!Free \in DeliveryType /\ Router!Free.message \in DOMAIN Topic
    /\ Router!Free.tries \in 0 .. MaxTries /\ Router!Free.pc = "free"
  <1>1. Router!Free.message \in DOMAIN Topic
    BY ComponentsAssumption DEF Router!Free, Router!Messages
  <1> QED BY <1>1, ComponentsAssumption DEF Router!Free, DeliveryType

\* The end of an attempt.
LEMMA FinishBounds ==
    ASSUME RouterInv, RouterInv', RouterBounds, NEW d \in Deliveries,
           Router!HandlerEnds(d) \/ Router!HandlerFails(d)
    PROVE  RouterBounds'
  <1> DEFINE m == deliveries[d].message
             count == Router!Finished(m)
             failed == [deliveries[d] EXCEPT !.pc = "failed"]
  <1>1. /\ UNCHANGED <<mode, pc, handlers, subscriber, cancelled>>
        /\ deliveries[d].pc = "active"
        /\ Router!Ack(d) \/ taken' = taken
        /\ Router!Move(d, Router!Free) \/ Router!Move(d, failed)
    BY DEF Router!HandlerEnds, Router!HandlerFails, Router!threads, Router!lifecycle
  <1>2. /\ deliveries[d] \in DeliveryType /\ m \in DOMAIN Topic
        /\ deliveries[d].tries \in 0 .. MaxTries
    BY <1>1, AtWork DEF RouterBounds, TriesLeft
  <1>3. /\ failed \in DeliveryType /\ failed.message \in DOMAIN Topic
        /\ failed.tries \in 0 .. MaxTries /\ failed.pc = "failed"
    BY <1>2 DEF DeliveryType
  <1>4. tracker' = [tracker EXCEPT !.active[m] = count]
    BY Zenon DEF Router!HandlerEnds, Router!HandlerFails, Router!FinishDelivery
  <1>5. /\ tracker \in [active : [DOMAIN Topic -> Nat], retries : SUBSET DOMAIN Topic,
                        idle : Nat]
        /\ count <= tracker.active[m]
    <2>1. /\ tracker \in [active : [DOMAIN Topic -> Nat], retries : SUBSET DOMAIN Topic,
                          idle : Nat]
          /\ tracker.active[m] \in Nat
      BY <1>2 DEF RouterInv, RouterTypes
    <2> QED BY <2>1 DEF Router!Finished
  <1> HIDE DEF m, count, failed
  <1>6. /\ tracker'.idle = tracker.idle
        /\ \A n \in DOMAIN Topic : /\ tracker'.active[n] <= tracker.active[n]
                                   /\ tracker.active[n] \in Nat
    BY <1>2, <1>4, <1>5
  <1>7. \A n \in DOMAIN Topic : tracker'.active[n] \in Nat
    BY DEF RouterInv, RouterTypes
  <1>8. ActiveFew'
    BY <1>1, <1>6, <1>7, ActiveBounds
  <1>9. TriesLeft'
    BY <1>1, <1>3, FreeBounds, MovedBounds DEF RouterBounds
  <1> QED BY <1>1, <1>6, <1>8, <1>9, AckTyped, DeliveryBounds

\* A backoff comes before the last attempt only.
LEMMA RetryBounds ==
    ASSUME RouterInv, RouterBounds, NEW d \in Deliveries, Router!Retry(d)
    PROVE  RouterBounds'
  <1> DEFINE last == deliveries[d].tries = MaxTries
             waiting == [deliveries[d] EXCEPT !.pc = "backoff"]
  <1>1. /\ UNCHANGED <<mode, pc, handlers, subscriber, cancelled>>
        /\ deliveries[d].pc = "failed"
        /\ Router!Ack(d) \/ taken' = taken
    BY DEF Router!Retry, Router!threads, Router!lifecycle
  <1>2. Router!Move(d, IF last THEN Router!Free ELSE waiting)
    BY Zenon DEF Router!Retry
  <1>3. /\ deliveries[d] \in DeliveryType /\ deliveries[d].message \in DOMAIN Topic
        /\ deliveries[d].tries \in 0 .. MaxTries
    BY <1>1, AtWork DEF RouterBounds, TriesLeft
  <1>4. /\ waiting \in DeliveryType /\ waiting.message \in DOMAIN Topic
        /\ waiting.tries \in 0 .. MaxTries
        /\ ~last => waiting.tries < MaxTries
    BY <1>3, ComponentsAssumption DEF DeliveryType
  <1>5. tracker'.idle = tracker.idle /\ tracker'.active = tracker.active
    <2>1. tracker \in [active : [DOMAIN Topic -> Nat], retries : SUBSET DOMAIN Topic,
                       idle : Nat]
      BY DEF RouterInv, RouterTypes
    <2> QED BY <2>1 DEF Router!Retry
  <1> HIDE DEF last, waiting
  <1>6. TriesLeft'
    <2>1. CASE last
      BY <1>2, <2>1, FreeBounds, MovedBounds DEF RouterBounds
    <2>2. CASE ~last
      BY <1>2, <1>4, <2>2, MovedBounds DEF RouterBounds
    <2> QED BY <2>1, <2>2
  <1>7. ActiveFew'
    BY <1>5 DEF RouterBounds, ActiveFew
  <1> QED BY <1>1, <1>5, <1>6, <1>7, AckTyped, DeliveryBounds

\* Deliveries that are given up or abandoned, and messages taken elsewhere.
LEMMA LossBounds ==
    ASSUME RouterInv, RouterBounds,
           \/ \E d \in Deliveries : Router!GiveUp(d) \/ Router!Abandon(d)
           \/ \E m \in DOMAIN Topic : Router!TakenElsewhere(m)
    PROVE  RouterBounds'
  <1>1. UNCHANGED <<pc, handlers, subscriber, cancelled, tracker>>
    BY DEF Router!GiveUp, Router!Abandon, Router!TakenElsewhere, Router!threads,
           Router!lifecycle
  <1>2. ActiveFew'
    BY <1>1 DEF RouterBounds, ActiveFew
  <1>3. ASSUME NEW d \in Deliveries, Router!GiveUp(d)
        PROVE  TriesLeft' /\ taken' = taken
    BY <1>3, FreeBounds, MovedBounds DEF RouterBounds, Router!GiveUp
  <1>4. ASSUME NEW d \in Deliveries, Router!Abandon(d)
        PROVE  TriesLeft' /\ taken' = taken
    <2> DEFINE to == [deliveries[d] EXCEPT !.live = FALSE]
    <2>1. deliveries[d] \in DeliveryType
      BY AtWork
    <2>2. /\ to \in DeliveryType /\ to.message = deliveries[d].message
          /\ to.tries = deliveries[d].tries /\ to.pc = deliveries[d].pc
      BY <2>1 DEF DeliveryType
    <2>3. Router!Move(d, to) /\ taken' = taken
      BY <1>4 DEF Router!Abandon
    <2> HIDE DEF to
    <2>4. TriesLeft
      BY DEF RouterBounds
    <2> QED BY <2>2, <2>3, <2>4, MovedBounds DEF TriesLeft
  <1>5. ASSUME NEW m \in DOMAIN Topic, Router!TakenElsewhere(m)
        PROVE  /\ TriesLeft'
               /\ taken' \in [DOMAIN Topic -> {"pending", "acked", "elsewhere"}]
    BY <1>5 DEF RouterBounds, TriesLeft, Router!TakenElsewhere
  <1>6. TriesLeft' /\ taken' \in [DOMAIN Topic -> {"pending", "acked", "elsewhere"}]
    BY <1>3, <1>4, <1>5 DEF RouterBounds
  <1> QED BY <1>1, <1>2, <1>6, DeliveryBounds

\* Every step of the router keeps the bounds.
LEMMA RouterBoundsStep ==
    RouterInv /\ RouterInv' /\ RouterBounds /\ [Router!Next]_routerVars => RouterBounds'
  <1> SUFFICES ASSUME RouterInv, RouterInv', RouterBounds, [Router!Next]_routerVars
               PROVE  RouterBounds'
    OBVIOUS
  <1>1. CASE UNCHANGED routerVars
    BY <1>1 DEF routerVars, RouterBounds, TriedCounted, Tried, TriesLeft, PollsFew, ActiveFew
  <1>2. CASE ThreadStep
    BY <1>2, ThreadStepBounds
  <1>3. CASE Router!Poll
    BY <1>3, PollBounds
  <1>4. ASSUME NEW t \in DOMAIN handlers,
               Router!Subscribe(t) \/ Router!Subscribed(t) \/ Router!StopHandler(t)
        PROVE  RouterBounds'
    BY <1>4, HandlerBounds
  <1>5. ASSUME NEW d \in Deliveries,
               \/ \E m \in DOMAIN Topic : Router!Fetch(d, m)
               \/ Router!EnterHandler(d) \/ Router!HandlerEnds(d) \/ Router!HandlerFails(d)
               \/ Router!Retry(d)
        PROVE  RouterBounds'
    BY <1>5, FetchBounds, EnterHandlerBounds, FinishBounds, RetryBounds
  <1>6. CASE \/ \E d \in Deliveries : Router!GiveUp(d) \/ Router!Abandon(d)
             \/ \E m \in DOMAIN Topic : Router!TakenElsewhere(m)
    BY <1>6, LossBounds
  <1> QED BY <1>1, <1>2, <1>3, <1>4, <1>5, <1>6
       DEF Router!Next, Router!Proceed, Router!Registered, Router!Messages, ThreadStep

\* The subscriber counts every subscription that was tried and no other, a delivery
\* is attempted MaxTries times at most, and the second idle poll is the last
\* (lifecycleSubscriber, retryLifecycleMiddleware, RunOnce).
THEOREM RouterBounded == ComponentsSpec => []RouterBounds
  <1>1. ComponentsInit => RouterBounds
    BY RouterBoundsInit DEF ComponentsInit
  <1>2. /\ RouterInv /\ RouterInv' /\ RouterBounds
        /\ [ComponentsNext]_<<part, vars, importVars, linkVars, routerVars, agentVars>>
        => RouterBounds'
    BY RouterTurns, RouterBoundsStep
  <1> QED BY <1>1, <1>2, RouterInvariant, PTL DEF ComponentsSpec

\* The router counts as its proofs do.
LEMMA CountsSame == \A S : Router!Cardinality(S) = Cardinality(S)
  BY DEF Router!Cardinality, Cardinality

\* The invariant and the bounds give the types of the specification.
LEMMA RouterTyped == RouterInv /\ RouterBounds => Router!TypeOK
  <1> SUFFICES ASSUME RouterInv, RouterBounds PROVE Router!TypeOK
    OBVIOUS
  <1>1. subscriber.started \in 0 .. Cardinality(Topics)
    BY TriedFew DEF RouterBounds, TriedCounted
  <1>2. subscriber \in [begin : BOOLEAN, closing : BOOLEAN, failed : BOOLEAN,
                        started : 0 .. Cardinality(Topics), ready : BOOLEAN, open : BOOLEAN]
    BY <1>1 DEF RouterInv, RouterTypes
  <1>3. deliveries \in [Deliveries ->
                          [pc : {"free", "fetched", "active", "failed", "backoff"},
                           message : DOMAIN Topic, live : BOOLEAN, tries : 0 .. MaxTries]]
    <2>1. \A d \in Deliveries :
             deliveries[d] \in [pc : {"free", "fetched", "active", "failed", "backoff"},
                                message : DOMAIN Topic, live : BOOLEAN, tries : 0 .. MaxTries]
      BY DEF RouterInv, RouterTypes, DeliveryType, RouterBounds, TriesLeft
    <2> QED BY <2>1 DEF RouterInv, RouterTypes
  <1>4. /\ tracker.active \in [DOMAIN Topic -> 0 .. Cardinality(Deliveries)]
        /\ tracker.retries \subseteq DOMAIN Topic /\ tracker.idle \in 0 .. 2
    <2>1. /\ tracker \in [active : [DOMAIN Topic -> Nat], retries : SUBSET DOMAIN Topic,
                          idle : Nat]
          /\ Cardinality(Deliveries) \in Nat
      BY ComponentsAssumption, FS_CardinalityType DEF RouterInv, RouterTypes
    <2>2. \A m \in DOMAIN Topic : tracker.active[m] \in 0 .. Cardinality(Deliveries)
      BY <2>1 DEF RouterBounds, ActiveFew
    <2> QED BY <2>1, <2>2 DEF RouterBounds, PollsFew
  <1>5. /\ mode \in {"run", "once", "workerOnce"}
        /\ pc \in [Router!Threads -> Stages]
        /\ sawStarted \in [Router!Threads -> BOOLEAN]
        /\ router \in [started : BOOLEAN, closed : BOOLEAN, closeDone : BOOLEAN,
                       wmClosed : BOOLEAN]
        /\ handlers \in [DOMAIN handlers -> {"none", "subscribing", "consuming", "stopped"}]
        /\ dbOpen \in BOOLEAN
        /\ abandons \in 0 .. MaxAbandons
    BY DEF RouterInv, RouterTypes
  <1>6. /\ cancelled \subseteq {"caller", "once", "inner"}
        /\ taken \in [DOMAIN Topic -> {"pending", "acked", "elsewhere"}]
    BY DEF RouterBounds
  <1> QED BY <1>2, <1>3, <1>4, <1>5, <1>6, CountsSame, Zenon
       DEF Stages, Router!TypeOK, Router!Registered, Router!Messages

===============================================================================
