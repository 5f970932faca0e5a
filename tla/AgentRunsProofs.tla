--------------------------- MODULE AgentRunsProofs ---------------------------
(* Theorems about the agent's runs and streams of Components, for any requests *)
(* and readers, any buffer of a channel and any bounds on events and faults.   *)
EXTENDS Components, SequenceTheorems, TLAPS

-----------------------------------------------------------------------------
(* The inductive invariant.                                                  *)

Event == [run : Requests, n : Nat]

Listing == [created : Nat, title : Event \cup {None}]

\* Where a run can be: before it is registered, and after its bus is closed.
Fresh == {"idle", "counted", "refused"}
Over  == {"closed", "ended"}

RunType ==
    [pc : Fresh \cup Over \cup {"starting", "running"},
     counted : Nat, before : Nat, sure : BOOLEAN, yielded : Nat]

BusType ==
    [buffer : Seq(Event), subscribers : SUBSET Agent!Subscribers,
     unsent : SUBSET Agent!Subscribers, closed : BOOLEAN]

StreamType ==
    [pc : {"idle", "captured", "loaded", "streaming", "leaving", "left", "absent", "done"},
     bus : Requests \cup {None}, past : Seq(Event), got : Seq(Event), queue : Seq(Event),
     shut : BOOLEAN]

AgentTypes ==
    /\ exists \in BOOLEAN
    /\ history \in Seq(Event)
    /\ metadata \in Listing \cup {None}
    /\ active \in Requests \cup {None}
    /\ agents \in [Requests -> RunType]
    /\ buses \in [Requests -> BusType]
    /\ streams \in [Agent!Subscribers -> StreamType]

\* The run that is registered and not removed is the active one.
OneActive ==
    \A q \in Requests : active = q <=> agents[q].pc \in {"starting", "running", "closed"}

\* A bus has subscribers from its run's registration to its close, and waits only for
\* those, with an event to give.
BusesAgree ==
    \A q \in Requests :
        /\ buses[q].unsent \subseteq buses[q].subscribers
        /\ buses[q].unsent # {} => buses[q].buffer # <<>>
        /\ buses[q].closed <=> agents[q].pc \in Over
        /\ buses[q].closed => buses[q].subscribers = {}
        /\ agents[q].pc \in Fresh =>
              /\ buses[q].buffer = <<>> /\ buses[q].subscribers = {}
              /\ streams[q].pc = "idle"
        /\ \A s \in buses[q].subscribers :
              /\ streams[s].bus = q /\ ~streams[s].shut
              /\ streams[s].pc \in {"streaming", "leaving", "absent"}

\* What a subscriber was given and what waits for it is what was published.
Given(s, q) ==
    buses[q].buffer =
        IF s \in buses[q].unsent
        THEN Append(streams[s].got \o streams[s].queue, buses[q].buffer[Len(buses[q].buffer)])
        ELSE streams[s].got \o streams[s].queue

StreamAgrees(s) ==
    LET q == streams[s].bus IN
    /\ streams[s].pc \in {"idle", "captured", "loaded"} =>
          streams[s].got = <<>> /\ streams[s].queue = <<>> /\ ~streams[s].shut
    /\ streams[s].pc \in {"loaded", "streaming", "leaving"} => q # None
    /\ q # None => agents[q].pc \notin Fresh
    /\ streams[s].shut => q # None /\ buses[q].closed
    /\ streams[s].pc = "streaming" =>
          /\ s \in buses[q].subscribers \/ streams[s].shut
          /\ Given(s, q)
    /\ streams[s].pc = "done" /\ q # None =>
          /\ buses[q].closed
          /\ streams[s].got = buses[q].buffer /\ streams[s].queue = <<>>

StreamsAgree == \A s \in Agent!Subscribers : StreamAgrees(s)

\* A sure count is the number of events stored before the run.
CountsSure ==
    \A q \in Requests :
        /\ agents[q].counted <= Len(history) /\ agents[q].before <= Len(history)
        /\ agents[q].pc = "counted" /\ agents[q].sure =>
              active = None /\ agents[q].counted = Len(history)
        /\ agents[q].pc \notin Fresh /\ agents[q].sure => agents[q].counted = agents[q].before

\* What a reader has loaded.
ReadSpliced(r) ==
    LET q == streams[r].bus IN
    /\ /\ q # None /\ agents[q].sure
       /\ streams[r].pc \in {"loaded", "streaming", "done"}
       => streams[r].past = SubSeq(history, 1, agents[q].before)
    /\ streams[r].pc = "done" /\ q = None =>
          /\ Len(streams[r].past) <= Len(history)
          /\ streams[r].past = SubSeq(history, 1, Len(streams[r].past))

ReadsSpliced == \A r \in Readers : ReadSpliced(r)

\* Only a session that was created is listed, and runs.
Listed ==
    /\ metadata # None => exists
    /\ \A q \in Requests : agents[q].pc = "running" => exists

AgentInv ==
    /\ AgentTypes
    /\ OneActive
    /\ BusesAgree
    /\ StreamsAgree
    /\ CountsSure
    /\ ReadsSpliced
    /\ Listed

-----------------------------------------------------------------------------
(* Sequences.                                                                *)

\* What is sent to a channel, and what is taken from it, stays in the stream.
LEMMA SentKept ==
    \A a, b \in Seq(Event) : \A e \in Event : Append(a \o b, e) = a \o Append(b, e)
  <1> SUFFICES ASSUME NEW a \in Seq(Event), NEW b \in Seq(Event), NEW e \in Event
               PROVE  Append(a \o b, e) = a \o Append(b, e)
    OBVIOUS
  <1>1. <<e>> \in Seq(Event) /\ a \o b \in Seq(Event)
    BY ConcatProperties
  <1>2. Append(a \o b, e) = (a \o b) \o <<e>> /\ Append(b, e) = b \o <<e>>
    BY <1>1, AppendIsConcat
  <1> QED BY <1>1, <1>2, ConcatAssociative

\* Moving the head of a queue to the end of what was taken keeps their concatenation.
LEMMA TakenKept ==
    ASSUME NEW S, NEW a \in Seq(S), NEW b \in Seq(S), b # <<>>
    PROVE  /\ Head(b) \in S /\ Tail(b) \in Seq(S) /\ Len(Tail(b)) = Len(b) - 1
           /\ Append(a, Head(b)) \o Tail(b) = a \o b
  <1>1. /\ Head(b) \in S /\ Tail(b) \in Seq(S) /\ <<Head(b)>> \in Seq(S)
        /\ Len(Tail(b)) = Len(b) - 1
    BY HeadTailProperties
  <1>2. b = <<Head(b)>> \o Tail(b)
    <2>1. Len(b) \in Nat /\ Len(b) >= 1
      BY EmptySeq
    <2>2. SubSeq(b, 1, Len(b)) = <<b[1]>> \o SubSeq(b, 2, Len(b))
      BY <2>1, SubSeqRecursiveFirst
    <2> QED BY <2>1, <2>2, SubSeqFull, TailIsSubSeq
  <1>3. Append(a, Head(b)) = a \o <<Head(b)>>
    BY <1>1, AppendIsConcat
  <1>4. (a \o <<Head(b)>>) \o Tail(b) = a \o (<<Head(b)>> \o Tail(b))
    BY <1>1, ConcatAssociative
  <1> QED BY <1>1, <1>2, <1>3, <1>4

\* The last event of a buffer, and the beginning of one that grows.
LEMMA Grown ==
    ASSUME NEW S, NEW a \in Seq(S), NEW e \in S
    PROVE  /\ Append(a, e) \in Seq(S) /\ Len(Append(a, e)) = Len(a) + 1
           /\ Append(a, e) # <<>>
           /\ Append(a, e)[Len(Append(a, e))] = e
           /\ \A n \in 0 .. Len(a) : SubSeq(Append(a, e), 1, n) = SubSeq(a, 1, n)
  <1>1. /\ Append(a, e) \in Seq(S) /\ Len(Append(a, e)) = Len(a) + 1
        /\ Append(a, e) # <<>>
        /\ Append(a, e)[Len(a) + 1] = e
    BY AppendProperties
  <1>2. ASSUME NEW n \in 0 .. Len(a) PROVE SubSeq(Append(a, e), 1, n) = SubSeq(a, 1, n)
    <2>1. CASE n = 0
      BY <2>1, SubSeqEmpty
    <2>2. CASE n # 0
      <3>1. n \in 1 .. Len(a) /\ 1 \in 1 .. Len(a) /\ <<e>> \in Seq(S)
        BY <2>2, LenProperties
      <3> QED BY <3>1, AppendIsConcat, SubSeqOfConcat1
    <2> QED BY <2>1, <2>2
  <1> QED BY <1>1, <1>2

-----------------------------------------------------------------------------
(* The initial state.                                                        *)

\* No run, no stream: the invariant holds at the start.
LEMMA AgentInit == Agent!Init => AgentInv
  <1> SUFFICES ASSUME Agent!Init PROVE AgentInv
    OBVIOUS
  <1>1. /\ exists = FALSE /\ history = <<>> /\ metadata = None /\ active = None
        /\ <<>> \in Seq(Event) /\ Len(<<>>) = 0
    BY EmptySeq DEF Agent!Init
  <1>2. \A q \in Requests :
           agents[q] = [pc |-> "idle", counted |-> 0, before |-> 0, sure |-> TRUE, yielded |-> 0]
    BY DEF Agent!Init
  <1>3. \A q \in Requests :
           buses[q] = [buffer |-> <<>>, subscribers |-> {}, unsent |-> {}, closed |-> FALSE]
    BY DEF Agent!Init
  <1>4. \A s \in Agent!Subscribers :
           streams[s] = [pc |-> "idle", bus |-> None, past |-> <<>>, got |-> <<>>,
                         queue |-> <<>>, shut |-> FALSE]
    BY DEF Agent!Init
  <1>5. AgentTypes
    <2>1. agents \in [Requests -> RunType]
      BY DEF Agent!Init, RunType, Fresh, Over
    <2>2. buses \in [Requests -> BusType]
      BY <1>1 DEF Agent!Init, BusType
    <2>3. streams \in [Agent!Subscribers -> StreamType]
      BY <1>1 DEF Agent!Init, StreamType
    <2> QED BY <1>1, <2>1, <2>2, <2>3 DEF AgentTypes
  <1>6. OneActive
    BY <1>1, <1>2, ComponentsAssumption DEF OneActive
  <1>7. BusesAgree
    BY <1>2, <1>3, <1>4 DEF BusesAgree, Fresh, Over, Agent!Subscribers
  <1>8. StreamsAgree
    BY <1>4 DEF StreamsAgree, StreamAgrees
  <1>9. CountsSure
    BY <1>1, <1>2 DEF CountsSure, Fresh
  <1>10. ReadsSpliced
    BY <1>4 DEF ReadsSpliced, ReadSpliced, Agent!Subscribers
  <1>11. Listed
    BY <1>1, <1>2 DEF Listed
  <1> QED BY <1>5, <1>6, <1>7, <1>8, <1>9, <1>10, <1>11 DEF AgentInv

-----------------------------------------------------------------------------
(* Parts of the state that a step leaves alone.                              *)

\* Streams and buses stay, and no run is registered or closed.
LEMMA StreamsUntouched ==
    ASSUME AgentInv, UNCHANGED <<buses, streams>>,
           \A q \in Requests : /\ agents'[q].pc \in Fresh <=> agents[q].pc \in Fresh
                               /\ agents'[q].pc \in Over <=> agents[q].pc \in Over
    PROVE  BusesAgree' /\ StreamsAgree'
  <1>1. BusesAgree'
    BY DEF AgentInv, BusesAgree
  <1>2. \A s \in Agent!Subscribers : streams[s].bus # None => streams[s].bus \in Requests
    BY DEF AgentInv, AgentTypes, StreamType
  <1>3. StreamsAgree'
    BY <1>2 DEF AgentInv, StreamsAgree, StreamAgrees, Given
  <1> QED BY <1>1, <1>3

\* Events are only added, and what was read before a run stays before it.
LEMMA ReadsUntouched ==
    ASSUME AgentInv,
           \A r \in Readers : /\ streams'[r].pc = streams[r].pc
                              /\ streams'[r].bus = streams[r].bus
                              /\ streams'[r].past = streams[r].past,
           \/ history' = history
           \/ \E e \in Event : history' = Append(history, e),
           \A q \in Requests : agents[q].pc \notin Fresh =>
              agents'[q].before = agents[q].before /\ agents'[q].sure = agents[q].sure
    PROVE  ReadsSpliced'
  <1>1. history \in Seq(Event) /\ Len(history) \in Nat
    BY LenProperties DEF AgentInv, AgentTypes
  <1>2. \A n \in 0 .. Len(history) :
           SubSeq(history', 1, n) = SubSeq(history, 1, n) /\ n <= Len(history')
    BY <1>1, Grown
  <1> SUFFICES ASSUME NEW r \in Readers
               PROVE  LET q == streams[r].bus IN
                        /\ /\ q # None /\ agents'[q].sure
                           /\ streams[r].pc \in {"loaded", "streaming", "done"}
                           => streams[r].past = SubSeq(history', 1, agents'[q].before)
                        /\ streams[r].pc = "done" /\ q = None =>
                              /\ Len(streams[r].past) <= Len(history')
                              /\ streams[r].past = SubSeq(history', 1, Len(streams[r].past))
    BY DEF ReadsSpliced, ReadSpliced
  <1>3. streams[r] \in StreamType /\ Len(streams[r].past) \in Nat
    BY LenProperties DEF AgentInv, AgentTypes, StreamType, Agent!Subscribers
  <1>4. ASSUME streams[r].bus # None, agents'[streams[r].bus].sure,
               streams[r].pc \in {"loaded", "streaming", "done"}
        PROVE  streams[r].past = SubSeq(history', 1, agents'[streams[r].bus].before)
    <2> DEFINE q == streams[r].bus
    <2>1. q \in Requests /\ agents[q].pc \notin Fresh /\ agents[q] \in RunType
      BY <1>3, <1>4 DEF AgentInv, AgentTypes, StreamsAgree, StreamAgrees, StreamType,
                            Agent!Subscribers
    <2>2. agents[q].before \in 0 .. Len(history)
      BY <2>1, <1>1 DEF AgentInv, CountsSure, RunType
    <2>3. streams[r].past = SubSeq(history, 1, agents[q].before)
      BY <1>4, <2>1 DEF AgentInv, ReadsSpliced, ReadSpliced
    <2> QED BY <1>2, <2>1, <2>2, <2>3
  <1>5. ASSUME streams[r].pc = "done", streams[r].bus = None
        PROVE  /\ Len(streams[r].past) <= Len(history')
               /\ streams[r].past = SubSeq(history', 1, Len(streams[r].past))
    <2>1. /\ Len(streams[r].past) <= Len(history)
          /\ streams[r].past = SubSeq(history, 1, Len(streams[r].past))
      BY <1>5 DEF AgentInv, ReadsSpliced, ReadSpliced
    <2> QED BY <1>1, <1>2, <1>3, <2>1
  <1> QED BY <1>4, <1>5

\* A step that changes one run's record and what it stores.
LEMMA RunSteps ==
    ASSUME AgentInv, NEW q \in Requests, NEW to \in RunType,
           agents' = [agents EXCEPT ![q] = to],
           active' = active, UNCHANGED <<buses, streams>>,
           exists' \in BOOLEAN, exists => exists', metadata' \in Listing \cup {None},
           metadata' # None => exists', to.pc = "running" => exists',
           \/ history' = history
           \/ agents[q].pc = "running" /\ \E e \in Event : history' = Append(history, e),
           to.pc \in Fresh <=> agents[q].pc \in Fresh,
           to.pc \in Over <=> agents[q].pc \in Over,
           to.pc = "ended" <=> agents[q].pc = "ended",
           to.before = agents[q].before,
           agents[q].pc \notin Fresh => to.sure = agents[q].sure /\ to.counted = agents[q].counted,
           to.counted <= Len(history),
           to.pc = "counted" /\ to.sure => active = None /\ to.counted = Len(history)
    PROVE  AgentInv'
  <1>1. /\ agents' \in [Requests -> RunType] /\ agents'[q] = to
        /\ \A p \in Requests : p # q => agents'[p] = agents[p]
    BY DEF AgentInv, AgentTypes
  <1>2. /\ history' \in Seq(Event) /\ Len(history') \in Nat /\ Len(history) \in Nat
        /\ Len(history') >= Len(history)
        /\ history' # history => agents[q].pc = "running"
    <2>1. history \in Seq(Event) /\ Len(history) \in Nat
      BY LenProperties DEF AgentInv, AgentTypes
    <2>2. ASSUME NEW e \in Event, history' = Append(history, e)
          PROVE  history' \in Seq(Event) /\ Len(history') = Len(history) + 1
      BY <2>1, <2>2, Grown
    <2> QED BY <2>1, <2>2
  <1>3. AgentTypes'
    BY <1>1, <1>2 DEF AgentInv, AgentTypes
  <1>4. to.pc \in {"starting", "running", "closed"} <=>
           agents[q].pc \in {"starting", "running", "closed"}
    BY DEF AgentInv, AgentTypes, RunType, Fresh, Over
  <1>5. OneActive'
    BY <1>1, <1>4 DEF AgentInv, OneActive
  <1>6. BusesAgree' /\ StreamsAgree'
    BY <1>1, StreamsUntouched
  <1>7. ReadsSpliced'
    BY <1>1, ReadsUntouched
  <1>8. CountsSure'
    <2>1. \A p \in Requests : agents[p] \in RunType
      BY DEF AgentInv, AgentTypes
    <2>2. agents[q].pc = "running" => active # None
      BY ComponentsAssumption DEF AgentInv, OneActive
    <2> QED BY <1>1, <1>2, <2>1, <2>2 DEF AgentInv, CountsSure, RunType
  <1>9. Listed'
    BY <1>1 DEF AgentInv, Listed
  <1> QED BY <1>3, <1>5, <1>6, <1>7, <1>8, <1>9 DEF AgentInv

-----------------------------------------------------------------------------
(* Requests and the goroutine of a run.                                      *)

\* A count or a refusal touches the run alone: a sure count is that of the history.
LEMMA CountEventsStep ==
    ASSUME AgentInv, NEW q \in Requests, Agent!CountEvents(q) \/ Agent!Refuse(q)
    PROVE  AgentInv'
  <1>1. /\ UNCHANGED <<exists, history, metadata, buses, streams>> /\ active' = active
        /\ agents[q].pc \in {"idle", "counted"} /\ agents[q] \in RunType
    BY DEF Agent!CountEvents, Agent!Refuse, Agent!store, AgentInv, AgentTypes
  <1>2. Len(history) \in Nat /\ (active = None) \in BOOLEAN
    BY LenProperties DEF AgentInv, AgentTypes
  <1>3. agents[q].counted <= Len(history)
    BY DEF AgentInv, CountsSure
  <1>4. PICK to \in RunType :
           /\ agents' = [agents EXCEPT ![q] = to] /\ to.pc \in {"counted", "refused"}
           /\ to.before = agents[q].before /\ to.counted <= Len(history)
           /\ to.pc = "counted" /\ to.sure => active = None /\ to.counted = Len(history)
    <2>1. ASSUME agents' = [agents EXCEPT ![q].pc = "counted", ![q].counted = Len(history),
                                         ![q].sure = active = None]
          PROVE  \E to \in RunType :
                    /\ agents' = [agents EXCEPT ![q] = to] /\ to.pc \in {"counted", "refused"}
                    /\ to.before = agents[q].before /\ to.counted <= Len(history)
                    /\ to.pc = "counted" /\ to.sure =>
                          active = None /\ to.counted = Len(history)
      <3> DEFINE to == [agents[q] EXCEPT !.pc = "counted", !.counted = Len(history),
                                         !.sure = active = None]
      <3>1. agents' = [agents EXCEPT ![q] = to]
        BY <2>1 DEF AgentInv, AgentTypes
      <3>2. /\ to \in RunType /\ to.pc = "counted" /\ to.before = agents[q].before
            /\ to.counted = Len(history) /\ (to.sure => active = None)
        BY <1>1, <1>2 DEF RunType, Fresh
      <3>3. to.counted <= Len(history)
        BY <1>2, <3>2
      <3> HIDE DEF to
      <3> QED BY <3>1, <3>2, <3>3
    <2>2. ASSUME agents' = [agents EXCEPT ![q].pc = "counted", ![q].sure = FALSE]
          PROVE  \E to \in RunType :
                    /\ agents' = [agents EXCEPT ![q] = to] /\ to.pc \in {"counted", "refused"}
                    /\ to.before = agents[q].before /\ to.counted <= Len(history)
                    /\ ~to.sure
      <3> DEFINE to == [agents[q] EXCEPT !.pc = "counted", !.sure = FALSE]
      <3>1. agents' = [agents EXCEPT ![q] = to]
        BY <2>2 DEF AgentInv, AgentTypes
      <3>2. /\ to \in RunType /\ to.pc = "counted" /\ to.before = agents[q].before
            /\ to.counted = agents[q].counted /\ ~to.sure
        BY <1>1 DEF RunType, Fresh
      <3> HIDE DEF to
      <3> QED BY <1>3, <3>1, <3>2
    <2>3. ASSUME agents' = [agents EXCEPT ![q].pc = "refused"]
          PROVE  \E to \in RunType :
                    /\ agents' = [agents EXCEPT ![q] = to] /\ to.pc = "refused"
                    /\ to.before = agents[q].before /\ to.counted <= Len(history)
      <3> DEFINE to == [agents[q] EXCEPT !.pc = "refused"]
      <3>1. agents' = [agents EXCEPT ![q] = to]
        BY <2>3 DEF AgentInv, AgentTypes
      <3>2. /\ to \in RunType /\ to.pc = "refused" /\ to.before = agents[q].before
            /\ to.counted = agents[q].counted
        BY <1>1 DEF RunType, Fresh
      <3> HIDE DEF to
      <3> QED BY <1>3, <3>1, <3>2
    <2> QED BY <2>1, <2>2, <2>3 DEF Agent!CountEvents, Agent!Refuse
  <1>5. /\ exists' \in BOOLEAN /\ (exists => exists') /\ metadata' \in Listing \cup {None}
        /\ metadata' # None => exists'
    BY <1>1 DEF AgentInv, AgentTypes, Listed
  <1> QED BY <1>1, <1>4, <1>5, RunSteps DEF Fresh, Over

\* The entry of the listing after a session is created or an event is appended.
LEMMA EntryTypes ==
    ASSUME AgentInv, NEW e \in Event, NEW summarized \in BOOLEAN
    PROVE  /\ Agent!Entry(metadata, e, summarized) \in Listing
           /\ metadata # None =>
                 /\ Agent!Entry(metadata, e, summarized).created = metadata.created
                 /\ metadata.title # None =>
                       Agent!Entry(metadata, e, summarized).title = metadata.title
           /\ [created |-> Len(history), title |-> None] \in Listing
  <1>1. Len(history) \in Nat /\ metadata \in Listing \cup {None}
    BY LenProperties DEF AgentInv, AgentTypes
  <1>2. metadata # None => /\ metadata.created \in Nat
                          /\ metadata.title \in Event \cup {None}
    BY <1>1 DEF Listing
  <1>3. Agent!Title(metadata, e, summarized) \in Event \cup {None}
    BY <1>2 DEF Agent!Title
  <1> QED BY <1>1, <1>2, <1>3 DEF Agent!Entry, Agent!Title, Listing

\* AppendEvent of the listing, whatever of it fails.
LEMMA StoreEventTypes ==
    ASSUME AgentInv, NEW e \in Event, Agent!StoreEvent(e)
    PROVE  /\ exists' = exists /\ history' = Append(history, e)
           /\ metadata' \in Listing \cup {None}
           /\ metadata # None =>
                 /\ metadata' # None /\ metadata'.created = metadata.created
                 /\ metadata.title # None => metadata'.title = metadata.title
  <1>1. /\ exists' = exists /\ history' = Append(history, e)
        /\ \/ \E summarized \in BOOLEAN : metadata' = Agent!Entry(metadata, e, summarized)
           \/ metadata' = metadata
    BY DEF Agent!StoreEvent, Agent!LookupFails
  <1>2. None \notin Listing
    BY ComponentsAssumption DEF Listing, Event
  <1>3. metadata \in Listing \cup {None}
    BY DEF AgentInv, AgentTypes
  <1> QED BY <1>1, <1>2, <1>3, EntryTypes

\* EnsureSession creates the session and its empty listing; no run or stream reads them.
LEMMA EnsureSessionStep ==
    ASSUME AgentInv, NEW q \in Requests, Agent!EnsureSession(q)
    PROVE  AgentInv'
  <1> DEFINE to == [agents[q] EXCEPT !.pc = "running"]
  <1>1. /\ UNCHANGED <<history, buses, streams>> /\ active' = active
        /\ agents[q].pc = "starting" /\ agents[q] \in RunType
        /\ agents' = [agents EXCEPT ![q] = to]
    BY DEF Agent!EnsureSession, AgentInv, AgentTypes
  <1>2. /\ to \in RunType /\ to.pc = "running" /\ to.before = agents[q].before
        /\ to.sure = agents[q].sure /\ to.counted = agents[q].counted
    BY <1>1 DEF RunType
  <1> HIDE DEF to
  <1>3. exists' /\ exists' \in BOOLEAN /\ metadata' \in Listing \cup {None}
    <2>1. [created |-> Len(history), title |-> None] \in Listing
      BY LenProperties DEF Listing, AgentInv, AgentTypes
    <2> QED BY <2>1 DEF Agent!EnsureSession, Agent!ListCreated, AgentInv, AgentTypes
  <1>4. to.counted <= Len(history)
    BY <1>2 DEF AgentInv, CountsSure
  <1> QED BY <1>1, <1>2, <1>3, <1>4, RunSteps DEF Fresh, Over

\* The user's message is stored.
LEMMA StoreMessageStep ==
    ASSUME AgentInv, NEW q \in Requests, Agent!StoreMessage(q)
    PROVE  AgentInv'
  <1> DEFINE to == [agents[q] EXCEPT !.yielded = 1]
             e == [run |-> q, n |-> 0]
  <1>1. /\ UNCHANGED <<buses, streams>> /\ active' = active
        /\ agents[q].pc = "running" /\ agents[q] \in RunType
        /\ agents' = [agents EXCEPT ![q] = to] /\ Agent!StoreEvent(e)
    BY DEF Agent!StoreMessage, AgentInv, AgentTypes
  <1>2. /\ to \in RunType /\ to.pc = "running" /\ to.before = agents[q].before
        /\ to.sure = agents[q].sure /\ to.counted = agents[q].counted
    BY <1>1 DEF RunType
  <1>3. e \in Event
    BY DEF Event
  <1> HIDE DEF to, e
  <1>4. /\ exists' \in BOOLEAN /\ exists' = exists /\ exists
        /\ metadata' \in Listing \cup {None} /\ history' = Append(history, e)
    BY <1>1, <1>3, StoreEventTypes DEF AgentInv, AgentTypes, Listed
  <1>5. to.counted <= Len(history)
    BY <1>2 DEF AgentInv, CountsSure
  <1> QED BY <1>1, <1>2, <1>3, <1>4, <1>5, RunSteps DEF Fresh, Over

\* The bus of a running run is given an event, which its subscribers have yet to get.
LEMMA YieldStep ==
    ASSUME AgentInv, NEW q \in Requests, Agent!Yield(q)
    PROVE  AgentInv'
  <1> DEFINE to == [agents[q] EXCEPT !.yielded = @ + 1]
             e == [run |-> q, n |-> agents[q].yielded]
             bus == [buses[q] EXCEPT !.buffer = Append(@, e), !.unsent = buses[q].subscribers]
  <1>1. /\ active' = active /\ UNCHANGED streams
        /\ agents[q].pc = "running" /\ agents[q] \in RunType
        /\ agents' = [agents EXCEPT ![q] = to] /\ buses[q].unsent = {}
        /\ Agent!StoreEvent(e) \/ UNCHANGED <<exists, history, metadata>>
    BY DEF Agent!Yield, Agent!Unlocked, Agent!store, AgentInv, AgentTypes
  <1>2. buses[q] \in BusType /\ buses' = [buses EXCEPT ![q] = bus]
    BY DEF Agent!Yield, Agent!Publish, AgentInv, AgentTypes
  <1>3. agents[q].yielded \in Nat /\ e \in Event
    BY <1>1 DEF RunType, Event
  <1>4. /\ to \in RunType /\ to.pc = "running" /\ to.before = agents[q].before
        /\ to.sure = agents[q].sure /\ to.counted = agents[q].counted
    <2> DEFINE n == agents[q].yielded + 1
    <2>1. n \in Nat /\ to = [agents[q] EXCEPT !.yielded = n]
      BY <1>3
    <2> HIDE DEF n, to
    <2> QED BY <1>1, <2>1 DEF RunType
  <1> HIDE DEF e, to
  <1>5. LET more == Append(buses[q].buffer, e) IN
        /\ more \in Seq(Event) /\ more # <<>> /\ more[Len(more)] = e
    BY <1>2, <1>3, Grown DEF BusType
  <1>6. /\ bus \in BusType /\ bus.buffer = Append(buses[q].buffer, e)
        /\ bus.subscribers = buses[q].subscribers /\ bus.unsent = buses[q].subscribers
        /\ bus.closed = buses[q].closed
    BY <1>2, <1>5 DEF BusType
  <1> HIDE DEF bus
  <1>7. /\ agents' \in [Requests -> RunType] /\ agents'[q] = to
        /\ \A p \in Requests : p # q => agents'[p] = agents[p]
    BY <1>1, <1>4 DEF AgentInv, AgentTypes
  <1>8. /\ buses' \in [Requests -> BusType] /\ buses'[q] = bus
        /\ \A p \in Requests : p # q => buses'[p] = buses[p]
    BY <1>2, <1>6 DEF AgentInv, AgentTypes
  <1>9. /\ exists' = exists /\ exists /\ metadata' \in Listing \cup {None}
        /\ history' = history \/ history' = Append(history, e)
    BY <1>1, <1>3, StoreEventTypes DEF AgentInv, AgentTypes, Listed
  <1>10. /\ history' \in Seq(Event) /\ Len(history') \in Nat /\ Len(history) \in Nat
         /\ Len(history') >= Len(history)
    <2>1. history \in Seq(Event) /\ Len(history) \in Nat
      BY LenProperties DEF AgentInv, AgentTypes
    <2>2. /\ Append(history, e) \in Seq(Event)
          /\ Len(Append(history, e)) = Len(history) + 1
      BY <1>3, <2>1, Grown
    <2> QED BY <1>9, <2>1, <2>2
  <1>11. AgentTypes'
    BY <1>1, <1>7, <1>8, <1>9, <1>10 DEF AgentInv, AgentTypes
  <1>12. OneActive'
    BY <1>1, <1>4, <1>7 DEF AgentInv, OneActive
  <1>13. ~buses[q].closed /\ agents[q].pc \notin Fresh
    BY <1>1 DEF AgentInv, BusesAgree, Over, Fresh
  <1>14. BusesAgree'
    BY <1>1, <1>4, <1>5, <1>6, <1>7, <1>8, <1>13 DEF AgentInv, BusesAgree, Fresh, Over
  <1>15. StreamsAgree'
    <2> SUFFICES ASSUME NEW s \in Agent!Subscribers PROVE StreamAgrees(s)'
      BY DEF StreamsAgree
    <2>1. /\ streams'[s] = streams[s] /\ StreamAgrees(s)
          /\ streams[s].bus # None => streams[s].bus \in Requests
      BY <1>1 DEF AgentInv, AgentTypes, StreamType, StreamsAgree
    <2>2. CASE streams[s].bus # q
      BY <1>7, <1>8, <2>1, <2>2 DEF StreamAgrees, Given
    <2>3. CASE streams[s].bus = q
      <3>1. streams[s].pc # "done" /\ ~streams[s].shut
        BY <1>13, <2>1, <2>3, ComponentsAssumption DEF StreamAgrees
      <3>2. ASSUME streams[s].pc = "streaming"
            PROVE  /\ s \in bus.subscribers /\ s \in bus.unsent
                   /\ bus.buffer = Append(streams[s].got \o streams[s].queue,
                                          bus.buffer[Len(bus.buffer)])
        BY <1>1, <1>5, <1>6, <2>1, <2>3, <3>1, <3>2 DEF StreamAgrees, Given
      <3>3. streams[s].pc = "streaming" => Given(s, q)'
        BY <1>8, <2>1, <3>2 DEF Given
      <3> QED BY <1>1, <1>4, <1>6, <1>7, <1>8, <2>1, <2>3, <3>1, <3>2, <3>3
           DEF StreamAgrees, Given, Fresh
    <2> QED BY <2>2, <2>3
  <1>16. CountsSure'
    <2>1. \A p \in Requests : agents[p] \in RunType
      BY DEF AgentInv, AgentTypes
    <2>2. active # None
      BY <1>1, ComponentsAssumption DEF AgentInv, OneActive
    <2> QED BY <1>1, <1>4, <1>7, <1>10, <2>1, <2>2 DEF AgentInv, CountsSure, RunType
  <1>17. ReadsSpliced'
    BY <1>1, <1>3, <1>4, <1>7, <1>9, ReadsUntouched
  <1>18. Listed'
    BY <1>9 DEF AgentInv, Listed
  <1> QED BY <1>11, <1>12, <1>14, <1>15, <1>16, <1>17, <1>18 DEF AgentInv

\* A run is registered: it becomes the active one, its caller its first subscriber, and
\* the counts that others have made are unsure.
LEMMA RegisterStep ==
    ASSUME AgentInv, NEW q \in Requests, Agent!Register(q)
    PROVE  AgentInv'
  <1> DEFINE bus == [buses[q] EXCEPT !.subscribers = {q}]
             stream == [streams[q] EXCEPT !.pc = "streaming", !.bus = q]
  <1>1. /\ UNCHANGED <<exists, history, metadata>> /\ active' = q /\ active = None
        /\ agents[q].pc = "counted" /\ agents[q] \in RunType /\ Len(history) \in Nat
    BY LenProperties DEF Agent!Register, Agent!store, AgentInv, AgentTypes
  <1>2. /\ agents' = [p \in Requests |-> agents'[p]]
        /\ agents'[q] = [agents[q] EXCEPT !.pc = "starting", !.before = Len(history)]
        /\ \A p \in Requests : p # q =>
              agents'[p] = [agents[p] EXCEPT !.sure = @ /\ agents[p].pc # "counted"]
    BY DEF Agent!Register
  <1>3. /\ agents'[q] \in RunType /\ agents'[q].pc = "starting"
        /\ agents'[q].before = Len(history) /\ agents'[q].counted = agents[q].counted
        /\ agents'[q].sure = agents[q].sure
    BY <1>1, <1>2 DEF RunType
  <1>4. \A p \in Requests : p # q =>
           /\ agents'[p] \in RunType /\ agents'[p].pc = agents[p].pc
           /\ agents'[p].before = agents[p].before /\ agents'[p].counted = agents[p].counted
           /\ agents[p].pc # "counted" => agents'[p].sure = agents[p].sure
           /\ agents[p].pc = "counted" => ~agents'[p].sure
    <2> SUFFICES ASSUME NEW p \in Requests, p # q
                 PROVE  /\ agents'[p] \in RunType /\ agents'[p].pc = agents[p].pc
                        /\ agents'[p].before = agents[p].before
                        /\ agents'[p].counted = agents[p].counted
                        /\ agents[p].pc # "counted" => agents'[p].sure = agents[p].sure
                        /\ agents[p].pc = "counted" => ~agents'[p].sure
      OBVIOUS
    <2> DEFINE sure == agents[p].sure /\ agents[p].pc # "counted"
    <2>1. agents[p] \in RunType /\ sure \in BOOLEAN /\ agents[p].sure \in BOOLEAN
      BY DEF AgentInv, AgentTypes, RunType
    <2>2. /\ agents'[p] = [agents[p] EXCEPT !.sure = sure]
          /\ agents[p].pc # "counted" => sure = agents[p].sure
          /\ agents[p].pc = "counted" => ~sure
      BY <1>2, <2>1
    <2> HIDE DEF sure
    <2> QED BY <2>1, <2>2 DEF RunType
  <1>5. /\ buses[q] \in BusType /\ buses' = [buses EXCEPT ![q] = bus]
        /\ streams[q] \in StreamType /\ streams' = [streams EXCEPT ![q] = stream]
    BY DEF Agent!Register, AgentInv, AgentTypes, Agent!Subscribers
  <1>6. /\ bus \in BusType /\ bus.subscribers = {q} /\ bus.unsent = buses[q].unsent
        /\ bus.buffer = buses[q].buffer /\ bus.closed = buses[q].closed
    BY <1>5 DEF BusType, Agent!Subscribers
  <1>7. /\ stream \in StreamType /\ stream.pc = "streaming" /\ stream.bus = q
        /\ stream.got = streams[q].got /\ stream.queue = streams[q].queue
        /\ stream.shut = streams[q].shut
    BY <1>5 DEF StreamType
  <1> HIDE DEF bus, stream
  <1>8. /\ buses' \in [Requests -> BusType] /\ buses'[q] = bus
        /\ \A p \in Requests : p # q => buses'[p] = buses[p]
        /\ streams' \in [Agent!Subscribers -> StreamType] /\ streams'[q] = stream
        /\ \A s \in Agent!Subscribers : s # q => streams'[s] = streams[s]
    BY <1>5, <1>6, <1>7 DEF AgentInv, AgentTypes, Agent!Subscribers
  <1>9. /\ bus.buffer = <<>> /\ bus.unsent = {} /\ ~bus.closed /\ streams[q].pc = "idle"
    BY <1>1, <1>6 DEF AgentInv, BusesAgree, Fresh, Over
  <1>10. stream.got = <<>> /\ stream.queue = <<>> /\ ~stream.shut
    BY <1>7, <1>9 DEF AgentInv, StreamsAgree, StreamAgrees, Agent!Subscribers
  <1>11. AgentTypes'
    <2>1. agents' \in [Requests -> RunType]
      BY <1>2, <1>3, <1>4
    <2> QED BY <1>1, <1>8, <2>1 DEF AgentInv, AgentTypes
  <1>12. OneActive'
    BY <1>1, <1>3, <1>4, ComponentsAssumption DEF AgentInv, OneActive
  <1>13. BusesAgree'
    <2>1. \A p \in Requests : q \notin buses[p].subscribers /\ p \in Agent!Subscribers
      BY <1>9 DEF AgentInv, BusesAgree, Agent!Subscribers
    <2>2. \A p \in Requests : buses[p].subscribers \subseteq Agent!Subscribers
      BY DEF AgentInv, AgentTypes, BusType
    <2> QED BY <1>3, <1>4, <1>6, <1>7, <1>8, <1>9, <1>10, <2>1, <2>2
         DEF AgentInv, BusesAgree, Fresh, Over
  <1>14. StreamsAgree'
    <2> SUFFICES ASSUME NEW s \in Agent!Subscribers PROVE StreamAgrees(s)'
      BY DEF StreamsAgree
    <2>1. CASE s = q
      <3>1. <<>> \o <<>> = <<>>
        BY ConcatEmptySeq, EmptySeq
      <3>2. Given(s, q)'
        BY <1>6, <1>8, <1>9, <1>10, <2>1, <3>1 DEF Given
      <3> QED BY <1>3, <1>6, <1>7, <1>8, <1>10, <2>1, <3>2, ComponentsAssumption
           DEF StreamAgrees, Fresh
    <2>2. CASE s # q
      <3>1. /\ streams'[s] = streams[s] /\ StreamAgrees(s)
            /\ streams[s].bus # None => streams[s].bus \in Requests
        BY <1>8, <2>2 DEF AgentInv, AgentTypes, StreamType, StreamsAgree
      <3>2. streams[s].bus # q
        BY <1>1, <3>1, ComponentsAssumption DEF StreamAgrees, Fresh
      <3>3. streams[s].bus # None =>
               /\ buses'[streams[s].bus] = buses[streams[s].bus]
               /\ agents'[streams[s].bus].pc = agents[streams[s].bus].pc
        BY <1>4, <1>8, <3>1, <3>2
      <3> QED BY <3>1, <3>3 DEF StreamAgrees, Given
    <2> QED BY <2>1, <2>2
  <1>15. CountsSure'
    <2>1. \A p \in Requests : agents[p] \in RunType
      BY DEF AgentInv, AgentTypes
    <2> QED BY <1>1, <1>3, <1>4, <2>1 DEF AgentInv, CountsSure, RunType, Fresh
  <1>16. ReadsSpliced'
    <2>1. \A r \in Readers : streams'[r] = streams[r]
      BY <1>8, ComponentsAssumption DEF Agent!Subscribers
    <2>2. \A p \in Requests : agents[p].pc \notin Fresh =>
             agents'[p].before = agents[p].before /\ agents'[p].sure = agents[p].sure
      BY <1>1, <1>4 DEF Fresh
    <2> QED BY <1>1, <2>1, <2>2, ReadsUntouched
  <1>17. Listed'
    BY <1>1, <1>3, <1>4 DEF AgentInv, Listed
  <1> QED BY <1>11, <1>12, <1>13, <1>14, <1>15, <1>16, <1>17 DEF AgentInv

\* The active run is the one that ends, as only one is registered; then none is.
LEMMA RemoveActiveRunStep ==
    ASSUME AgentInv, NEW q \in Requests, Agent!RemoveActiveRun(q)
    PROVE  AgentInv'
  <1>1. /\ UNCHANGED <<exists, history, metadata, buses, streams>> /\ active' = None
        /\ agents[q].pc = "closed" /\ agents[q] \in RunType
        /\ agents' = [agents EXCEPT ![q].pc = "ended"]
    BY DEF Agent!RemoveActiveRun, Agent!store, AgentInv, AgentTypes
  <1>2. /\ agents' \in [Requests -> RunType] /\ agents'[q].pc = "ended"
        /\ \A p \in Requests : p # q => agents'[p] = agents[p]
        /\ agents'[q].counted = agents[q].counted /\ agents'[q].before = agents[q].before
        /\ agents'[q].sure = agents[q].sure
    BY <1>1 DEF AgentInv, AgentTypes, RunType, Over
  <1>3. AgentTypes'
    BY <1>1, <1>2 DEF AgentInv, AgentTypes
  <1>4. OneActive'
    BY <1>1, <1>2, ComponentsAssumption DEF AgentInv, OneActive
  <1>5. BusesAgree' /\ StreamsAgree'
    BY <1>1, <1>2, StreamsUntouched DEF Fresh, Over
  <1>6. CountsSure'
    BY <1>1, <1>2 DEF AgentInv, CountsSure, Fresh
  <1>7. ReadsSpliced'
    BY <1>1, <1>2, ReadsUntouched
  <1>8. Listed'
    BY <1>1, <1>2 DEF AgentInv, Listed
  <1> QED BY <1>3, <1>4, <1>5, <1>6, <1>7, <1>8 DEF AgentInv

-----------------------------------------------------------------------------
(* Streams.                                                                  *)

\* A stream that moves by itself.
LEMMA StreamMoves ==
    ASSUME AgentInv, NEW s \in Agent!Subscribers, NEW to \in StreamType,
           UNCHANGED <<exists, history, metadata, agents, buses>>, active' = active,
           streams' = [streams EXCEPT ![s] = to],
           \A q \in Requests : s \in buses[q].subscribers =>
              /\ to.bus = streams[s].bus /\ ~to.shut
              /\ to.pc \in {"streaming", "leaving", "absent"},
           s \in Requests /\ agents[s].pc \in Fresh => to.pc = "idle",
           StreamAgrees(s)', s \in Readers => ReadSpliced(s)'
    PROVE  AgentInv'
  <1>1. /\ streams' \in [Agent!Subscribers -> StreamType] /\ streams'[s] = to
        /\ \A t \in Agent!Subscribers : t # s => streams'[t] = streams[t]
    BY DEF AgentInv, AgentTypes
  <1>2. AgentTypes' /\ OneActive' /\ CountsSure' /\ Listed'
    BY <1>1 DEF AgentInv, AgentTypes, OneActive, CountsSure, Listed
  <1>3. BusesAgree'
    <2>1. \A q \in Requests : buses[q].subscribers \subseteq Agent!Subscribers
      BY DEF AgentInv, AgentTypes, BusType
    <2>2. \A q \in Requests : q \in Agent!Subscribers
      BY DEF Agent!Subscribers
    <2> QED BY <1>1, <2>1, <2>2 DEF AgentInv, BusesAgree
  <1>4. StreamsAgree'
    <2>1. ASSUME NEW t \in Agent!Subscribers, t # s PROVE StreamAgrees(t)'
      <3>1. streams'[t] = streams[t] /\ StreamAgrees(t)
        BY <1>1, <2>1 DEF AgentInv, StreamsAgree
      <3> QED BY <3>1 DEF StreamAgrees, Given
    <2> QED BY <2>1 DEF StreamsAgree
  <1>5. ReadsSpliced'
    <2>1. ASSUME NEW t \in Readers, t # s PROVE ReadSpliced(t)'
      <3>1. streams'[t] = streams[t] /\ ReadSpliced(t)
        BY <1>1, <2>1 DEF AgentInv, ReadsSpliced, Agent!Subscribers
      <3> QED BY <3>1 DEF ReadSpliced
    <2> QED BY <2>1 DEF ReadsSpliced
  <1> QED BY <1>2, <1>3, <1>4, <1>5 DEF AgentInv

\* What is known of a stream.
LEMMA StreamKnown ==
    ASSUME AgentInv, NEW s \in Agent!Subscribers
    PROVE  /\ streams[s] \in StreamType /\ StreamAgrees(s)
           /\ streams[s].bus # None => streams[s].bus \in Requests
           /\ s \in Readers => ReadSpliced(s)
           /\ s \in Requests /\ agents[s].pc \in Fresh => streams[s].pc = "idle"
           /\ \A q \in Requests : s \in buses[q].subscribers =>
                 /\ streams[s].bus = q /\ ~streams[s].shut
                 /\ streams[s].pc \in {"streaming", "leaving", "absent"}
  BY DEF AgentInv, AgentTypes, StreamType, StreamsAgree, ReadsSpliced, BusesAgree

\* A reader looks up the active run.
LEMMA CaptureStep ==
    ASSUME AgentInv, NEW r \in Readers, Agent!Capture(r)
    PROVE  AgentInv'
  <1> DEFINE to == [streams[r] EXCEPT !.pc = "captured", !.bus = active]
  <1>1. /\ UNCHANGED <<exists, history, metadata, agents, buses>> /\ active' = active
        /\ streams[r].pc = "idle" /\ r \in Agent!Subscribers /\ r \notin Requests
        /\ streams' = [streams EXCEPT ![r] = to]
    BY ComponentsAssumption
       DEF Agent!Capture, Agent!store, Agent!Subscribers, AgentInv, AgentTypes
  <1>2. streams[r] \in StreamType /\ StreamAgrees(r)
    BY <1>1, StreamKnown
  <1>3. /\ to \in StreamType /\ to.pc = "captured" /\ to.bus = active
        /\ to.got = streams[r].got /\ to.queue = streams[r].queue /\ to.shut = streams[r].shut
    BY <1>2 DEF StreamType, AgentInv, AgentTypes
  <1> HIDE DEF to
  <1>4. streams'[r] = to
    BY <1>1 DEF AgentInv, AgentTypes
  <1>5. active # None => agents[active].pc \notin Fresh
    BY DEF AgentInv, AgentTypes, OneActive, Fresh
  <1>6. StreamAgrees(r)'
    BY <1>1, <1>2, <1>3, <1>4, <1>5 DEF StreamAgrees
  <1>7. ReadSpliced(r)'
    BY <1>3, <1>4 DEF ReadSpliced
  <1>8. \A q \in Requests : r \notin buses[q].subscribers
    BY <1>1, StreamKnown
  <1> QED BY <1>1, <1>3, <1>6, <1>7, <1>8, StreamMoves

\* A reader loads what was stored before the run it has looked up.
LEMMA LoadStep ==
    ASSUME AgentInv, NEW r \in Readers, Agent!Load(r)
    PROVE  AgentInv'
  <1> DEFINE q == streams[r].bus
             n == agents[q].counted
             prefix == IF q = None THEN history
                       ELSE SubSeq(history, 1, IF n < Len(history) THEN n ELSE Len(history))
             to == [streams[r] EXCEPT !.pc = IF q = None THEN "done" ELSE "loaded",
                                      !.past = prefix]
  <1>1. /\ UNCHANGED <<exists, history, metadata, agents, buses>> /\ active' = active
        /\ streams[r].pc = "captured" /\ r \in Agent!Subscribers /\ r \notin Requests
        /\ history \in Seq(Event) /\ Len(history) \in Nat
    BY ComponentsAssumption, LenProperties
       DEF Agent!Load, Agent!store, Agent!Subscribers, AgentInv, AgentTypes
  <1>2. streams' = [streams EXCEPT ![r] = to]
    BY <1>1 DEF Agent!Load, Agent!Prefix, AgentInv, AgentTypes
  <1>3. /\ streams[r] \in StreamType /\ StreamAgrees(r)
        /\ q # None => q \in Requests /\ agents[q] \in RunType /\ agents[q].pc \notin Fresh
    BY <1>1, StreamKnown DEF AgentInv, AgentTypes, StreamAgrees
  <1>4. prefix \in Seq(Event)
    <2>1. CASE q = None
      BY <1>1, <2>1
    <2>2. CASE q # None
      <3> DEFINE k == IF n < Len(history) THEN n ELSE Len(history)
      <3>1. k \in Int /\ k <= Len(history)
        BY <1>1, <1>3, <2>2 DEF RunType
      <3>2. \A i \in 1 .. k : history[i] \in Event
        BY <1>1, <3>1, ElementOfSeq
      <3> HIDE DEF k
      <3>3. SubSeq(history, 1, k) \in Seq(Event)
        BY <3>1, <3>2, SubSeqProperties
      <3> QED BY <2>2, <3>3 DEF k
    <2> QED BY <2>1, <2>2
  <1>5. /\ q = None => prefix = SubSeq(history, 1, Len(prefix)) /\ Len(prefix) = Len(history)
        /\ q # None /\ agents[q].sure => prefix = SubSeq(history, 1, agents[q].before)
    <2>1. ASSUME q # None, agents[q].sure
          PROVE  n = agents[q].before /\ n <= Len(history) /\ n \in Nat
      BY <1>3, <2>1 DEF AgentInv, CountsSure, RunType
    <2> QED BY <1>1, <2>1, SubSeqFull
  <1> HIDE DEF prefix
  <1>6. /\ to \in StreamType /\ to.pc = IF q = None THEN "done" ELSE "loaded"
        /\ to.bus = q /\ to.past = prefix
        /\ to.got = streams[r].got /\ to.queue = streams[r].queue /\ to.shut = streams[r].shut
    BY <1>3, <1>4 DEF StreamType
  <1> HIDE DEF to
  <1>7. streams'[r] = to
    BY <1>1, <1>2 DEF AgentInv, AgentTypes
  <1>8. StreamAgrees(r)'
    BY <1>1, <1>3, <1>6, <1>7 DEF StreamAgrees
  <1>9. ReadSpliced(r)'
    BY <1>1, <1>5, <1>6, <1>7 DEF ReadSpliced
  <1>10. \A p \in Requests : r \notin buses[p].subscribers
    BY <1>1, StreamKnown
  <1> QED BY <1>1, <1>2, <1>6, <1>8, <1>9, <1>10, StreamMoves

\* A subscriber takes an event from its channel, sees the end or leaves.
LEMMA ReceiveStep ==
    ASSUME AgentInv, NEW s \in Agent!Subscribers, Agent!Receive(s)
    PROVE  AgentInv'
  <1> DEFINE to == [streams[s] EXCEPT !.got = Append(@, Head(streams[s].queue)),
                                      !.queue = Tail(@)]
  <1>1. /\ UNCHANGED <<exists, history, metadata, agents, buses>> /\ active' = active
        /\ streams[s].pc = "streaming" /\ streams[s].queue # <<>>
        /\ streams' = [streams EXCEPT ![s] = to]
    BY DEF Agent!Receive, Agent!store, AgentInv, AgentTypes
  <1>2. /\ streams[s] \in StreamType /\ StreamAgrees(s)
        /\ s \in Readers => ReadSpliced(s)
    BY StreamKnown
  <1>3. /\ streams[s].got \in Seq(Event) /\ streams[s].queue \in Seq(Event)
    BY <1>2 DEF StreamType
  <1>4. /\ Append(streams[s].got, Head(streams[s].queue)) \in Seq(Event)
        /\ Tail(streams[s].queue) \in Seq(Event)
        /\ Append(streams[s].got, Head(streams[s].queue)) \o Tail(streams[s].queue)
              = streams[s].got \o streams[s].queue
    BY <1>1, <1>3, TakenKept, Grown
  <1>5. /\ to \in StreamType /\ to.pc = "streaming" /\ to.bus = streams[s].bus
        /\ to.past = streams[s].past /\ to.shut = streams[s].shut
        /\ to.got \o to.queue = streams[s].got \o streams[s].queue
    BY <1>1, <1>2, <1>4 DEF StreamType
  <1> HIDE DEF to
  <1>6. streams'[s] = to
    BY <1>1 DEF AgentInv, AgentTypes
  <1>7. StreamAgrees(s)'
    BY <1>1, <1>2, <1>5, <1>6 DEF StreamAgrees, Given
  <1>8. s \in Readers => ReadSpliced(s)'
    BY <1>1, <1>2, <1>5, <1>6 DEF ReadSpliced
  <1>9. /\ \A q \in Requests : s \in buses[q].subscribers => ~to.shut
        /\ ~(s \in Requests /\ agents[s].pc \in Fresh)
    BY <1>1, <1>5, StreamKnown
  <1> QED BY <1>1, <1>5, <1>7, <1>8, <1>9, StreamMoves

\* A stream ends when its channel is shut and empty: it has been given all.
LEMMA SeeEndStep ==
    ASSUME AgentInv, NEW s \in Agent!Subscribers, Agent!SeeEnd(s)
    PROVE  AgentInv'
  <1> DEFINE to == [streams[s] EXCEPT !.pc = "done"]
  <1>1. /\ UNCHANGED <<exists, history, metadata, agents, buses>> /\ active' = active
        /\ streams[s].pc = "streaming" /\ streams[s].queue = <<>> /\ streams[s].shut
        /\ streams' = [streams EXCEPT ![s] = to]
    BY DEF Agent!SeeEnd, Agent!store, AgentInv, AgentTypes
  <1>2. /\ streams[s] \in StreamType /\ StreamAgrees(s)
        /\ streams[s].bus # None => streams[s].bus \in Requests
        /\ s \in Readers => ReadSpliced(s)
        /\ \A q \in Requests : s \notin buses[q].subscribers
        /\ ~(s \in Requests /\ agents[s].pc \in Fresh)
    BY <1>1, StreamKnown
  <1>3. /\ to \in StreamType /\ to.pc = "done" /\ to.bus = streams[s].bus
        /\ to.past = streams[s].past /\ to.shut = streams[s].shut
        /\ to.got = streams[s].got /\ to.queue = <<>>
    BY <1>1, <1>2 DEF StreamType
  <1> HIDE DEF to
  <1>4. streams'[s] = to
    BY <1>1 DEF AgentInv, AgentTypes
  <1>5. streams[s].bus \in Requests /\ streams[s].bus # None
    BY <1>1, <1>2 DEF StreamAgrees
  <1>6. streams[s].got = buses[streams[s].bus].buffer
    <2>1. streams[s].got \o <<>> = streams[s].got
      BY <1>2, ConcatEmptySeq DEF StreamType
    <2>2. s \notin buses[streams[s].bus].unsent
      BY <1>2, <1>5 DEF AgentInv, BusesAgree
    <2> QED BY <1>1, <1>2, <2>1, <2>2 DEF StreamAgrees, Given
  <1>7. StreamAgrees(s)'
    BY <1>1, <1>2, <1>3, <1>4, <1>5, <1>6 DEF StreamAgrees
  <1>8. s \in Readers => ReadSpliced(s)'
    BY <1>1, <1>2, <1>3, <1>4, <1>5 DEF ReadSpliced
  <1> QED BY <1>1, <1>2, <1>3, <1>7, <1>8, StreamMoves

\* A subscriber that leaves claims nothing of what it was given any more.
LEMMA LeaveStep ==
    ASSUME AgentInv, NEW s \in Agent!Subscribers, NEW gone \in {"leaving", "absent"},
           Agent!Leave(s, gone)
    PROVE  AgentInv'
  <1> DEFINE to == [streams[s] EXCEPT !.pc = gone, !.got = <<>>]
  <1>1. /\ UNCHANGED <<exists, history, metadata, agents, buses>> /\ active' = active
        /\ streams[s].pc = "streaming"
        /\ streams' = [streams EXCEPT ![s] = to]
    BY DEF Agent!Leave, Agent!store, AgentInv, AgentTypes
  <1>2. /\ streams[s] \in StreamType /\ StreamAgrees(s)
        /\ \A q \in Requests : s \in buses[q].subscribers => ~streams[s].shut
        /\ ~(s \in Requests /\ agents[s].pc \in Fresh)
    BY <1>1, StreamKnown
  <1>3. /\ to \in StreamType /\ to.pc = gone /\ to.bus = streams[s].bus
        /\ to.shut = streams[s].shut
    BY <1>2, EmptySeq DEF StreamType
  <1> HIDE DEF to
  <1>4. streams'[s] = to
    BY <1>1 DEF AgentInv, AgentTypes
  <1>5. StreamAgrees(s)'
    BY <1>1, <1>2, <1>3, <1>4 DEF StreamAgrees
  <1>6. ReadSpliced(s)'
    BY <1>3, <1>4 DEF ReadSpliced
  <1> QED BY <1>1, <1>2, <1>3, <1>5, <1>6, StreamMoves

-----------------------------------------------------------------------------
(* Buses and their subscribers.                                              *)

\* A stream that moves together with the bus it belongs to.
LEMMA BusMoves ==
    ASSUME AgentInv, NEW s \in Agent!Subscribers, NEW q \in Requests,
           NEW to \in StreamType, NEW bus \in BusType,
           UNCHANGED <<exists, history, metadata, agents>>, active' = active,
           streams' = [streams EXCEPT ![s] = to], buses' = [buses EXCEPT ![q] = bus],
           streams[s].bus = q, to.bus = q, streams[s].pc # "idle",
           bus.buffer = buses[q].buffer, bus.closed = buses[q].closed,
           bus.unsent \subseteq bus.subscribers,
           bus.unsent # {} => buses[q].unsent # {},
           bus.closed => bus.subscribers = {},
           \A t \in Agent!Subscribers : t # s =>
              /\ t \in bus.unsent <=> t \in buses[q].unsent
              /\ t \in bus.subscribers <=> t \in buses[q].subscribers,
           s \in bus.subscribers =>
              ~to.shut /\ to.pc \in {"streaming", "leaving", "absent"},
           StreamAgrees(s)', s \in Readers => ReadSpliced(s)'
    PROVE  AgentInv'
  <1>1. /\ streams' \in [Agent!Subscribers -> StreamType] /\ streams'[s] = to
        /\ \A t \in Agent!Subscribers : t # s => streams'[t] = streams[t]
        /\ buses' \in [Requests -> BusType] /\ buses'[q] = bus
        /\ \A p \in Requests : p # q => buses'[p] = buses[p]
    BY DEF AgentInv, AgentTypes
  <1>2. AgentTypes' /\ OneActive' /\ CountsSure' /\ Listed'
    BY <1>1 DEF AgentInv, AgentTypes, OneActive, CountsSure, Listed
  <1>3. /\ agents[q].pc \notin Fresh /\ ~(s \in Requests /\ agents[s].pc \in Fresh)
        /\ \A p \in Requests : p # q => s \notin buses[p].subscribers
    BY StreamKnown, ComponentsAssumption DEF StreamAgrees
  <1>4. BusesAgree'
    <2>1. \A p \in Requests : p \in Agent!Subscribers
      BY DEF Agent!Subscribers
    <2>2. \A p \in Requests : buses'[p].subscribers \subseteq Agent!Subscribers
      BY <1>1 DEF BusType
    <2>3. ASSUME NEW p \in Requests
          PROVE  /\ buses'[p].unsent \subseteq buses'[p].subscribers
                 /\ buses'[p].unsent # {} => buses'[p].buffer # <<>>
                 /\ buses'[p].closed <=> agents[p].pc \in Over
                 /\ buses'[p].closed => buses'[p].subscribers = {}
      BY <1>1 DEF AgentInv, BusesAgree
    <2>4. ASSUME NEW p \in Requests, agents[p].pc \in Fresh
          PROVE  /\ buses'[p].buffer = <<>> /\ buses'[p].subscribers = {}
                 /\ streams'[p].pc = "idle"
      BY <1>1, <1>3, <2>1, <2>4 DEF AgentInv, BusesAgree
    <2>5. ASSUME NEW p \in Requests, NEW t \in buses'[p].subscribers
          PROVE  /\ streams'[t].bus = p /\ ~streams'[t].shut
                 /\ streams'[t].pc \in {"streaming", "leaving", "absent"}
      <3>1. CASE t = s
        BY <1>1, <1>3, <2>5, <3>1
      <3>2. CASE t # s
        BY <1>1, <2>2, <2>5, <3>2 DEF AgentInv, BusesAgree
      <3> QED BY <3>1, <3>2
    <2> QED BY <2>3, <2>4, <2>5 DEF BusesAgree
  <1>5. StreamsAgree'
    <2>1. ASSUME NEW t \in Agent!Subscribers, t # s PROVE StreamAgrees(t)'
      <3>1. streams'[t] = streams[t] /\ StreamAgrees(t)
        BY <1>1, <2>1 DEF AgentInv, StreamsAgree
      <3>2. streams[t].bus # None => streams[t].bus \in Requests
        BY StreamKnown
      <3> QED BY <1>1, <2>1, <3>1, <3>2 DEF StreamAgrees, Given
    <2> QED BY <2>1 DEF StreamsAgree
  <1>6. ReadsSpliced'
    <2>1. ASSUME NEW t \in Readers, t # s PROVE ReadSpliced(t)'
      <3>1. streams'[t] = streams[t] /\ ReadSpliced(t)
        BY <1>1, <2>1 DEF AgentInv, ReadsSpliced, Agent!Subscribers
      <3> QED BY <3>1 DEF ReadSpliced
    <2> QED BY <2>1 DEF ReadsSpliced
  <1> QED BY <1>2, <1>4, <1>5, <1>6 DEF AgentInv

\* An event reaches the channel of one of those that wait for it.
LEMMA SendStep ==
    ASSUME AgentInv, NEW q \in Requests, NEW s \in Agent!Subscribers, Agent!Send(q, s)
    PROVE  AgentInv'
  <1> DEFINE e == buses[q].buffer[Len(buses[q].buffer)]
             to == [streams[s] EXCEPT !.queue = Append(streams[s].queue, e)]
             bus == [buses[q] EXCEPT !.unsent = @ \ {s}]
  <1>1. /\ UNCHANGED <<exists, history, metadata, agents>> /\ active' = active
        /\ s \in buses[q].unsent /\ buses[q] \in BusType
        /\ buses' = [buses EXCEPT ![q] = bus]
    BY DEF Agent!Send, Agent!store, AgentInv, AgentTypes
  <1>2. streams' = [streams EXCEPT ![s] = to]
    BY DEF Agent!Send, Agent!Sent, AgentInv, AgentTypes
  <1>3. /\ buses[q].unsent \subseteq buses[q].subscribers
        /\ buses[q].closed => buses[q].subscribers = {}
        /\ buses[q].buffer # <<>>
    BY <1>1 DEF AgentInv, BusesAgree
  <1>4. /\ streams[s] \in StreamType /\ StreamAgrees(s) /\ streams[s].bus = q
        /\ ~streams[s].shut /\ streams[s].pc \in {"streaming", "leaving", "absent"}
        /\ s \in Readers => ReadSpliced(s)
    BY <1>1, <1>3, StreamKnown
  <1>5. e \in Event
    <2>1. buses[q].buffer \in Seq(Event)
      BY <1>1 DEF BusType
    <2>2. Len(buses[q].buffer) \in 1 .. Len(buses[q].buffer)
      BY <1>3, <2>1, EmptySeq
    <2> QED BY <2>1, <2>2, ElementOfSeq
  <1>6. /\ Append(streams[s].queue, e) \in Seq(Event)
        /\ Append(streams[s].got \o streams[s].queue, e)
              = streams[s].got \o Append(streams[s].queue, e)
    <2>1. streams[s].got \in Seq(Event) /\ streams[s].queue \in Seq(Event)
      BY <1>4 DEF StreamType
    <2> HIDE DEF e
    <2>2. Append(streams[s].queue, e) \in Seq(Event)
      BY <1>5, <2>1, Grown
    <2>3. Append(streams[s].got \o streams[s].queue, e)
             = streams[s].got \o Append(streams[s].queue, e)
      BY <1>5, <2>1, SentKept
    <2> QED BY <2>2, <2>3
  <1>7. /\ to \in StreamType /\ to.pc = streams[s].pc /\ to.bus = q
        /\ to.past = streams[s].past /\ to.shut = streams[s].shut
        /\ to.got = streams[s].got /\ to.queue = Append(streams[s].queue, e)
    BY <1>4, <1>6 DEF StreamType
  <1>8. /\ bus \in BusType /\ bus.buffer = buses[q].buffer /\ bus.closed = buses[q].closed
        /\ bus.subscribers = buses[q].subscribers /\ bus.unsent = buses[q].unsent \ {s}
    BY <1>1 DEF BusType
  <1> HIDE DEF to, bus
  <1>9. streams'[s] = to /\ buses'[q] = bus
    BY <1>1, <1>2 DEF AgentInv, AgentTypes
  <1>10. streams[s].pc = "streaming" => bus.buffer = to.got \o to.queue
    BY <1>1, <1>4, <1>6, <1>7, <1>8 DEF StreamAgrees, Given
  <1> HIDE DEF e
  <1>11. StreamAgrees(s)'
    <2>1. streams[s].pc = "streaming" => Given(s, q)'
      BY <1>7, <1>8, <1>9, <1>10 DEF Given
    <2> QED BY <1>1, <1>4, <1>7, <1>8, <1>9, <2>1 DEF StreamAgrees
  <1>12. s \in Readers => ReadSpliced(s)'
    BY <1>1, <1>4, <1>7, <1>9 DEF ReadSpliced
  <1> QED BY <1>1, <1>2, <1>3, <1>4, <1>7, <1>8, <1>11, <1>12, BusMoves

\* A reader is given what was published, and becomes a subscriber of an open bus.
LEMMA ReplayAndSubscribeStep ==
    ASSUME AgentInv, NEW r \in Readers, Agent!ReplayAndSubscribe(r)
    PROVE  AgentInv'
  <1> DEFINE q == streams[r].bus
             to == [streams[r] EXCEPT !.got = buses[q].buffer,
                                      !.pc = IF buses[q].closed THEN "done" ELSE "streaming"]
             bus == IF buses[q].closed THEN buses[q]
                    ELSE [buses[q] EXCEPT !.subscribers = @ \cup {r}]
  <1>1. /\ UNCHANGED <<exists, history, metadata, agents>> /\ active' = active
        /\ streams[r].pc = "loaded" /\ r \in Agent!Subscribers /\ buses[q].unsent = {}
        /\ streams' = [streams EXCEPT ![r] = to]
    BY DEF Agent!ReplayAndSubscribe, Agent!Unlocked, Agent!store, Agent!Subscribers, AgentInv,
           AgentTypes
  <1>2. /\ streams[r] \in StreamType /\ StreamAgrees(r) /\ ReadSpliced(r)
        /\ q \in Requests
    BY <1>1, StreamKnown DEF StreamAgrees
  <1>3. /\ buses[q] \in BusType /\ buses' = [buses EXCEPT ![q] = bus]
    BY <1>2 DEF Agent!ReplayAndSubscribe, AgentInv, AgentTypes
  <1>4. /\ to \in StreamType /\ to.pc = IF buses[q].closed THEN "done" ELSE "streaming"
        /\ to.bus = q /\ to.past = streams[r].past /\ to.shut = streams[r].shut
        /\ to.got = buses[q].buffer /\ to.queue = streams[r].queue
    BY <1>2, <1>3 DEF StreamType, BusType
  <1>5. /\ bus \in BusType /\ bus.buffer = buses[q].buffer /\ bus.closed = buses[q].closed
        /\ bus.unsent = {}
        /\ ~bus.closed => bus.subscribers = buses[q].subscribers \cup {r}
        /\ bus.closed => bus.subscribers = buses[q].subscribers
    BY <1>1, <1>3 DEF BusType
  <1> HIDE DEF to, bus
  <1>6. streams'[r] = to /\ buses'[q] = bus
    BY <1>1, <1>2, <1>3 DEF AgentInv, AgentTypes
  <1>7. /\ streams[r].queue = <<>> /\ ~streams[r].shut /\ agents[q].pc \notin Fresh
        /\ q # None
    BY <1>1, <1>2 DEF StreamAgrees
  <1>8. buses[q].buffer \o <<>> = buses[q].buffer
    BY <1>3, ConcatEmptySeq DEF BusType
  <1>9. StreamAgrees(r)'
    <2>1. Given(r, q)'
      BY <1>4, <1>5, <1>6, <1>7, <1>8 DEF Given
    <2> QED BY <1>1, <1>4, <1>5, <1>6, <1>7, <2>1 DEF StreamAgrees
  <1>10. ReadSpliced(r)'
    BY <1>1, <1>2, <1>4, <1>6, <1>7 DEF ReadSpliced
  <1>11. buses[q].closed => buses[q].subscribers = {}
    BY <1>2 DEF AgentInv, BusesAgree
  <1>12. r \in bus.subscribers => ~to.shut /\ to.pc = "streaming"
    BY <1>4, <1>5, <1>7, <1>11
  <1>13. \A t \in Agent!Subscribers : t # r =>
            (t \in bus.subscribers <=> t \in buses[q].subscribers)
    BY <1>5
  <1> QED BY <1>1, <1>2, <1>3, <1>4, <1>5, <1>9, <1>10, <1>11, <1>12, <1>13, BusMoves

\* Unsubscribe waits for the bus to have nothing unsent, so no Send is lost on the leaver.
LEMMA UnsubscribeStep ==
    ASSUME AgentInv, NEW s \in Agent!Subscribers, Agent!Unsubscribe(s)
    PROVE  AgentInv'
  <1> DEFINE q == streams[s].bus
             to == [streams[s] EXCEPT !.pc = "left", !.queue = <<>>]
             bus == [buses[q] EXCEPT !.subscribers = @ \ {s}]
  <1>1. /\ UNCHANGED <<exists, history, metadata, agents>> /\ active' = active
        /\ streams[s].pc = "leaving" /\ buses[q].unsent = {}
        /\ streams' = [streams EXCEPT ![s] = to]
    BY DEF Agent!Unsubscribe, Agent!Unlocked, Agent!store, AgentInv, AgentTypes
  <1>2. /\ streams[s] \in StreamType /\ StreamAgrees(s) /\ q \in Requests
    BY <1>1, StreamKnown DEF StreamAgrees
  <1>3. /\ buses[q] \in BusType /\ buses' = [buses EXCEPT ![q] = bus]
    BY <1>2 DEF Agent!Unsubscribe, AgentInv, AgentTypes
  <1>4. /\ to \in StreamType /\ to.pc = "left" /\ to.bus = q
        /\ to.shut = streams[s].shut
    BY <1>2, EmptySeq DEF StreamType
  <1>5. /\ bus \in BusType /\ bus.buffer = buses[q].buffer /\ bus.closed = buses[q].closed
        /\ bus.unsent = {} /\ bus.subscribers = buses[q].subscribers \ {s}
    BY <1>1, <1>3 DEF BusType
  <1> HIDE DEF to, bus
  <1>6. streams'[s] = to /\ buses'[q] = bus
    BY <1>1, <1>2, <1>3 DEF AgentInv, AgentTypes
  <1>7. StreamAgrees(s)'
    BY <1>1, <1>2, <1>4, <1>5, <1>6 DEF StreamAgrees
  <1>8. ReadSpliced(s)'
    BY <1>4, <1>6 DEF ReadSpliced
  <1>9. buses[q].closed => buses[q].subscribers = {}
    BY <1>2 DEF AgentInv, BusesAgree
  <1>10. \A t \in Agent!Subscribers : t # s =>
            (t \in bus.subscribers <=> t \in buses[q].subscribers)
    BY <1>5
  <1> QED BY <1>1, <1>2, <1>3, <1>4, <1>5, <1>7, <1>8, <1>9, <1>10, BusMoves

\* A bus is closed, and with it the channels of its subscribers.
LEMMA CloseBusStep ==
    ASSUME AgentInv, NEW q \in Requests, Agent!CloseBus(q)
    PROVE  AgentInv'
  <1> DEFINE to == [agents[q] EXCEPT !.pc = "closed"]
             bus == [buses[q] EXCEPT !.closed = TRUE, !.subscribers = {}]
             shut == buses[q].subscribers
  <1>1. /\ UNCHANGED <<exists, history, metadata>> /\ active' = active
        /\ agents[q].pc \in {"starting", "running"} /\ buses[q].unsent = {}
        /\ agents[q] \in RunType /\ buses[q] \in BusType
        /\ agents' = [agents EXCEPT ![q] = to] /\ buses' = [buses EXCEPT ![q] = bus]
    BY DEF Agent!CloseBus, Agent!Unlocked, Agent!store, AgentInv, AgentTypes
  <1>2. /\ to \in RunType /\ to.pc = "closed" /\ to.before = agents[q].before
        /\ to.sure = agents[q].sure /\ to.counted = agents[q].counted
    BY <1>1 DEF RunType, Over
  <1>3. /\ bus \in BusType /\ bus.buffer = buses[q].buffer /\ bus.closed
        /\ bus.unsent = {} /\ bus.subscribers = {}
    BY <1>1 DEF BusType
  <1> HIDE DEF to, bus
  <1>4. /\ agents' \in [Requests -> RunType] /\ agents'[q] = to
        /\ \A p \in Requests : p # q => agents'[p] = agents[p]
        /\ buses' \in [Requests -> BusType] /\ buses'[q] = bus
        /\ \A p \in Requests : p # q => buses'[p] = buses[p]
    BY <1>1, <1>2, <1>3 DEF AgentInv, AgentTypes
  <1>5. /\ streams' = [s \in Agent!Subscribers |-> streams'[s]]
        /\ \A s \in Agent!Subscribers :
              streams'[s] = IF s \in shut THEN [streams[s] EXCEPT !.shut = TRUE] ELSE streams[s]
    BY DEF Agent!CloseBus, Agent!Shut
  <1> HIDE DEF shut
  <1>6. \A s \in Agent!Subscribers :
           /\ streams'[s] \in StreamType
           /\ streams'[s].pc = streams[s].pc /\ streams'[s].bus = streams[s].bus
           /\ streams'[s].past = streams[s].past /\ streams'[s].got = streams[s].got
           /\ streams'[s].queue = streams[s].queue
           /\ s \in shut => streams'[s].shut
           /\ s \notin shut => streams'[s].shut = streams[s].shut
    <2> TAKE s \in Agent!Subscribers
    <2>1. streams[s] \in StreamType
      BY StreamKnown
    <2>2. CASE s \in shut
      <3>1. streams'[s] = [streams[s] EXCEPT !.shut = TRUE]
        BY <1>5, <2>2
      <3> QED BY <2>1, <2>2, <3>1 DEF StreamType
    <2>3. CASE s \notin shut
      BY <1>5, <2>1, <2>3
    <2> QED BY <2>2, <2>3
  <1>7. AgentTypes'
    <2>1. streams' \in [Agent!Subscribers -> StreamType]
      BY <1>5, <1>6
    <2> QED BY <1>1, <1>4, <2>1 DEF AgentInv, AgentTypes
  <1>8. OneActive'
    BY <1>1, <1>2, <1>4 DEF AgentInv, OneActive
  <1>9. BusesAgree'
    <2>1. \A p \in Requests : p \in Agent!Subscribers
      BY DEF Agent!Subscribers
    <2>2. \A p \in Requests : buses[p].subscribers \subseteq Agent!Subscribers
      BY DEF AgentInv, AgentTypes, BusType
    <2>3. ASSUME NEW p \in Requests, p # q, NEW s \in buses[p].subscribers
          PROVE  s \notin shut
      BY <2>3 DEF AgentInv, BusesAgree, shut
    <2> QED BY <1>1, <1>2, <1>3, <1>4, <1>6, <2>1, <2>2, <2>3
         DEF AgentInv, BusesAgree, Fresh, Over
  <1>10. StreamsAgree'
    <2> SUFFICES ASSUME NEW s \in Agent!Subscribers PROVE StreamAgrees(s)'
      BY DEF StreamsAgree
    <2>1. /\ StreamAgrees(s)
          /\ streams[s].bus # None => streams[s].bus \in Requests
          /\ s \in shut => /\ streams[s].bus = q
                           /\ streams[s].pc \in {"streaming", "leaving", "absent"}
      BY StreamKnown DEF shut
    <2>2. CASE streams[s].bus # q
      BY <1>4, <1>6, <2>1, <2>2 DEF StreamAgrees, Given
    <2>3. CASE streams[s].bus = q
      <3>1. streams[s].pc = "streaming" => streams'[s].shut
        BY <1>6, <2>1, <2>3 DEF StreamAgrees, shut
      <3>2. streams[s].pc = "streaming" => Given(s, q)'
        BY <1>1, <1>3, <1>4, <1>6, <2>1, <2>3 DEF StreamAgrees, Given
      <3>3. agents[q].pc \notin Fresh /\ to.pc \notin Fresh /\ q # None
        BY <1>1, <1>2, ComponentsAssumption DEF Fresh
      <3> QED BY <1>3, <1>4, <1>6, <2>1, <2>3, <3>1, <3>2, <3>3 DEF StreamAgrees
    <2> QED BY <2>2, <2>3
  <1>11. CountsSure'
    BY <1>1, <1>2, <1>4 DEF AgentInv, CountsSure, Fresh
  <1>12. ReadsSpliced'
    BY <1>1, <1>2, <1>4, <1>6, ReadsUntouched DEF Agent!Subscribers
  <1>13. Listed'
    BY <1>1, <1>2, <1>4 DEF AgentInv, Listed
  <1> QED BY <1>7, <1>8, <1>9, <1>10, <1>11, <1>12, <1>13 DEF AgentInv

-----------------------------------------------------------------------------
(* The theorems.                                                             *)

\* A state that differs in faults only.
LEMMA AgentStutter ==
    ASSUME AgentInv,
           UNCHANGED <<exists, history, metadata, agents, buses, streams>>, active' = active
    PROVE  AgentInv'
  BY DEF AgentInv, AgentTypes, OneActive, BusesAgree, StreamsAgree, StreamAgrees, Given,
         CountsSure, ReadsSpliced, ReadSpliced, Listed

\* Every step of runs and streams keeps the invariant.
LEMMA AgentStep == AgentInv /\ [Agent!Next]_agentVars => AgentInv'
  <1> SUFFICES ASSUME AgentInv, [Agent!Next]_agentVars
               PROVE  AgentInv'
    OBVIOUS
  <1>1. CASE UNCHANGED agentVars
    BY <1>1, AgentStutter DEF agentVars
  <1>2. ASSUME NEW q \in Requests, Agent!CountEvents(q) \/ Agent!Refuse(q)
        PROVE  AgentInv'
    BY <1>2, CountEventsStep
  <1>3. ASSUME NEW q \in Requests, Agent!Register(q) \/ Agent!RemoveActiveRun(q)
        PROVE  AgentInv'
    BY <1>3, RegisterStep, RemoveActiveRunStep
  <1>4. ASSUME NEW q \in Requests,
               \/ Agent!EnsureSession(q) \/ Agent!StoreMessage(q) \/ Agent!Yield(q)
               \/ Agent!CloseBus(q)
        PROVE  AgentInv'
    BY <1>4, EnsureSessionStep, StoreMessageStep, YieldStep, CloseBusStep
  <1>5. ASSUME NEW q \in Requests, NEW s \in Agent!Subscribers, Agent!Send(q, s)
        PROVE  AgentInv'
    BY <1>5, SendStep
  <1>6. ASSUME NEW r \in Readers,
               Agent!Capture(r) \/ Agent!Load(r) \/ Agent!ReplayAndSubscribe(r)
        PROVE  AgentInv'
    BY <1>6, CaptureStep, LoadStep, ReplayAndSubscribeStep
  <1>7. ASSUME NEW s \in Agent!Subscribers,
               \/ Agent!Receive(s) \/ Agent!SeeEnd(s) \/ Agent!Unsubscribe(s)
               \/ \E to \in {"leaving", "absent"} : Agent!Leave(s, to)
        PROVE  AgentInv'
    BY <1>7, ReceiveStep, SeeEndStep, UnsubscribeStep, LeaveStep
  <1> QED BY <1>1, <1>2, <1>3, <1>4, <1>5, <1>6, <1>7 DEF Agent!Next, Agent!Proceed

\* The composition's steps are those of runs and streams, or leave them alone.
LEMMA AgentTurns ==
    [ComponentsNext]_<<part, vars, importVars, linkVars, routerVars, agentVars>>
        => [Agent!Next]_agentVars
  BY DEF ComponentsNext, Matching, Importing, Linking, Routing, Talking, Agent!Next,
         Agent!Proceed

\* Whatever runs and streams do, they do as AgentRuns says (Components composes it with
\* components that leave it alone).
THEOREM AgentsImplemented == ComponentsSpec => Agent!Spec
  <1>1. ComponentsInit => Agent!Init
    BY DEF ComponentsInit
  <1>2. [ComponentsNext]_<<part, vars, importVars, linkVars, routerVars, agentVars>>
        => [Agent!Next]_(Agent!vars)
    BY AgentTurns DEF agentVars, Agent!vars, Agent!store
  <1> QED BY <1>1, <1>2, PTL DEF ComponentsSpec, Agent!Spec

\* Runs, buses, streams and the stored events agree (backgroundRunner, EventBus).
THEOREM AgentInvariant == ComponentsSpec => []AgentInv
  <1>1. ComponentsInit => AgentInv
    BY AgentInit DEF ComponentsInit
  <1>2. /\ AgentInv
        /\ [ComponentsNext]_<<part, vars, importVars, linkVars, routerVars, agentVars>>
        => AgentInv'
    BY AgentTurns, AgentStep
  <1> QED BY <1>1, <1>2, PTL DEF ComponentsSpec

\* A subscriber is given what its run publishes, in order, without a gap and without a
\* repetition, whenever it joined, and at the end all of it (Publish, replaySnapshot,
\* Close).
THEOREM Streams == ComponentsSpec => []StreamsExact
  <1>1. AgentInv => StreamsExact
    <2> SUFFICES ASSUME AgentInv, NEW s \in Agent!Subscribers
                 PROVE  /\ streams[s].pc = "streaming" => Given(s, streams[s].bus)
                        /\ streams[s].pc = "done" /\ streams[s].bus # None =>
                              streams[s].got \o streams[s].queue
                                 = buses[streams[s].bus].buffer
      BY DEF StreamsExact, Agent!StreamsExact, Given
    <2>1. StreamAgrees(s) /\ streams[s] \in StreamType
      BY StreamKnown
    <2>2. streams[s].got \o <<>> = streams[s].got
      BY <2>1, ConcatEmptySeq DEF StreamType
    <2> QED BY <2>1, <2>2 DEF StreamAgrees
  <1> QED BY <1>1, AgentInvariant, PTL

\* A reader of an active run whose count is sure gets what was stored before the run,
\* each event once, and then the run (ReadSession, preRunEventCount).
THEOREM Reads == ComponentsSpec => []ReadsComplete
  <1>1. AgentInv => ReadsComplete
    <2> SUFFICES ASSUME AgentInv, NEW r \in Readers, streams[r].pc = "done"
                 PROVE  /\ streams[r].bus = None =>
                              streams[r].past = SubSeq(history, 1, Len(streams[r].past))
                        /\ streams[r].bus # None /\ agents[streams[r].bus].sure =>
                              streams[r].past \o streams[r].got
                                 = SubSeq(history, 1, agents[streams[r].bus].before)
                                      \o buses[streams[r].bus].buffer
      BY DEF ReadsComplete, Agent!ReadsComplete
    <2>1. StreamAgrees(r) /\ ReadSpliced(r)
      BY StreamKnown DEF Agent!Subscribers
    <2> QED BY <2>1 DEF StreamAgrees, ReadSpliced
  <1> QED BY <1>1, AgentInvariant, PTL

\* A listed session keeps the time of its creation and its title, whichever lookups,
\* summaries and saves fail (AppendEvent of MetadataSyncStorage).
THEOREM Titles == ComponentsSpec => TitleKept
  <1>1. AgentInv /\ [Agent!Next]_agentVars => Agent!TitleKept
    <2> SUFFICES ASSUME AgentInv, [Agent!Next]_agentVars PROVE Agent!TitleKept
      OBVIOUS
    <2>1. CASE UNCHANGED metadata
      BY <2>1 DEF Agent!TitleKept
    <2>2. ASSUME NEW q \in Requests, Agent!EnsureSession(q)
          PROVE  Agent!TitleKept
      BY <2>2 DEF Agent!EnsureSession, Agent!TitleKept, AgentInv, Listed
    <2>3. ASSUME NEW e \in Event, Agent!StoreEvent(e)
          PROVE  Agent!TitleKept
      BY <2>3, StoreEventTypes DEF Agent!TitleKept
    <2>4. ASSUME NEW q \in Requests, Agent!StoreMessage(q) \/ Agent!Yield(q)
          PROVE  Agent!TitleKept
      <3>1. agents[q].yielded \in Nat
        BY DEF AgentInv, AgentTypes, RunType
      <3>2. /\ [run |-> q, n |-> 0] \in Event
            /\ [run |-> q, n |-> agents[q].yielded] \in Event
        BY <3>1 DEF Event
      <3>3. \/ UNCHANGED metadata
            \/ Agent!StoreEvent([run |-> q, n |-> 0])
            \/ Agent!StoreEvent([run |-> q, n |-> agents[q].yielded])
        BY <2>4 DEF Agent!StoreMessage, Agent!Yield, Agent!store
      <3> QED BY <2>1, <2>3, <3>2, <3>3
    <2>5. \/ UNCHANGED metadata
          \/ \E q \in Requests :
                Agent!EnsureSession(q) \/ Agent!StoreMessage(q) \/ Agent!Yield(q)
      BY DEF Agent!Next, Agent!Proceed, Agent!CountEvents, Agent!Refuse, Agent!Register,
             Agent!RemoveActiveRun, Agent!CloseBus, Agent!Send, Agent!Capture, Agent!Load,
             Agent!ReplayAndSubscribe, Agent!Receive, Agent!SeeEnd, Agent!Leave,
             Agent!Unsubscribe, Agent!store, agentVars
    <2> QED BY <2>1, <2>2, <2>4, <2>5
  <1>2. /\ AgentInv
        /\ [ComponentsNext]_<<part, vars, importVars, linkVars, routerVars, agentVars>>
        => [part = "agents" => Agent!TitleKept]_agentVars
    BY <1>1, AgentTurns
  <1> QED BY <1>2, AgentInvariant, PTL DEF ComponentsSpec, TitleKept

-----------------------------------------------------------------------------
(* Types and bounds.                                                         *)

\* What a stream holds is what requests may yield, and its channel is bounded.
StreamBound(s) ==
    /\ streams[s].past \in Seq(Agent!Events)
    /\ streams[s].got \in Seq(Agent!Events)
    /\ streams[s].queue \in Seq(Agent!Events)
    /\ Len(streams[s].queue) <= Buffer

StreamsBound == \A s \in Agent!Subscribers : StreamBound(s)

BusesBound == \A q \in Requests : buses[q].buffer \in Seq(Agent!Events)

RunsBound == \A q \in Requests : agents[q].yielded <= Yields[q] + 1

\* An entry of the listing is of the events stored so far.
StoreBound ==
    /\ history \in Seq(Agent!Events)
    /\ metadata # None => /\ metadata.created <= Len(history)
                          /\ metadata.title \in Agent!Events \cup {None}
    /\ agentFaults \in 0 .. MaxFaults

AgentBounds == StreamsBound /\ BusesBound /\ RunsBound /\ StoreBound

\* The events of a request, up to its bound.
LEMMA KnownEvents ==
    ASSUME NEW q \in Requests, NEW n \in 0 .. Yields[q]
    PROVE  [run |-> q, n |-> n] \in Agent!Events
  BY DEF Agent!Events

\* Channels, events and failures are bounded by numbers.
LEMMA Bounded ==
    /\ Buffer \in Nat /\ MaxFaults \in Nat
    /\ \A q \in Requests : Yields[q] \in Nat
  BY ComponentsAssumption

\* Nothing is stored, published or counted at the start.
LEMMA AgentBoundsInit == Agent!Init => AgentBounds
  <1> SUFFICES ASSUME Agent!Init PROVE AgentBounds
    OBVIOUS
  <1>1. <<>> \in Seq(Agent!Events) /\ Len(<<>>) = 0
    BY EmptySeq
  <1>2. StreamsBound
    <2>1. \A s \in Agent!Subscribers :
             streams[s] = [pc |-> "idle", bus |-> None, past |-> <<>>, got |-> <<>>,
                           queue |-> <<>>, shut |-> FALSE]
      BY DEF Agent!Init
    <2>2. \A s \in Agent!Subscribers :
             /\ streams[s].past = <<>> /\ streams[s].got = <<>>
             /\ streams[s].queue = <<>>
      BY <2>1
    <2>3. Len(<<>>) <= Buffer
      BY <1>1, Bounded
    <2> QED BY <1>1, <2>2, <2>3 DEF StreamsBound, StreamBound
  <1>3. BusesBound
    BY <1>1 DEF Agent!Init, BusesBound
  <1>4. RunsBound
    BY ComponentsAssumption DEF Agent!Init, RunsBound
  <1>5. StoreBound
    BY <1>1, ComponentsAssumption DEF Agent!Init, StoreBound
  <1> QED BY <1>2, <1>3, <1>4, <1>5 DEF AgentBounds

\* A failure is one less to come.
LEMMA FaultSpent ==
    ASSUME agentFaults \in 0 .. MaxFaults, Agent!AFault \/ agentFaults' = agentFaults
    PROVE  agentFaults' \in 0 .. MaxFaults
  BY ComponentsAssumption DEF Agent!AFault

\* An appended event is one of its run, and the entry's title one of those.
LEMMA StoreEventBounds ==
    ASSUME AgentInv, StoreBound, NEW e \in Agent!Events, Agent!StoreEvent(e)
    PROVE  StoreBound'
  <1>1. /\ history \in Seq(Agent!Events) /\ Len(history) \in Nat
        /\ history' = Append(history, e)
        /\ metadata \in Listing \cup {None}
    BY LenProperties DEF StoreBound, Agent!StoreEvent, AgentInv, AgentTypes
  <1>2. history' \in Seq(Agent!Events) /\ Len(history') = Len(history) + 1
    BY <1>1, AppendProperties
  <1>3. metadata # None => metadata.created \in Nat
    BY <1>1 DEF Listing
  <1>4. ASSUME NEW b \in BOOLEAN
        PROVE  /\ Agent!Entry(metadata, e, b).created <= Len(history')
               /\ Agent!Entry(metadata, e, b).title \in Agent!Events \cup {None}
    <2>1. /\ Agent!Entry(metadata, e, b).created
                = IF metadata = None THEN Len(history) + 1 ELSE metadata.created
          /\ Agent!Entry(metadata, e, b).title = Agent!Title(metadata, e, b)
      BY DEF Agent!Entry
    <2>2. Agent!Title(metadata, e, b) \in Agent!Events \cup {None}
      BY DEF Agent!Title, StoreBound
    <2>3. (IF metadata = None THEN Len(history) + 1 ELSE metadata.created) <= Len(history')
      BY <1>1, <1>2, <1>3 DEF StoreBound
    <2> QED BY <2>1, <2>2, <2>3
  <1>5. \/ \E b \in BOOLEAN : metadata' = Agent!Entry(metadata, e, b)
        \/ metadata' = metadata
    BY DEF Agent!StoreEvent, Agent!LookupFails
  <1>6. metadata' # None => /\ metadata'.created <= Len(history')
                            /\ metadata'.title \in Agent!Events \cup {None}
    <2>1. CASE metadata' = metadata
      BY <1>1, <1>2, <1>3, <2>1 DEF StoreBound
    <2> QED BY <1>4, <1>5, <2>1
  <1>7. agentFaults' \in 0 .. MaxFaults
    BY FaultSpent DEF StoreBound, Agent!StoreEvent
  <1> QED BY <1>2, <1>6, <1>7 DEF StoreBound

\* A created session is listed with what is stored.
LEMMA EnsureSessionBounds ==
    ASSUME AgentInv, StoreBound, NEW q \in Requests, Agent!EnsureSession(q)
    PROVE  StoreBound'
  <1>1. Len(history) \in Nat /\ history' = history
    BY LenProperties DEF Agent!EnsureSession, AgentInv, AgentTypes
  <1>2. \/ metadata' = metadata
        \/ metadata' = [created |-> Len(history), title |-> None]
    BY DEF Agent!EnsureSession, Agent!ListCreated
  <1>3. agentFaults' \in 0 .. MaxFaults
    BY FaultSpent DEF StoreBound, Agent!EnsureSession, Agent!ListCreated
  <1> QED BY <1>1, <1>2, <1>3 DEF StoreBound

\* A count stores nothing.
LEMMA CountEventsBounds ==
    ASSUME AgentInv, StoreBound, RunsBound, NEW q \in Requests,
           Agent!CountEvents(q) \/ Agent!Refuse(q)
    PROVE  StoreBound' /\ RunsBound'
  <1>1. UNCHANGED <<history, metadata>> /\ agentFaults' \in 0 .. MaxFaults
    BY FaultSpent DEF StoreBound, Agent!CountEvents, Agent!Refuse, Agent!store
  <1>2. agents \in [Requests -> RunType] /\ agents[q] \in RunType
    BY DEF AgentInv, AgentTypes
  <1>3. \A p \in Requests : p # q => agents'[p] = agents[p]
    BY <1>2 DEF Agent!CountEvents, Agent!Refuse
  <1>4. agents'[q].yielded = agents[q].yielded
    <2>1. \/ agents'[q] = [agents[q] EXCEPT !.pc = "counted", !.counted = Len(history),
                                            !.sure = active = None]
          \/ agents'[q] = [agents[q] EXCEPT !.pc = "counted", !.sure = FALSE]
          \/ agents'[q] = [agents[q] EXCEPT !.pc = "refused"]
      BY <1>2 DEF Agent!CountEvents, Agent!Refuse
    <2> QED BY <1>2, <2>1 DEF RunType
  <1> QED BY <1>1, <1>3, <1>4 DEF StoreBound, RunsBound

\* A registration, an end and a close count nothing.
LEMMA RunKept ==
    ASSUME AgentInv, RunsBound, NEW q \in Requests,
           \/ Agent!Register(q) \/ Agent!RemoveActiveRun(q) \/ Agent!EnsureSession(q)
           \/ Agent!CloseBus(q)
    PROVE  RunsBound'
  <1>1. agents \in [Requests -> RunType] /\ \A p \in Requests : agents[p] \in RunType
    BY DEF AgentInv, AgentTypes
  <1>2. ASSUME NEW p \in Requests PROVE agents'[p].yielded = agents[p].yielded
    <2>1. \/ agents'[p] = agents[p]
          \/ agents'[p] = [agents[p] EXCEPT !.pc = "starting", !.before = Len(history)]
          \/ agents'[p] = [agents[p] EXCEPT !.sure = agents[p].sure /\ agents[p].pc # "counted"]
          \/ \E to \in {"running", "closed", "ended"} :
                agents'[p] = [agents[p] EXCEPT !.pc = to]
      BY <1>1 DEF Agent!Register, Agent!RemoveActiveRun, Agent!EnsureSession, Agent!CloseBus
    <2> QED BY <1>1, <2>1 DEF RunType
  <1> QED BY <1>2 DEF RunsBound

\* The message and each event count once, as long as the bound allows.
LEMMA YieldBounds ==
    ASSUME AgentInv, AgentBounds, NEW q \in Requests,
           Agent!StoreMessage(q) \/ Agent!Yield(q)
    PROVE  RunsBound' /\ BusesBound' /\ StoreBound'
  <1> DEFINE e == [run |-> q, n |-> agents[q].yielded]
  <1>1. /\ agents \in [Requests -> RunType] /\ agents[q].yielded \in Nat
        /\ Yields[q] \in Nat
        /\ buses \in [Requests -> BusType]
    BY ComponentsAssumption DEF AgentInv, AgentTypes, RunType
  <1>2. agents[q].yielded \in 0 .. Yields[q]
    BY <1>1 DEF Agent!StoreMessage, Agent!Yield
  <1>3. e \in Agent!Events
    BY <1>2, KnownEvents
  <1>4. RunsBound'
    <2>1. \A p \in Requests :
             agents'[p].yielded = IF p = q THEN agents[q].yielded + 1 ELSE agents[p].yielded
      BY <1>1 DEF Agent!StoreMessage, Agent!Yield, RunType
    <2> QED BY <1>1, <1>2, <2>1 DEF AgentBounds, RunsBound
  <1>5. BusesBound'
    <2>1. \A p \in Requests :
             buses'[p].buffer = buses[p].buffer \/ buses'[p].buffer = Append(buses[p].buffer, e)
      BY <1>1 DEF Agent!StoreMessage, Agent!Yield, Agent!Publish, BusType
    <2>2. \A p \in Requests : Append(buses[p].buffer, e) \in Seq(Agent!Events)
      BY <1>3, AppendProperties DEF AgentBounds, BusesBound
    <2> QED BY <2>1, <2>2 DEF AgentBounds, BusesBound
  <1>6. \/ Agent!StoreEvent(e)
        \/ UNCHANGED <<history, metadata, agentFaults>>
    BY DEF Agent!StoreMessage, Agent!Yield, Agent!store
  <1> HIDE DEF e
  <1>7. StoreBound'
    BY <1>3, <1>6, StoreEventBounds DEF AgentBounds, StoreBound
  <1> QED BY <1>4, <1>5, <1>7

\* One stream moves, the others stay.
LEMMA StreamMoved ==
    ASSUME AgentInv, StreamsBound, NEW s \in Agent!Subscribers, NEW to,
           streams' = [streams EXCEPT ![s] = to],
           to.past \in Seq(Agent!Events), to.got \in Seq(Agent!Events),
           to.queue \in Seq(Agent!Events), Len(to.queue) <= Buffer
    PROVE  StreamsBound'
  <1>1. \A t \in Agent!Subscribers : streams'[t] = IF t = s THEN to ELSE streams[t]
    BY DEF AgentInv, AgentTypes
  <1> QED BY <1>1 DEF StreamsBound, StreamBound

\* The parts of a stream.
LEMMA StreamParts ==
    ASSUME AgentInv, AgentBounds, NEW s \in Agent!Subscribers
    PROVE  /\ streams[s] \in StreamType
           /\ streams[s].past \in Seq(Agent!Events)
           /\ streams[s].got \in Seq(Agent!Events)
           /\ streams[s].queue \in Seq(Agent!Events)
           /\ Len(streams[s].queue) <= Buffer /\ Len(streams[s].queue) \in Nat
           /\ Buffer \in Nat
  BY ComponentsAssumption, LenProperties
     DEF AgentInv, AgentTypes, AgentBounds, StreamsBound, StreamBound

\* A channel takes an event only while it has room.
LEMMA SendBounds ==
    ASSUME AgentInv, AgentBounds, NEW q \in Requests, NEW s \in Agent!Subscribers,
           Agent!Send(q, s)
    PROVE  StreamsBound'
  <1> DEFINE e == buses[q].buffer[Len(buses[q].buffer)]
  <1>1. buses[q].buffer \in Seq(Agent!Events) /\ buses[q].buffer # <<>>
    BY DEF AgentInv, BusesAgree, AgentBounds, BusesBound, Agent!Send
  <1>2. e \in Agent!Events
    <2>1. Len(buses[q].buffer) \in 1 .. Len(buses[q].buffer)
      BY <1>1, EmptySeq, LenProperties
    <2> QED BY <1>1, <2>1, ElementOfSeq
  <1> HIDE DEF e
  <1>3. /\ Len(streams[s].queue) < Buffer
        /\ streams' = [streams EXCEPT ![s].queue = Append(streams[s].queue, e)]
    BY DEF Agent!Send, Agent!Sent, e
  <1>4. /\ Append(streams[s].queue, e) \in Seq(Agent!Events)
        /\ Len(Append(streams[s].queue, e)) = Len(streams[s].queue) + 1
    BY <1>2, StreamParts, AppendProperties
  <1>5. Len(Append(streams[s].queue, e)) <= Buffer
    BY <1>3, <1>4, StreamParts
  <1> DEFINE to == [streams[s] EXCEPT !.queue = Append(streams[s].queue, e)]
  <1>6. streams' = [streams EXCEPT ![s] = to]
    BY <1>3
  <1>7. /\ to.past = streams[s].past /\ to.got = streams[s].got
        /\ to.queue = Append(streams[s].queue, e)
    BY StreamParts DEF StreamType
  <1> HIDE DEF to
  <1> QED BY <1>4, <1>5, <1>6, <1>7, StreamParts, StreamMoved DEF AgentBounds

\* A reader is given what is stored, at most up to its count.
LEMMA ReaderBounds ==
    ASSUME AgentInv, AgentBounds, NEW r \in Readers,
           Agent!Capture(r) \/ Agent!Load(r) \/ Agent!ReplayAndSubscribe(r)
    PROVE  StreamsBound'
  <1> DEFINE q == streams[r].bus
  <1>1. r \in Agent!Subscribers
    BY DEF Agent!Subscribers
  <1>2. CASE Agent!Capture(r)
    <2> DEFINE to == [streams[r] EXCEPT !.pc = "captured", !.bus = active]
    <2>1. streams' = [streams EXCEPT ![r] = to]
      BY <1>1, <1>2 DEF Agent!Capture, AgentInv, AgentTypes
    <2>2. /\ to.past = streams[r].past /\ to.got = streams[r].got
          /\ to.queue = streams[r].queue
      BY <1>1, StreamParts DEF StreamType
    <2> HIDE DEF to
    <2> QED BY <1>1, <2>1, <2>2, StreamParts, StreamMoved DEF AgentBounds
  <1>3. CASE Agent!Load(r)
    <2>1. history \in Seq(Agent!Events) /\ Len(history) \in Nat
      BY LenProperties DEF AgentBounds, StoreBound
    <2>2. ASSUME NEW loaded \in Seq(Agent!Events), NEW c \in {"done", "loaded"},
                 streams' = [streams EXCEPT ![r].pc = c, ![r].past = loaded]
          PROVE  StreamsBound'
      <3> DEFINE to == [streams[r] EXCEPT !.pc = c, !.past = loaded]
      <3>1. streams' = [streams EXCEPT ![r] = to]
        BY <1>1, <2>2 DEF AgentInv, AgentTypes
      <3>2. to.past = loaded /\ to.got = streams[r].got /\ to.queue = streams[r].queue
        BY <1>1, StreamParts DEF StreamType
      <3> HIDE DEF to
      <3> QED BY <1>1, <3>1, <3>2, StreamParts, StreamMoved DEF AgentBounds
    <2>3. CASE q = None
      BY <1>3, <2>1, <2>2, <2>3 DEF Agent!Load
    <2>4. CASE q # None
      <3> DEFINE n == agents[q].counted
                 m == IF n < Len(history) THEN n ELSE Len(history)
      <3>1. q \in Requests
        BY <1>1, <2>4, StreamParts DEF StreamType
      <3>2. n \in Nat
        BY <3>1 DEF AgentInv, AgentTypes, RunType
      <3>3. m \in 0 .. Len(history)
        BY <2>1, <3>2
      <3> HIDE DEF n, m
      <3>4. SubSeq(history, 1, m) \in Seq(Agent!Events)
        BY <2>1, <3>3, SubSeqProperties
      <3>5. streams' = [streams EXCEPT ![r].pc = "loaded", ![r].past = SubSeq(history, 1, m)]
        BY <1>3, <2>4 DEF Agent!Load, Agent!Prefix, n, m
      <3> QED BY <2>2, <3>4, <3>5
    <2> QED BY <2>3, <2>4
  <1>4. CASE Agent!ReplayAndSubscribe(r)
    <2>1. q \in Requests
      BY <1>1, <1>4, StreamParts, ComponentsAssumption
         DEF Agent!ReplayAndSubscribe, AgentInv, StreamsAgree, StreamAgrees, StreamType
    <2>2. buses[q].buffer \in Seq(Agent!Events)
      BY <2>1 DEF AgentBounds, BusesBound
    <2>3. PICK c : streams' = [streams EXCEPT ![r].got = buses[q].buffer, ![r].pc = c]
      BY <1>4 DEF Agent!ReplayAndSubscribe
    <2> DEFINE to == [streams[r] EXCEPT !.got = buses[q].buffer, !.pc = c]
    <2>4. streams' = [streams EXCEPT ![r] = to]
      BY <1>1, <2>3 DEF AgentInv, AgentTypes
    <2>5. to.past = streams[r].past /\ to.got = buses[q].buffer /\ to.queue = streams[r].queue
      BY <1>1, StreamParts DEF StreamType
    <2> HIDE DEF to
    <2> QED BY <1>1, <2>2, <2>4, <2>5, StreamParts, StreamMoved DEF AgentBounds
  <1> QED BY <1>2, <1>3, <1>4

\* What is taken from a channel has been published; whoever leaves holds nothing more.
LEMMA SubscriberBounds ==
    ASSUME AgentInv, AgentBounds, NEW s \in Agent!Subscribers,
           \/ Agent!Receive(s) \/ Agent!SeeEnd(s) \/ Agent!Unsubscribe(s)
           \/ \E to \in {"leaving", "absent"} : Agent!Leave(s, to)
    PROVE  StreamsBound'
  <1>1. <<>> \in Seq(Agent!Events) /\ Len(<<>>) = 0 /\ Buffer \in Nat
    BY EmptySeq, Bounded
  <1>2. CASE Agent!Receive(s)
    <2> DEFINE to == [streams[s] EXCEPT !.got = Append(streams[s].got, Head(streams[s].queue)),
                                        !.queue = Tail(streams[s].queue)]
    <2>1. streams' = [streams EXCEPT ![s] = to] /\ streams[s].queue # <<>>
      BY <1>2 DEF Agent!Receive, AgentInv, AgentTypes
    <2>2. /\ Head(streams[s].queue) \in Agent!Events
          /\ Tail(streams[s].queue) \in Seq(Agent!Events)
          /\ Len(Tail(streams[s].queue)) = Len(streams[s].queue) - 1
      BY <2>1, StreamParts, TakenKept
    <2>3. Append(streams[s].got, Head(streams[s].queue)) \in Seq(Agent!Events)
      BY <2>2, StreamParts, AppendProperties
    <2>4. /\ to.past = streams[s].past /\ to.queue = Tail(streams[s].queue)
          /\ to.got = Append(streams[s].got, Head(streams[s].queue))
      BY StreamParts DEF StreamType
    <2>5. Len(Tail(streams[s].queue)) <= Buffer
      BY <2>2, StreamParts
    <2> HIDE DEF to
    <2> QED BY <2>1, <2>2, <2>3, <2>4, <2>5, StreamParts, StreamMoved DEF AgentBounds
  <1>3. ASSUME NEW c, NEW got \in {streams[s].got, <<>>},
               streams' = [streams EXCEPT ![s].pc = c, ![s].got = got]
        PROVE  StreamsBound'
    <2> DEFINE to == [streams[s] EXCEPT !.pc = c, !.got = got]
    <2>1. streams' = [streams EXCEPT ![s] = to]
      BY <1>3 DEF AgentInv, AgentTypes
    <2>2. to.past = streams[s].past /\ to.got = got /\ to.queue = streams[s].queue
      BY StreamParts DEF StreamType
    <2>3. got \in Seq(Agent!Events)
      BY <1>1, StreamParts
    <2> HIDE DEF to
    <2> QED BY <2>1, <2>2, <2>3, StreamParts, StreamMoved DEF AgentBounds
  <1>4. CASE Agent!SeeEnd(s)
    <2>1. streams' = [streams EXCEPT ![s].pc = "done", ![s].got = streams[s].got]
      BY <1>4, StreamParts DEF Agent!SeeEnd, StreamType, AgentInv, AgentTypes
    <2> QED BY <1>3, <2>1
  <1>5. ASSUME NEW to, Agent!Leave(s, to)
        PROVE  StreamsBound'
    BY <1>3, <1>5 DEF Agent!Leave
  <1>6. CASE Agent!Unsubscribe(s)
    <2> DEFINE to == [streams[s] EXCEPT !.pc = "left", !.queue = <<>>]
    <2>1. streams' = [streams EXCEPT ![s] = to]
      BY <1>6 DEF Agent!Unsubscribe, AgentInv, AgentTypes
    <2>2. to.past = streams[s].past /\ to.got = streams[s].got /\ to.queue = <<>>
      BY StreamParts DEF StreamType
    <2>3. Len(<<>>) <= Buffer
      BY <1>1
    <2> HIDE DEF to
    <2> QED BY <1>1, <2>1, <2>2, <2>3, StreamParts, StreamMoved DEF AgentBounds
  <1> QED BY <1>2, <1>4, <1>5, <1>6

\* A registration opens a stream, a close shuts some; neither gives them anything.
LEMMA StreamsHeld ==
    ASSUME AgentInv, AgentBounds, NEW q \in Requests,
           Agent!Register(q) \/ Agent!CloseBus(q)
    PROVE  StreamsBound'
  <1>1. streams \in [Agent!Subscribers -> StreamType] /\ q \in Agent!Subscribers
    BY DEF AgentInv, AgentTypes, Agent!Subscribers
  <1>2. ASSUME NEW s \in Agent!Subscribers
        PROVE  /\ streams'[s].past = streams[s].past /\ streams'[s].got = streams[s].got
               /\ streams'[s].queue = streams[s].queue
    <2>1. \/ streams'[s] = streams[s]
          \/ streams'[s] = [streams[s] EXCEPT !.pc = "streaming", !.bus = q]
          \/ streams'[s] = [streams[s] EXCEPT !.shut = TRUE]
      BY <1>1 DEF Agent!Register, Agent!CloseBus
    <2>2. streams[s] \in StreamType
      BY <1>1
    <2> QED BY <2>1, <2>2 DEF StreamType
  <1> QED BY <1>2 DEF AgentBounds, StreamsBound, StreamBound

\* Only Publish appends to a buffer.
LEMMA BuffersHeld ==
    ASSUME AgentInv, AgentBounds,
           \/ \E q \in Requests : \/ Agent!Register(q) \/ Agent!CloseBus(q)
                                  \/ \E s \in Agent!Subscribers : Agent!Send(q, s)
           \/ \E r \in Readers : Agent!ReplayAndSubscribe(r)
           \/ \E s \in Agent!Subscribers : Agent!Unsubscribe(s)
    PROVE  BusesBound'
  <1>1. buses \in [Requests -> BusType]
    BY DEF AgentInv, AgentTypes
  <1>2. ASSUME NEW p \in Requests PROVE buses'[p].buffer = buses[p].buffer
    <2>1. buses[p] \in BusType
      BY <1>1
    <2>2. ASSUME NEW q \in Requests, Agent!Register(q) \/ Agent!CloseBus(q)
          PROVE  buses'[p].buffer = buses[p].buffer
      <3>1. \/ buses' = [buses EXCEPT ![q].subscribers = {q}]
            \/ buses' = [buses EXCEPT ![q].closed = TRUE, ![q].subscribers = {}]
        BY <2>2 DEF Agent!Register, Agent!CloseBus
      <3>2. ASSUME NEW b, b.buffer = buses[q].buffer, buses' = [buses EXCEPT ![q] = b]
            PROVE  buses'[p].buffer = buses[p].buffer
        BY <1>1, <3>2
      <3> DEFINE open == [buses[q] EXCEPT !.subscribers = {q}]
                 shut == [buses[q] EXCEPT !.closed = TRUE, !.subscribers = {}]
      <3>3. open.buffer = buses[q].buffer /\ shut.buffer = buses[q].buffer
        BY <1>1 DEF BusType
      <3>4. buses' = [buses EXCEPT ![q] = open] \/ buses' = [buses EXCEPT ![q] = shut]
        BY <1>1, <3>1
      <3> HIDE DEF open, shut
      <3> QED BY <3>2, <3>3, <3>4
    <2>3. ASSUME NEW q \in Requests, NEW s \in Agent!Subscribers, Agent!Send(q, s)
          PROVE  buses'[p].buffer = buses[p].buffer
      BY <1>1, <2>1, <2>3 DEF Agent!Send, BusType
    <2>4. ASSUME NEW s, Agent!ReplayAndSubscribe(s) \/ Agent!Unsubscribe(s)
          PROVE  buses'[p].buffer = buses[p].buffer
      <3>1. \/ buses' = buses
            \/ \E q, set : buses' = [buses EXCEPT ![q].subscribers = set]
        BY <2>4 DEF Agent!ReplayAndSubscribe, Agent!Unsubscribe
      <3> QED BY <1>1, <2>1, <3>1 DEF BusType
    <2> QED BY <2>2, <2>3, <2>4
  <1> QED BY <1>2 DEF AgentBounds, BusesBound

\* Every step of runs and streams keeps the bounds.
LEMMA AgentBoundsStep == AgentInv /\ AgentBounds /\ [Agent!Next]_agentVars => AgentBounds'
  <1> SUFFICES ASSUME AgentInv, AgentBounds, [Agent!Next]_agentVars
               PROVE  AgentBounds'
    OBVIOUS
  <1>1. CASE UNCHANGED agentVars
    BY <1>1 DEF agentVars, AgentBounds, StreamsBound, StreamBound, BusesBound, RunsBound,
                StoreBound
  <1>2. UNCHANGED streams => StreamsBound'
    BY DEF AgentBounds, StreamsBound, StreamBound
  <1>3. UNCHANGED buses => BusesBound'
    BY DEF AgentBounds, BusesBound
  <1>4. UNCHANGED agents => RunsBound'
    BY DEF AgentBounds, RunsBound
  <1>5. UNCHANGED <<history, metadata, agentFaults>> => StoreBound'
    BY DEF AgentBounds, StoreBound
  <1>6. ASSUME NEW q \in Requests, Agent!CountEvents(q) \/ Agent!Refuse(q)
        PROVE  AgentBounds'
    <2>1. UNCHANGED <<buses, streams>>
      BY <1>6 DEF Agent!CountEvents, Agent!Refuse
    <2> QED BY <1>2, <1>3, <1>6, <2>1, CountEventsBounds DEF AgentBounds
  <1>7. ASSUME NEW q \in Requests, Agent!Register(q) \/ Agent!CloseBus(q)
        PROVE  AgentBounds'
    <2>1. UNCHANGED <<history, metadata, agentFaults>>
      BY <1>7 DEF Agent!Register, Agent!CloseBus, Agent!store
    <2> QED BY <1>5, <1>7, <2>1, RunKept, BuffersHeld, StreamsHeld DEF AgentBounds
  <1>8. ASSUME NEW q \in Requests, Agent!RemoveActiveRun(q)
        PROVE  AgentBounds'
    <2>1. UNCHANGED <<history, metadata, agentFaults, buses, streams>>
      BY <1>8 DEF Agent!RemoveActiveRun, Agent!store
    <2> QED BY <1>2, <1>3, <1>5, <1>8, <2>1, RunKept DEF AgentBounds
  <1>9. ASSUME NEW q \in Requests, Agent!EnsureSession(q)
        PROVE  AgentBounds'
    <2>1. UNCHANGED <<buses, streams>>
      BY <1>9 DEF Agent!EnsureSession
    <2> QED BY <1>2, <1>3, <1>9, <2>1, RunKept, EnsureSessionBounds DEF AgentBounds
  <1>10. ASSUME NEW q \in Requests, Agent!StoreMessage(q) \/ Agent!Yield(q)
         PROVE  AgentBounds'
    <2>1. UNCHANGED streams
      BY <1>10 DEF Agent!StoreMessage, Agent!Yield
    <2> QED BY <1>2, <1>10, <2>1, YieldBounds DEF AgentBounds
  <1>11. ASSUME NEW q \in Requests, NEW s \in Agent!Subscribers, Agent!Send(q, s)
         PROVE  AgentBounds'
    <2>1. UNCHANGED <<history, metadata, agentFaults, agents>>
      BY <1>11 DEF Agent!Send, Agent!store
    <2> QED BY <1>4, <1>5, <1>11, <2>1, SendBounds, BuffersHeld DEF AgentBounds
  <1>12. ASSUME NEW r \in Readers,
                Agent!Capture(r) \/ Agent!Load(r) \/ Agent!ReplayAndSubscribe(r)
         PROVE  AgentBounds'
    <2>1. /\ UNCHANGED <<history, metadata, agentFaults, agents>>
          /\ UNCHANGED buses \/ Agent!ReplayAndSubscribe(r)
      BY <1>12 DEF Agent!Capture, Agent!Load, Agent!ReplayAndSubscribe, Agent!store
    <2> QED BY <1>3, <1>4, <1>5, <1>12, <2>1, ReaderBounds, BuffersHeld DEF AgentBounds
  <1>13. ASSUME NEW s \in Agent!Subscribers,
                \/ Agent!Receive(s) \/ Agent!SeeEnd(s) \/ Agent!Unsubscribe(s)
                \/ \E to \in {"leaving", "absent"} : Agent!Leave(s, to)
         PROVE  AgentBounds'
    <2>1. /\ UNCHANGED <<history, metadata, agentFaults, agents>>
          /\ UNCHANGED buses \/ Agent!Unsubscribe(s)
      BY <1>13 DEF Agent!Receive, Agent!SeeEnd, Agent!Unsubscribe, Agent!Leave, Agent!store
    <2> QED BY <1>3, <1>4, <1>5, <1>13, <2>1, SubscriberBounds, BuffersHeld DEF AgentBounds
  <1> QED BY <1>1, <1>6, <1>7, <1>8, <1>9, <1>10, <1>11, <1>12, <1>13, Zenon
       DEF Agent!Next, Agent!Proceed

\* Streams and the listing hold only events that requests may yield, and no channel
\* holds more than its buffer (Publish, ReplayAndSubscribe, AppendEvent).
THEOREM AgentBounded == ComponentsSpec => []AgentBounds
  <1>1. ComponentsInit => AgentBounds
    BY AgentBoundsInit DEF ComponentsInit
  <1>2. /\ AgentInv /\ AgentBounds
        /\ [ComponentsNext]_<<part, vars, importVars, linkVars, routerVars, agentVars>>
        => AgentBounds'
    BY AgentTurns, AgentBoundsStep
  <1> QED BY <1>1, <1>2, AgentInvariant, PTL DEF ComponentsSpec

\* Invariant and bounds together say what the type invariant says.
LEMMA AgentTyped == AgentInv /\ AgentBounds => Agent!TypeOK
  <1> SUFFICES ASSUME AgentInv, AgentBounds PROVE Agent!TypeOK
    OBVIOUS
  <1>1. Len(history) \in Nat /\ exists \in BOOLEAN /\ active \in Requests \cup {None}
    BY LenProperties DEF AgentInv, AgentTypes
  <1>2. history \in Seq(Agent!Events) /\ agentFaults \in 0 .. MaxFaults
    BY DEF AgentBounds, StoreBound
  <1>3. metadata # None => /\ metadata.created \in 0 .. Len(history)
                           /\ metadata.title \in Agent!Events \cup {None}
    <2>1. metadata # None => metadata.created \in Nat
      BY DEF AgentInv, AgentTypes, Listing
    <2> QED BY <1>1, <2>1 DEF AgentBounds, StoreBound
  <1>4. agents \in [Requests -> [pc : {"idle", "counted", "refused", "starting", "running",
                                       "closed", "ended"},
                                 counted : 0 .. Len(history), before : 0 .. Len(history),
                                 sure : BOOLEAN, yielded : Nat]]
    <2>1. agents \in [Requests -> RunType]
      BY DEF AgentInv, AgentTypes
    <2>2. ASSUME NEW q \in Requests
          PROVE  /\ agents[q].counted \in 0 .. Len(history)
                 /\ agents[q].before \in 0 .. Len(history)
      BY <1>1, <2>1, <2>2 DEF AgentInv, CountsSure, RunType
    <2>3. \A q \in Requests :
             agents[q] \in [pc : {"idle", "counted", "refused", "starting", "running",
                                  "closed", "ended"},
                            counted : 0 .. Len(history), before : 0 .. Len(history),
                            sure : BOOLEAN, yielded : Nat]
      BY <2>1, <2>2 DEF RunType, Fresh, Over
    <2> QED BY <2>1, <2>3
  <1>5. \A q \in Requests : agents[q].yielded <= Yields[q] + 1
    BY DEF AgentBounds, RunsBound
  <1>6. \A q \in Requests :
           /\ buses[q].buffer \in Seq(Agent!Events)
           /\ buses[q].unsent \cup buses[q].subscribers \subseteq Agent!Subscribers
    BY DEF AgentBounds, BusesBound, AgentInv, AgentTypes, BusType
  <1>7. \A s \in Agent!Subscribers :
           /\ streams[s].pc \in {"idle", "captured", "loaded", "streaming", "leaving", "left",
                                 "absent", "done"}
           /\ streams[s].bus \in Requests \cup {None}
           /\ {streams[s].past, streams[s].got, streams[s].queue} \subseteq Seq(Agent!Events)
           /\ Len(streams[s].queue) <= Buffer
    BY StreamParts DEF StreamType
  <1> QED BY <1>1, <1>2, <1>3, <1>4, <1>5, <1>6, <1>7, Zenon DEF Agent!TypeOK

=============================================================================
