------------------------------ MODULE AgentRuns ------------------------------
(***************************************************************************)
(* Runs of an agent on one session and the streams that follow them        *)
(* (runtime/internal/background_runner.go, event_bus.go, agentrun.go;      *)
(* sessions/metadata_sync.go over the file and memory stores).  A request  *)
(* counts the stored events, registers its run if none is active,          *)
(* subscribes to the run's event bus and starts it in the background.      *)
(* Readers splice the events counted with the bus.                          *)
(*                                                                          *)
(* A bus's mutex is held while Publish sends to each channel, so whoever   *)
(* needs it waits for the slowest subscriber.  The model behind a run is   *)
(* external: it stores the user's message, then yields partial events and  *)
(* events it has stored, and may fail at any of them.                       *)
(***************************************************************************)
EXTENDS Naturals, Sequences, FiniteSets

CONSTANTS Requests,  \* calls of Run
          Readers,   \* calls of ReadSession
          Buffer,    \* subscriberChanBuf
          Yields,    \* request -> bound on the events its run yields
          Partial,   \* which of them are partial
          MaxFaults, \* bound on failures
          None       \* nil

VARIABLES
    exists,   \* whether the session was created
    history,  \* its stored events
    metadata, \* its entry in the listing
    active,   \* the run in activeRuns, or None
    runs,     \* request -> its count of stored events, its background goroutine, and,
              \* for the properties only, how many were stored when it was registered
              \* and whether no other run was active since the count
    buses,    \* request -> the event bus of its run
    streams,  \* subscriber -> what it was given, until it leaves, and its channel
    faults

store == <<exists, history, metadata>>
vars == <<store, active, runs, buses, streams, faults>>

\* A request subscribes to its own run.
Subscribers == Requests \cup Readers

AFault == faults > 0 /\ faults' = faults - 1

Init ==
    /\ exists = FALSE
    /\ history = <<>>
    /\ metadata = None
    /\ active = None
    /\ runs = [q \in Requests |-> [pc |-> "idle", counted |-> 0, before |-> 0, sure |-> TRUE,
                                   yielded |-> 0]]
    /\ buses = [q \in Requests |-> [buffer |-> <<>>, subscribers |-> {}, unsent |-> {},
                                    closed |-> FALSE]]
    /\ streams = [s \in Subscribers |-> [pc |-> "idle", bus |-> None, past |-> <<>>, got |-> <<>>,
                                         queue |-> <<>>, shut |-> FALSE]]
    /\ faults = MaxFaults

\* Nobody holds the mutex of a bus.
Unlocked(q) == buses[q].unsent = {}

-----------------------------------------------------------------------------
(* Run *)

\* ReadSession for the count; a failed one leaves it at 0.
CountEvents(q) ==
    /\ runs[q].pc = "idle"
    /\ \/ /\ runs' = [runs EXCEPT ![q].pc = "counted", ![q].counted = Len(history),
                                  ![q].sure = active = None]
          /\ UNCHANGED faults
       \/ /\ AFault
          /\ runs' = [runs EXCEPT ![q].pc = "counted", ![q].sure = FALSE]
    /\ UNCHANGED <<store, active, buses, streams>>

\* A second run of the session is refused.
Refuse(q) ==
    /\ runs[q].pc = "counted" /\ active # None
    /\ runs' = [runs EXCEPT ![q].pc = "refused"]
    /\ UNCHANGED <<store, active, buses, streams, faults>>

\* The run is registered, its caller subscribed, its goroutine started.
Register(q) ==
    /\ runs[q].pc = "counted" /\ active = None
    /\ active' = q
    /\ runs' = [p \in Requests |->
          IF p = q THEN [runs[q] EXCEPT !.pc = "starting", !.before = Len(history)]
          ELSE [runs[p] EXCEPT !.sure = @ /\ runs[p].pc # "counted"]]
    /\ buses' = [buses EXCEPT ![q].subscribers = {q}]
    /\ streams' = [streams EXCEPT ![q].pc = "streaming", ![q].bus = q]
    /\ UNCHANGED <<store, faults>>

-----------------------------------------------------------------------------
(* Session and listing *)

\* MetadataSyncStorage.Create and Save: a failure is only logged.
ListCreated ==
    \/ /\ metadata' = [created |-> Len(history), title |-> None]
       /\ UNCHANGED faults
    \/ AFault /\ UNCHANGED metadata

\* ensureSession
EnsureSession(q) ==
    /\ runs[q].pc = "starting"
    /\ exists' = TRUE
    /\ IF exists THEN UNCHANGED <<metadata, faults>> ELSE ListCreated
    /\ runs' = [runs EXCEPT ![q].pc = "running"]
    /\ UNCHANGED <<history, active, buses, streams>>

\* titleAfterAppend: only a user's message gives a title, and only to an entry that
\* has none; "" if the summarizer fails.
Title(entry, event, summarized) ==
    IF entry # None /\ entry.title # None THEN entry.title
    ELSE IF event.n = 0 /\ summarized THEN event
    ELSE None

\* The entry after an append.
Entry(entry, event, summarized) ==
    [created |-> IF entry = None THEN Len(history) + 1 ELSE entry.created,
     title |-> Title(entry, event, summarized)]

\* Mutant: an entry that cannot be looked up is written anew.
LookupFails_NotFound(event) == metadata' = Entry(None, event, TRUE)

\* A failed lookup leaves the entry alone.
LookupFails(event) == UNCHANGED metadata

\* MetadataSyncStorage.AppendEvent: lookup, title and save after the append, each of
\* which may fail.
StoreEvent(event) ==
    /\ UNCHANGED exists
    /\ history' = Append(history, event)
    /\ \/ /\ metadata' = Entry(metadata, event, TRUE)
          /\ UNCHANGED faults
       \/ AFault /\ LookupFails(event)
       \/ AFault /\ metadata' = Entry(metadata, event, FALSE)
       \/ AFault /\ UNCHANGED metadata

-----------------------------------------------------------------------------
(* The goroutine of a run *)

\* The user's message is stored and not published.
StoreMessage(q) ==
    /\ runs[q].pc = "running" /\ runs[q].yielded = 0
    /\ StoreEvent([run |-> q, n |-> 0])
    /\ runs' = [runs EXCEPT ![q].yielded = 1]
    /\ UNCHANGED <<active, buses, streams>>

\* Publish: the buffer and, with the mutex held, the channels in any order.
Publish(q, event) ==
    buses' = [buses EXCEPT ![q].buffer = Append(@, event),
                           ![q].unsent = buses[q].subscribers]

\* The run yields an event, stored before if it is not partial.
Yield(q) ==
    LET event == [run |-> q, n |-> runs[q].yielded] IN
    /\ runs[q].pc = "running" /\ runs[q].yielded \in 1..Yields[q]
    /\ Unlocked(q)
    /\ IF event.n \in Partial THEN UNCHANGED <<store, faults>> ELSE StoreEvent(event)
    /\ Publish(q, event)
    /\ runs' = [runs EXCEPT ![q].yielded = @ + 1]
    /\ UNCHANGED <<active, streams>>

\* Mutant: an event is dropped where a channel is full.
Sent_Drop(queue, event) == {IF Len(queue) < Buffer THEN Append(queue, event) ELSE queue}

\* ch <- event, which waits for room.
Sent(queue, event) == IF Len(queue) < Buffer THEN {Append(queue, event)} ELSE {}

Send(q, s) ==
    /\ s \in buses[q].unsent
    /\ \E queue \in Sent(streams[s].queue, buses[q].buffer[Len(buses[q].buffer)]) :
          streams' = [streams EXCEPT ![s].queue = queue]
    /\ buses' = [buses EXCEPT ![q].unsent = @ \ {s}]
    /\ UNCHANGED <<store, active, runs, faults>>

\* Mutant: the channels are left open.
Shut_None(q) == {}

\* The channels that Close closes.
Shut(q) == buses[q].subscribers

\* The run ends, fails or could not start; Close.
CloseBus(q) ==
    /\ runs[q].pc \in {"starting", "running"} /\ Unlocked(q)
    /\ runs' = [runs EXCEPT ![q].pc = "closed"]
    /\ buses' = [buses EXCEPT ![q].closed = TRUE, ![q].subscribers = {}]
    /\ streams' = [s \in Subscribers |->
          IF s \in Shut(q) THEN [streams[s] EXCEPT !.shut = TRUE] ELSE streams[s]]
    /\ UNCHANGED <<store, active, faults>>

RemoveActiveRun(q) ==
    /\ runs[q].pc = "closed"
    /\ runs' = [runs EXCEPT ![q].pc = "ended"]
    /\ active' = None
    /\ UNCHANGED <<store, buses, streams, faults>>

-----------------------------------------------------------------------------
(* ReadSession *)

\* The active run, if there is one, is looked up first.
Capture(r) ==
    /\ streams[r].pc = "idle"
    /\ streams' = [streams EXCEPT ![r].pc = "captured", ![r].bus = active]
    /\ UNCHANGED <<store, active, runs, buses, faults>>

\* Mutant: the prefix is not cut.
Prefix_All(events, n) == events

\* materializePrefix
Prefix(events, n) == SubSeq(events, 1, IF n < Len(events) THEN n ELSE Len(events))

\* The stored events: all of them, or those counted before the active run.
Load(r) ==
    LET q == streams[r].bus IN
    /\ streams[r].pc = "captured"
    /\ streams' = IF q = None
                  THEN [streams EXCEPT ![r].pc = "done", ![r].past = history]
                  ELSE [streams EXCEPT ![r].pc = "loaded",
                                       ![r].past = Prefix(history, runs[q].counted)]
    /\ UNCHANGED <<store, active, runs, buses, faults>>

\* ReplayAndSubscribe, when the reader comes to it.
ReplayAndSubscribe(r) ==
    LET q == streams[r].bus IN
    /\ streams[r].pc = "loaded" /\ Unlocked(q)
    /\ streams' = [streams EXCEPT ![r].got = buses[q].buffer,
                                  ![r].pc = IF buses[q].closed THEN "done" ELSE "streaming"]
    /\ buses' = IF buses[q].closed THEN buses
                ELSE [buses EXCEPT ![q].subscribers = @ \cup {r}]
    /\ UNCHANGED <<store, active, runs, faults>>

-----------------------------------------------------------------------------
(* Subscribers: busSubscriberIterator and yieldLive *)

Receive(s) ==
    /\ streams[s].pc = "streaming" /\ streams[s].queue # <<>>
    /\ streams' = [streams EXCEPT ![s].got = Append(@, Head(streams[s].queue)),
                                  ![s].queue = Tail(@)]
    /\ UNCHANGED <<store, active, runs, buses, faults>>

\* The channel is closed and drained.
SeeEnd(s) ==
    /\ streams[s].pc = "streaming" /\ streams[s].queue = <<>> /\ streams[s].shut
    /\ streams' = [streams EXCEPT ![s].pc = "done"]
    /\ UNCHANGED <<store, active, runs, buses, faults>>

\* The client is gone; the iterator is left, or, if the response fails before it,
\* never entered.
Leave(s, to) ==
    /\ streams[s].pc = "streaming"
    /\ to = "absent" => s \in Requests /\ streams[s].got = <<>>
    /\ streams' = [streams EXCEPT ![s].pc = to, ![s].got = <<>>]
    /\ UNCHANGED <<store, active, runs, buses, faults>>

\* Unsubscribe, for which the iterator waits.
Unsubscribe(s) ==
    LET q == streams[s].bus IN
    /\ streams[s].pc = "leaving" /\ Unlocked(q)
    /\ streams' = [streams EXCEPT ![s].pc = "left", ![s].queue = <<>>]
    /\ buses' = [buses EXCEPT ![q].subscribers = @ \ {s}]
    /\ UNCHANGED <<store, active, runs, faults>>

-----------------------------------------------------------------------------
\* What runs and streams do by themselves.
Proceed ==
    \/ \E q \in Requests :
          \/ Refuse(q) \/ Register(q)
          \/ EnsureSession(q) \/ StoreMessage(q) \/ Yield(q) \/ CloseBus(q) \/ RemoveActiveRun(q)
          \/ \E s \in Subscribers : Send(q, s)
    \/ \E r \in Readers : Load(r) \/ ReplayAndSubscribe(r)
    \/ \E s \in Subscribers : Receive(s) \/ SeeEnd(s) \/ Unsubscribe(s)

Next ==
    \/ Proceed
    \/ \E q \in Requests : CountEvents(q)
    \/ \E r \in Readers : Capture(r)
    \/ \E s \in Subscribers, to \in {"leaving", "absent"} : Leave(s, to)

Spec == Init /\ [][Next]_vars

-----------------------------------------------------------------------------
(* Properties *)

Events == UNION {[run : {q}, n : 0..Yields[q]] : q \in Requests}

\* Runs, buses and streams have their types, and no channel holds more than its
\* buffer (EventBus, activeRun, SessionMetadata).
TypeOK ==
    /\ exists \in BOOLEAN
    /\ history \in Seq(Events)
    /\ metadata # None => metadata.created \in 0..Len(history)
                          /\ metadata.title \in Events \cup {None}
    /\ active \in Requests \cup {None}
    /\ runs \in [Requests -> [pc : {"idle", "counted", "refused", "starting", "running",
                                    "closed", "ended"},
                              counted : 0..Len(history), before : 0..Len(history),
                              sure : BOOLEAN, yielded : Nat]]
    /\ \A q \in Requests : runs[q].yielded <= Yields[q] + 1
    /\ \A q \in Requests : /\ buses[q].buffer \in Seq(Events)
                           /\ buses[q].unsent \cup buses[q].subscribers \subseteq Subscribers
    /\ \A s \in Subscribers :
          /\ streams[s].pc \in {"idle", "captured", "loaded", "streaming", "leaving", "left",
                                "absent", "done"}
          /\ streams[s].bus \in Requests \cup {None}
          /\ {streams[s].past, streams[s].got, streams[s].queue} \subseteq Seq(Events)
          /\ Len(streams[s].queue) <= Buffer
    /\ faults \in 0..MaxFaults

\* A subscriber of a bus is given what the run publishes, in order, without a gap
\* and without a repetition, whenever it joined; at the end it has all of it
\* (Publish, replaySnapshot, Close).
StreamsExact ==
    \A s \in Subscribers :
        LET q == streams[s].bus
            stream == streams[s].got \o streams[s].queue
        IN
        /\ streams[s].pc = "streaming" =>
              buses[q].buffer =
                  IF s \in buses[q].unsent
                  THEN Append(stream, buses[q].buffer[Len(buses[q].buffer)])
                  ELSE stream
        /\ streams[s].pc = "done" /\ q # None => stream = buses[q].buffer

\* A reader of an active run gets all that was stored before the run, each event
\* once, and then the run, although it looks the run up first, loads the history
\* later and subscribes later still (ReadSession, preRunEventCount).  The count is
\* sure only if it was read and no other run was active from then on: Run counts
\* before it takes the mutex that keeps runs apart.
ReadsComplete ==
    \A r \in Readers :
        LET q == streams[r].bus IN
        streams[r].pc = "done" =>
            IF q = None THEN streams[r].past = SubSeq(history, 1, Len(streams[r].past))
            ELSE runs[q].sure =>
                    streams[r].past \o streams[r].got
                        = SubSeq(history, 1, runs[q].before) \o buses[q].buffer

\* Publish holds the mutex and waits for a subscriber that reads no more, which
\* waits for the mutex to unsubscribe, or does not even do that.
Blocked(q) ==
    \E s \in buses[q].unsent :
        streams[s].pc \in {"leaving", "absent"} /\ Len(streams[s].queue) = Buffer

\* When nothing can go on by itself, every run has ended and been removed, so that
\* the session can be continued, and every stream has ended, unless a run is blocked
\* on a subscriber that is gone with its channel full (runBackground,
\* removeActiveRun, busSubscriberIterator).
RunsEnd ==
    \/ ENABLED Proceed
    \/ \E q \in Requests : Blocked(q)
    \/ /\ active = None
       /\ \A q \in Requests : runs[q].pc \in {"idle", "refused", "ended"}
       /\ \A s \in Subscribers : streams[s].pc \in {"idle", "absent", "left", "done"}

\* A listed session keeps the time of its creation and, once it has one, its title,
\* whichever lookups, summaries and saves fail (AppendEvent of MetadataSyncStorage).
TitleKept ==
    metadata # None =>
        /\ metadata' # None /\ metadata'.created = metadata.created
        /\ metadata.title # None => metadata'.title = metadata.title
=============================================================================
