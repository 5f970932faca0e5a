----------------------------- MODULE Components -----------------------------
(* Transfer matching, CSV imports, bank links, the life of a router and agent   *)
(* runs share no state that another of them reads: each behaviour of this       *)
(* module is one of the five, and the other four rest.                          *)
EXTENDS TransferMatching

CONSTANTS Imports, Situations, Users, Runners,
          PendingLedgers, \* the ledgers whose rows may first be pending
          Starts, Synthetic, Finishers, MaxMade,
          Topics, Topic, Deliveries, MaxTries, MaxAbandons,
          Requests, Readers, Buffer, Yields, Partial

ASSUME ComponentsAssumption ==
    /\ \A s \in Situations :
          /\ \A n \in DOMAIN s.accounts : s.accounts[n] \in Seq(Range(s.accounts[n]))
          /\ \A i \in Imports :
                /\ s.files[i].rows \in Seq(Range(s.files[i].rows))
                /\ \A row \in Range(s.files[i].rows) :
                      /\ row \in [parses : BOOLEAN, account : DOMAIN s.accounts,
                                  currency : {row.currency}, expense : BOOLEAN,
                                  category : DOMAIN s.categories \cup {None}, key : {row.key}]
                      /\ row.currency # None
    /\ MaxMade \in Nat /\ MaxFaults \in Nat
    /\ None \notin Starts \cup {"on", "off", "income", "expense"}
    /\ None \notin [start : Starts, session : Nat]
    /\ IsFiniteSet(Topics) /\ DOMAIN Topic # {}
    /\ IsFiniteSet(Deliveries)
    /\ MaxTries \in Nat \ {0} /\ MaxAbandons \in Nat
    /\ Requests \cap Readers = {}
    /\ None \notin Requests
    /\ None \notin [created : Nat, title : [run : Requests, n : Nat] \cup {None}]
    /\ Buffer \in Nat
    /\ Yields \in [Requests -> Nat]

VARIABLES
    part, \* the component at work
    files, records, outcomes, accounts, categories, posted, messages,
    confirming, runs, seen, importFaults,
    starts, expired, connections, requests, adrift, linkPast, userOps, linkFaults,
    mode, pc, sawStarted, router, cancelled, handlers, subscriber, deliveries, taken,
    tracker, dbOpen, abandons,
    exists, history, metadata, active, agents, buses, streams, agentFaults

importVars == <<files, records, outcomes, accounts, categories, posted,
                messages, confirming, runs, seen, importFaults>>

linkVars == <<starts, expired, connections, requests, adrift, linkPast, userOps, linkFaults>>

routerVars == <<mode, pc, sawStarted, router, cancelled, handlers, subscriber, deliveries,
                taken, tracker, dbOpen, abandons>>

agentVars == <<exists, history, metadata, active, agents, buses, streams, agentFaults>>

Csv  == INSTANCE CsvImport WITH faults <- importFaults
Link == INSTANCE LinkCoordinator
           WITH MaxUserOps <- 2, MaxFaults <- 2, past <- linkPast, faults <- linkFaults
Router == INSTANCE RouterLifecycle WITH messages <- taken
Agent == INSTANCE AgentRuns WITH runs <- agents, faults <- agentFaults

\* A component at rest starts from any one of its situations.
ComponentsInit ==
    /\ part \in {"matching", "imports", "links", "router", "agents"}
    /\ Init /\ (part # "matching" => ledger = CHOOSE l \in Ledgers : TRUE)
    /\ Csv!Init /\ (part # "imports" => files = (CHOOSE s \in Situations : TRUE).files)
    /\ Link!Init
    /\ Router!Init /\ (part # "router" => mode = "run" /\ handlers = <<>>)
    /\ Agent!Init

Matching(Act) ==
    part = "matching" /\ Act /\ UNCHANGED <<part, importVars, linkVars, routerVars, agentVars>>
Importing(Act) ==
    part = "imports" /\ Act /\ UNCHANGED <<part, vars, linkVars, routerVars, agentVars>>
Linking(Act) ==
    part = "links" /\ Act /\ UNCHANGED <<part, vars, importVars, routerVars, agentVars>>
Routing(Act) ==
    part = "router" /\ Act /\ UNCHANGED <<part, vars, importVars, linkVars, agentVars>>
Talking(Act) ==
    part = "agents" /\ Act /\ UNCHANGED <<part, vars, importVars, linkVars, routerVars>>

\* The next-state relations of the five, action by action.
ComponentsNext ==
    \/ \E rows \in (SUBSET Rows) \ {{}}, status \in {"pending", "booked"} :
          /\ status = "pending" => ledger \in PendingLedgers
          /\ Matching(Synchronize(rows, status))
    \/ \E t \in Rows :
          \/ Matching(Hide(t))
          \/ \E u \in Rows : Matching(OpenLink(t, u))
          \/ \E u \in Rows : Matching(OpenUnlink(t, u))
    \/ Matching(CompleteUser)
    \/ \E range \in Ranges : Matching(Submit(range))
    \/ \E c \in Consumers :
          \/ Matching(Begin(c))
          \/ Matching(SavePair(c))
          \/ Matching(Finish(c))
          \/ Matching(FailAttempt(c))
    \/ \E i \in Imports :
          \/ Importing(Csv!PreviewCSVImport(i))
          \/ \E u \in Users : Importing(Csv!OpenConfirm(u, i))
          \/ \E w \in Runners : Importing(Csv!OpenRun(w, i))
    \/ \E u \in Users :
          \/ Importing(Csv!StepConfirm(u))
          \/ Importing(Csv!DropConfirm(u))
    \/ \E w \in Runners :
          \/ Importing(Csv!SaveRunning(w))
          \/ Importing(Csv!OpenRow(w))
          \/ Importing(Csv!CommitRow(w))
          \/ Importing(Csv!FailRow(w))
          \/ Importing(Csv!FinishRun(w))
          \/ Importing(Csv!DropRun(w))
    \/ \E name \in DOMAIN accounts : Importing(Csv!HideAccount(name))
    \/ \E s \in Starts :
          \/ Linking(Link!StartRedirectLink(s))
          \/ Linking(Link!Expire(s))
          \/ \E f \in Finishers : Linking(Link!Consume(f, s))
    \/ \E f \in Finishers :
          \/ Linking(Link!FinishLink(f))
          \/ Linking(Link!CommitLink(f))
          \/ Linking(Link!FailLink(f))
          \/ Linking(Link!GiveUp(f))
          \/ Linking(Link!Restore(f))
          \/ Linking(Link!LoseRequest(f))
    \/ \E save \in adrift, commits \in BOOLEAN : Linking(Link!Settle(save, commits))
    \/ Linking(Link!LinkToken)
    \/ \E c \in DOMAIN connections :
          \/ Linking(Link!Pause(c))
          \/ Linking(Link!Delete(c))
    \/ \E p \in Router!Threads :
          \/ Routing(Router!LockClose(p))
          \/ Routing(Router!SignalClose(p))
          \/ Routing(Router!FinishClose(p))
          \/ Routing(Router!AwaitClosed(p))
    \/ \E p \in Router!Closers : Routing(Router!CallClose(p))
    \/ Routing(Router!CloseDatabase)
    \/ Routing(Router!EnterRun)
    \/ Routing(Router!BeginSubscriptions)
    \/ Routing(Router!Watch)
    \/ Routing(Router!WatermillReturns)
    \/ \E t \in DOMAIN handlers :
          \/ Routing(Router!Subscribe(t))
          \/ Routing(Router!Subscribed(t))
          \/ Routing(Router!StopHandler(t))
    \/ Routing(Router!CallRun)
    \/ Routing(Router!RunReturned)
    \/ Routing(Router!StartPolling)
    \/ Routing(Router!CallerGone)
    \/ Routing(Router!Poll)
    \/ Routing(Router!CancelCaller)
    \/ \E d \in Deliveries :
          \/ \E m \in DOMAIN Topic : Routing(Router!Fetch(d, m))
          \/ Routing(Router!EnterHandler(d))
          \/ Routing(Router!HandlerEnds(d))
          \/ Routing(Router!HandlerFails(d))
          \/ Routing(Router!Retry(d))
          \/ Routing(Router!GiveUp(d))
          \* Bound: no delivery is abandoned beside a second subscription.
          \/ Cardinality(DOMAIN handlers) = 1 /\ Routing(Router!Abandon(d))
    \/ \E m \in DOMAIN Topic : Routing(Router!TakenElsewhere(m))
    \/ \E q \in Requests :
          \/ Talking(Agent!CountEvents(q))
          \/ Talking(Agent!Refuse(q))
          \/ Talking(Agent!Register(q))
          \/ Talking(Agent!EnsureSession(q))
          \/ Talking(Agent!StoreMessage(q))
          \/ Talking(Agent!Yield(q))
          \/ Talking(Agent!CloseBus(q))
          \/ Talking(Agent!RemoveActiveRun(q))
          \/ \E s \in Agent!Subscribers : Talking(Agent!Send(q, s))
    \/ \E r \in Readers :
          \/ Talking(Agent!Capture(r))
          \/ Talking(Agent!Load(r))
          \/ Talking(Agent!ReplayAndSubscribe(r))
    \/ \E s \in Agent!Subscribers :
          \/ Talking(Agent!Receive(s))
          \/ Talking(Agent!SeeEnd(s))
          \/ Talking(Agent!Unsubscribe(s))
          \/ \E to \in {"leaving", "absent"} : Talking(Agent!Leave(s, to))

ComponentsSpec ==
    /\ ComponentsInit
    /\ [][ComponentsNext]_<<part, vars, importVars, linkVars, routerVars, agentVars>>

-----------------------------------------------------------------------------
(* The properties of the four instances, under this module's names, of the      *)
(* component that is at work                                                    *)

\* The components' states have their types: saves, confirmations, runs, links,
\* closes and streams never leave a record, a thread or a channel of another shape.
ComponentsTypeOK ==
    CASE part = "matching" -> TypeOK
      [] part = "imports" -> Csv!TypeOK
      [] part = "links" -> Link!TypeOK
      [] part = "router" -> Router!TypeOK
      [] part = "agents" -> Agent!TypeOK

\* Transactions, outcomes, record and message of an import agree
\* (ImportTransactionRow, RunCSVImportJob, ConfirmCSVImport).
ImportsConsistent == part = "imports" => Csv!ImportsConsistent

\* No entry is imported twice, unless the transactions of two rows overlap
\* (rejectDuplicateImportTransaction).
NoDoubleEntry == part = "imports" => Csv!NoDoubleEntry

\* The run imports what the preview foretold (PreviewCSVImport).
PreviewKept == part = "imports" => Csv!PreviewKept

\* One redirect start makes one connection, and is not lost (FinishRedirectLink,
\* RestorePendingStart).
OneConnectionPerStart == part = "links" => Link!OneConnectionPerStart

\* A deleted connection owns nothing and a paused one stays paused, although links
\* write what they looked up (SaveLinkedConnectionWithSnapshotAndSchedule,
\* saveMissingBankConnectionSchedule).
UsersWordKept == [][part = "links" => Link!UsersWordKept]_linkVars

\* The database outlives the router's subscriptions, handlers and subscriber
\* (WorkerRoot.Stop, Router.Close).
DatabaseClosedLast == part = "router" => Router!DatabaseClosedLast

\* Run, RunOnce and Close return whenever nothing goes on by itself (requestClose,
\* finishClose).
NobodyWaitsForever == part = "router" => Router!NobodyWaitsForever

\* The second idle poll meets no handler at work (RunOnce, runOnceTracker).
LongDeliveryPreserved == [][part = "router" => Router!LongDeliveryPreserved]_routerVars

\* A subscriber is given what its run publishes (EventBus).
StreamsExact == part = "agents" => Agent!StreamsExact

\* A reader of an active run gets the events before it, then the run (ReadSession).
ReadsComplete == part = "agents" => Agent!ReadsComplete

\* Runs and streams end, unless a run waits for a full channel that nobody reads
\* (Publish, Unsubscribe).
RunsEnd == part = "agents" => Agent!RunsEnd

\* A listed session keeps its title and the time of its creation (AppendEvent of
\* MetadataSyncStorage).
TitleKept == [][part = "agents" => Agent!TitleKept]_agentVars
=============================================================================
