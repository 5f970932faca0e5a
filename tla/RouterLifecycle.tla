--------------------------- MODULE RouterLifecycle ---------------------------
(***************************************************************************)
(* Start, drain and close of one router (appdispatch/router.go) and of the *)
(* worker that owns it (jobs/worker.go RunOnce, wireup/jobs.go Stop).  The *)
(* threads are those of the process: the main one, Router.Run, its watcher *)
(* of the context, and two callers of Close: one at any time, and the      *)
(* shutdown hook, which then closes the database.                          *)
(*                                                                          *)
(* Watermill's router is external: it subscribes its handlers one after    *)
(* another, ends when all of them have stopped and no delivery is handled, *)
(* and does not look at its context while it has no handler.  A context    *)
(* that is done ends the subscriptions and backoffs made with it, but not  *)
(* a handler at work.                                                       *)
(***************************************************************************)
EXTENDS Naturals, FiniteSets

CONSTANTS Topics,     \* the topics that handlers are registered for
          Topic,      \* message -> its topic
          Deliveries, \* deliveries at a time
          MaxTries,   \* attempts of a delivery
          MaxAbandons \* bound on deliveries whose ack deadline passes

VARIABLES
    mode,       \* Run, Router.RunOnce or Worker.RunOnce
    pc,         \* thread -> where it is
    sawStarted, \* what requestClose returned to the threads that close
    router,     \* fields of Router
    cancelled,  \* contexts cancelled: the caller's, RunOnce's, Run's
    handlers,   \* registered topic -> state of its handler
    subscriber, \* fields of lifecycleSubscriber; whether the transport's is open
    deliveries, \* delivery -> what its goroutine does
    messages,   \* message -> pending, or how it was done with
    tracker,    \* the tracker of RunOnce, and its count of idle polls
    dbOpen,
    abandons

threads == <<mode, pc, sawStarted>>
lifecycle == <<router, cancelled, handlers, subscriber, dbOpen>>
dispatch == <<deliveries, messages, tracker, abandons>>

vars == <<threads, lifecycle, dispatch>>

Messages == DOMAIN Topic
Closers == {"closer", "hook"}
Threads == {"main", "run", "watcher"} \cup Closers

Free == [pc |-> "free", message |-> CHOOSE m \in Messages : TRUE, live |-> FALSE, tries |-> 0]

\* Routers that root constructors have built, with any handlers.
Init ==
    /\ mode \in {"run", "once", "workerOnce"}
    /\ pc = [p \in Threads |-> "idle"]
    /\ sawStarted = [p \in Threads |-> FALSE]
    /\ router = [started |-> FALSE, closed |-> FALSE, closeDone |-> FALSE, wmClosed |-> FALSE]
    /\ cancelled = {}
    /\ \E registered \in SUBSET Topics : handlers = [t \in registered |-> "none"]
    /\ subscriber = [begin |-> FALSE, closing |-> FALSE, failed |-> FALSE, started |-> 0,
                     ready |-> FALSE, open |-> TRUE]
    /\ deliveries = [d \in Deliveries |-> Free]
    /\ messages = [m \in Messages |-> "pending"]
    /\ tracker = [active |-> [m \in Messages |-> 0], retries |-> {}, idle |-> 0]
    /\ dbOpen = TRUE
    /\ abandons = MaxAbandons

Registered == DOMAIN handlers

\* The contexts nest: the caller's, RunOnce's in it, Run's own in that.
CallerDone == "caller" \in cancelled
RunDone    == CallerDone \/ "once" \in cancelled
InnerDone  == RunDone \/ "inner" \in cancelled

Goto(p, to) == pc' = [pc EXCEPT ![p] = to]

-----------------------------------------------------------------------------
(* Closing: requestClose, finishClose, Close *)

\* requestClose under the router's mutex.
LockClose(p) ==
    /\ pc[p] = "lock"
    /\ Goto(p, "signal")
    /\ router' = [router EXCEPT !.closed = TRUE]
    /\ sawStarted' = [sawStarted EXCEPT ![p] = router.started]
    /\ UNCHANGED <<mode, cancelled, handlers, subscriber, dbOpen, dispatch>>

\* Mutant: Watermill's router is left to see the cancellation.
ClosesWatermill_Never(p) == FALSE

\* started && !hasHandlers
ClosesWatermill(p) == sawStarted[p] /\ Registered = {}

\* Mutant: Close releases the subscriber itself, started or not.
AfterSignal_Close(p) ==
    IF p = "watcher" THEN "returned" ELSE "finish"

\* The watcher only requests; a router that was started is finished by its Run.
AfterSignal(p) ==
    CASE p = "watcher" -> "returned"
      [] p \in Closers /\ sawStarted[p] -> "await"
      [] OTHER -> "finish"

\* The rest of requestClose: BeginClose, runCancel, Watermill's Close.
SignalClose(p) ==
    /\ pc[p] = "signal"
    /\ Goto(p, AfterSignal(p))
    /\ subscriber' = [subscriber EXCEPT !.closing = TRUE]
    /\ cancelled' = IF sawStarted[p] THEN cancelled \cup {"inner"} ELSE cancelled
    /\ router' = [router EXCEPT !.wmClosed = @ \/ ClosesWatermill(p)]
    /\ UNCHANGED <<mode, sawStarted, handlers, dbOpen, dispatch>>

\* finishClose, and in Run the Close that finds it done.
FinishClose(p) ==
    /\ pc[p] = "finish"
    /\ Goto(p, "returned")
    /\ subscriber' = [subscriber EXCEPT !.closing = TRUE, !.open = FALSE]
    /\ router' = [router EXCEPT !.closeDone = TRUE]
    /\ UNCHANGED <<mode, sawStarted, cancelled, handlers, dbOpen, dispatch>>

AwaitClosed(p) ==
    /\ pc[p] = "await"
    /\ router.closeDone
    /\ Goto(p, "returned")
    /\ UNCHANGED <<mode, sawStarted, lifecycle, dispatch>>

\* WorkerRoot.Stop by its owner at any time; the shutdown hook once the command
\* is over, or if it was never run.
CallClose(p) ==
    /\ pc[p] = "idle"
    /\ p = "hook" => pc["main"] \in {"idle", "returned"}
    /\ Goto(p, "lock")
    /\ UNCHANGED <<mode, sawStarted, lifecycle, dispatch>>

\* The hook's last step.
CloseDatabase ==
    /\ pc["hook"] = "returned" /\ dbOpen
    /\ dbOpen' = FALSE
    /\ UNCHANGED <<threads, router, cancelled, handlers, subscriber, dispatch>>

-----------------------------------------------------------------------------
(* Run *)

\* The checks at its entry: a context that is done closes the router, one that is
\* closed refuses; otherwise the watcher starts.
EnterRun ==
    /\ pc["run"] = "entry"
    /\ IF RunDone THEN Goto("run", "lock") /\ UNCHANGED router
       ELSE IF router.closed THEN Goto("run", "returned") /\ UNCHANGED router
       ELSE /\ pc' = [pc EXCEPT !["run"] = "begin"]
            /\ router' = [router EXCEPT !.started = TRUE]
    /\ UNCHANGED <<mode, sawStarted, cancelled, handlers, subscriber, dbOpen, dispatch>>

\* Every attempt to subscribe has returned.
Ready(started) == started = Cardinality(Registered)

BeginSubscriptions ==
    /\ pc["run"] = "begin"
    /\ pc' = [pc EXCEPT !["run"] = "serving", !["watcher"] = "watching"]
    /\ subscriber' = [subscriber EXCEPT !.begin = TRUE, !.ready = Ready(subscriber.started)]
    /\ UNCHANGED <<mode, sawStarted, router, cancelled, handlers, dbOpen, dispatch>>

Watch ==
    /\ pc["watcher"] = "watching" /\ RunDone
    /\ Goto("watcher", "lock")
    /\ UNCHANGED <<mode, sawStarted, lifecycle, dispatch>>

\* subscriptionStarted, and what Watermill makes of the channel.
SubscriptionStarted(t, to, error) ==
    LET started == subscriber.started + 1 IN
    /\ handlers' = [handlers EXCEPT ![t] = to]
    /\ subscriber' = [subscriber EXCEPT !.started = started, !.failed = @ \/ error,
                                        !.ready = @ \/ (subscriber.begin /\ Ready(started))]

\* lifecycleSubscriber.Subscribe: a closed channel, or the transport's Subscribe.
Subscribe(t) ==
    /\ pc["run"] = "serving"
    /\ handlers[t] = "none"
    /\ \A u \in Registered : handlers[u] # "subscribing"
    /\ IF subscriber.closing \/ subscriber.failed
       THEN SubscriptionStarted(t, "stopped", FALSE)
       ELSE /\ handlers' = [handlers EXCEPT ![t] = "subscribing"]
            /\ UNCHANGED subscriber
    /\ UNCHANGED <<threads, router, cancelled, dbOpen, dispatch>>

\* The transport's Subscribe returns a channel, or an error that is remembered.
Subscribed(t) ==
    /\ handlers[t] = "subscribing"
    /\ \/ SubscriptionStarted(t, "consuming", FALSE)
       \/ SubscriptionStarted(t, "stopped", TRUE)
    /\ UNCHANGED <<threads, router, cancelled, dbOpen, dispatch>>

\* The channel of a subscription closes when its context is done; its deliveries'
\* contexts are done too.
StopHandler(t) ==
    /\ handlers[t] = "consuming"
    /\ InnerDone \/ ~subscriber.open
    /\ handlers' = [handlers EXCEPT ![t] = "stopped"]
    /\ deliveries' = [d \in Deliveries |->
          IF Topic[deliveries[d].message] = t THEN [deliveries[d] EXCEPT !.live = FALSE]
          ELSE deliveries[d]]
    /\ UNCHANGED <<threads, router, cancelled, subscriber, dbOpen, messages, tracker, abandons>>

\* Watermill's Run returns: all handlers have stopped, or it had none and is closed,
\* and no goroutine is handling a message.  runDone ends the watcher, unless that is
\* under way; requestClose follows.
WatermillReturns ==
    /\ pc["run"] = "serving"
    /\ IF Registered = {} THEN router.wmClosed ELSE \A t \in Registered : handlers[t] = "stopped"
    /\ \A d \in Deliveries : deliveries[d].pc = "free"
    /\ pc' = [pc EXCEPT !["run"] = "lock",
                        !["watcher"] = IF @ = "watching" THEN "returned" ELSE @]
    /\ UNCHANGED <<mode, sawStarted, lifecycle, dispatch>>

-----------------------------------------------------------------------------
(* RunOnce *)

Once == mode # "run"

\* A command runs its router, directly or within RunOnce.
CallRun ==
    /\ pc["main"] = "idle" /\ pc["hook"] = "idle"
    /\ pc' = [pc EXCEPT !["main"] = IF Once THEN "starting" ELSE "draining", !["run"] = "entry"]
    /\ UNCHANGED <<mode, sawStarted, lifecycle, dispatch>>

\* The caller is done with waiting; RunOnce cancels its context on return.
Return(cancel) ==
    /\ Goto("main", "returned")
    /\ cancelled' = IF cancel THEN cancelled \cup {"once"} ELSE cancelled
    /\ UNCHANGED <<mode, sawStarted, router, handlers, subscriber, dbOpen, dispatch>>

\* <-runDone
RunReturned ==
    /\ pc["main"] \in {"starting", "polling", "draining"} /\ pc["run"] = "returned"
    /\ Return(Once)

\* <-SubscriptionsReady()
StartPolling ==
    /\ pc["main"] = "starting" /\ subscriber.ready
    /\ Goto("main", "polling")
    /\ UNCHANGED <<mode, sawStarted, lifecycle, dispatch>>

\* <-ctx.Done(): Run is waited for only where Router.RunOnce polls.
CallerGone ==
    /\ pc["main"] \in {"starting", "polling"} /\ CallerDone
    /\ IF mode = "once" /\ pc["main"] = "polling"
       THEN /\ Goto("main", "draining")
            /\ cancelled' = cancelled \cup {"once"}
            /\ UNCHANGED <<mode, sawStarted, router, handlers, subscriber, dbOpen, dispatch>>
       ELSE Return(TRUE)

IsIdle == tracker.retries = {} /\ \A m \in Messages : tracker.active[m] = 0

\* A tick of the poll; the second idle one cancels and waits for Run.
Poll ==
    /\ pc["main"] = "polling"
    /\ IF ~IsIdle THEN /\ tracker.idle > 0
                       /\ tracker' = [tracker EXCEPT !.idle = 0]
                       /\ UNCHANGED <<pc, cancelled>>
       ELSE /\ tracker' = [tracker EXCEPT !.idle = @ + 1]
            /\ IF tracker.idle + 1 < 2 THEN UNCHANGED <<pc, cancelled>>
               ELSE Goto("main", "draining") /\ cancelled' = cancelled \cup {"once"}
    /\ UNCHANGED <<mode, sawStarted, router, handlers, subscriber, dbOpen,
                   deliveries, messages, abandons>>

\* The caller's context is cancelled: a signal, or another router's end.
CancelCaller ==
    /\ pc["main"] # "idle" /\ ~CallerDone
    /\ cancelled' = cancelled \cup {"caller"}
    /\ UNCHANGED <<threads, router, handlers, subscriber, dbOpen, dispatch>>

-----------------------------------------------------------------------------
(* Deliveries *)

\* startDelivery: the router's tracker is a set of messages, the worker's counts.
StartDelivery(m) ==
    tracker' = IF ~Once THEN tracker
               ELSE [tracker EXCEPT !.active[m] = IF mode = "once" THEN 1 ELSE @ + 1,
                                    !.retries = @ \ {m}]

\* Mutant: the worker's tracker too forgets a message when any delivery of it ends.
Finished_Any(m) == 0

\* finishDelivery
Finished(m) == IF mode = "once" \/ tracker.active[m] = 0 THEN 0 ELSE tracker.active[m] - 1

FinishDelivery(m) == tracker' = [tracker EXCEPT !.active[m] = Finished(m)]

Move(d, to) == deliveries' = [deliveries EXCEPT ![d] = to]

\* The message is acknowledged, if its subscription still waits for that.
Ack(d) ==
    messages' = IF deliveries[d].live THEN [messages EXCEPT ![deliveries[d].message] = "acked"]
                ELSE messages

\* A subscription hands out a message it waits for.
Fetch(d, m) ==
    /\ m \in Messages /\ Topic[m] \in Registered
    /\ deliveries[d].pc = "free" /\ messages[m] = "pending"
    /\ handlers[Topic[m]] = "consuming" /\ ~InnerDone
    /\ \A e \in Deliveries : deliveries[e].live => deliveries[e].message # m
    /\ Move(d, [pc |-> "fetched", message |-> m, live |-> TRUE, tries |-> 0])
    /\ UNCHANGED <<threads, lifecycle, messages, tracker, abandons>>

\* The handler is entered, at first or after a backoff.
EnterHandler(d) ==
    /\ deliveries[d].pc \in {"fetched", "backoff"}
    /\ Move(d, [deliveries[d] EXCEPT !.pc = "active", !.tries = @ + 1])
    /\ StartDelivery(deliveries[d].message)
    /\ UNCHANGED <<threads, lifecycle, messages, abandons>>

\* The handler returns nil, and the message is acknowledged; or an error that is
\* not retried, and it is not.
HandlerEnds(d) ==
    /\ deliveries[d].pc = "active"
    /\ Move(d, Free)
    /\ FinishDelivery(deliveries[d].message)
    /\ Ack(d) \/ UNCHANGED messages
    /\ UNCHANGED <<threads, lifecycle, abandons>>

\* It returns an error to the retry middlewares.
HandlerFails(d) ==
    /\ deliveries[d].pc = "active"
    /\ Move(d, [deliveries[d] EXCEPT !.pc = "failed"])
    /\ FinishDelivery(deliveries[d].message)
    /\ UNCHANGED <<threads, lifecycle, messages, abandons>>

\* retryLifecycleMiddleware and the worker's startRetry, then the backoff, or, after
\* the last attempt, finishRetry and the dead letter.
Retry(d) ==
    LET m == deliveries[d].message
        last == deliveries[d].tries = MaxTries
    IN
    /\ deliveries[d].pc = "failed"
    /\ Move(d, IF last THEN Free ELSE [deliveries[d] EXCEPT !.pc = "backoff"])
    /\ tracker' = IF mode # "workerOnce" THEN tracker
                  ELSE [tracker EXCEPT !.retries = IF last THEN @ \ {m} ELSE @ \cup {m}]
    /\ IF last THEN Ack(d) ELSE UNCHANGED messages
    /\ UNCHANGED <<threads, lifecycle, abandons>>

\* A backoff ends with the delivery's context, without a callback.
GiveUp(d) ==
    /\ deliveries[d].pc = "backoff" /\ ~deliveries[d].live
    /\ Move(d, Free)
    /\ UNCHANGED <<threads, lifecycle, messages, tracker, abandons>>

\* The ack deadline passes: the subscription abandons the delivery, which goes on.
Abandon(d) ==
    /\ deliveries[d].live /\ abandons > 0
    /\ Move(d, [deliveries[d] EXCEPT !.live = FALSE])
    /\ abandons' = abandons - 1
    /\ UNCHANGED <<threads, lifecycle, messages, tracker>>

\* Another process of the consumer group takes and finishes a message.
TakenElsewhere(m) ==
    /\ messages[m] = "pending"
    /\ \A d \in Deliveries : deliveries[d].live => deliveries[d].message # m
    /\ messages' = [messages EXCEPT ![m] = "elsewhere"]
    /\ UNCHANGED <<threads, lifecycle, deliveries, tracker, abandons>>

-----------------------------------------------------------------------------
\* What the process does by itself, given time.
Proceed ==
    \/ \E p \in Threads : LockClose(p) \/ SignalClose(p) \/ FinishClose(p) \/ AwaitClosed(p)
    \/ CloseDatabase
    \/ EnterRun \/ BeginSubscriptions \/ Watch \/ WatermillReturns
    \/ \E t \in Registered : Subscribe(t) \/ Subscribed(t) \/ StopHandler(t)
    \/ RunReturned \/ StartPolling \/ CallerGone \/ Poll
    \/ \E d \in Deliveries :
          \/ \E m \in Messages : Fetch(d, m)
          \/ EnterHandler(d) \/ HandlerEnds(d) \/ HandlerFails(d) \/ Retry(d) \/ GiveUp(d)

Next ==
    \/ Proceed
    \/ \E p \in Closers : CallClose(p)
    \/ CallRun \/ CancelCaller
    \/ \E d \in Deliveries : Abandon(d)
    \/ \E m \in Messages : TakenElsewhere(m)

Spec == Init /\ [][Next]_vars

-----------------------------------------------------------------------------
(* Properties *)

\* Threads, router, subscriber and deliveries have their types, and the tracker's
\* counts stay within the deliveries (Router, lifecycleSubscriber, runOnceTracker).
TypeOK ==
    /\ mode \in {"run", "once", "workerOnce"}
    /\ pc \in [Threads -> {"idle", "starting", "polling", "draining", "entry", "begin", "serving",
                           "watching", "lock", "signal", "finish", "await", "returned"}]
    /\ sawStarted \in [Threads -> BOOLEAN]
    /\ router \in [started : BOOLEAN, closed : BOOLEAN, closeDone : BOOLEAN, wmClosed : BOOLEAN]
    /\ cancelled \subseteq {"caller", "once", "inner"}
    /\ handlers \in [Registered -> {"none", "subscribing", "consuming", "stopped"}]
    /\ subscriber \in [begin : BOOLEAN, closing : BOOLEAN, failed : BOOLEAN,
                       started : 0..Cardinality(Topics), ready : BOOLEAN, open : BOOLEAN]
    /\ deliveries \in [Deliveries -> [pc : {"free", "fetched", "active", "failed", "backoff"},
                                      message : Messages, live : BOOLEAN, tries : 0..MaxTries]]
    /\ messages \in [Messages -> {"pending", "acked", "elsewhere"}]
    /\ tracker.active \in [Messages -> 0..Cardinality(Deliveries)]
    /\ tracker.retries \subseteq Messages
    /\ tracker.idle \in 0..2
    /\ dbOpen \in BOOLEAN
    /\ abandons \in 0..MaxAbandons

\* Before the owner closes the database, the router has stopped its subscriptions,
\* those still starting included, released its subscriber, and no handler runs,
\* however the command, the caller's cancellation and two callers of Close meet
\* (Router.Run, Close; WorkerRoot.Stop before database.Close).
DatabaseClosedLast ==
    ~dbOpen =>
        /\ ~subscriber.open
        /\ \A t \in Registered : handlers[t] \notin {"subscribing", "consuming"}
        /\ \A d \in Deliveries : deliveries[d].pc = "free"

\* A message that is done with and whose retry the worker's RunOnce still waits for:
\* the one that failed was abandoned, and a backoff that ends with its context tells
\* nobody.
RetryLeaked == \E m \in tracker.retries : messages[m] # "pending"

\* When nothing in the process can go on by itself, nobody waits: Close has
\* returned to all callers, and Run and RunOnce have returned too, unless Run
\* serves, with no cancellation or close requested (Run, RunOnce, requestClose,
\* finishClose; Watermill with no handler).
NobodyWaitsForever ==
    \/ ENABLED Proceed
    \/ /\ \A p \in Closers : pc[p] \in {"idle", "returned"}
       /\ pc["run"] = "serving" =>
             /\ ~router.closed /\ ~RunDone
             /\ mode = "run" \/ RetryLeaked
       /\ pc["run"] # "serving" => pc["main"] \in {"idle", "returned"}

\* The second idle poll in a row never meets a handler at work: a delivery that
\* lasts longer than a poll is preserved, in the worker with its retries, also when
\* its message is delivered beside it (RunOnce, runOnceTracker).  Router.RunOnce
\* keeps a set and counts a message delivered twice once; an abandoned delivery's
\* retry hides the backoff of the one that replaced it.
LongDeliveryPreserved ==
    tracker.idle < 2 /\ tracker'.idle = 2 =>
        \A d \in Deliveries :
            /\ deliveries[d].pc = "active" => mode = "once" /\ abandons < MaxAbandons
            /\ deliveries[d].pc = "backoff" => mode = "once" \/ abandons < MaxAbandons
=============================================================================
