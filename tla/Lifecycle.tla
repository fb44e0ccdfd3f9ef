------------------------------ MODULE Lifecycle ------------------------------
(***************************************************************************)
(* One life of the broker process: app.lifespan starts the background      *)
(* services one by one, each registering its stop on an AsyncExitStack,    *)
(* and unwinds the stack when the server stops or a start fails.  Between  *)
(* the two the services work: consumers handle messages, queues drain,     *)
(* the change listener keeps its connection, the log handler forwards      *)
(* errors.                                                                 *)
(*                                                                         *)
(* What the services do to their data is in the other modules.  Here a     *)
(* handler is the sequence of services it calls, one call a step, and a    *)
(* queue is the number of items it holds; what matters is who is still     *)
(* running, and on top of what, while the stack unwinds.                   *)
(***************************************************************************)
EXTENDS Integers, Sequences, Functions

CONSTANTS
    QueueSize,   \* the bound of every queue (200 notifications, 100 log lines)
    MaxEvents,   \* bound: messages and requests that arrive, ERROR records of
                 \* the program itself and lost connections, together
    MaxBatch     \* settings.jetstream.FETCH_BATCH; rows of one retry tick

ASSUME LifecycleAssumption ==
    /\ QueueSize \in Nat \ {0}
    /\ MaxBatch \in Nat \ {0}
    /\ MaxEvents \in Nat

VARIABLES
    phase,      \* where lifespan() stands
    up,         \* how many services of Order have their stop on the stack
    socket,     \* the NATS connection: "none", "open", "lost" while nats-py
                \* reconnects it, "stray" once lifespan failed to close it
    live,       \* consumers whose loop or subscription is running
    stopSet,    \* pull loops whose _stop event is set
    core,       \* the TRADE consumer fell back to a core subscription
    batch,      \* messages a pull loop fetched and has not handled yet
    left,       \* the calls the handler in progress still has to make
    queue,      \* items waiting in each queue
    drains,     \* queues whose drain task runs
    sending,    \* queues whose drain task is inside a send
    abandoned,  \* queues whose grace period ran out with work left
    listener,   \* PostgresChangeListener: "off", "lost" or "listening"
    recent,     \* the texts the log handler forwarded within its window
    budget      \* what is left of MaxEvents

consumers == <<live, stopSet, core, batch, left>>
queues == <<queue, drains, sending, abandoned>>
vars == <<phase, up, socket, consumers, queues, listener, recent, budget>>

\* Mutant of Order: the signals notifier is started with the producers.
OrderNotifierLate ==
    << "log", "db", "nats_notifier", "nats", "cards", "deferred",
       "demo_notifier", "dispatcher", "trade", "system", "demo", "worker",
       "signals_notifier", "retry" >>

\* lifespan(): the start order; the exit stack plays it backwards.
Order ==
    << "log", "db", "nats_notifier", "nats", "cards", "signals_notifier",
       "deferred", "demo_notifier", "dispatcher", "trade", "system", "demo",
       "worker", "retry" >>

\* JetStreamPullWorker and SignalRetryJob: loops that end at their own pace.
Loops == {"trade", "worker", "retry"}

\* SystemEventConsumer, DemoSignalConsumer: callbacks of a subscription.
Subscriptions == {"system", "demo"}

\* The webhook route and the admin API, served while the lifespan is entered.
Producers == Loops \cup Subscriptions \cup {"api"}

\* QueuedNotifier and TradeCardService: a queue, a drain task, a grace period.
Flushed == {"nats_notifier", "cards", "signals_notifier", "demo_notifier"}

Queues == Flushed \cup {"log", "deferred", "dispatcher"}

\* What the drain task of a queue calls while it works on an item.
Needs == [ q \in Queues |->
    CASE q \in {"cards", "signals_notifier", "dispatcher"} -> {"db"}
      [] q = "deferred" -> {"nats"}
      [] OTHER -> {} ]

\* The calls of one handler, in order.  "row" is a write to the broadcast
\* log, which Postgres announces to the change listener.
Scripts == [
    trade  |-> {<<"db", "cards", "row", "nats">>},
    system |-> {<<"db", "nats">>},
    demo   |-> {<<"row", "demo_notifier">>},
    worker |-> {<<"db", "nats", "row", "db", "nats">>,
                <<"db", "signals_notifier", "nats">>},
    retry  |-> {<<"db", "nats", "row", "db">>},
    api    |-> {<<"nats">>, <<"nats", "deferred">>} ]

Suffixes(s) == {SubSeq(s, i, Len(s)) : i \in 1..(Len(s) + 1)}

TypeOK ==
    /\ phase \in {"starting", "running", "stopping", "down"}
    /\ up \in 0..Len(Order)
    /\ socket \in {"none", "open", "lost", "stray"} /\ core \in BOOLEAN
    /\ live \subseteq Loops \cup Subscriptions
    /\ stopSet \subseteq Loops
    /\ batch \in [Loops -> 0..MaxBatch]
    /\ DOMAIN left = Producers
    /\ \A p \in Producers : left[p] \in UNION {Suffixes(s) : s \in Scripts[p]}
    /\ queue \in [Queues -> 0..QueueSize]
    /\ drains \subseteq Queues
    /\ sending \subseteq drains
    /\ abandoned \subseteq Flushed
    /\ listener \in {"off", "lost", "listening"}
    /\ recent \subseteq {"program", "send"}
    /\ budget \in 0..MaxEvents

Init ==
    /\ phase = "starting" /\ up = 0
    /\ socket = "none" /\ core = FALSE
    /\ live = {} /\ stopSet = {}
    /\ batch = [p \in Loops |-> 0]
    /\ left = [p \in Producers |-> <<>>]
    /\ queue = [q \in Queues |-> 0]
    /\ drains = {} /\ sending = {} /\ abandoned = {}
    /\ listener = "off"
    /\ recent = {}
    /\ budget = MaxEvents

-----------------------------------------------------------------------------
\* Queues.

\* Mutant of Put: a queue without maxsize.
PutUnbounded(q, n) == [queue EXCEPT ![q] = @ + n]

\* put_nowait of QueuedNotifier.send_message, handle_event, _enqueue and
\* _on_notify: a full queue drops the item.
Put(q, n) == [queue EXCEPT ![q] = IF n < QueueSize - @ THEN @ + n ELSE QueueSize]

\* _worker, _drain, _run: take the next item and start working on it.
Take(q) ==
    /\ q \in drains \ sending
    /\ queue[q] > 0
    /\ queue' = [queue EXCEPT ![q] = @ - 1]
    /\ sending' = sending \cup {q}
    /\ UNCHANGED <<phase, up, socket, consumers, drains, abandoned, listener,
                   recent, budget>>

\* Mutant of Forwarded: no recursion filter.
ForwardedAll == {"program", "send"}

\* _RecursionFilter: records of the send path itself are not forwarded.
Forwarded == {"program"}

\* TelegramLogHandler.emit: filter, drop a duplicate, queue.  Before start()
\* binds the loop there is nothing to forward to.
Emit(source) ==
    IF source \in Forwarded \ recent /\ up > 0
    THEN recent' = recent \cup {source} /\ queue' = Put("log", 1)
    ELSE UNCHANGED <<recent, queue>>

\* The send returned: Telegram took the message.
Sent(q) ==
    /\ q \in sending
    /\ sending' = sending \ {q}
    /\ UNCHANGED <<phase, up, socket, consumers, queue, drains, abandoned,
                   listener, recent, budget>>

\* The send failed, which the drain task survives.  The Telegram path logs
\* that as an error of its own; the deferred enqueuer puts the envelope back
\* until its attempts run out.
SendFails(q) ==
    /\ q \in sending
    /\ sending' = sending \ {q}
    /\ \/ q # "deferred" /\ Emit("send")
       \/ q = "deferred" /\ queue' \in {queue, Put(q, 1)} /\ UNCHANGED recent
    /\ UNCHANGED <<phase, up, socket, consumers, drains, abandoned, listener,
                   budget>>

\* Any other part of the program logs an error.
LogError ==
    /\ budget > 0
    /\ phase # "down"
    /\ budget' = budget - 1
    /\ Emit("program")
    /\ UNCHANGED <<phase, up, socket, consumers, drains, sending, abandoned,
                   listener>>

\* _is_duplicate prunes what is older than LOG_DEDUP_WINDOW.
ForgetRecent ==
    /\ recent # {}
    /\ recent' = {}
    /\ UNCHANGED <<phase, up, socket, consumers, queues, listener, budget>>

-----------------------------------------------------------------------------
\* Consumers and the API.

Busy(p) == left[p] # <<>>

\* JetStreamPullWorker._run fetches; SignalRetryJob._tick_once lists.  A fetch
\* that is under way when stop() is called and returns messages all the same
\* is a Fetch just before StopLoop.
Fetch(p) ==
    /\ p \in live \cap Loops
    /\ ~(p = "trade" /\ core)
    /\ p \notin stopSet
    /\ batch[p] = 0 /\ ~Busy(p)
    /\ \E n \in 1..MaxBatch :
        /\ n <= budget
        /\ batch' = [batch EXCEPT ![p] = n]
        /\ budget' = budget - n
    /\ UNCHANGED <<phase, up, socket, live, stopSet, core, left, queues,
                   listener, recent>>

\* _run: the next message of the batch; the stop flag is not looked at here.
Handle(p) ==
    /\ p \in live \cap Loops
    /\ batch[p] > 0 /\ ~Busy(p)
    /\ batch' = [batch EXCEPT ![p] = @ - 1]
    /\ \E s \in Scripts[p] : left' = [left EXCEPT ![p] = s]
    /\ UNCHANGED <<phase, up, socket, live, stopSet, core, queues, listener,
                   recent, budget>>

\* nats-py awaits a subscription's callback for each message; the server
\* runs a request of the API.
Receive(p) ==
    /\ \/ p \in live \cap Subscriptions
       \/ p = "trade" /\ p \in live /\ core
       \/ p = "api" /\ phase = "running"
    /\ ~Busy(p)
    /\ budget > 0
    /\ budget' = budget - 1
    /\ \E s \in Scripts[p] : left' = [left EXCEPT ![p] = s]
    /\ UNCHANGED <<phase, up, socket, live, stopSet, core, batch, queues,
                   listener, recent>>

\* What a call of a handler leaves behind in a queue.
Queued(call) ==
    CASE call \in Queues -> Put(call, 1)
      [] call = "row" /\ listener = "listening" -> Put("dispatcher", 1)
      [] OTHER -> queue

\* The handler makes its next call; one that raises ends the handler, which
\* every loop and every callback survives.
Call(p) ==
    /\ Busy(p)
    /\ \/ /\ queue' = Queued(Head(left[p]))
          /\ left' = [left EXCEPT ![p] = Tail(@)]
       \/ /\ Head(left[p]) \notin Queues
          /\ left' = [left EXCEPT ![p] = <<>>]
          /\ UNCHANGED queue
    /\ UNCHANGED <<phase, up, socket, live, stopSet, core, batch, drains,
                   sending, abandoned, listener, recent, budget>>

-----------------------------------------------------------------------------
\* Connections.

\* _on_disconnected: the server goes away, an alert is queued, and nats-py
\* tries to reconnect for ever (max_reconnect_attempts -1).
NatsDisconnects ==
    /\ socket = "open"
    /\ budget > 0
    /\ budget' = budget - 1
    /\ socket' = "lost"
    /\ queue' = Put("nats_notifier", 1)
    /\ UNCHANGED <<phase, up, consumers, drains, sending, abandoned, listener,
                   recent>>

\* _on_reconnected: the server is back, another alert.  A client nobody closed
\* comes and goes, and alerts, for as long as the process lives.
NatsReconnects ==
    /\ socket \in {"lost", "stray"}
    /\ phase # "down"
    /\ socket' = IF socket = "lost" THEN "open" ELSE socket
    /\ queue' = Put("nats_notifier", 1)
    /\ UNCHANGED <<phase, up, consumers, drains, sending, abandoned, listener,
                   recent, budget>>

\* The listener's connection dies.
ListenerLoses ==
    /\ listener = "listening"
    /\ budget > 0
    /\ budget' = budget - 1
    /\ listener' = "lost"
    /\ UNCHANGED <<phase, up, socket, consumers, queues, recent>>

\* _supervise: the health check finds it and connects again.
Supervise ==
    /\ listener = "lost"
    /\ listener' = "listening"
    /\ UNCHANGED <<phase, up, socket, consumers, queues, recent, budget>>

-----------------------------------------------------------------------------
\* Starting: the next service of Order, registered once its start returned.

NextService == Order[up + 1]

Starts(service) == phase = "starting" /\ up < Len(Order) /\ NextService = service

Registered == up' = up + 1 /\ UNCHANGED phase

\* telegram_log_handler.start, QueuedNotifier.start, TradeCardService.start,
\* DeferredEnqueuer.start: create the drain task.
StartQueue(q) ==
    /\ q # "dispatcher"
    /\ Starts(q)
    /\ drains' = drains \cup {q}
    /\ Registered
    /\ UNCHANGED <<socket, consumers, queue, sending, abandoned, listener,
                   recent, budget>>

\* init_db: creates the engine, connects to nothing.
InitDb ==
    /\ Starts("db")
    /\ Registered
    /\ UNCHANGED <<socket, consumers, queues, listener, recent, budget>>

\* The exit stack unwinds: the server is told to stop or a start has failed.
Unwind == phase' = "stopping" /\ UNCHANGED up

\* Mutant of Closes: the socket is left to the caller.
ClosesNot == UNCHANGED <<socket, queue>>

\* _nc.close(), of connect()'s handler and of close(): nats-py reports the
\* disconnect before it returns, so an alert is queued.
Closes == socket' = "none" /\ queue' = Put("nats_notifier", 1)

\* nats_client.connect: open the socket ...
NatsConnects ==
    /\ Starts("nats")
    /\ socket = "none"
    /\ socket' = "open"
    /\ UNCHANGED <<phase, up, consumers, queues, listener, recent, budget>>

\* ... then ensure both streams, which takes a server that answers ...
StreamsEnsured ==
    /\ Starts("nats")
    /\ socket = "open"
    /\ Registered
    /\ UNCHANGED <<socket, consumers, queues, listener, recent, budget>>

\* ... and close the socket again when that fails, without a drain().
StreamsFail ==
    /\ Starts("nats")
    /\ socket # "none"
    /\ Closes
    /\ Unwind
    /\ UNCHANGED <<consumers, drains, sending, abandoned, listener, recent,
                   budget>>

\* BroadcastDispatcher.start: the listener connects or leaves that to its
\* supervisor; the first sweep swallows its own errors.
StartDispatcher ==
    /\ Starts("dispatcher")
    /\ listener' \in {"lost", "listening"}
    /\ drains' = drains \cup {"dispatcher"}
    /\ Registered
    /\ UNCHANGED <<socket, consumers, queue, sending, abandoned, recent, budget>>

\* start() of a consumer.  The pull workers need JetStream's answer: the
\* signal worker does not start without it, TradeEventConsumer falls back to
\* core NATS.  A subscription is accepted while nats-py reconnects.
StartConsumer(p) ==
    /\ p \in Loops \cup Subscriptions
    /\ Starts(p)
    /\ p = "worker" => socket = "open"
    /\ live' = live \cup {p}
    /\ core' \in IF p = "trade" THEN {TRUE, socket # "open"} ELSE {core}
    /\ Registered
    /\ UNCHANGED <<socket, stopSet, batch, left, queues, listener, recent,
                   budget>>

\* A start raises: the engine, the connection, a subscription.  Only tasks
\* are created by the others, which cannot fail.
StartFails ==
    /\ \E s \in {"db", "nats", "trade", "system", "demo", "worker"} : Starts(s)
    /\ ~(NextService = "nats" /\ socket # "none")
    /\ Unwind
    /\ UNCHANGED <<socket, consumers, queues, listener, recent, budget>>

\* Everything is up: lifespan yields to the server.
Yield ==
    /\ phase = "starting" /\ up = Len(Order)
    /\ phase' = "running"
    /\ UNCHANGED <<up, socket, consumers, queues, listener, recent, budget>>

\* The server has finished its requests and leaves the lifespan.
ServerStops ==
    /\ phase = "running"
    /\ ~Busy("api")
    /\ Unwind
    /\ UNCHANGED <<socket, consumers, queues, listener, recent, budget>>

-----------------------------------------------------------------------------
\* Stopping: the callback on top of the stack; the next one runs when it
\* has returned.

Top == Order[up]

Stops(service) == phase = "stopping" /\ up > 0 /\ Top = service

Popped == up' = up - 1 /\ UNCHANGED phase

\* Mutant of StopFlag: stop() only waits.
StopFlagUnset(p) == stopSet

\* stop() of a pull worker or the retry job sets _stop ...
StopFlag(p) == stopSet \cup {p}

StopLoop(p) ==
    /\ p \in live \cap Loops
    /\ ~(p = "trade" /\ core)
    /\ Stops(p)
    /\ p \notin stopSet
    /\ stopSet' = StopFlag(p)
    /\ UNCHANGED <<phase, up, socket, live, core, batch, left, queues, listener,
                   recent, budget>>

\* Mutant of LoopIsOver: the batch is not finished.
LoopIsOverAtOnce(p) == p \in stopSet

\* The loop looks at _stop once the fetched batch is handled.
LoopIsOver(p) == p \in stopSet /\ batch[p] = 0 /\ ~Busy(p)

\* ... and awaits the task.
LoopEnds(p) ==
    /\ p \in live
    /\ Stops(p)
    /\ LoopIsOver(p)
    /\ live' = live \ {p}
    /\ Popped
    /\ UNCHANGED <<socket, stopSet, core, batch, left, queues, listener, recent,
                   budget>>

\* unsubscribe() removes the subscription, which cancels its callback.
StopSubscription(p) ==
    /\ p \in Subscriptions \/ (p = "trade" /\ core)
    /\ Stops(p)
    /\ live' = live \ {p}
    /\ left' = [left EXCEPT ![p] = <<>>]
    /\ Popped
    /\ UNCHANGED <<socket, stopSet, core, batch, queues, listener, recent, budget>>

\* QueuedNotifier.stop, TradeCardService.stop: join() returns when every item
\* taken from the queue is done; the drain task is then cancelled.
FlushQueue(q) ==
    /\ q \in Flushed
    /\ Stops(q)
    /\ queue[q] = 0 /\ q \notin sending
    /\ drains' = drains \ {q}
    /\ Popped
    /\ UNCHANGED <<socket, consumers, queue, sending, abandoned, listener,
                   recent, budget>>

\* drain_timeout runs out first.
AbandonQueue(q) ==
    /\ q \in Flushed
    /\ Stops(q)
    /\ queue[q] > 0 \/ q \in sending
    /\ drains' = drains \ {q}
    /\ sending' = sending \ {q}
    /\ abandoned' = abandoned \cup {q}
    /\ Popped
    /\ UNCHANGED <<socket, consumers, queue, listener, recent, budget>>

\* DeferredEnqueuer.stop: cancel the loop, publish every envelope left once
\* more and report the ones that still fail (see DeferredEnqueue).
StopDeferred ==
    /\ Stops("deferred")
    /\ drains' = drains \ {"deferred"}
    /\ sending' = sending \ {"deferred"}
    /\ queue' = [queue EXCEPT !["deferred"] = 0]
    /\ Popped
    /\ UNCHANGED <<socket, consumers, abandoned, listener, recent, budget>>

\* BroadcastDispatcher.stop: the sweeper and the listener's tasks are
\* cancelled and its connection is closed; there is no last sweep.
StopDispatcher ==
    /\ Stops("dispatcher")
    /\ drains' = drains \ {"dispatcher"}
    /\ sending' = sending \ {"dispatcher"}
    /\ listener' = "off"
    /\ Popped
    /\ UNCHANGED <<socket, consumers, queue, abandoned, recent, budget>>

\* nats_client.close: drain, then close.  While nats-py reconnects its drain()
\* raises, close() is never reached, and the exit stack goes on.
CloseNats ==
    /\ Stops("nats")
    /\ \/ socket = "open" /\ Closes
       \/ socket = "lost" /\ socket' = "stray" /\ UNCHANGED queue
    /\ Popped
    /\ UNCHANGED <<consumers, drains, sending, abandoned, listener, recent,
                   budget>>

\* close_db
CloseDb ==
    /\ Stops("db")
    /\ Popped
    /\ UNCHANGED <<socket, consumers, queues, listener, recent, budget>>

\* TelegramLogHandler.stop cancels its worker and flushes nothing.
StopLog ==
    /\ Stops("log")
    /\ drains' = drains \ {"log"}
    /\ sending' = sending \ {"log"}
    /\ Popped
    /\ UNCHANGED <<socket, consumers, queue, abandoned, listener, recent, budget>>

\* The stack is empty: the process ends.
Exit ==
    /\ phase = "stopping" /\ up = 0
    /\ phase' = "down"
    /\ UNCHANGED <<up, socket, consumers, queues, listener, recent, budget>>

-----------------------------------------------------------------------------
Start ==
    \/ \E q \in Queues : StartQueue(q)
    \/ InitDb \/ NatsConnects \/ StreamsEnsured \/ StreamsFail
    \/ StartDispatcher
    \/ \E p \in Producers : StartConsumer(p)
    \/ StartFails
    \/ Yield

Stop ==
    \/ \E p \in Loops : StopLoop(p) \/ LoopEnds(p)
    \/ \E p \in Producers : StopSubscription(p)
    \/ \E q \in Flushed : FlushQueue(q) \/ AbandonQueue(q)
    \/ StopDeferred \/ StopDispatcher \/ CloseNats \/ CloseDb \/ StopLog
    \/ Exit

Next ==
    \/ Start
    \/ ServerStops
    \/ Stop
    \/ \E q \in Queues : Take(q) \/ Sent(q) \/ SendFails(q)
    \/ \E p \in Loops : Fetch(p) \/ Handle(p)
    \/ \E p \in Producers : Receive(p) \/ Call(p)
    \/ LogError \/ ForgetRecent
    \/ NatsDisconnects \/ NatsReconnects \/ ListenerLoses \/ Supervise

Spec == Init /\ [][Next]_vars

\* The event loop runs every task that can go on, and every call of a handler
\* or a drain task returns (the clients all have timeouts).  Nothing makes
\* the server stop, an error happen or a send succeed.
Fairness ==
    /\ WF_vars(Start)
    /\ WF_vars(Stop)
    /\ \A q \in Queues : WF_vars(Take(q) \/ Sent(q) \/ SendFails(q))
    /\ \A p \in Loops : WF_vars(Handle(p) \/ Call(p))
    /\ \A p \in Producers \ Loops : WF_vars(Call(p))

FairSpec == Spec /\ Fairness

-----------------------------------------------------------------------------
\* Safety.

\* What a call needs to be there.
Needed(call) == IF call = "row" THEN {"db"} ELSE {call}

\* The services some handler in progress or some drain task still relies on.
InUse ==
    (UNION {Needed(call) : call \in UNION {Range(left[p]) : p \in Producers}})
    \cup (UNION {Needs[q] : q \in sending})

\* The services that are started and whose stop has not been called.
Standing == {Order[i] : i \in 1..(IF phase = "stopping" THEN up - 1 ELSE up)}

\* "nothing is queued behind their flush", "a pending enqueue or write can
\* still land" (lifespan): no handler and no drain task, cancelled ones aside,
\* ever still has a call to make on a service whose stop has begun.
RunsOnItsFoundations == InUse \subseteq Standing

\* The alerts of a client nobody closed.
Strays(q) == q = "nats_notifier" /\ socket = "stray"

\* A process that is down, after a full run or a failed start, left no
\* connection and no task behind, handled every message it had fetched, and
\* left no notification, card or envelope in a queue other than one whose
\* grace period ran out.  The one exception is a shutdown that reaches
\* close() during a NATS outage: the NATS client, and the alerts it goes on to
\* raise, are then left behind, and nothing else.
DownIsClean ==
    phase = "down" =>
        /\ socket \in {"none", "stray"} /\ listener = "off"
        /\ live = {} /\ drains = {}
        /\ \A p \in Producers : ~Busy(p)
        /\ \A p \in Loops : batch[p] = 0
        /\ \A q \in Flushed \cup {"deferred"} :
              queue[q] = 0 \/ q \in abandoned \/ Strays(q)

-----------------------------------------------------------------------------
\* Liveness.

\* Whatever is still in progress when the server stops or a start fails, the
\* stack unwinds to the end.
ShutdownCompletes == phase = "stopping" ~> phase = "down"

\* Forwarding errors to a Telegram that refuses everything does not feed on
\* itself: once the program's own errors cease, so do the sends.
AlertsDieOut == <>[]("log" \notin sending)
=============================================================================
