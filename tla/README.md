# Verification of the algo-trading broker

TLA+ modules for the broker in `src/broker` and its Telegram bot in `src/bot`:
TradingView alerts come in over a webhook, go through a JetStream stream into a
database and out to trading workers over NATS, the workers report their trades
back, and everything is shown and controlled in Telegram chats. The modules are
checked with TLC on small instances; every invariant and every action property is
proved with TLAPS for every instance.

## 1. Inventory

| Component | State | Operations | Hard part | Correct when |
|---|---|---|---|---|
| Webhook route, `SignalProcessingService.enqueue`, `DeferredEnqueuer` | bounded in-memory backlog, envelope in flight | enqueue, defer, retry loop, stop and drain | slow acks, full backlog, shutdown between two awaits, process death | a 202 is kept or its loss is known; nothing is owed twice or for ever |
| `SignalWorker`, `handle_enqueued`, `_fanout` | `SIGNALS` stream, `signals` table | fetch, redelivery lookup, block gate, insert, publish, marks, in-place retry, ack/nak/term | redelivery, lost acks, writes committed but not reported, crashes | one `signal_id` per envelope, nothing stranded, statuses final |
| `SignalRetryJob`, `retry_signal` | rows listed for the tick | list, re-read, rebuild, fan out | races the worker over the same table | never owns a row the worker owns; every recorded failure is resolved |
| `SignalBroadcastService`, `BroadcastDispatcher`, `broadcast_message*` tables | cycle, write log, chat rows, per-cycle lock | record, claim, load, park, deliver, notify, finish, reclaim, sweep | two dispatch tasks, unanswered Telegram calls, silences, crashes between send and record | no lost edit, no older body over a newer one, no duplicate message, every entry closes |
| `BroadcastNotifier` | none | send, edit, reply | unanswered requests | outcomes are told apart |
| `PostgresChangeListener` | connection, bounded queue | connect, supervise, drain | lost notifications, reconnects | the sweeper makes up for what is lost |
| `TradeEventConsumer`, `trades` table, `TradeStatusPolicy` | `TRADES` stream, trades | persist, downgrade rule, ack/nak/term | reordered and repeated reports, delivery limit | a report is acked only when persisted; statuses never regress |
| `TradeCardService` | bounded queue, cards per trade and owner | post, refresh, forget | unanswered sends, subscriptions changing meanwhile | one card per subscriber, terminal cards final |
| `SystemEventConsumer`, `account_settings_service` | settings caches | handshake answer, settings pushes, retry signals | a push racing the answer, stale cache | the worker ends with the newest settings |
| `SqlAlchemyAccountRepository` | accounts, link tokens, bot links, active account | create, link, switch, unlink, rotate | concurrent sessions | an account can be claimed, rotation ends old links, a request acts on an account its user holds |
| `QueuedNotifier`, `TelegramLogHandler` | bounded queues | enqueue, drop, drain | full queue, shutdown | bounded, order kept |
| `app.lifespan` | exit stack | start and stop services | order | consumers stop before what they use |
| `NatsClient` | connection, streams | connect, ensure streams, drain and close | outages, one of them at shutdown | streams exist with the dedup window; no client is left behind |
| Admin and Telegram APIs, settings | `broker_settings` | toggles, pushes, account commands | read-then-write | a push carries what was stored |
| The bot: middlewares, `CommandMenu`, handlers, `BrokerClient` | conversation state per chat, menu cache, prompts in the chat | commands, typed replies, buttons | updates handled concurrently, prompts that outlive what they name, lost answers, restarts | a confirmation does what its prompt said, once; an outage is not an unlink |
| `DemoSignalConsumer` | subscription | record and notify | shutdown | as the other consumers |
| Formatters, schemas, status command, migrations, presenters | none shared | | | not modelled: text, schema, read-only probes |

Interaction: `enqueue` stores an envelope in the stream; `SignalWorker` turns it
into a row and a publish; the retry job and the worker meet only in the `signals`
table; `_fanout` records a broadcast event, trade reports record executions; both
append to the write log, which the dispatcher reads on `NOTIFY` or by sweeping.
A persisted report moves the trade's card; a settings request writes and then
pushes; a handshake reads what those requests write. The bot is a process of its own
that calls the broker's HTTP API. `app.lifespan` starts all of the broker and unwinds it.
All of it runs as tasks of one asyncio event loop, so code between two awaits is
atomic and nothing else is.

## 2. Modules

`SignalPipeline` – stream, worker, table, retry job. One action per await:
`Fetch`, `GetByDeliveryKey`, `IsBlocked`, `LogSignal`, `Publish`, `MarkPublished`,
`MarkFailed`, `RecordAttemptFailure`, `Settle` for the worker, `ListRetryable`,
`RetrySignal`, `RecordInvalid` and the shared fan-out for the retry job. A database write
is committed and reported, committed and not reported, or not committed.
`HandlerRaises` is the in-place retry loop of `_handle_one` with the NAK at its
end. An envelope is told apart by its kind: good, malformed (terminated), not
parseable (closed as FAILED), not rebuildable from the stored JSON (only the retry
job notices). Abstractions: a batch is fetched one envelope at a time; a publish
counts as sent when the NATS client accepted it; a row's id is its place in
creation order; the age condition of `list_retryable` is a free choice (any subset
of the owned rows may be due); `KeyTaken` is the unique constraint on
`delivery_key`.

`DeferredEnqueue` – the way into the stream. A publish is acked, stored without
the caller knowing, or not stored; the stream drops a message id it stored less
than `Window` ticks ago. One tick is one failed attempt of the retry loop: 5 s PubAck
timeout plus 2 s interval. `reply` is what the route answered, `killed` what died in
memory with the process. `Stop` cancels the loop wherever it stands, and a publish cut
off that way may have landed.

`BroadcastCycle` – one cycle, which shares nothing with other cycles but the two
dispatching tasks. A body is the sequence number it renders, a notice the event it
announces. `job` is a dispatch: claimed entries, the view it loaded, chats left.
`body`, `posted`, `notices` and `present` are what Telegram really shows. An edit or a
notice that was not confirmed may have landed; a send that was not answered landed,
or did not (`"swallow"`). `paused` stands for the silent setting and for an empty
chat list; otherwise the list of chats is the same for every dispatch, where the code reads the
public one anew each time. A repeat of an event already recorded changes nothing and is a stutter.
Left out: the text, `mark_broadcast`'s timestamp, rows from before notices existed.

`SignalDelivery` – what the pipeline promises, without worker, retry job, redelivery
or attempts: an envelope is stored, refused, or registered once under one `signal_id`;
a signal is sent only while it is open; it is closed once, as published only when
something was sent; an envelope is settled only when its signal needs it no more.
`SignalPipeline!ImplementsDelivery` instantiates it with a refinement mapping
(`VerdictOf` turns a row's status and recorded attempt into fresh, owed, PUBLISHED or FAILED).

`TradeReports` – position reports on their way into the trades table. Each report has a
place (ready, pending, acked, terminated, lost) and a delivery count; a fetch takes any
batch JetStream may hand out; `Handle` is `upsert_by_position_event` with the three
outcomes of a write, `SettleReport` the ack, nak or term that follows. `stream` says whether a
stream captures the subject, `durable` whether the consumer of the process pulls from it; every
`StartConsumer` is a new process and decides again, and one that cannot reach the stream listens on
core NATS while the stream goes on collecting.

`TradeCards` – extends `TradeReports` with the card: `HandleReport` is `Handle` together
with `handle_event`; the drain task lists cards and recipients, edits, posts and keeps
its books, each call a step; `Tap`, `ConfirmExit` and `Render` are the bot's buttons.
`lossy` and `raced` record which chats missed an update nobody repeats, and where a
button rendered a row that had moved on; both are derived from what happened, never
from what is shown.

`WorkerSettings` – one worker, the settings stored for it, the handshake answer read
value by value (two of them through a cache), and concurrent requests that write, read
back and push. `tainted` names the groups of settings in which the code cannot keep
worker and store together: a push was lost, or built from a value that changed since. An error
reply that cannot be published is the worker's timeout (`Disconnect`) before it reads the answer.

`AccountLinks` – requests of concurrent sessions, each split where the code reads and
where the session commits: a row seen as missing may exist by the time of the insert
(unique constraint, rollback), a token seen as valid may be revoked. Users, rows of one
`account_id` under different gateways, tokens, links, card subscriptions, active pointers.

`BotPrompts` – one chat of an admin who may also be a user. An update passes the menu
middleware (resolve, `set_my_commands`, cache) and the auth middleware, then its handler
runs to its next await; the FSM data are shared by all flows, the prompts stay tappable.
A broker call is carried out or not, and its answer may be lost. The lookup of the active account
is answered, unanswered, or *denied*: the broker's database failed, its repository returns nothing
and its API 404. Accounts have an `account_id`, which two of them may share (`Namesakes`); the
`/maxorders` prompt pins and compares that id, not the account.

`Lifecycle` – start order, exit stack, queues, loops, subscriptions, connections. A
handler is the sequence of services it calls, a queue the number of its items. The NATS
connection is open, lost (nats-py reconnects for ever) or, when `close()` came while it was lost and
`drain()` raised, a stray nobody closes. That `drain()` raises while the client reconnects is the
library's behaviour, not code of the repository. A fetch that returns messages after `_stop` was set is
ordered before `StopLoop`.

`SignalPipelineProofs`, `DeferredEnqueueProofs`, `BroadcastCycleProofs`, `TradeCardsProofs` (reports
and cards), `WorkerSettingsProofs`, `AccountLinksProofs`, `BotPromptsProofs`, `LifecycleProofs` – each
extends the module it is named after with its inductive invariant, the lemmas and the
theorems of section 5.

`MC*` modules hold what only TLC needs (symmetry, model values).

## 3. Runs

| Run | Instance | Shows |
|---|---|---|
| `signal_pipeline` | a good envelope and one of any other kind, 2 attempts, 1 in-place retry | `OneSignalPerEnvelope`, `SingleOwner`, `SettledIsAccounted`, `StatusIsFinal`, `ImplementsDelivery`, `EveryEnvelopeSettles`, `RetriesResolve` |
| `deferred_enqueue` | 3 alerts, backlog 1, 2 attempts | `AcceptedIsAccounted`, `OwedOnce`, `DeferredResolves` |
| `broadcast_cycle` | 1 chat, 2 changes, 2 tasks, crashes and failed writes | `DeliveredWasShown`, `BodyNeverRegresses` |
| `broadcast_cycle_telegram` | private and public chat, 2 changes, failed reads, unanswered sends | `SameBodyPostedOnce`, `EveryEntryCloses` |
| `trade_cards` | 2 reports of 7 kinds, batches of 2, 2 deliveries, 2 faults, 1 chat, queue of 1 | `AckedIsApplied`, `ClosedIsFinal`, `QuietCardsAreCurrent`, `CardStaysClosed`, `EveryReportSettles`, `UpdatesAreWorkedOff` |
| `worker_settings` | 2 requests at once, 2 handshakes, 1 fault | `QuietWorkerAgrees`, `EveryAskIsAnswered` |
| `account_links` | 2 users, 2 rows (1 legacy), 2 gateways, 2 sessions, 5 requests, 3 tokens | `ClaimableToken`, `LinkedByValidToken`, `ActsOnOwnAccount` |
| `bot_prompts` | 2 accounts, 2 account ids, 2 updates at once, 3 in all, 1 fault | `CapReachesPromptedId`, `FlatOncePerTarget`, `KeepsCommands` |
| `lifecycle` | queues of 1, 2 events, batches of 2 | `RunsOnItsFoundations`, `DownIsClean`, `ShutdownCompletes`, `AlertsDieOut` |

Every run also checks the type invariant of its module, which holds the bounds of queues,
attempts and deliveries and, for accounts, the unique constraint.

Bounds. Two envelopes are enough for one to overtake the other and for the two
actors to hold different rows; two attempts distinguish the last one from the
others; a backlog of one makes it full in both places where it matters (a new
alert, a requeue) with three alerts. Two changes let one arrive between a claim and its load;
two tasks are the two there are. Broadcast instances with two chats and with three changes were
checked as well (7 and 10 million states) and are not kept for their length. In the pipeline an
envelope that cannot be rebuilt is handled like a good one until the retry job has it, so two that
are published do meet; two good ones were checked too (790 thousand states, close to five minutes).
Two reports are the pair the downgrade rule compares, in both orders and as repeats; a queue of
one is full when the second comes; two faults put a crash after a lost settling call.
Two requests and two handshakes are what it takes for a push, a write and an answer to
overtake each other. In `AccountLinks` five requests over two slots reach link, rotate,
unlink, switch and heal within one history; three tokens allow two rotations. Three
updates in the bot are two prompts and a tap, or a prompt, a switch and a reply; the legs of the
FLAT scope are handled alike and one stands for the three. The user begins with both accounts
or none, which share an `account_id` or do not. In `Lifecycle` two events fill a queue
of one and leave a batch unfinished, or put an outage beside a message; the invariants hold with
three as well (770 thousand states). In `TradeReports` the first fault may be a start that falls back.
`MaxFaults`, `MaxEvents`, `MaxWrites`, `MaxAsks`, `MaxOps`, `MaxUpdates`, `MaxReports` are bounds of
the models, not of the code. `CHECK_DEADLOCK FALSE` is set where such a bound ends the
behaviour, or where the process may be down for good.

Runs that expect a violation show where the code does not keep what its
documentation says:

| Run | The code |
|---|---|
| `broadcast_cycle_stuck` | an entry whose last attempt was cut off is reclaimed to PENDING and never selected again |
| `account_rotation` | a rotation deletes the links of the account, which `docs/database.md` and the route say it keeps |
| `bot_flat_shown` | one target slot per chat: confirming an older `/admin_flat` prompt FLATs what the newer one shows |

So `EveryEntryCloses` is kept without crashes but not with one. `LinkedByValidToken` states what
`rotate_link_token` does and says in its own docstring (a rotation is a reset of access);
`RotationKeepsLinks` is what the schema document and the route's description still promise.

### Divergences met while modelling

What the models allow because the code does it, although a document or comment reads
otherwise; the properties above are stated with these cases in view.

- A refused publish is acked and re-fired by the retry job after later signals of its
  stream; the retry job does not look at the block gate; a sent signal whose `mark_published`
  failed is closed FAILED by a redelivery under a block (`VerdictOf` therefore promises
  that *published* is true, not that *failed* is).
- A deferred alert retried in turn with another outlives the 120 s duplicate window and is stored
  twice if an earlier publish had landed. An alert answered 503 on a full
  backlog is processed all the same if its first publish was stored with a late ack.
- `load_cycle` answers `None` on a database error too, and the dispatcher then closes the claimed
  entries as DELIVERED (`DeliveredWasShown` is checked with crashes and failed writes,
  not with failed reads). A reply notice that landed without an answer is repeated.
  `BodyNeverRegresses` rests on the per-cycle lock, which a second process would not share.
- REJECTED is called terminal but ranks below OPENED: a later OPENED report replaces it, so
  `ClosedIsFinal` speaks of CLOSED and FLAT. A button whose handler fetched the trade
  before it closed can put the buttons back on a closed card (`raced`).
- A start that falls back to core NATS leaves the reports that are in the stream there, and new ones
  are captured as well as delivered: they are handled, a second time for the new ones, after the next
  start that reaches the stream (`EveryReportSettles` exempts a consumer that stays on core NATS).
- A settings push that overtakes the answer to a handshake is overwritten by that older answer: nothing
  in the messages orders the two (`tainted`).
- A link whose token was revoked between its check and its commit survives the rotation, and two
  concurrent rotations leave two valid tokens. An account that came by a TRADE report has no token,
  although `docs/database.md` says one "is minted automatically whenever an account row is created".
- `/flat`, `/prevent`, `/allow` and `/unlink` act on the account that is active at the tap, not on the
  one the prompt names; two taps on unlink drop two accounts. `/maxorders` pins "the prompted
  account" by its bare `account_id`: with two linked accounts of one id the number reaches the other
  one after a `/switch` (`CapReachesPromptedId` promises the id, not the account). A trailing `state.clear()` ends a flow
  begun meanwhile.
- `CommandMenu.refresh` says an outage "is not evidence that the user unlinked"; a failed query in the
  broker is: the repository answers `None`, the API 404, and the bot takes the menu of a linked user away
  until the next update (`KeepsCommands` names the one update that can do it).
- `NatsClient.connect` closes the client after a failed start because "nats-py would keep reconnecting it
  forever"; `NatsClient.close` awaits `drain()` first, which raises during an outage, so the same client is
  left behind by a shutdown at that moment (`DownIsClean` names the exception).
- `lifespan` speaks of the sweeper's last pass; `BroadcastDispatcher.stop` makes none (rows stay
  on disk for the next start). A pull worker's stop waits for its whole batch, not for the
  current message.

## 4. Fairness

The event loop schedules its tasks and every call ends by its timeout, hence weak
fairness of the worker, the retry job, the deferred loop, a begun shutdown, the
dispatcher and the sweeper, the trade consumer, the card drain and the handshake. An ack wait
runs out; a stopped consumer is started again. For the pipeline, trouble is assumed to end:
from some point on calls do not fail, acks are not lost and the broker does not
die, while publishes may still be refused and operators toggle the gate. That is
what retries are for: with a database that never answers again nothing can be
settled. For the broadcast cycle, crashes end and broadcasting is not silenced for
ever; Telegram may refuse every call (the entry then ends FAILED). Reports and cards need no
such assumption beyond the bound on faults: a report that always fails is terminated.
In `Lifecycle` a send returns but need not succeed. No producer,
operator or Telegram user is assumed to do anything.

## 5. Proofs

Each proof module has a theorem `Inductive` (`Spec => []IInv`); the invariants below follow from
`IInv`, the action properties from `IInv` and one step. Every `IInv` was first checked with TLC on
the instance of its run. The constants are arbitrary within the named assumption of their module
(naturals, non-empty bounds, model values distinct from the sets they are not members of).

| Module | Theorem | States |
|---|---|---|
| `SignalPipelineProofs` | `TypeCorrect`, `OneSignal`, `Ownership`, `NothingStranded` | `TypeOK`, `OneSignalPerEnvelope`, `SingleOwner`, `SettledIsAccounted` |
| | `Finality` | `StatusIsFinal` (action property) |
| | `Refinement` | `ImplementsDelivery`: the pipeline implements `SignalDelivery` |
| `DeferredEnqueueProofs` | `TypeCorrect`, `Accounted`, `SingleDebt` | `TypeOK`, `AcceptedIsAccounted`, `OwedOnce` |
| `BroadcastCycleProofs` | `TypeCorrect`, `NoRegress` | `TypeOK`, `BodyNeverRegresses` (action property), under every fault |
| | `ShownWhenDelivered` | `DeliveredWasShown`, without failed reads and swallowed sends |
| | `PostedOnce` | `SameBodyPostedOnce`, without crashes and failed writes |
| `TradeCardsProofs` | `TypeCorrect`, `AckedReportsAreApplied`, `QuietCardsCurrent` | `TypeOK`, `AckedIsApplied`, `QuietCardsAreCurrent` |
| | `ClosedForGood`, `CardsStayClosed` | `ClosedIsFinal`, `CardStaysClosed` (action properties) |
| `WorkerSettingsProofs` | `TypeCorrect`, `QuietAgreement` | `TypeOK`, `QuietWorkerAgrees` |
| `AccountLinksProofs` | `TypeCorrect`, `AlwaysClaimable`, `LinksFollowTokens`, `OwnAccountOnly` | `TypeOK`, `ClaimableToken`, `LinkedByValidToken`, `ActsOnOwnAccount` |
| `BotPromptsProofs` | `TypeCorrect`, `CapReaches`, `FlatOnce` | `TypeOK`, `CapReachesPromptedId`, `FlatOncePerTarget` |
| | `CommandsKept` | `KeepsCommands` (action property) |
| `LifecycleProofs` | `TypeCorrect`, `FoundationsStand`, `DownClean` | `TypeOK`, `RunsOnItsFoundations`, `DownIsClean` |

Hardly any of these is inductive. What is added, and why:

**Signal pipeline.** `IInv == TypeOK /\ RowsInv /\ HoldInv /\ WorkerInv /\ RetryInv /\ SettledInv`. Its
core is a division of ownership by `last_attempt`: a QUEUED row with no recorded attempt can only be
touched by the worker that holds its envelope (`WorkerInv`: what the worker looked up
stays true across its awaits), one with a recorded attempt only by the retry job
(`RetryInv`), because the worker acks before it lets go and a later delivery finds
the attempt recorded. `HoldInv` ties the envelope in hand to the stream (it cannot
be gone, since only the worker settles), `RowsInv` ties rows to delivered envelopes.
`Refinement` uses the same invariant: under the mapping each action is a step of `SignalDelivery`
or a stutter. Both specifications are taken without fairness.

**Enqueue.** `PlaceInv` says where envelopes can be at each point of the loop (in flight only while it
publishes or sleeps, left over only after it was cancelled), `OwnerInv` that an owed alert is owed once,
was answered "deferred" and is not among the lost; `MemoryInv` that the duplicate window remembers
only what is stored, so a publish it drops loses nothing.

**Broadcast cycle.** `BaseInv` is the per-cycle lock (one dispatch works at a time) and, for the
dispatch at work, that no chat shows more than the cycle it loaded. `ShownInv` adds that
`delivered_seq` never runs ahead of the chat and that the chats a dispatch has dealt with show what it
loaded; `OnceInv` that a posted body is recorded or in the hands of the dispatch that is about to
record it. The excluded faults are necessary: a failed `load_cycle` closes entries
undelivered, a swallowed send is recorded as landed, and a message whose upsert was lost is posted again.

**Reports and cards.** `RowInv`: what is about to be acked is already in the row. The cards need three
parts. `OrderInv`: statuses only go up from cards over the update in hand and the queue to the
table. `LagInv`: the cards lag behind the table only while a report of that very status is going
to be handled again (a write that was committed and not reported). `ShownInv`: a message differs
from the books only while an edit is due.

**Worker settings.** A group is *trusted* when it is not tainted, or was read by the handshake under
way and not written since. Whatever is on its way in a trusted group (in a message, a request or the
answer) is what the store says now (`MsgInv`, `ReqInv`, `HsInv`, `InboxInv`), because a write that overtakes
anything ends the trust; a connected worker that differs in an untainted group has a message or a
request coming that sets the field (`WorkerInv`). `CacheInv`: an entry no write has overtaken is current.

**Accounts.** `OpInv` is what a request under way may rely on between its read and its commit: the
row it saw is still there, the token it checked was valid then, the account it resolved is one its user held
since it began. The type invariant carries the unique constraint.

**Bot.** An update in flight remembers how many moves of the active account had happened when its
lookup brought an account: it is still active unless there were more, and a cap about to be set was typed for
the `account_id` of that account. `SlotOK` counts targets: sent, being sent and in the slot are
together no more than were put in. A `set_my_commands` that has begun while the user held an account asks for
the full menu, unless its lookup was denied.

**Lifecycle.** `StackInv`: whatever runs is on the exit stack, so its position in `Order` is
at most `up`, and `ScriptInv` bounds the calls it can still make by services further down; a connection
that is open or lost is on the stack too, or about to be; `QueueInv`: a queue that is off the stack is
empty, abandoned, or takes the alerts of a stray client.

The proofs have one lemma per action and a step per conjunct it can disturb; facts about writes
to a record, a sequence or a row are lemmas of their own.

Only model-checked, because it is out of the prover's reach: the temporal properties under fairness
(`EveryEnvelopeSettles`, `RetriesResolve`, `DeferredResolves`, `EveryEntryCloses`, `EveryReportSettles`,
`UpdatesAreWorkedOff`, `EveryAskIsAnswered`, `ShutdownCompletes`, `AlertsDieOut`). The three runs that
expect a violation are counterexamples and have nothing to prove.

## 6. Plan

Done: the modules of section 2, their runs, and a theorem for every invariant and action property
that a passing run checks, the refinement included. Left: keep the modules in step with the code;
lemmas used by several proof modules (sequences of records, updates of one request) could move into
a module of their own.

## 7. Not modelled

Message text and layout (formatters, presenters, keyboards' labels, the header status of a
cycle, time zones), HTTP and SQL mechanics, pydantic validation beyond "accepted or
not", the status command, migrations, configuration and wiring. Of the admin API the
routes that store one value nobody races for (chat ids, allowed symbols, reply notices,
time zone) and the stateless FLAT publish; of both APIs the lists and pages.
