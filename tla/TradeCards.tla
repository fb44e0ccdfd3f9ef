----------------------------- MODULE TradeCards -----------------------------
(***************************************************************************)
(* The live Telegram card of a trade, composed with the reports that move  *)
(* the trade: TradeReports!Handle hands the persisted row to               *)
(* TradeCardService.handle_event, a drain task posts or edits one card per *)
(* recipient, and the bot's buttons re-render the same message.            *)
(*                                                                         *)
(* A chat is a bot user linked to the trade's account.  A card is told     *)
(* apart by the status its text shows; a card of a terminal status has no  *)
(* buttons.  Each call to Telegram or to the database is a step and may    *)
(* fail in the way its caller can see.                                     *)
(***************************************************************************)
EXTENDS TradeReports

CONSTANTS
    Chats,       \* the bot users linked to the account
    QueueSize    \* _QUEUE_MAXSIZE

ASSUME CardsAssumption == QueueSize \in Nat \ {0}

VARIABLES
    subscribed,  \* chats whose link has trade_cards_enabled
    queue,       \* TradeCardService._queue: the rows handed over
    task,        \* where the drain task stands
    cards,       \* trade_notifications: the status recorded for each chat
    shown,       \* the status the chat's latest card shows
    tap,         \* the row a button's handler fetched and has yet to render
    lossy,       \* chats whose card missed an update nobody will repeat
    raced        \* chats where a button rendered a row that had moved on

cardVars == <<subscribed, queue, task, cards, shown, tap, lossy, raced>>
vars == <<reportVars, cardVars>>

None == "NONE"
StatusOrNone == Statuses \cup {None}

\* is_terminal
Terminal(s) == s \in {"CLOSED", "FLAT", "REJECTED"}

Idle ==
    [at |-> "idle", status |-> None, existing |-> <<>>, refresh |-> {}, post |-> {},
     chat |-> None]

\* at: idle, list (cards to be read), targets (recipients to be read),
\* deliver, or the bookkeeping after an accepted call: mark, forget, record.
TaskType ==
    [at: {"idle", "list", "targets", "deliver", "mark", "forget", "record"},
     status: StatusOrNone,
     existing: UNION {[C -> Statuses] : C \in SUBSET Chats},
     refresh: SUBSET Chats, post: SUBSET Chats, chat: Chats \cup {None}]

TypeOK ==
    /\ ReportsTypeOK
    /\ subscribed \subseteq Chats
    /\ queue \in Seq(Rows) /\ Len(queue) <= QueueSize
    /\ task \in TaskType
    /\ cards \in [Chats -> StatusOrNone]
    /\ shown \in [Chats -> StatusOrNone]
    /\ tap \in [Chats -> [kind: {"none", "view", "exit", "confirm"}, status: StatusOrNone]]
    /\ lossy \subseteq Chats
    /\ raced \subseteq Chats

NoTap == [kind |-> "none", status |-> None]

Init ==
    /\ ReportsInit
    /\ subscribed \in SUBSET Chats
    /\ queue = <<>>
    /\ task = Idle
    /\ cards = [c \in Chats |-> None]
    /\ shown = [c \in Chats |-> None]
    /\ tap = [c \in Chats |-> NoTap]
    /\ lossy = {}
    /\ raced = {}

\* A step of the card service: of the reports' state, only faults may move.
ReportsUntouched ==
    UNCHANGED <<position, place, deliveries, batch, outcome, pc, stopping, stream, durable, trade>>

\* Every card that exists or would be posted missed an update.
AllLossy == lossy' = Chats

-----------------------------------------------------------------------------
(* handle_event, on the TRADE path.                                        *)

\* Mutant of Rendered: the event's own status is queued, not the row's.
RenderedEvent(row, p) == [status |-> TradeStatusOf[p], is_running |-> IsOpen(p)]

\* What is queued for rendering: the row as it was persisted.
Rendered(row, p) == row

\* put_nowait: a full queue drops the newest.
HandleEvent(row) ==
    IF Len(queue) < QueueSize
    THEN queue' = Append(queue, row) /\ UNCHANGED lossy
    ELSE AllLossy /\ UNCHANGED queue

\* TradeEventConsumer.handle_subject_trade: persist, then queue the card.  A
\* commit that raised queues nothing; the redelivery does.
HandleReport(o) ==
    /\ Handle(o)
    /\ LET p == position[Head(batch)]
       IN  IF Known(p) /\ o = "ok"
           THEN HandleEvent(Rendered(trade', p))
           ELSE UNCHANGED <<queue, lossy>>
    /\ UNCHANGED <<subscribed, task, cards, shown, tap, raced>>

\* The consumer gives a report up, or a settled commit was never answered.
SettleCard(heard) ==
    /\ SettleReport(heard)
    /\ IF heard /\ Verdict(Head(batch)) \in {"termed", "lost"}
       THEN AllLossy ELSE UNCHANGED lossy
    /\ UNCHANGED <<subscribed, queue, task, cards, shown, tap, raced>>

-----------------------------------------------------------------------------
(* The drain task: _worker, _apply, _refresh, _post.                       *)

Running == pc # "down"

TakeUpdate ==
    /\ Running /\ task.at = "idle" /\ queue # <<>>
    /\ task' = [Idle EXCEPT !.at = "list", !.status = Head(queue).status]
    /\ queue' = Tail(queue)
    /\ UNCHANGED <<reportVars, subscribed, cards, shown, tap, lossy, raced>>

\* list_for_trade; a failed read degrades to "no card known".
ListCards(ok) ==
    /\ Running /\ task.at = "list"
    /\ IF ok THEN UNCHANGED <<faults, lossy>> ELSE Fault /\ AllLossy
    /\ task' = [task EXCEPT !.at = "targets",
                 !.existing = IF ok THEN Restrict(cards, {c \in Chats : cards[c] # None})
                              ELSE <<>>]
    /\ ReportsUntouched
    /\ UNCHANGED <<subscribed, queue, cards, shown, tap, raced>>

\* Mutant of CardsToEdit: only those who are still subscribed.
CardsToEditSubscribed(existing, s) ==
    {c \in DOMAIN existing \cap subscribed : existing[c] # s}

\* _refresh edits a card unless it already shows the status.
CardsToEdit(existing, s) == {c \in DOMAIN existing : existing[c] # s}

\* list_broadcast_targets; a failed read degrades to "nobody subscribed".
ListTargets(ok) ==
    /\ Running /\ task.at = "targets"
    /\ IF ok THEN UNCHANGED <<faults, lossy>> ELSE Fault /\ AllLossy
    /\ LET known == DOMAIN task.existing
           edit  == CardsToEdit(task.existing, task.status)
           post  == IF ok THEN subscribed \ known ELSE {}
       IN  task' = IF edit \cup post = {} THEN Idle
                   ELSE [task EXCEPT !.at = "deliver", !.refresh = edit, !.post = post]
    /\ ReportsUntouched
    /\ UNCHANGED <<subscribed, queue, cards, shown, tap, raced>>

\* Mutant of ApplyRaises: the error ends the drain task.
ApplyRaisesFatal ==
    /\ Running /\ task.at = "deliver" /\ task.chat = None
    /\ Fault
    /\ task' = [Idle EXCEPT !.at = "dead"]
    /\ AllLossy
    /\ ReportsUntouched
    /\ UNCHANGED <<subscribed, queue, cards, shown, tap, raced>>

\* _worker: an update that cannot be rendered is logged and given up.
ApplyRaises ==
    /\ Running /\ task.at = "deliver" /\ task.chat = None
    /\ Fault
    /\ task' = Idle
    /\ AllLossy
    /\ ReportsUntouched
    /\ UNCHANGED <<subscribed, queue, cards, shown, tap, raced>>

\* The drain task after one chat is done with.
NextChat(t) == IF t.refresh \cup t.post = {} THEN Idle ELSE [t EXCEPT !.at = "deliver", !.chat = None]

\* edit_message: OK, MISSING (the message or the recipient is gone), FAILED.
EditCard(c, result) ==
    /\ Running /\ task.at = "deliver" /\ c \in task.refresh
    /\ LET left == [task EXCEPT !.refresh = @ \ {c}]
       IN  CASE result = "OK" ->
                   /\ shown' = [shown EXCEPT ![c] = task.status]
                   /\ task' = [left EXCEPT !.at = "mark", !.chat = c]
                   /\ UNCHANGED <<faults, lossy>>
             [] result = "MISSING" ->
                   /\ Fault
                   /\ shown' = [shown EXCEPT ![c] = None]
                   /\ task' = [left EXCEPT !.at = "forget", !.chat = c]
                   /\ UNCHANGED lossy
             [] result = "FAILED" ->
                   /\ Fault
                   /\ task' = NextChat(left)
                   /\ lossy' = lossy \cup {c}
                   /\ UNCHANGED shown
    /\ ReportsUntouched
    /\ UNCHANGED <<subscribed, queue, cards, tap, raced>>

\* send_and_get_message_id, after every edit of the update.
PostCard(c, ok) ==
    /\ Running /\ task.at = "deliver" /\ task.refresh = {} /\ c \in task.post
    /\ LET left == [task EXCEPT !.post = @ \ {c}]
       IN  IF ok
           THEN /\ shown' = [shown EXCEPT ![c] = task.status]
                /\ task' = [left EXCEPT !.at = "record", !.chat = c]
                /\ UNCHANGED <<faults, lossy>>
           ELSE /\ Fault
                /\ task' = NextChat(left)
                /\ lossy' = lossy \cup {c}
                /\ UNCHANGED shown
    /\ ReportsUntouched
    /\ UNCHANGED <<subscribed, queue, cards, tap, raced>>

\* mark_status, delete or record; a failed write is logged and forgotten.
KeepBooks(ok) ==
    /\ Running /\ task.at \in {"mark", "forget", "record"}
    /\ IF ok THEN UNCHANGED <<faults, lossy>> ELSE Fault /\ lossy' = lossy \cup {task.chat}
    /\ cards' = IF ~ok THEN cards
                ELSE [cards EXCEPT ![task.chat] =
                         CASE task.at = "mark"   -> IF @ = None THEN @ ELSE task.status
                           [] task.at = "forget" -> None
                           [] task.at = "record" -> task.status]
    /\ task' = NextChat(task)
    /\ ReportsUntouched
    /\ UNCHANGED <<subscribed, queue, shown, tap, raced>>

-----------------------------------------------------------------------------
(* Subscriptions and the bot's buttons.                                    *)

\* subscribe, unsubscribe and their bulk forms.
Toggle(c) ==
    /\ Fault
    /\ subscribed' = (subscribed \ {c}) \cup ({c} \ subscribed)
    /\ ReportsUntouched
    /\ UNCHANGED <<queue, task, cards, shown, tap, lossy, raced>>

\* A button of a card: every handler fetches the trade first.  Buttons are on
\* cards that show a running trade, or that ask for a confirmation.
Tap(c, kind) ==
    /\ tap[c] = NoTap
    /\ shown[c] # None /\ ~Terminal(shown[c])
    /\ Fault
    /\ tap' = [tap EXCEPT ![c] = [kind |-> kind, status |-> trade.status]]
    /\ ReportsUntouched
    /\ UNCHANGED <<subscribed, queue, task, cards, shown, lossy, raced>>

\* exit_trade publishes a FLAT for a running trade and refuses one that is
\* over (what the workers do with it comes back as a report); either way the
\* handler fetches the trade again, to render that.
ConfirmExit(c) ==
    /\ tap[c].kind = "confirm"
    /\ tap' = [tap EXCEPT ![c] = [kind |-> "view", status |-> trade.status]]
    /\ UNCHANGED <<reportVars, subscribed, queue, task, cards, shown, lossy, raced>>

\* safe_edit_text: the message shows what was fetched; a Close tap on a trade
\* that is over only raises an alert.
Render(c) ==
    /\ tap[c].kind \in {"view", "exit"}
    /\ shown' = IF shown[c] = None \/ (tap[c].kind = "exit" /\ Terminal(tap[c].status))
                THEN shown ELSE [shown EXCEPT ![c] = tap[c].status]
    /\ tap' = [tap EXCEPT ![c] = NoTap]
    /\ raced' = IF tap[c].status = trade.status THEN raced ELSE raced \cup {c}
    /\ UNCHANGED <<reportVars, subscribed, queue, task, cards, lossy>>

-----------------------------------------------------------------------------
(* Composition.                                                            *)

\* Steps of the reports that leave the cards alone.
ReportStep ==
    /\ \/ \E p \in Positions : Publish(p)
       \/ \E r \in Reports : AckWaitExpires(r)
       \/ Fetch
       \/ StopConsumer
       \/ StartConsumer
    /\ UNCHANGED cardVars

\* The process ends: the queue and the update in hand are gone.  stop() has
\* let the backlog drain for a moment first, which is no guarantee.
ProcessEnds ==
    /\ CrashConsumer \/ ConsumerStopped
    /\ queue' = <<>>
    /\ task' = Idle
    /\ IF queue # <<>> \/ task.at # "idle" \/ outcome = "RETRY" THEN AllLossy ELSE UNCHANGED lossy
    /\ UNCHANGED <<subscribed, cards, shown, tap, raced>>

DrainStep ==
    \/ TakeUpdate \/ ApplyRaises
    \/ \E ok \in BOOLEAN : ListCards(ok) \/ ListTargets(ok) \/ KeepBooks(ok)
    \/ \E c \in Chats : \/ \E result \in {"OK", "MISSING", "FAILED"} : EditCard(c, result)
                        \/ \E ok \in BOOLEAN : PostCard(c, ok)

BotStep ==
    \E c \in Chats :
        \/ Toggle(c) \/ ConfirmExit(c) \/ Render(c)
        \/ \E kind \in {"view", "exit", "confirm"} : Tap(c, kind)

Next ==
    \/ ReportStep
    \/ \E o \in Outcomes : HandleReport(o)
    \/ \E heard \in BOOLEAN : SettleCard(heard)
    \/ ProcessEnds
    \/ DrainStep
    \/ BotStep

Spec == Init /\ [][Next]_vars

\* The loops of the process keep running while it is up, a stopped process is
\* started again, and JetStream redelivers what was not settled.
Fairness ==
    /\ WF_vars(Fetch /\ UNCHANGED cardVars)
    /\ WF_vars(\E o \in Outcomes : HandleReport(o))
    /\ WF_vars(SettleCard(TRUE))
    /\ WF_vars(StartConsumer /\ UNCHANGED cardVars)
    /\ WF_vars(ConsumerStopped /\ ProcessEnds)
    /\ \A r \in 1..MaxReports :
          WF_vars(r \in Reports /\ AckWaitExpires(r) /\ UNCHANGED cardVars)
    /\ WF_vars(DrainStep)

FairSpec == Spec /\ Fairness

-----------------------------------------------------------------------------
(* Safety.                                                                 *)

Unsettled(r) == r \in Reports /\ place[r] \in {"ready", "pending"}

\* Once everything reported is settled and worked off, every card the service
\* keeps shows the trade as the table has it, subscribed or not, unless an
\* update for it was dropped, refused or lost with the process; and so does
\* the message, unless a button's handler rendered a row that had moved on.
QuietCardsAreCurrent ==
    /\ queue = <<>> /\ task.at = "idle"
    /\ \A r \in Reports : ~Unsettled(r)
    => \A c \in Chats \ lossy :
          /\ cards[c] \in {None, trade.status}
          /\ c \notin raced => shown[c] \in {None, trade.status}

\* A card that was closed is not reopened by the service: handle_event renders
\* the persisted row, so a late or redelivered report cannot bring the
\* buttons back.
CardStaysClosed ==
    [][\A c \in Chats :
          cards[c] \in {"CLOSED", "FLAT"} => cards'[c] \in {"CLOSED", "FLAT", None}]_vars

-----------------------------------------------------------------------------
(* Liveness.                                                               *)

\* Every report is in the end acked, terminated or, on core NATS, lost: a
\* report that keeps failing does not stay in the stream for ever.  Only a
\* consumer that listens on core NATS while the stream captures leaves it
\* there, for as long as no restart brings the stream back.
EveryReportSettles ==
    \A r \in 1..MaxReports :
        Unsettled(r) ~> ((r \in Reports /\ ~Unsettled(r)) \/ [](stream /\ ~durable /\ pc # "down"))

\* The queue of card updates is worked off, whatever Telegram answers and
\* whatever one update runs into (_worker).
UpdatesAreWorkedOff == queue # <<>> ~> (queue = <<>> /\ task.at = "idle")

=============================================================================
