--------------------------- MODULE SignalPipeline ---------------------------
(***************************************************************************)
(* The signal pipeline of the broker: the SIGNALS stream of JetStream, the *)
(* SignalWorker that pulls envelopes from it, the signals table, the       *)
(* shared fan-out to the trading workers, and the SignalRetryJob that      *)
(* re-fires recorded failures.                                             *)
(*                                                                         *)
(* Worker and retry job are two tasks of one event loop: a step of this    *)
(* module runs from one await to the next, so every database call, publish *)
(* and ack is a step of its own and anything may happen in between -- a    *)
(* toggle of the block gate, an expired ack wait, the other task, a crash. *)
(***************************************************************************)
EXTENDS Naturals, Sequences

CONSTANTS
    MaxMsgs,        \* bound: envelopes ever stored in the stream
    MaxAttempts,    \* settings.signal.MAX_ATTEMPTS
    InlineRetries,  \* len(INLINE_RETRY_DELAYS_SECONDS)
    StoredKinds     \* bound: the kinds the m-th stored envelope may be of

\* What an envelope holds.  "malformed" does not become a WebhookPayload;
\* "unparseable" does, but parse_signal rejects it; "unrebuildable" is fanned
\* out by the worker, but the row's raw JSON does not become a payload again
\* (a NaN is stored as null); "good" passes everywhere.
Kinds == {"good", "unparseable", "unrebuildable", "malformed"}

ASSUME PipelineAssumption ==
    /\ MaxMsgs \in Nat
    /\ MaxAttempts \in Nat \ {0}
    /\ InlineRetries \in Nat
    /\ StoredKinds \in [1..MaxMsgs -> SUBSET Kinds]

Envelope == [kind: Kinds, state: {"ready", "held", "gone"}, delivered: BOOLEAN]

\* A row of the signals table.  Its id is its place in the table (createdAt
\* order), key the stream sequence its delivery_key names, tried stands for
\* last_attempt IS NOT NULL.
Row == [key: Nat \ {0}, status: {"QUEUED", "PUBLISHED", "FAILED"},
        attempts: 0..MaxAttempts, tried: BOOLEAN]

Actors == {"worker", "retry"}

\* How a database write ends: committed and reported, committed but reported
\* as an error (the connection died after COMMIT), or not committed.
Outcomes == {"ok", "unreported", "failed"}
Committed(o) == o # "failed"

VARIABLES
    stream,       \* the SIGNALS stream, indexed by stream sequence
    rows,         \* the signals table
    published,    \* ids of the signals that reached the trading workers
    dropped,      \* envelopes the block gate closed on
    blocked,      \* broker_settings.signal_blocked = "1"
    pc,           \* where each actor stands
    sid,          \* signal_id each actor works on, 0 for none
    msg,          \* the envelope SignalWorker is handling, 0 for none
    redelivered,  \* handle_enqueued's flag
    tries,        \* in-place retries spent on msg
    found,        \* what get_by_delivery_key answered about msg
    todo          \* rows of the current retry tick not yet handed on

vars == <<stream, rows, published, dropped, blocked, pc, sid, msg,
          redelivered, tries, found, todo>>

\* Variables of SignalWorker's handling of one envelope, its pc excepted.
workerVars == <<msg, redelivered, tries, found>>

Steps == {"idle", "lookup", "gate", "log", "publish", "mark_published",
          "mark_failed", "record_failure", "record_invalid", "ack", "term"}

TypeOK ==
    /\ stream \in Seq(Envelope)
    /\ rows \in Seq(Row)
    /\ published \subseteq 1..Len(rows)
    /\ dropped \subseteq 1..Len(stream)
    /\ blocked \in BOOLEAN
    /\ pc \in [Actors -> Steps]
    /\ sid \in [Actors -> 0..Len(rows)]
    /\ msg \in 0..Len(stream)
    /\ redelivered \in BOOLEAN
    /\ tries \in 0..InlineRetries
    /\ found \in {"none", "unconfirmed", "handled"}
    /\ todo \subseteq 1..Len(rows)

Init ==
    /\ stream = <<>>
    /\ rows = <<>>
    /\ published = {}
    /\ dropped = {}
    /\ blocked = FALSE
    /\ pc = [p \in Actors |-> "idle"]
    /\ sid = [p \in Actors |-> 0]
    /\ msg = 0
    /\ redelivered = FALSE
    /\ tries = 0
    /\ found = "none"
    /\ todo = {}

-----------------------------------------------------------------------------
(* Rows.                                                                   *)

\* Mutant of FirstFanoutUnconfirmed: the status is not looked at.
FirstFanoutUntried(row) == ~row.tried

\* _first_fanout_unconfirmed: the first fan-out started and nothing was
\* recorded about how it ended.
FirstFanoutUnconfirmed(row) == row.status = "QUEUED" /\ ~row.tried

NewRow(m) == [key |-> m, status |-> "QUEUED", attempts |-> MaxAttempts,
              tried |-> FALSE]

PublishedRow(row) == [row EXCEPT !.status = "PUBLISHED"]

FailedRow(row) == [row EXCEPT !.status = "FAILED", !.attempts = 0,
                              !.tried = TRUE]

\* Mutant of AttemptFailedRow: the last attempt does not close the row.
AttemptFailedRowOpen(row) == [row EXCEPT !.attempts = @ - 1, !.tried = TRUE]

\* record_attempt_failure: one attempt spent, the last one closes the row.
AttemptFailedRow(row) ==
    IF row.attempts <= 1
    THEN [row EXCEPT !.status = "FAILED", !.attempts = 0, !.tried = TRUE]
    ELSE [row EXCEPT !.attempts = @ - 1, !.tried = TRUE]

\* Mutant of Retryable: last_attempt IS NULL counts as due.
RetryableUntried(row) == row.status = "QUEUED" /\ row.attempts > 0

\* list_retryable without the age condition: which rows the retry job owns.
Retryable(row) == row.status = "QUEUED" /\ row.attempts > 0 /\ row.tried

\* Mutant of KeyTaken: only rows still waiting count.
KeyTakenWhileQueued(m) ==
    \E i \in DOMAIN rows : rows[i].key = m /\ rows[i].status = "QUEUED"

\* The delivery_key column is unique.
KeyTaken(m) == \E i \in DOMAIN rows : rows[i].key = m

-----------------------------------------------------------------------------
(* JetStream and the operator.                                             *)

\* publish_webhook_event: a producer's envelope is stored.
StoreEnvelope(k) ==
    /\ Len(stream) < MaxMsgs /\ k \in StoredKinds[Len(stream) + 1]
    /\ stream' = Append(stream, [kind |-> k, state |-> "ready",
                                 delivered |-> FALSE])
    /\ UNCHANGED <<rows, published, dropped, blocked, pc, sid, workerVars, todo>>

\* The ack wait of a delivered envelope runs out and JetStream will deliver
\* it again -- even while the worker still holds it.
AckWaitExpires(m) ==
    /\ stream[m].state = "held"
    /\ stream' = [stream EXCEPT ![m].state = "ready"]
    /\ UNCHANGED <<rows, published, dropped, blocked, pc, sid, workerVars, todo>>

\* An operator toggles signal_blocked.
ToggleBlock ==
    /\ blocked' = ~blocked
    /\ UNCHANGED <<stream, rows, published, dropped, pc, sid, workerVars, todo>>

\* Deliveries: new envelopes in stream order, redeliveries at any time.
Deliverable(m) ==
    /\ stream[m].state = "ready"
    /\ stream[m].delivered \/ \A k \in 1..(m - 1) : stream[k].delivered

-----------------------------------------------------------------------------
(* SignalWorker._handle_one and SignalProcessingService.handle_enqueued.   *)

\* The next envelope is fetched and deserialised.  The stored row is looked
\* up only if the envelope may have been seen before.
Fetch(m) ==
    /\ pc["worker"] = "idle"
    /\ Deliverable(m)
    /\ stream' = [stream EXCEPT ![m].state = "held", ![m].delivered = TRUE]
    /\ msg' = m
    /\ redelivered' = stream[m].delivered
    /\ tries' = 0
    /\ found' = "none"
    /\ sid' = [sid EXCEPT !["worker"] = 0]
    /\ pc' = [pc EXCEPT !["worker"] =
                  IF stream[m].kind = "malformed" THEN "term"
                  ELSE IF stream[m].delivered THEN "lookup" ELSE "gate"]
    /\ UNCHANGED <<rows, published, dropped, blocked, todo>>

\* Mutant of RetriesLeft: one retry more than there are delays.
RetriesLeftOffByOne == tries <= InlineRetries

\* next(delays, None): in-place retries not yet spent.
RetriesLeft == tries < InlineRetries

\* handle_enqueued raised: retry in place while delays are left, else NAK.
HandlerRaises ==
    IF RetriesLeft
    THEN /\ tries' = tries + 1
         /\ redelivered' = TRUE
         /\ found' = "none"
         /\ sid' = [sid EXCEPT !["worker"] = 0]
         /\ pc' = [pc EXCEPT !["worker"] = "lookup"]
         /\ UNCHANGED <<stream, msg>>
    ELSE /\ stream' = [stream EXCEPT ![msg].state = "ready"]
         /\ msg' = 0
         /\ redelivered' = FALSE
         /\ tries' = 0
         /\ found' = "none"
         /\ sid' = [sid EXCEPT !["worker"] = 0]
         /\ pc' = [pc EXCEPT !["worker"] = "idle"]

\* handle_enqueued returned: the envelope is to be acked.
HandlerReturns ==
    /\ pc' = [pc EXCEPT !["worker"] = "ack"]
    /\ UNCHANGED <<stream, sid, workerVars>>

\* get_by_delivery_key; an error raises instead of answering "no row".
GetByDeliveryKey(answered) ==
    /\ pc["worker"] = "lookup"
    /\ \/ /\ answered
          /\ pc' = [pc EXCEPT !["worker"] = "gate"]
          /\ \/ /\ ~KeyTaken(msg)
                /\ found' = "none"
                /\ UNCHANGED sid
             \/ \E i \in DOMAIN rows :
                  /\ rows[i].key = msg
                  /\ found' = IF FirstFanoutUnconfirmed(rows[i])
                              THEN "unconfirmed" ELSE "handled"
                  /\ sid' = [sid EXCEPT !["worker"] = i]
          /\ UNCHANGED <<stream, msg, redelivered, tries>>
       \/ /\ ~answered
          /\ HandlerRaises
    /\ UNCHANGED <<rows, published, dropped, blocked, todo>>

\* _is_blocked and what handle_enqueued does next.  get_strict raises on a
\* failed read, so the gate fails closed.
IsBlocked(answered) ==
    /\ pc["worker"] = "gate"
    /\ \/ /\ answered /\ blocked
          /\ dropped' = dropped \cup {msg}
          /\ pc' = [pc EXCEPT !["worker"] =
                        IF found = "unconfirmed" THEN "mark_failed" ELSE "ack"]
          /\ UNCHANGED <<stream, sid, workerVars>>
       \/ /\ answered /\ ~blocked
          /\ pc' = [pc EXCEPT !["worker"] =
                        CASE found = "none"        -> "log"
                          [] found = "unconfirmed" -> "publish"
                          [] found = "handled"     -> "ack"]
          /\ UNCHANGED <<stream, sid, workerVars, dropped>>
       \/ /\ ~answered
          /\ HandlerRaises
          /\ UNCHANGED dropped
    /\ UNCHANGED <<rows, published, blocked, todo>>

\* log_signal: a taken delivery_key fails the insert.
LogSignal(o) ==
    /\ pc["worker"] = "log"
    /\ KeyTaken(msg) => o = "failed"
    /\ rows' = IF Committed(o) THEN Append(rows, NewRow(msg)) ELSE rows
    /\ \/ /\ o = "ok"
          /\ sid' = [sid EXCEPT !["worker"] = Len(rows) + 1]
          /\ pc' = [pc EXCEPT !["worker"] = "publish"]
          /\ UNCHANGED <<stream, workerVars>>
       \/ /\ o # "ok"
          /\ HandlerRaises
    /\ UNCHANGED <<published, dropped, blocked, todo>>

\* Mutant of Settle: the message is NAK-ed instead.
SettleNaks(lost) ==
    /\ pc["worker"] \in {"ack", "term"}
    /\ stream' = IF lost THEN stream ELSE [stream EXCEPT ![msg].state = "ready"]
    /\ pc' = [pc EXCEPT !["worker"] = "idle"]
    /\ sid' = [sid EXCEPT !["worker"] = 0]
    /\ msg' = 0
    /\ redelivered' = FALSE
    /\ tries' = 0
    /\ found' = "none"
    /\ UNCHANGED <<rows, published, dropped, blocked, todo>>

\* The worker's ack or term; a lost one leaves the envelope to its ack wait.
Settle(lost) ==
    /\ pc["worker"] \in {"ack", "term"}
    /\ stream' = IF lost THEN stream ELSE [stream EXCEPT ![msg].state = "gone"]
    /\ pc' = [pc EXCEPT !["worker"] = "idle"]
    /\ sid' = [sid EXCEPT !["worker"] = 0]
    /\ msg' = 0
    /\ redelivered' = FALSE
    /\ tries' = 0
    /\ found' = "none"
    /\ UNCHANGED <<rows, published, dropped, blocked, todo>>

-----------------------------------------------------------------------------
(* SignalRetryJob and SignalProcessingService.retry_signal.                *)

\* _tick_once lists the rows it owns whose last attempt is old enough: any
\* of them may be.  A failed query lists none.
ListRetryable(S) ==
    /\ pc["retry"] = "idle"
    /\ todo = {}
    /\ S # {}
    /\ S \subseteq {i \in DOMAIN rows : Retryable(rows[i])}
    /\ todo' = S
    /\ UNCHANGED <<stream, rows, published, dropped, blocked, pc, sid, workerVars>>

\* retry_signal on the oldest listed row, read again: a row that cannot be
\* read or is no longer owed an attempt is skipped.  The block gate is not
\* consulted.
RetrySignal(answered) ==
    /\ pc["retry"] = "idle"
    /\ \E i \in todo :
         /\ \A j \in todo : i <= j
         /\ todo' = todo \ {i}
         /\ \/ /\ answered
               /\ rows[i].status = "QUEUED" /\ rows[i].attempts > 0
               /\ sid' = [sid EXCEPT !["retry"] = i]
               /\ pc' = [pc EXCEPT !["retry"] =
                             IF stream[rows[i].key].kind = "unrebuildable"
                             THEN "record_invalid" ELSE "publish"]
            \/ /\ answered => rows[i].status # "QUEUED" \/ rows[i].attempts = 0
               /\ UNCHANGED <<sid, pc>>
    /\ UNCHANGED <<stream, rows, published, dropped, blocked, workerVars>>

-----------------------------------------------------------------------------
(* SignalProcessingService._fanout, shared by both actors.                 *)

\* The retry job logs what retry_signal raises and goes on with its list.
RetryDone ==
    /\ pc' = [pc EXCEPT !["retry"] = "idle"]
    /\ sid' = [sid EXCEPT !["retry"] = 0]
    /\ UNCHANGED <<stream, workerVars>>

FanoutReturns(p) == IF p = "worker" THEN HandlerReturns ELSE RetryDone

\* Mutant of FanoutRaises: the exception is swallowed.
FanoutRaisesSwallowed(p) == FanoutReturns(p)

FanoutRaises(p) == IF p = "worker" THEN HandlerRaises ELSE RetryDone

\* Sequence number of the envelope the actor's row was made from.
KeyOf(p) == rows[sid[p]].key

\* Mutant of Publish: a refused publish is taken for a success.
PublishUnchecked(p, accepted) ==
    LET parsed == stream[KeyOf(p)].kind # "unparseable" IN
    /\ pc[p] = "publish"
    /\ pc' = [pc EXCEPT ![p] = IF parsed THEN "mark_published" ELSE "mark_failed"]
    /\ published' = published \cup (IF parsed /\ accepted THEN {sid[p]} ELSE {})
    /\ UNCHANGED <<stream, rows, dropped, blocked, sid, workerVars, todo>>

\* _publish_flat or _publish_signal: parsed and accepted by NATS, parsed and
\* refused, or not parsed.  _broadcast after a success is best effort and
\* touches nothing here.
Publish(p, accepted) ==
    /\ pc[p] = "publish"
    /\ \/ /\ stream[KeyOf(p)].kind = "unparseable"
          /\ pc' = [pc EXCEPT ![p] = "mark_failed"]
          /\ UNCHANGED published
       \/ /\ stream[KeyOf(p)].kind # "unparseable"
          /\ accepted
          /\ pc' = [pc EXCEPT ![p] = "mark_published"]
          /\ published' = published \cup {sid[p]}
       \/ /\ stream[KeyOf(p)].kind # "unparseable"
          /\ ~accepted
          /\ pc' = [pc EXCEPT ![p] = "record_failure"]
          /\ UNCHANGED published
    /\ UNCHANGED <<stream, rows, dropped, blocked, sid, workerVars, todo>>

\* mark_published; whether it worked is ignored.
MarkPublished(p, o) ==
    /\ pc[p] = "mark_published"
    /\ rows' = IF Committed(o) THEN [rows EXCEPT ![sid[p]] = PublishedRow(@)]
               ELSE rows
    /\ FanoutReturns(p)
    /\ UNCHANGED <<published, dropped, blocked, todo>>

\* mark_failed; a write not known to have landed raises.
MarkFailed(p, o) ==
    /\ pc[p] = "mark_failed"
    /\ rows' = IF Committed(o) THEN [rows EXCEPT ![sid[p]] = FailedRow(@)]
               ELSE rows
    /\ IF o = "ok" THEN FanoutReturns(p) ELSE FanoutRaises(p)
    /\ UNCHANGED <<published, dropped, blocked, todo>>

\* record_attempt_failure after a refused publish.
RecordAttemptFailure(p, o) ==
    /\ pc[p] = "record_failure"
    /\ rows' = IF Committed(o) THEN [rows EXCEPT ![sid[p]] = AttemptFailedRow(@)]
               ELSE rows
    /\ IF o = "ok" THEN FanoutReturns(p) ELSE FanoutRaises(p)
    /\ UNCHANGED <<published, dropped, blocked, todo>>

\* record_attempt_failure for a row retry_signal cannot rebuild; the result
\* is ignored.
RecordInvalid(o) ==
    /\ pc["retry"] = "record_invalid"
    /\ rows' = IF Committed(o)
               THEN [rows EXCEPT ![sid["retry"]] = AttemptFailedRow(@)] ELSE rows
    /\ RetryDone
    /\ UNCHANGED <<published, dropped, blocked, todo>>

\* The broker dies and restarts: what was in memory is gone, the stream and
\* the table stay.
Crash ==
    /\ pc' = [p \in Actors |-> "idle"]
    /\ sid' = [p \in Actors |-> 0]
    /\ msg' = 0
    /\ redelivered' = FALSE
    /\ tries' = 0
    /\ found' = "none"
    /\ todo' = {}
    /\ UNCHANGED <<stream, rows, published, dropped, blocked>>

-----------------------------------------------------------------------------
WorkerStep ==
    \/ \E m \in DOMAIN stream : Fetch(m)
    \/ \E b \in BOOLEAN : GetByDeliveryKey(b) \/ IsBlocked(b) \/ Settle(b)
    \/ \E o \in Outcomes : LogSignal(o)

RetryStep ==
    \/ \E S \in SUBSET DOMAIN rows : ListRetryable(S)
    \/ \E b \in BOOLEAN : RetrySignal(b)
    \/ \E o \in Outcomes : RecordInvalid(o)

FanoutStep(p) ==
    \/ \E b \in BOOLEAN : Publish(p, b)
    \/ \E o \in Outcomes : MarkPublished(p, o) \/ MarkFailed(p, o)
                             \/ RecordAttemptFailure(p, o)

EnvironmentStep ==
    \/ \E k \in Kinds : StoreEnvelope(k)
    \/ \E m \in DOMAIN stream : AckWaitExpires(m)
    \/ ToggleBlock
    \/ Crash

Next ==
    \/ WorkerStep
    \/ RetryStep
    \/ \E p \in Actors : FanoutStep(p)
    \/ EnvironmentStep

Spec == Init /\ [][Next]_vars
-----------------------------------------------------------------------------
(* Safety.                                                                 *)

\* Every stored envelope becomes at most one signal_id, whatever is redelivered,
\* retried in place or written without a report: the trading workers
\* de-duplicate on signal_id, so a second one would open a second position.
OneSignalPerEnvelope ==
    \A i, j \in DOMAIN rows : rows[i].key = rows[j].key => i = j

FanoutSteps == {"publish", "mark_published", "mark_failed", "record_failure",
                "record_invalid"}

\* A row the worker is fanning out is never in the hands of the retry job: the
\* two retry mechanisms (JetStream redelivery, the table) cannot race.
SingleOwner ==
    pc["worker"] \in FanoutSteps /\ pc["retry"] \in FanoutSteps
        => sid["worker"] # sid["retry"]

\* An envelope that left the stream was dropped by the block gate or has its
\* row; and a row nothing was recorded about is left behind only if its signal
\* did reach the workers.  No acked signal is stranded: neither redelivered,
\* nor retried, nor closed.
SettledIsAccounted ==
    \A m \in DOMAIN stream :
        stream[m].state = "gone" /\ stream[m].kind # "malformed" =>
            /\ m \in dropped \/ \E i \in DOMAIN rows : rows[i].key = m
            /\ \A i \in DOMAIN rows :
                  rows[i].key = m /\ rows[i].status = "QUEUED" /\ ~rows[i].tried
                      => i \in published

\* PUBLISHED and FAILED are final, and an attempt once spent is not given
\* back, by whichever actor or redelivery comes late.
StatusIsFinal ==
    [][\A i \in DOMAIN rows :
          /\ rows[i].status # "QUEUED" => rows'[i] = rows[i]
          /\ rows'[i].attempts <= rows[i].attempts]_vars

\* What the table says of a row, seen from outside.
VerdictOf(row) ==
    IF row.status # "QUEUED" THEN row.status
    ELSE IF row.tried THEN "owed" ELSE "fresh"

Delivery == INSTANCE SignalDelivery WITH
    stored  <- Len(stream),
    refused <- dropped \cup {m \in DOMAIN stream : stream[m].kind = "malformed"},
    source  <- [i \in DOMAIN rows |-> rows[i].key],
    verdict <- [i \in DOMAIN rows |-> VerdictOf(rows[i])],
    sent    <- published,
    settled <- {m \in DOMAIN stream : stream[m].state = "gone"}

\* From outside, worker, retry job, redeliveries, the gate and crashes look
\* like one sender that keeps the promises of SignalDelivery: it sends open
\* signals only, says PUBLISHED only of what it sent, closes once, and lets go
\* of an envelope only when somebody answers for it.
ImplementsDelivery == Delivery!Spec

-----------------------------------------------------------------------------
(* Liveness.  The tasks of the event loop run, an ack wait does run out,   *)
(* and trouble ends: from some point on no call fails and the broker does  *)
(* not die.  Publishes may still be refused, producers and operators go on *)
(* as they like and owe nothing.                                           *)

CalmFanout(p) ==
    \/ \E b \in BOOLEAN : Publish(p, b)
    \/ MarkPublished(p, "ok") \/ MarkFailed(p, "ok") \/ RecordAttemptFailure(p, "ok")

CalmWorker ==
    \/ \E m \in DOMAIN stream : Fetch(m)
    \/ GetByDeliveryKey(TRUE) \/ IsBlocked(TRUE) \/ LogSignal("ok") \/ Settle(FALSE)
    \/ CalmFanout("worker")

CalmRetry ==
    \/ \E S \in SUBSET DOMAIN rows : ListRetryable(S)
    \/ RetrySignal(TRUE) \/ RecordInvalid("ok")
    \/ CalmFanout("retry")

CalmEnvironment ==
    \/ \E k \in Kinds : StoreEnvelope(k)
    \/ \E m \in DOMAIN stream : AckWaitExpires(m)
    \/ ToggleBlock

Fairness ==
    /\ WF_vars(CalmWorker)
    /\ WF_vars(CalmRetry)
    /\ \A m \in 1..MaxMsgs : WF_vars(m \in DOMAIN stream /\ AckWaitExpires(m))
    /\ <>[][CalmWorker \/ CalmRetry \/ CalmEnvironment]_vars

FairSpec == Spec /\ Fairness

\* Every stored envelope is settled in the end: a stream that holds any is
\* worked off (producers store finitely many, and what is settled stays so).
EveryEnvelopeSettles ==
    LET Unsettled == \E m \in DOMAIN stream : stream[m].state # "gone"
    IN  Unsettled ~> ~Unsettled

\* No signal whose fan-out failure was recorded stays QUEUED: the retry job
\* publishes it or spends its attempts.
RetriesResolve ==
    LET Owed == \E i \in DOMAIN rows : rows[i].status = "QUEUED" /\ rows[i].tried
    IN  Owed ~> ~Owed
=============================================================================
